----------------------------- MODULE MarketRecord -----------------------------
(***************************************************************************)
(* ingest/normalize.py: from the JSON of Gamma, the CLOB and the Data API  *)
(* to typed records, one page at a time.  A number is itself, NoNumber for *)
(* a field that is absent or not a number, Immense for one that no float   *)
(* or clock can hold; "" stands for an absent text.                        *)
(***************************************************************************)
EXTENDS Integers, Sequences, SequencesExt, FiniteSetsExt, Orders

CONSTANTS Page,          \* the pages upstream may answer with
          NoNumber, Immense,
          ClockNow,      \* utcnow()
          LastYear,      \* the last time a datetime can hold
          One,           \* the price 1
          CategoryOrder, \* the broad categories, in the order they are tried
          KeywordsOf     \* the tags a category's keywords occur in

(* The arrays of a page of markets are lists. *)
ASSUME PageAssumption ==
    \A p \in Page : p.kind = "markets" =>
        /\ p.rows \in Seq(ToSet(p.rows))
        /\ \A raw \in ToSet(p.rows) : raw.tokens \in Seq(ToSet(raw.tokens))

VARIABLES page,  \* the page under normalisation
          record \* "none", "raised" or the records made of it
nVars == <<page, record>>

-----------------------------------------------------------------------------
(* Coercions                                                               *)
Float(x) == x          \* safe_float; it raises on Immense
Bounded(x) == Max({0, Min({One, x})})
FirstNumber(s) == IF SelectSeq(s, LAMBDA x : x # NoNumber) = <<>> THEN NoNumber
                  ELSE Head(SelectSeq(s, LAMBDA x : x # NoNumber))

(* fromtimestamp: a time past LastYear raises ValueError, Immense raises *)
(* OverflowError.                                                        *)
Clock(t) == IF t = NoNumber \/ t = Immense \/ t > LastYear THEN NoNumber ELSE t

(* _parse_book_timestamp: the present stands in for a time it cannot read. *)
BookClock(t) == IF Clock(t) = NoNumber THEN ClockNow ELSE t

-----------------------------------------------------------------------------
(* Markets                                                                 *)

(* derive_category: the first tag that any category knows decides; of its *)
(* categories, the first.  With none the first tag stands, as it is.      *)
Knows(tag) == {k \in DOMAIN CategoryOrder : tag \in KeywordsOf[CategoryOrder[k]]}
Category(tags) ==
    LET known == {i \in DOMAIN tags : Knows(tags[i]) # {}}
    IN  IF tags = <<>> THEN ""
        ELSE IF known = {} THEN tags[1] ELSE CategoryOrder[Min(Knows(tags[Min(known)]))]

(* _extract_tag_labels *)
Labels(raw) == SelectSeq(raw, LAMBDA tag : tag # "")

(* _derive_status *)
StatusOf(raw) == CASE raw.archived -> "archived"
                   [] ~raw.archived /\ raw.closed -> "closed"
                   [] OTHER -> IF raw.active THEN "active" ELSE "unknown"

Usable(raw) == raw.id # "" /\ raw.question # "" /\ raw.tokens # <<>>
At(s, i, missing) == IF i <= Len(s) THEN s[i] ELSE missing

(* Outcomes paired after the empty tokens are gone. *)
OutcomesPacked(raw) ==
    LET tokens == SelectSeq(raw.tokens, LAMBDA t : t # "")
    IN  [i \in DOMAIN tokens |-> [token |-> tokens[i], name |-> At(raw.names, i, "Outcome"),
                                  price |-> Float(At(raw.prices, i, NoNumber))]]

(* A token, its name and its price share an index of the three raw arrays; an *)
(* empty token is skipped.                                                    *)
Outcomes(raw) ==
    LET all == [i \in DOMAIN raw.tokens |->
                   [token |-> raw.tokens[i], name |-> At(raw.names, i, "Outcome"),
                    price |-> Float(At(raw.prices, i, NoNumber))]]
    IN  Kept(all, {o \in ToSet(all) : o.token # ""})

(* A price no float can hold is met outside the guard of the record. *)
MarketRaises(raw) ==
    Usable(raw) /\ \E i \in DOMAIN Outcomes(raw) : Outcomes(raw)[i].price = Immense

(* normalize_market; a volume no float can hold costs the whole record. *)
MarketOf(raw, tags) ==
    [id |-> raw.id, status |-> StatusOf(raw), category |-> Category(Labels(tags)),
     volume |-> FirstNumber(raw.volumes),
     outcomes |-> [i \in DOMAIN Outcomes(raw) |->
         LET o == Outcomes(raw)[i]
         IN  [o EXCEPT !.price = IF @ = NoNumber THEN @ ELSE Bounded(@)]]]
MarketKept(raw) == Usable(raw) /\ FirstNumber(raw.volumes) # Immense

(* normalize_events_to_markets, for the markets of one event. *)
Markets(event) ==
    LET kept == Kept(event.rows, {raw \in ToSet(event.rows) : MarketKept(raw)})
    IN  [i \in DOMAIN kept |-> MarketOf(kept[i], event.tags)]

-----------------------------------------------------------------------------
(* Books, price histories and trades                                       *)

(* _normalize_levels: levels with a price and a size, best first. *)
Levels(rows, best(_, _)) ==
    LET kept == SelectSeq(rows, LAMBDA l : l.price # NoNumber /\ l.size # NoNumber)
    IN  SortSeq([i \in DOMAIN kept |-> [price |-> Bounded(kept[i].price),
                                        size |-> Max({0, kept[i].size})]], best)

(* normalize_book *)
BookOf(raw) == [bids |-> Levels(raw.bids, LAMBDA a, b : a.price > b.price),
                asks |-> Levels(raw.asks, LAMBDA a, b : a.price < b.price),
                at |-> BookClock(raw.at)]

(* normalize_price_history *)
History(rows) ==
    LET kept == SelectSeq(rows, LAMBDA r : r.price # NoNumber /\ Clock(r.at) # NoNumber)
    IN  [i \in DOMAIN kept |-> [at |-> kept[i].at, price |-> Bounded(kept[i].price)]]

(* normalize_trades: a row without a wallet, an asset or a time it can read is *)
(* skipped; the conversion of the time does not catch an OverflowError.        *)
Attributed(r) == r.wallet # "" /\ r.asset # "" /\ r.at # NoNumber
Trades(rows) ==
    LET kept == SelectSeq(rows, LAMBDA r : Attributed(r) /\ Clock(r.at) # NoNumber)
    IN  [i \in DOMAIN kept |->
            [token |-> kept[i].asset, wallet |-> kept[i].wallet, at |-> kept[i].at,
             size |-> Max({0, kept[i].size}), price |-> Bounded(kept[i].price)]]

Raises(p) ==
    CASE p.kind = "markets" -> \E i \in DOMAIN p.rows : MarketRaises(p.rows[i])
      [] p.kind = "trades" ->
            \E i \in DOMAIN p.rows : Attributed(p.rows[i]) /\ p.rows[i].at = Immense
      [] p.kind = "history" -> \E i \in DOMAIN p.rows : p.rows[i].price = Immense
      [] p.kind = "book" ->
            \E l \in ToSet(p.bids) \cup ToSet(p.asks) : Immense \in {l.price, l.size}

Records(p) == CASE p.kind = "markets" -> Markets(p)
                [] p.kind = "trades" -> Trades(p.rows)
                [] p.kind = "history" -> History(p.rows)
                [] p.kind = "book" -> <<BookOf(p)>>

NInit == page = [kind |-> "none"] /\ record = [state |-> "none", rows |-> <<>>]

ReceivePage == /\ page.kind = "none" /\ page' \in Page /\ UNCHANGED record
Normalise ==
    /\ page.kind # "none" /\ record.state = "none"
    /\ record' = IF Raises(page) THEN [state |-> "raised", rows |-> <<>>]
                 ELSE [state |-> "made", rows |-> Records(page)]
    /\ UNCHANGED page
NNext == ReceivePage \/ Normalise

-----------------------------------------------------------------------------
(* The price that names a side of the market is the price of that side's   *)
(* token: each outcome of a market stands with the name and the price that *)
(* upstream gave at the position of its token, however many of the tokens  *)
(* were dropped (the three arrays of normalize_market).                    *)
OutcomesAligned ==
    page.kind = "markets" =>
        \A m \in ToSet(record.rows) : \E raw \in ToSet(page.rows) :
            /\ raw.id = m.id
            /\ \A o \in ToSet(m.outcomes) : \E i \in DOMAIN raw.tokens :
                   /\ raw.tokens[i] = o.token
                   /\ i <= Len(raw.names) => o.name = raw.names[i]
                   /\ o.price = IF At(raw.prices, i, NoNumber) = NoNumber THEN NoNumber
                                ELSE Bounded(raw.prices[i])

(* The records at hand were made of the page at hand. *)
RecordOfPage ==
    /\ page.kind = "none" => record.state = "none"
    /\ record.state = "none" => record.rows = <<>>
    /\ page.kind # "none" => page \in Page
    /\ record.rows # <<>> => record.rows = Records(page)
=============================================================================
