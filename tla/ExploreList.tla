------------------------------ MODULE ExploreList ------------------------------
(***************************************************************************)
(* The Explore list of service/market_service.py over one loaded universe: *)
(* the filters, the sort orders and the pages of list_markets, and the     *)
(* categories of categories.py they use.  A user asks for page after page  *)
(* of one query; a refresh may replace the universe in between, and every  *)
(* request takes its own now, from which the closing filter counts.        *)
(***************************************************************************)
EXTENDS Integers, FiniteSets, FiniteSetsExt, SequencesExt, Orders

CONSTANTS Item,     \* market ids; their order breaks ties of the signal sort
          ItemAt,   \* the order of Item, as a sequence
          KindOf,   \* metadata: [volume, volume24, liquidity, end, raw, tags, status, words],
                    \*   end a day, -1 for no end date
          SnapOf,   \* stored signals: [strength, category], -1 and "none" when missing
          Query,    \* queries: [category, words, status, closing, sort]
          PageSize, \* limit
          Week, Month, \* the bounds of the closing filter, in days from now
          LastToday \* bound on the clock, in days

ASSUME ListAssumption ==
    /\ IsFiniteSet(Item) /\ ItemAt \in SetToSeqs(Item) /\ PageSize \in Nat \ {0}
    /\ \A m \in Item : /\ KindOf[m].volume \in Int /\ KindOf[m].volume24 \in Int
                        /\ KindOf[m].liquidity \in Int /\ KindOf[m].end \in Int
                        /\ SnapOf[m].strength \in Int

VARIABLES universe, \* the loaded markets, in the order the source returned them
          asked,    \* the query the user pages through
          pages,    \* the pages received so far, one after the other
          offset,   \* the offset of the next page
          replaced, \* whether the universe was replaced during the walk
          today,    \* the clock of the requests, in days
          moved     \* history: since the first page, time changed which markets match

eVars == <<universe, asked, pages, offset, replaced, today, moved>>

-----------------------------------------------------------------------------
(* categories.py                                                           *)
Named == {"geopolitics", "macro", "commodities", "politics", "crypto", "technology",
          "sports", "entertainment"}

(* The keyword families in the order they are tried, each with its category; *)
(* a market's tags are the families its metadata has a keyword of.           *)
Families == <<"geopolitics", "commodities", "crypto", "sports", "entertainment",
              "technology", "business", "politics", "macro">>
FamilyCategory(f) == IF f = "business" THEN "technology" ELSE f

(* primary_category: a normalized label stands for itself; the broad upstream  *)
(* labels are split by tags; one that contains "commodit" is a commodity,      *)
(* whatever its tags; anything else takes its first matching family.           *)
Commodit == {"Commodity", "Soft commodities"}
PrimaryCategory(raw, tags) ==
    LET hit == {i \in DOMAIN Families : Families[i] \in tags}
    IN CASE raw \in Named \cup {"other"} -> raw
         [] raw = "Politics" -> IF "geopolitics" \in tags THEN "geopolitics" ELSE "politics"
         [] raw = "Economy" -> IF "commodities" \in tags THEN "commodities"
                               ELSE IF "business" \in tags THEN "technology" ELSE "macro"
         [] raw \in Commodit -> "commodities"
         [] OTHER -> IF hit = {} THEN "other" ELSE FamilyCategory(Families[Min(hit)])

(* normalize_category_filter rejects what is neither All nor a named category. *)
Acceptable(filter) == filter \in Named \cup {"All"}
CategoryMatches(filter, actual) == filter = "All" \/ actual = filter

(* Explore shows the category the scan stored, and else derives it. *)
ShownCategory(m) ==
    IF SnapOf[m].category # "none" THEN SnapOf[m].category
    ELSE PrimaryCategory(KindOf[m].raw, KindOf[m].tags)

-----------------------------------------------------------------------------
(* _market_search_matches and _matches_closing *)
SearchMatches(m, words) == words = {} \/ words \cap KindOf[m].words # {}

ClosingMatches(m, closing) ==
    LET days == KindOf[m].end - today
    IN \/ closing = "any"
       \/ /\ KindOf[m].end # -1 /\ days >= 0
          /\ CASE closing = "week"  -> days <= Week
               [] closing = "month" -> days > Week /\ days <= Month
               [] closing = "later" -> days > Month
               [] OTHER             -> TRUE

Matches(m, q) ==
    /\ SearchMatches(m, q.words)
    /\ CategoryMatches(q.category, ShownCategory(m))
    /\ q.status \in {"any", KindOf[m].status}
    /\ ClosingMatches(m, q.closing)

(* _sort_markets sorts stably, the largest first, or by end date with no end  *)
(* date last; the signal orders put a missing strength last and break ties by *)
(* question and id.                                                           *)
Field(m, sort) ==
    CASE sort = "volume_24hr" -> KindOf[m].volume24
      [] sort = "liquidity" -> KindOf[m].liquidity
      [] OTHER -> KindOf[m].volume
SoonerEnd(a, b) == a # -1 /\ (b = -1 \/ a < b)
IndexIn(s, m) == CHOOSE i \in DOMAIN s : s[i] = m
StrictlyBefore(a, b, sort) ==
    LET x == SnapOf[a].strength
        y == SnapOf[b].strength
    IN CASE sort = "signal_desc" -> x > y
         [] sort = "signal_asc" -> x # -1 /\ (y = -1 \/ x < y)
         [] sort = "end_date" -> SoonerEnd(KindOf[a].end, KindOf[b].end)
         [] OTHER -> Field(a, sort) > Field(b, sort)
TieOrder(sort) == IF sort \in {"signal_desc", "signal_asc"} THEN ItemAt ELSE universe
Before(a, b, sort) ==
    \/ StrictlyBefore(a, b, sort)
    \/ /\ ~StrictlyBefore(b, a, sort)
       /\ IndexIn(TieOrder(sort), a) < IndexIn(TieOrder(sort), b)

Listed(q) == {m \in ToSet(universe) : Matches(m, q)}
ListedBefore(q) == {p \in Listed(q) \X Listed(q) : Before(p[1], p[2], q.sort)}
Ordered(q) == InOrder(ListedBefore(q), Listed(q))
Total(q) == Len(Ordered(q))

(* A slice that repeats the last market of the page before. *)
PageOverlapping(q, from) ==
    SubSeq(Ordered(q), Max({1, from}), Min({from + PageSize, Total(q)}))

Page(q, from) == SubSeq(Ordered(q), from + 1, Min({from + PageSize, Total(q)}))

-----------------------------------------------------------------------------
EInit ==
    /\ universe \in SetToSeqs(Item)
    /\ asked \in {q \in Query : Acceptable(q.category)}
    /\ pages = <<>> /\ offset = 0 /\ replaced = FALSE
    /\ today = 0 /\ moved = FALSE

(* list_markets at the next offset. *)
ListMarkets ==
    /\ offset = 0 \/ offset < Total(asked)
    /\ pages' = pages \o Page(asked, offset)
    /\ offset' = offset + PageSize
    /\ UNCHANGED <<universe, asked, replaced, today, moved>>

(* The cached universe is loaded again: markets come and go, in another order. *)
ReplaceUniverse ==
    /\ ~replaced /\ replaced' = TRUE
    /\ \E left \in SUBSET Item : universe' \in SetToSeqs(left)
    /\ UNCHANGED <<asked, pages, offset, today, moved>>

(* Between two pages of a walk a market may reach another side of the filter. *)
EAdvance ==
    /\ today < LastToday /\ today' = today + 1
    /\ UNCHANGED <<universe, asked, pages, offset, replaced>>
    /\ moved' = (moved \/ (offset > 0 /\ Listed(asked)' # Listed(asked)))

ENext == ListMarkets \/ ReplaceUniverse \/ EAdvance

-----------------------------------------------------------------------------
(* Over one universe the pages of a query are its list cut in pieces: walking *)
(* to the end gives every matching market exactly once, in the asked order,   *)
(* whatever ties the sort leaves, and no market that does not match.  Only    *)
(* a closing filter is not stable: a market that crosses one of its bounds    *)
(* between two requests shifts the pages after it.                            *)
PagesPartition ==
    (~replaced /\ offset > 0 /\ (~moved \/ asked.closing = "any")) =>
        /\ IsPrefix(pages, Ordered(asked)) /\ IsInjective(pages)
        /\ offset >= Total(asked) => ToSet(pages) = Listed(asked)

(* What has been received are the first markets of the list. *)
PagesSoFar ==
    /\ offset \in Nat
    /\ asked.closing = "any" => ~moved
    /\ ~replaced => universe \in SetToSeqs(Item)
    /\ offset = 0 => pages = <<>>
    /\ (offset > 0 /\ ~replaced /\ ~moved) =>
         pages = SubSeq(Ordered(asked), 1, Min({offset, Total(asked)}))
=============================================================================
