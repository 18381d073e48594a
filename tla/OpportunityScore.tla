--------------------------- MODULE OpportunityScore ---------------------------
(***************************************************************************)
(* analytics/flow.py and opportunity/scoring.py, hypothesis.py, service.py:*)
(* from the signals of a market and its recent public trades to the ranked *)
(* cards.  A trade is [token, side, size, price, wallet, at]; an indicator *)
(* is [name, family, fired, magnitude].  The trades of a market are those  *)
(* of all its outcome tokens; nothing in the code passes a wallet's        *)
(* history, so that indicator never exists.  Magnitudes and factors are in *)
(* percent, priorities in hundredths of a percent rounded down at each     *)
(* factor.  The tags and the prose of a card are left out.                 *)
(***************************************************************************)
EXTENDS Integers, Sequences, SequencesExt, FiniteSetsExt

CONSTANTS Screened,    \* the screened markets
          Analyses,    \* the analyses a market may have: sequences of signals
          TradePage,   \* the trades a request may answer with
          MarketFacts, \* what else is known of a market
          Views,       \* the views that are asked for
          LiquidityFull, LiquidityThin, SpreadWide, StaleAge, AgeSpan,
          TargetFamilies, TopCards,
          MinTrades,       \* MIN_TRADES_FOR_BASELINE
          MinConcentrated, \* MIN_TRADES_FOR_CONCENTRATION
          ClusterWindow,   \* CLUSTER_WINDOW_SECONDS
          ClusterCount,    \* CLUSTER_MIN_COUNT
          ClusterCap,      \* CAP_CLUSTER
          LastDay          \* the last day before a close

ASSUME ScoreAssumption ==
    /\ IsFiniteSet(Screened) /\ TargetFamilies \in Nat \ {0}
    /\ \A a \in Analyses :
          /\ a \in Seq(ToSet(a))
          /\ \A i \in DOMAIN a : /\ a[i].strength \in Int
                                 /\ a[i].quality \in Nat /\ a[i].complete \in Nat

-----------------------------------------------------------------------------
(* analytics/flow.py                                                       *)

Absent == -1
Distance(a, b) == IF a > b THEN a - b ELSE b - a
Summed(s) == FoldSeq(LAMBDA x, y : x + y, 0, s)
Notional(t) == t.size * t.price
Indicator(name, family, fired, magnitude) ==
    [name |-> name, family |-> family, fired |-> fired, magnitude |-> magnitude]

(* Twice the median of a sequence of numbers. *)
TwiceMedian(s) ==
    LET q == SortSeq(s, <)
        h == Len(s) \div 2
    IN  IF Len(s) % 2 = 1 THEN 2 * q[h + 1] ELSE q[h] + q[h + 1]

Sizes(trades) == LET sized == SelectSeq(trades, LAMBDA t : t.size > 0)
                 IN  [i \in DOMAIN sized |-> sized[i].size]

(* Four times the median distance from the median; 1.4826 scales it. *)
Spread4(s) == LET m == TwiceMedian(s)
              IN  TwiceMedian([i \in DOMAIN s |-> Distance(2 * s[i], m)])

(* size_robust_score, in hundredths: the robust z-score of a size, or three *)
(* times its excess over the median when the sizes have no spread.          *)
SizeScore(x, s) ==
    LET m == TwiceMedian(s)
    IN  IF Spread4(s) > 0 THEN (20000 * (2 * x - m) * 100) \div (14826 * Spread4(s))
        ELSE IF 2 * x <= m THEN 0 ELSE (300 * (2 * x - m)) \div m

(* At least two robust deviations above the median, or twice it. *)
IsLarge(x, s) ==
    LET m == TwiceMedian(s)
    IN  IF Spread4(s) > 0 THEN 10000 * (2 * x - m) >= 14826 * Spread4(s) ELSE x >= m

(* squash(score, 6) in percent. *)
ScoreMagnitude(score) == Min({100, score \div 6})
LargeScore == 300    \* LARGE_TRADE_MIN_ROBUST_Z

-----------------------------------------------------------------------------
LargeRelativeTrade(trades) ==
    LET s == Sizes(trades)
        score == SizeScore(Max(ToSet(s)), s)
    IN  IF Len(s) < MinTrades THEN Indicator("large_relative_trade", "trade_flow", FALSE, 0)
        ELSE Indicator("large_relative_trade", "trade_flow",
                       score >= LargeScore, ScoreMagnitude(score))

(* Whether a trade pushes against the price and the recent change of the lead *)
(* token, whichever token it is a trade of.                                   *)
Opposes(t, price, change) ==
    \/ t.side = "BUY" /\ price # Absent /\ price < 50
    \/ t.side = "BUY" /\ change = "fell"
    \/ t.side # "BUY" /\ change = "rose"

ConsensusOpposingFlow(trades, price, change) ==
    LET total == Summed([i \in DOMAIN trades |-> Notional(trades[i])])
        opposing == Summed([i \in DOMAIN trades |->
                               IF Opposes(trades[i], price, change)
                               THEN Notional(trades[i]) ELSE 0])
    IN  IF Len(trades) < MinTrades \/ total = 0
        THEN Indicator("consensus_opposing_flow", "trade_flow", FALSE, 0)
        ELSE Indicator("consensus_opposing_flow", "trade_flow",
                       10 * opposing >= 6 * total, (100 * opposing) \div total)

ConcentratedFlow(trades) ==
    LET by(w) == Summed([i \in DOMAIN trades |->
                            IF trades[i].wallet = w THEN Notional(trades[i]) ELSE 0])
        total == Summed([i \in DOMAIN trades |-> Notional(trades[i])])
        top == Max({by(trades[i].wallet) : i \in DOMAIN trades})
    IN  IF Len(trades) < MinConcentrated \/ total = 0
        THEN Indicator("concentrated_flow", "wallet_concentration", FALSE, 0)
        ELSE Indicator("concentrated_flow", "wallet_concentration",
                       100 * top >= 35 * total, (100 * top) \div total)

(* The most large trades of one side that follow a large trade in the window. *)
ClusteredTrades(trades) ==
    LET s == Sizes(trades)
        large == {i \in DOMAIN trades : trades[i].size > 0 /\ IsLarge(trades[i].size, s)}
        run(i, side) == {j \in large : /\ trades[j].side = side
                                       /\ trades[j].at >= trades[i].at
                                       /\ trades[j].at - trades[i].at <= ClusterWindow}
        best == Max({0} \cup
                    {Cardinality(run(i, side)) : i \in large, side \in {"BUY", "SELL"}})
    IN  IF Len(s) < MinTrades THEN Indicator("clustered_trades", "trade_flow", FALSE, 0)
        ELSE Indicator("clustered_trades", "trade_flow", best >= ClusterCount,
                       Min({100, (100 * best) \div ClusterCap}))

(* How far through the market's life a trade came, in percent; with no start *)
(* a trade of the last day counts as late.                                   *)
LifeFraction(at, start, end) ==
    IF start # Absent /\ end > start THEN 100 - (100 * (end - at)) \div (end - start)
    ELSE IF end - at <= LastDay THEN 100 ELSE 0

LateLargeTrade(trades, start, end) ==
    LET s == Sizes(trades)
        late == {i \in DOMAIN trades :
                    /\ trades[i].at <= end /\ trades[i].size > 0
                    /\ SizeScore(trades[i].size, s) >= LargeScore
                    /\ LifeFraction(trades[i].at, start, end) >= 85}
        magnitude == Max({0} \cup
                         {(ScoreMagnitude(SizeScore(trades[i].size, s))
                           * Min({100, LifeFraction(trades[i].at, start, end)})) \div 100 : i \in late})
    IN  IF end = Absent \/ Len(s) < MinTrades
        THEN Indicator("late_large_trade", "timing", FALSE, 0)
        ELSE Indicator("late_large_trade", "timing", magnitude > 0, magnitude)

(* market_flow_indicators *)
FlowIndicators(trades, price, change, start, end) ==
    {LargeRelativeTrade(trades), ConsensusOpposingFlow(trades, price, change),
     ConcentratedFlow(trades), ClusteredTrades(trades), LateLargeTrade(trades, start, end)}

-----------------------------------------------------------------------------
VARIABLES asked,    \* the view asked for, "" before a request
          screened, \* the analysis and the facts of each market
          trades,   \* the answer of each market's trade request
          cards,    \* the ranked cards
          board     \* the cards of the view
oVars == <<asked, screened, trades, cards, board>>

-----------------------------------------------------------------------------
(* scoring.py                                                              *)

(* _price_family and _book_family: what the signal alone carries. *)
OwnEvidence(signal) ==
    (IF signal.price > 5 THEN {[family |-> "price", magnitude |-> signal.price]} ELSE {}) \cup
    (IF signal.book >= 50 THEN {[family |-> "order_book", magnitude |-> signal.book]} ELSE {})

FlowEvidence(indicators) ==
    {[family |-> i.family, magnitude |-> i.magnitude] : i \in {j \in indicators : j.fired}}

(* Correlated indicators of one family are one line of evidence. *)
CountFamilies(evidence) == Cardinality({e.family : e \in evidence})

(* A family is as strong as its strongest indicator. *)
Magnitude(evidence, family) ==
    Max({e.magnitude : e \in {x \in evidence : x.family = family}})

FamilyWeight == [price |-> 24, trade_flow |-> 26, wallet_concentration |-> 20,
                 timing |-> 15, order_book |-> 15]

(* The weighted mean over the families that fired, else the strength. *)
Evidence(signal, evidence) ==
    LET families == {e.family : e \in evidence}
    IN  IF families = {} THEN signal.strength
        ELSE MapThenSumSet(LAMBDA f : FamilyWeight[f] * Magnitude(evidence, f), families)
                 \div MapThenSumSet(LAMBDA f : FamilyWeight[f], families)

(* reliability_confidence, of complete out of three microstructure components. *)
Reliability(quality, n, complete) ==
    Min({95, (quality * (45 * TargetFamilies + 55 * Min({n, TargetFamilies})) * (240 + 20 * complete))
                 \div (30000 * TargetFamilies)})

(* signal_reliability: what Signal Lab and Market Detail show for the signal. *)
SignalReliability(signal) ==
    Reliability(signal.quality, CountFamilies(OwnEvidence(signal)), signal.complete)

LiquidityFactor(l) ==
    CASE l = Absent -> 70
      [] l >= LiquidityFull -> 100
      [] l # Absent /\ l <= LiquidityThin -> 40
      [] OTHER -> 40 + (60 * (l - LiquidityThin)) \div (LiquidityFull - LiquidityThin)

SpreadFactor(s) ==
    IF s = Absent THEN 85 ELSE Max({30, 100 - Min({100, (100 * s) \div SpreadWide})})

FreshnessFactor(age) ==
    IF age = Absent \/ age <= StaleAge THEN 100
    ELSE 100 - (50 * Min({AgeSpan, age - StaleAge})) \div AgeSpan

(* score_opportunity: the evidence and the bonus of its families, scaled down *)
(* for poor quality, thin liquidity, a wide spread and old data.              *)
Priority(signal, evidence, facts) ==
    LET bonus == (100 * Min({CountFamilies(evidence), TargetFamilies})) \div TargetFamilies
        factors == <<Max({5, signal.quality}), LiquidityFactor(facts.liquidity),
                     SpreadFactor(facts.spread), FreshnessFactor(facts.age)>>
    IN  FoldSeq(LAMBDA factor, p : (p * factor) \div 100,
                55 * Evidence(signal, evidence) + 45 * bonus, factors)

(* hypothesis.py, has_directional_view. *)
HasView(direction, n, strength) ==
    direction \in {"up", "down"} /\ (n >= 1 \/ strength >= 40)

-----------------------------------------------------------------------------
(* service.py                                                              *)

(* The strongest outcome of a market, the first of several. *)
LeadSignal(m) ==
    LET a == screened[m].analysis
        best == Max({a[i].strength : i \in DOMAIN a})
    IN  a[Min({i \in DOMAIN a : a[i].strength = best})]

(* score_opportunity and _card: the card of a market whose lead is the signal. *)
Card(m, signal, facts, page) ==
    LET evidence == OwnEvidence(signal) \cup
            FlowEvidence(FlowIndicators(page, signal.implied, signal.change,
                                        facts.start, facts.end))
        n == CountFamilies(evidence)
        view == HasView(signal.direction, n, signal.strength)
        points == Priority(signal, evidence, facts)
    IN  [market |-> m, families |-> {e.family : e \in evidence},
         confidence |-> Reliability(signal.quality, n, signal.complete),
         directional |-> view, direction |-> IF view THEN signal.direction ELSE "none",
         strength |-> signal.strength, priority |-> (points + 50) \div 100,
         high |-> n >= 2 /\ points >= 5000]

CardOf(m, page) == Card(m, LeadSignal(m), screened[m].facts, page)

HasAnalysis(m) == screened[m].analysis # <<>>

(* A gather that keeps only the markets whose trades came. *)
BuiltIfAnswered(m) == HasAnalysis(m) /\ trades[m].state # "failed"

(* Trades are best effort: a market whose request failed is still built. *)
Built(m) == HasAnalysis(m)

RankedBefore(a, b) ==
    a.priority > b.priority \/ (a.priority = b.priority /\ a.market < b.market)

(* enrich_markets answers; in live mode the trade requests start, one for each *)
(* market that has a signal.                                                   *)
ScreenBoard(view, mode) ==
    /\ asked = ""
    /\ asked' = view
    /\ \E s \in [Screened -> [analysis : Analyses, facts : MarketFacts]] : screened' = s
    /\ trades' = [m \in Screened |->
                    [state |-> IF mode /\ HasAnalysis(m)' THEN "asked" ELSE "unasked",
                     page |-> <<>>]]
    /\ UNCHANGED <<cards, board>>

Answer(m, state, page) ==
    /\ trades[m].state = "asked"
    /\ trades' = [trades EXCEPT ![m] = [state |-> state, page |-> page]]
    /\ UNCHANGED <<asked, screened, cards, board>>

TradesArrive(m) == \E page \in TradePage : Answer(m, "answered", page)
TradesFail(m) == Answer(m, "failed", <<>>)

(* The cards of a view, cut at the size of the board. *)
Selected(view, ranked) ==
    LET directional == SelectSeq(ranked, LAMBDA c : c.directional)
        chosen == CASE view = "strongest" ->
                            SortSeq(directional, LAMBDA x, y : x.strength > y.strength)
                    [] view = "inconclusive" -> SelectSeq(ranked, LAMBDA c : ~c.directional)
                    [] view = "all" -> ranked
                    [] OTHER -> directional
    IN  SubSeq(chosen, 1, Min({TopCards, Len(chosen)}))

RankBoard ==
    /\ asked # "" /\ cards = <<>>
    /\ \A m \in Screened : trades[m].state # "asked"
    /\ \E s \in SetToSeqs({CardOf(m, trades[m].page) : m \in {x \in Screened : Built(x)}}) :
          /\ \A i, j \in DOMAIN s : i < j => RankedBefore(s[i], s[j])
          /\ cards' = s
    /\ board' = Selected(asked, cards')
    /\ UNCHANGED <<asked, screened, trades>>

OInit ==
    /\ asked = "" /\ cards = <<>> /\ board = <<>>
    /\ screened = [m \in Screened |-> [analysis |-> <<>>, facts |-> <<>>]]
    /\ trades = [m \in Screened |-> [state |-> "unasked", page |-> <<>>]]
ONext ==
    \/ \E view \in Views, mode \in BOOLEAN : ScreenBoard(view, mode)
    \/ \E m \in Screened : TradesArrive(m) \/ TradesFail(m)
    \/ RankBoard

-----------------------------------------------------------------------------
(* The inductive invariant: the cards are those of the markets with a signal, *)
(* each from the trades that came for it, and those are all settled.          *)
CardsOfAll ==
    /\ asked # "" => screened \in [Screened -> [analysis : Analyses, facts : MarketFacts]]
    /\ cards # <<>> =>
          /\ asked # "" /\ \A m \in Screened : trades[m].state # "asked"
          /\ ToSet(cards) = {CardOf(m, trades[m].page) : m \in {x \in Screened : Built(x)}}
OSpec == OInit /\ [][ONext]_oVars

CardAt(m) == CHOOSE c \in ToSet(cards) : c.market = m

(* "the same signal never shows two different confidences ... the Opportunity *)
(* Board may add trade-flow / wallet / timing families ... the one documented *)
(* reason its confidence can be higher" (scoring.py:172): every market with a *)
(* signal has a card whatever became of its trades, and its confidence is     *)
(* what Market Detail states unless a family of trades fired.                 *)
LostTradesCostOnlyTheFlow ==
    cards # <<>> =>
        \A m \in Screened : HasAnalysis(m) =>
            /\ \E c \in ToSet(cards) : c.market = m
            /\ CardAt(m).confidence >= SignalReliability(LeadSignal(m))
            /\ CardAt(m).families \subseteq {"price", "order_book"} =>
                   CardAt(m).confidence = SignalReliability(LeadSignal(m))

(* "buying when the price is low (< 0.5) or buying against a recent downward  *)
(* move (and vice versa)" (flow.py:162): a trade of another outcome is judged *)
(* by the price and the move of that outcome, the complement of the lead's.   *)
OpposesItsOutcome(t, signal) ==
    IF t.token = signal.token THEN Opposes(t, signal.implied, signal.change)
    ELSE Opposes(t, IF signal.implied = Absent THEN Absent ELSE 100 - signal.implied,
                 CASE signal.change = "rose" -> "fell" [] signal.change = "fell" -> "rose"
                   [] OTHER -> signal.change)
ContrarianOpposes ==
    cards # <<>> =>
        \A m \in Screened : trades[m].state = "answered" =>
            LET page == trades[m].page
                signal == LeadSignal(m)
                opposing == Summed([i \in DOMAIN page |->
                    IF OpposesItsOutcome(page[i], signal) THEN Notional(page[i]) ELSE 0])
            IN  ConsensusOpposingFlow(page, signal.implied, signal.change).fired =>
                    10 * opposing >= 6 * Summed([i \in DOMAIN page |-> Notional(page[i])])

=============================================================================
