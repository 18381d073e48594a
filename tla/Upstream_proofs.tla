---------------------------- MODULE Upstream_proofs ----------------------------
(***************************************************************************)
(* Proofs about what is kept of the venue: the scan of its markets, their  *)
(* records, the book of its stream, and books got in batches.              *)
(***************************************************************************)
EXTENDS Discovery, BookStream, ClobRequests, MarketRecord, FiniteSetTheorems,
        SequenceTheorems, Counting, TLAPS

-----------------------------------------------------------------------------
(***************************************************************************)
(* A complete scan has the whole range, for any markets, windows, bounds   *)
(* and pages.  IInv is inductive: the venue never adds to the markets that *)
(* were open all along; a walk that ended has passed all of them, and a    *)
(* window that did not end is replaced by two that cover it.               *)
(***************************************************************************)

(* The two halves of a window cover it. *)
LEMMA HalvesCover ==
    ASSUME NEW w \in Window
    PROVE  /\ Halves(w) \in SUBSET Window
           /\ \A m \in Market : Inside(m, w) => \E v \in Halves(w) : Inside(m, v)
PROOF
<1> DEFINE mid == (w.lo + w.hi) \div 2
<1>1. mid \in Nat
  BY DEF Window
<1> HIDE DEF mid
<1>2. Halves(w) = {[lo |-> w.lo, hi |-> mid], [lo |-> mid, hi |-> w.hi]}
  BY DEF Halves, mid
<1>3. Halves(w) \in SUBSET Window
  BY <1>1, <1>2 DEF Window
<1>4. ASSUME NEW m \in Market, Inside(m, w)
      PROVE  \E v \in Halves(w) : Inside(m, v)
  <2>1. Fact[m].closes \in Int /\ Fact[m].dated
    BY <1>4, FactAssumption DEF Facts, Inside
  <2>2. CASE Fact[m].closes < mid
    BY <1>4, <1>2, <2>1, <2>2 DEF Inside
  <2>3. CASE ~(Fact[m].closes < mid)
    BY <1>1, <1>4, <1>2, <2>1, <2>3 DEF Inside
  <2> QED BY <2>2, <2>3
<1> QED BY <1>3, <1>4

(* A market of the range lies in one of the fallback windows. *)
LEMMA WindowsCover ==
    ASSUME NEW m \in Market, Inside(m, Whole)
    PROVE  \E w \in FallbackWindows : Inside(m, w)
PROOF
<1>1. Fact[m].dated /\ Fact[m].closes \in 0 .. Span - 1
  BY FactAssumption, BoundAssumption DEF Inside, Whole, Facts
<1> QED BY <1>1, WindowAssumption DEF Inside

(* A walk that ended has every steady market of its window. *)
LEMMA WalkEnds ==
    ASSUME IInv, phase \in {"primary", "fallback"},
           NEW m \in Market, Steady(m), Inside(m, window)
    PROVE  m \in batch \cup Rest
PROOF
<1>1. m \in Listed
  BY DEF Listed, Steady
<1>2. m \in Nat /\ cursor \in Nat
  BY IdAssumption DEF IInv, TypeOK
<1>3. CASE m > cursor
  BY <1>1, <1>3 DEF Rest
<1>4. CASE m <= cursor
  BY <1>4 DEF IInv, PassedKept
<1> QED BY <1>2, <1>3, <1>4

(* Where Visit leads: a fresh query, on a window that it takes from the list. *)
LEMMA VisitStarts ==
    ASSUME NEW S \in SUBSET Window, Visit(S)
    PROVE  /\ phase' \in {"events", "fallback"}
           /\ window' \in Window /\ todo' \in SUBSET Window
           /\ cursor' = 0 /\ seen' = {} /\ pages' = 0 /\ tries' = 0 /\ batch' = {}
           /\ phase' = "events" => S = {}
           /\ phase' = "fallback" => todo' \cup {window'} = S
PROOF
<1>1. Whole \in Window
  BY BoundAssumption DEF Whole, Window
<1> QED BY <1>1 DEF Visit, Ask

(* After Visit nothing has been passed, and what its windows cover is to come. *)
LEMMA VisitKeeps ==
    ASSUME IInv, NEW S \in SUBSET Window, Visit(S), UNCHANGED <<venue, result>>,
           primary' \in SUBSET Market, failed' \in BOOLEAN,
           UNCHANGED <<events, complete>>,
           \A m \in Market : Steady(m) =>
               failed' \/ m \in primary' \/ \E w \in S : Inside(m, w)
    PROVE  IInv'
PROOF
<1>1. /\ phase' \in {"events", "fallback"}
      /\ window' \in Window /\ todo' \in SUBSET Window
      /\ cursor' = 0 /\ seen' = {} /\ pages' = 0 /\ tries' = 0 /\ batch' = {}
      /\ phase' = "events" => S = {}
      /\ phase' = "fallback" => todo' \cup {window'} = S
  BY VisitStarts
<1>2. TypeOK'
  BY <1>1 DEF IInv, TypeOK, Phases, venue, result, events
<1>3. PassedKept'
  <2> SUFFICES ASSUME NEW m \in Market, m <= cursor'
               PROVE  FALSE
    BY DEF PassedKept
  <2> QED BY <1>1, IdAssumption
<1>4. \A m \in Market : Steady(m)' <=> Steady(m)
  BY DEF Steady, Inside, Whole, venue
<1>5. NothingDropped'
  <2>1. phase' # "primary"
    BY <1>1
  <2>2. ASSUME phase' = "fallback", NEW m \in Market, Steady(m)'
        PROVE  failed' \/ m \in primary' \/ \E w \in todo' \cup {window'} : Inside(m, w)
    BY <1>1, <1>4, <2>2
  <2> QED BY <2>1, <2>2 DEF NothingDropped, Inside
<1>6. PrimaryWhole'
  <2>1. phase' \notin {"classify", "done"}
    BY <1>1
  <2>2. ASSUME phase' = "events", NEW m \in Market, Steady(m)'
        PROVE  failed' \/ m \in primary'
    BY <1>1, <1>4, <2>2
  <2> QED BY <2>1, <2>2 DEF PrimaryWhole
<1>7. ResultWhole'
  BY <1>1 DEF ResultWhole
<1> QED BY <1>2, <1>3, <1>5, <1>6, <1>7 DEF IInv

(* A query that ends, with a page of the rest, which is the rest if it says so. *)
LEMMA EndKeeps ==
    ASSUME IInv, NEW ok \in BOOLEAN, NEW got \in SUBSET Rest,
           ok => got = Rest, End(ok, got)
    PROVE  IInv'
PROOF
<1>1. CASE EndPrimary(ok, got)
  <2>1. phase = "primary" /\ window = Whole
    BY <1>1 DEF EndPrimary, IInv, NothingDropped
  <2>2. got \in SUBSET Market
    BY <2>1 DEF Rest, Listed
  <2>3. UNCHANGED <<venue, result>> /\ UNCHANGED <<events, complete>> /\ failed' = failed
    BY <1>1 DEF End, EndPrimary
  <2>4. CASE ok /\ primary' = batch \cup got /\ Visit({})
    <3>1. \A m \in Market : Steady(m) => m \in primary'
      BY <2>1, <2>4, WalkEnds DEF Steady
    <3>2. primary' \in SUBSET Market /\ failed' \in BOOLEAN
      BY <2>2, <2>3, <2>4 DEF IInv, TypeOK
    <3> QED BY <2>3, <2>4, <3>1, <3>2, VisitKeeps
  <2>5. CASE ~ok /\ Visit(FallbackWindows) /\ UNCHANGED primary
    <3>1. \A m \in Market : Steady(m) => \E w \in FallbackWindows : Inside(m, w)
      BY WindowsCover DEF Steady
    <3>2. primary' \in SUBSET Market /\ failed' \in BOOLEAN
      BY <2>3, <2>5 DEF IInv, TypeOK
    <3>3. FallbackWindows \in SUBSET Window
      BY WindowAssumption
    <3> QED BY <2>3, <2>5, <3>1, <3>2, <3>3, VisitKeeps
  <2> QED BY <1>1, <2>4, <2>5 DEF EndPrimary
<1>2. CASE EndWindow(ok, got)
  <2>1. phase = "fallback"
    BY <1>2 DEF EndWindow
  <2>2. got \in SUBSET Market
    BY <2>1 DEF Rest, Listed
  <2>3. UNCHANGED <<venue, result>> /\ UNCHANGED <<events, complete>>
    BY <1>2 DEF End, EndWindow
  <2>4. \A m \in Market : Steady(m) =>
            failed \/ m \in primary \/ \E w \in todo \cup {window} : Inside(m, w)
    BY <2>1 DEF IInv, NothingDropped
  <2>5. window \in Window /\ todo \in SUBSET Window /\ failed \in BOOLEAN
        /\ primary \in SUBSET Market /\ batch \in SUBSET Market
    BY DEF IInv, TypeOK
  <2>6. CASE primary' = primary \cup batch \cup got /\ failed' = (failed \/ ~ok)
             /\ Visit(todo)
    <3>1. ASSUME NEW m \in Market, Steady(m)
          PROVE  failed' \/ m \in primary' \/ \E w \in todo : Inside(m, w)
      <4>1. CASE Inside(m, window) /\ ok
        BY <2>1, <2>6, <3>1, <4>1, WalkEnds
      <4>2. CASE ~(Inside(m, window) /\ ok)
        BY <2>4, <2>6, <3>1, <4>2
      <4> QED BY <4>1, <4>2
    <3>2. primary' \in SUBSET Market
      BY <2>2, <2>5, <2>6
    <3>3. failed' \in BOOLEAN
      BY <2>6
    <3> QED BY <2>3, <2>5, <2>6, <3>1, <3>2, <3>3, VisitKeeps
  <2>7. CASE Visit(todo \cup Halves(window)) /\ UNCHANGED found
    <3>1. Halves(window) \in SUBSET Window
      BY <2>5, HalvesCover
    <3>2. ASSUME NEW m \in Market, Steady(m)
          PROVE  failed' \/ m \in primary' \/ \E w \in todo \cup Halves(window) : Inside(m, w)
      BY <2>4, <2>5, <2>7, <3>2, HalvesCover DEF found
    <3>3. primary' \in SUBSET Market /\ failed' \in BOOLEAN
      BY <2>5, <2>7 DEF found
    <3>4. todo \cup Halves(window) \in SUBSET Window
      BY <2>5, <3>1
    <3> QED BY <2>3, <2>7, <3>2, <3>3, <3>4, VisitKeeps
  <2> QED BY <1>2, <2>6, <2>7 DEF EndWindow
<1>3. CASE EndEvents(ok, got)
  <2> USE DEF EndEvents
  <2>1. phase = "events" /\ phase' = "classify"
    BY <1>3
  <2>2. UNCHANGED <<venue, result, query, todo, found>>
    BY <1>3 DEF End
  <2>3. TypeOK'
    <3>1. verified' \in SUBSET Market /\ lapsed' \in SUBSET Market
      BY <1>3 DEF Verify, Nested, IInv, TypeOK
    <3>2. complete' \in BOOLEAN
      BY <1>3 DEF Verdict
    <3> QED BY <2>1, <2>2, <3>1, <3>2
        DEF IInv, TypeOK, Phases, venue, result, query, found
  <2>4. PassedKept' /\ NothingDropped' /\ ResultWhole'
    BY <2>1 DEF PassedKept, NothingDropped, ResultWhole
  <2>5. PrimaryWhole'
    <3>1. failed \/ \A m \in Market : Steady(m) => m \in primary
      BY <2>1 DEF IInv, PrimaryWhole
    <3>2. complete' => ~failed
      BY <1>3 DEF Verdict
    <3> QED BY <2>1, <2>2, <3>1, <3>2
        DEF PrimaryWhole, Steady, Inside, Whole, venue, found
  <2> QED BY <2>3, <2>4, <2>5 DEF IInv
<1> QED BY <1>1, <1>2, <1>3 DEF End

(* A step of the venue: no market becomes steady. *)
LEMMA VenueKeeps ==
    ASSUME IInv, NEW m \in Market, ListMarket(m) \/ CloseMarket(m)
    PROVE  IInv'
PROOF
<1>1. UNCHANGED <<phase, todo, query, found, events, complete, result>>
  BY DEF ListMarket, CloseMarket
<1>2. TypeOK'
  BY <1>1 DEF ListMarket, CloseMarket, IInv, TypeOK, query, found, events, result
<1>3. \A n \in Market : Steady(n)' => Steady(n)
  BY DEF ListMarket, CloseMarket, IInv, TypeOK, Steady, Inside, Whole
<1>4. PassedKept'
  BY <1>1, <1>3 DEF IInv, PassedKept, Inside, query
<1>5. NothingDropped'
  BY <1>1, <1>3 DEF IInv, NothingDropped, Inside, query, found, Whole
<1>6. PrimaryWhole'
  BY <1>1, <1>3 DEF IInv, PrimaryWhole, found
<1>7. ResultWhole'
  BY <1>1 DEF IInv, ResultWhole, Candidates, Union, Eligible, found, events, result
<1> QED BY <1>2, <1>4, <1>5, <1>6, <1>7 DEF IInv

(* A page with a cursor: it passes the markets up to the cursor, and has them. *)
LEMMA NextPageKeeps ==
    ASSUME IInv, NextPage
    PROVE  IInv'
PROOF
<1>0. PICK got \in Pages : \E last \in got :
          /\ \A i \in got : i <= last
          /\ cursor' = last /\ seen' = seen \cup {last}
          /\ pages' = pages + 1 /\ tries' = 0
          /\ IF phase = "events"
             THEN Verify(got) /\ UNCHANGED batch
             ELSE batch' = batch \cup got /\ UNCHANGED events
  BY DEF NextPage
<1>1. PICK last \in got :
          /\ \A i \in got : i <= last
          /\ cursor' = last /\ seen' = seen \cup {last}
          /\ pages' = pages + 1 /\ tries' = 0
          /\ IF phase = "events"
             THEN Verify(got) /\ UNCHANGED batch
             ELSE batch' = batch \cup got /\ UNCHANGED events
  BY <1>0
<1>2. UNCHANGED <<venue, phase, todo, window, found, complete, result>> /\ Asking
  BY DEF NextPage
<1>3. got \in SUBSET Rest /\ \A i \in got, j \in Rest : j < i => j \in got
  BY DEF Pages
<1>4. Rest \subseteq Nat /\ (phase # "events" => Rest \subseteq Market)
  BY IdAssumption DEF Rest, Listed
<1>5. TypeOK'
  <2>1. last \in Nat
    BY <1>3, <1>4
  <2>2. batch' \in SUBSET Market
    BY <1>1, <1>3, <1>4 DEF IInv, TypeOK
  <2>3. verified' \in SUBSET Market /\ lapsed' \in SUBSET Market
    BY <1>1 DEF Verify, Nested, IInv, TypeOK, events
  <2>4. /\ listing' = listing /\ phase' = phase /\ todo' = todo /\ window' = window
        /\ primary' = primary /\ failed' = failed /\ complete' = complete
        /\ analysed' = analysed /\ excluded' = excluded /\ directional' = directional
        /\ rank' = rank
    BY <1>2 DEF venue, found, result
  <2>5. cursor' = last /\ seen' = seen \cup {last} /\ pages' = pages + 1 /\ tries' = 0
    BY <1>1
  <2>6. TypeOK
    BY DEF IInv
  <2>7. cursor' \in Nat /\ seen' \in SUBSET Nat /\ pages' \in Nat /\ tries' \in Nat
    BY <2>1, <2>5, <2>6 DEF TypeOK
  <2> QED BY <2>2, <2>3, <2>4, <2>6, <2>7 DEF TypeOK
<1>6. \A n \in Market : Steady(n)' <=> Steady(n)
  BY <1>2 DEF Steady, Inside, Whole, venue
<1>7. PassedKept'
  <2> SUFFICES ASSUME phase' \in {"primary", "fallback"}, NEW m \in Market,
                      Steady(m)', Inside(m, window)', m <= cursor'
               PROVE  m \in batch'
    BY DEF PassedKept
  <2>1. m \in batch \cup Rest
    BY <1>2, <1>6, WalkEnds DEF Inside
  <2>2. ASSUME m \in Rest
        PROVE  m \in got
    BY <1>1, <1>3, <1>4, <2>2
  <2> QED BY <1>1, <1>2, <2>1, <2>2
<1>8. NothingDropped' /\ PrimaryWhole'
  BY <1>2, <1>6 DEF IInv, NothingDropped, PrimaryWhole, Inside, found
<1>9. ResultWhole'
  BY <1>2 DEF Asking, ResultWhole
<1> QED BY <1>5, <1>7, <1>8, <1>9 DEF IInv

(* A failed attempt, or one that raises. *)
LEMMA AttemptKeeps ==
    ASSUME IInv, Retry \/ Raise
    PROVE  IInv'
PROOF
<1>1. /\ UNCHANGED <<venue, todo, window, cursor, seen, pages, batch, found,
                     events, complete, result>>
      /\ tries' \in Nat
      /\ phase' = "raised" \/ (phase' = phase /\ Asking)
  BY DEF Retry, Raise, query, IInv, TypeOK
<1>2. TypeOK'
  BY <1>1 DEF IInv, TypeOK, Phases, venue, found, events, result
<1>3. \A n \in Market : Steady(n)' <=> Steady(n)
  BY <1>1 DEF Steady, Inside, Whole, venue
<1>4. PassedKept' /\ NothingDropped' /\ PrimaryWhole'
  BY <1>1, <1>3 DEF IInv, PassedKept, NothingDropped, PrimaryWhole, Inside, found, Whole
<1>5. ResultWhole'
  BY <1>1 DEF ResultWhole, Asking
<1> QED BY <1>2, <1>4, <1>5 DEF IInv

(* A rank is a number. *)
LEMMA RankType ==
    ASSUME NEW d \in SUBSET Market, NEW m \in Market
    PROVE  RankOf(m, d) \in Nat
PROOF
<1> DEFINE S == {a \in d : Bucket(a) = Bucket(m) /\ Ahead(a, m)}
<1>1. S \in SUBSET Market
  OBVIOUS
<1>2. IsFiniteSet(S)
  BY <1>1, IdAssumption, FS_Subset
<1>3. Cardinality(S) \in Nat
  BY <1>2, FS_CardinalityType
<1> HIDE DEF S
<1>4. RankOf(m, d) = IF m \notin d THEN 0 ELSE 1 + Cardinality(S)
  BY DEF RankOf, S
<1> QED BY <1>3, <1>4

(* The analysis splits the candidates in two. *)
LEMMA AnalyseKeeps ==
    ASSUME IInv, Analyse
    PROVE  IInv'
PROOF
<1>0. PICK enriched \in SUBSET Candidates : \E scored \in SUBSET enriched :
          /\ analysed' = scored /\ excluded' = Unscored(enriched, scored)
          /\ \E d \in SUBSET scored :
                directional' = d /\ rank' = [m \in Market |-> RankOf(m, d)]
  BY DEF Analyse
<1>1. PICK scored \in SUBSET enriched :
          /\ analysed' = scored /\ excluded' = Unscored(enriched, scored)
          /\ \E d \in SUBSET scored :
                directional' = d /\ rank' = [m \in Market |-> RankOf(m, d)]
  BY <1>0
<1>2. UNCHANGED <<venue, todo, query, found, events, complete>>
      /\ phase = "classify" /\ phase' = "done"
  BY DEF Analyse
<1>3. Candidates \subseteq Market
  BY DEF Candidates, Union, IInv, TypeOK
<1>4. TypeOK'
  <2>1. rank' \in [Market -> Nat]
    <3>1. PICK d \in SUBSET scored : rank' = [m \in Market |-> RankOf(m, d)]
      BY <1>1
    <3>2. d \in SUBSET Market
      BY <1>3
    <3> QED BY <3>1, <3>2, RankType
  <2>2. analysed' \in SUBSET Market /\ excluded' \in SUBSET Market
        /\ directional' \in SUBSET Market
    BY <1>1, <1>3 DEF Unscored
  <2> QED BY <1>2, <2>1, <2>2 DEF IInv, TypeOK, Phases, venue, query, found, events
<1>5. PassedKept' /\ NothingDropped'
  BY <1>2 DEF PassedKept, NothingDropped
<1>6. PrimaryWhole'
  BY <1>2 DEF IInv, PrimaryWhole, Steady, Inside, Whole, venue, found
<1>7. ResultWhole'
  <2>1. Candidates' = Candidates
    BY <1>2 DEF Candidates, Union, Eligible, found, events
  <2> QED BY <1>1, <2>1 DEF ResultWhole, Unscored
<1> QED BY <1>4, <1>5, <1>6, <1>7 DEF IInv

-----------------------------------------------------------------------------
LEMMA InitHolds == Init => IInv
PROOF
<1> SUFFICES ASSUME Init PROVE IInv
  OBVIOUS
<1>1. TypeOK
  BY BoundAssumption DEF Init, TypeOK, Phases, Whole, Window
<1>2. PassedKept
  <2> SUFFICES ASSUME NEW m \in Market, m <= cursor
               PROVE  FALSE
    BY DEF PassedKept
  <2> QED BY IdAssumption DEF Init
<1>3. NothingDropped /\ PrimaryWhole /\ ResultWhole
  BY DEF Init, NothingDropped, PrimaryWhole, ResultWhole
<1> QED BY <1>1, <1>2, <1>3 DEF IInv

LEMMA StepKeeps ==
    ASSUME IInv, [Next]_vars
    PROVE  IInv'
PROOF
<1>1. CASE LastPage
  <2>1. PICK got \in Pages : got = Rest /\ End(TRUE, got)
    BY <1>1 DEF LastPage
  <2> QED BY <2>1, EndKeeps
<1>2. CASE NextPage
  BY <1>2, NextPageKeeps
<1>3. CASE RepeatedCursor
  <2>1. PICK got \in Pages : End(FALSE, got)
    BY <1>3 DEF RepeatedCursor
  <2>2. got \in SUBSET Rest
    BY DEF Pages
  <2> QED BY <2>1, <2>2, EndKeeps
<1>4. CASE PageGuard \/ PageFails
  <2>1. End(FALSE, {})
    BY <1>4 DEF PageGuard, PageFails
  <2> QED BY <2>1, EndKeeps
<1>5. CASE Retry \/ Raise
  BY <1>5, AttemptKeeps
<1>6. CASE Analyse
  BY <1>6, AnalyseKeeps
<1>7. CASE Venue
  BY <1>7, VenueKeeps DEF Venue
<1>8. CASE UNCHANGED vars
  <2>1. UNCHANGED <<listing, phase, window, todo, cursor, seen, pages, tries,
                    batch, primary, verified, lapsed, failed, complete, analysed,
                    excluded, directional, rank>>
    BY <1>8 DEF vars, venue, query, found, events, result
  <2>2. TypeOK'
    BY <2>1 DEF IInv, TypeOK
  <2>3. \A n \in Market : Steady(n)' <=> Steady(n)
    BY <2>1 DEF Steady, Inside, Whole
  <2>4. PassedKept' /\ NothingDropped' /\ PrimaryWhole'
    BY <2>1, <2>3 DEF IInv, PassedKept, NothingDropped, PrimaryWhole, Inside, Whole
  <2>5. ResultWhole'
    BY <2>1 DEF IInv, ResultWhole, Candidates, Union, Eligible
  <2> QED BY <2>2, <2>4, <2>5 DEF IInv
<1> QED BY <1>1, <1>2, <1>3, <1>4, <1>5, <1>6, <1>7, <1>8 DEF Next, Work

(* The strengthened invariant holds in every reachable state, for any markets, *)
(* windows and bounds.                                                         *)
THEOREM InductiveInvariant == Spec => []IInv
PROOF
<1> QED BY InitHolds, StepKeeps, PTL DEF Spec

(* Every variable stays in its type. *)
THEOREM TypeCorrect == Spec => []TypeOK
PROOF
<1>1. IInv => TypeOK
  BY DEF IInv
<1> QED BY <1>1, InductiveInvariant, PTL

(* A scan that calls itself complete has every market that was open all along. *)
THEOREM CompleteScan == Spec => []CompleteMeansWhole
PROOF
<1>1. IInv => CompleteMeansWhole
  BY DEF IInv, PrimaryWhole, CompleteMeansWhole, Union
<1> QED BY <1>1, InductiveInvariant, PTL

(* Each of them that passes the gate is analysed or recorded as excluded. *)
THEOREM NothingVanishes == Spec => []EligibleAccounted
PROOF
<1>1. IInv => EligibleAccounted
  BY DEF IInv, PrimaryWhole, ResultWhole, EligibleAccounted, Candidates, Union
<1> QED BY <1>1, InductiveInvariant, PTL

-----------------------------------------------------------------------------
(***************************************************************************)
(* The book of the stream.  StreamInv says that a history of the venue's   *)
(* books bears out every message on its way, and that the book held is the *)
(* one of some time of it, with every later change still to come.          *)
(***************************************************************************)

Message == OtherMessage \cup Snapshot \cup PriceChange
Remembered == {"book", "price_change"} \X Book \X Stamp

LEMMA MessageTyped ==
  ASSUME NEW m \in Message
  PROVE  /\ m.kind \in {"other", "book", "price_change"}
         /\ AboutBook(m) => m.ts \in Stamp /\ m.hash \in Book /\ Key(m) \in Remembered
         /\ m.kind = "book" => m.book \in Book
         /\ m.kind = "price_change" => m.level \in Level /\ m.size \in Size
<1>1. CASE m \in OtherMessage
  BY <1>1 DEF OtherMessage, AboutBook
<1>2. CASE m \in Snapshot
  BY <1>2 DEF Snapshot, AboutBook, Key, Remembered
<1>3. CASE m \in PriceChange
  BY <1>3 DEF PriceChange, AboutBook, Key, Remembered
<1> QED
  BY <1>1, <1>2, <1>3 DEF Message

LEMMA QueueTyped ==
  ASSUME StreamTypeOK
  PROVE  /\ queue \in Seq(Message) /\ Len(queue) \in Nat /\ DOMAIN queue = 1..Len(queue)
         /\ \A i \in DOMAIN queue : queue[i] \in Message
         /\ dedup \in Seq(Remembered) /\ Len(dedup) \in Nat /\ DOMAIN dedup = 1..Len(dedup)
         /\ venueBook.ts \in Stamp /\ venueBook.book \in Book /\ book \in Book
<1>1. queue \in Seq(Message) /\ dedup \in Seq(Remembered)
  BY DEF StreamTypeOK, Message, Remembered
<1>2. Len(queue) \in Nat /\ DOMAIN queue = 1..Len(queue) /\ \A i \in DOMAIN queue : queue[i] \in Message
  BY <1>1, SMT
<1>3. Len(dedup) \in Nat /\ DOMAIN dedup = 1..Len(dedup)
  BY <1>1, SMT
<1> QED
  BY <1>1, <1>2, <1>3 DEF StreamTypeOK

LEMMA Stamps == Stamp \subseteq Nat /\ 0 \in Stamp /\ \A u \in Nat : u < MaxChanges => u + 1 \in Stamp
  BY StreamAssumption, SMT DEF Stamp

-----------------------------------------------------------------------------
(* A step that touches neither the stream nor the place. *)
LEMMA StreamRests ==
  ASSUME StreamInv, UNCHANGED streamVars, venueBook' = venueBook,
         at' = at \/ (at # "session" /\ at' # "session")
  PROVE  StreamInv'
<1>1. queue' = queue /\ book' = book /\ dedup' = dedup /\ told' = told
  BY DEF streamVars
<1>2. StreamTypeOK'
  BY <1>1 DEF StreamInv, StreamTypeOK
<1>3. PICK h \in [Stamp -> Book] : Witnessed(h)
  BY DEF StreamInv
<1>4. VenueHistory(h)'
  BY <1>1, <1>3 DEF Witnessed, VenueHistory, BorneOut
<1>5. \A t \in Stamp : ComeTo(h, t)' <=> ComeTo(h, t)
  BY <1>1 DEF ComeTo, RepeatHarmless
<1>6. RepeatHarmless(h, venueBook.ts)' <=> RepeatHarmless(h, venueBook.ts)
  BY <1>1 DEF RepeatHarmless
<1>7. Witnessed(h)'
  BY <1>1, <1>3, <1>4, <1>5, <1>6 DEF Witnessed
<1> QED
  BY <1>2, <1>7 DEF StreamInv

(* The session ends: a snapshot that repeats the venue's book still finds it held. *)
LEMMA SessionEnds ==
  ASSUME StreamInv, book' = book, dedup' = dedup, venueBook' = venueBook,
         at' # "session", queue' = <<>>, told' = Unsure
  PROVE  StreamInv'
<1>1. PICK h \in [Stamp -> Book] : Witnessed(h)
  BY DEF StreamInv
<1>2. StreamTypeOK'
  <2>1. <<>> \in Seq(OtherMessage \cup Snapshot \cup PriceChange)
    BY SMT
  <2> QED
    BY <2>1 DEF StreamInv, StreamTypeOK
<1>3. DOMAIN <<>> = {}
  BY SMT
<1>4. VenueHistory(h)'
  BY <1>1, <1>3 DEF Witnessed, VenueHistory
<1> DEFINE v == venueBook.ts
<1>5. v \in Nat /\ Stamp \subseteq Nat
  BY QueueTyped, Stamps DEF StreamInv
<1>6. RepeatHarmless(h, v)
  <2>1. CASE at = "session"
    <3>1. PICK t \in Stamp : ComeTo(h, t)
      BY <1>1, <2>1 DEF Witnessed
    <3> SUFFICES ASSUME NEW i \in DOMAIN dedup, dedup[i] = <<"book", h[v], v>>
                 PROVE  book = h[v]
      BY DEF RepeatHarmless
    <3>2. v <= t /\ t <= v
      <4>1. dedup[i][3] = v /\ dedup[i][3] <= t
        BY <3>1 DEF ComeTo
      <4> QED
        BY <3>1, <4>1 DEF ComeTo
    <3>3. t = v
      BY <1>5, <3>2, SMT
    <3> QED
      BY <3>1, <3>3 DEF ComeTo, RepeatHarmless
  <2>2. CASE at # "session"
    BY <1>1, <2>2 DEF Witnessed
  <2> QED
    BY <2>1, <2>2
<1>7. RepeatHarmless(h, venueBook.ts)'
  BY <1>6 DEF RepeatHarmless
<1>8. Witnessed(h)'
  BY <1>4, <1>7 DEF Witnessed
<1> QED
  BY <1>2, <1>8 DEF StreamInv

(* The snapshot a subscription gets is of the venue's book at its time. *)
LEMMA SubscribeKeeps ==
  ASSUME StreamInv, Subscribe
  PROVE  StreamInv'
<1> DEFINE v == venueBook.ts
           m == [kind |-> "book", book |-> venueBook.book, hash |-> venueBook.book,
                 ts |-> venueBook.ts]
<1>1. /\ at # "session" /\ at' = "session" /\ venueBook' = venueBook /\ book' = book
      /\ dedup' = dedup /\ told' = told /\ queue' \in {<<m>>, <<m, m>>}
  BY DEF Subscribe, Copies
<1>2. PICK h \in [Stamp -> Book] : Witnessed(h)
  BY DEF StreamInv
<1>3. /\ VenueHistory(h) /\ told = Unsure /\ RepeatHarmless(h, v) /\ v \in Stamp
      /\ venueBook.book \in Book /\ venueBook.book = h[v] /\ v \in Nat
  BY <1>1, <1>2, QueueTyped, Stamps DEF Witnessed, StreamInv, VenueHistory
<1>4. m \in Snapshot /\ m.kind = "book" /\ m.ts = v /\ m.hash = h[v] /\ m.book = m.hash
  BY <1>3 DEF Snapshot
<1> HIDE DEF m
<1>5. /\ queue' \in Seq(OtherMessage \cup Snapshot \cup PriceChange) /\ queue' # <<>>
      /\ queue'[1] = m /\ \A i \in DOMAIN queue' : queue'[i] = m
  <2>1. CASE queue' = <<m>>
    BY <1>4, <2>1, SMT
  <2>2. CASE queue' = <<m, m>>
    BY <1>4, <2>2, SMT
  <2> QED
    BY <1>1, <2>1, <2>2
<1>6. StreamTypeOK'
  BY <1>1, <1>5 DEF StreamInv, StreamTypeOK
<1>7. v <= v
  BY <1>3, SMT
<1>8. VenueHistory(h)'
  <2>1. \A i \in DOMAIN queue' : BorneOut(h, queue[i])'
    BY <1>1, <1>4, <1>5, <1>7 DEF BorneOut
  <2> QED
    BY <1>1, <1>3, <1>4, <1>5, <1>7, <2>1 DEF VenueHistory
<1>9. ComeTo(h, v)'
  <2>1. RepeatHarmless(h, v)'
    BY <1>1, <1>3 DEF RepeatHarmless
  <2>2. \A u \in (v + 1)..v : FALSE
    BY <1>3, SMT
  <2>3. \A i \in DOMAIN dedup' : dedup'[i][3] <= v
    BY <1>1, <1>3 DEF VenueHistory
  <2> HIDE DEF v
  <2>4. venueBook'.ts = v /\ v' = v
    BY <1>1 DEF v
  <2> QED
    BY <1>1, <1>3, <1>4, <1>5, <1>7, <2>1, <2>2, <2>3, <2>4 DEF ComeTo
<1>10. Witnessed(h)'
  <2>1. \E t \in Stamp : ComeTo(h, t)'
    <3>1. PICK t \in Stamp : t = v
      BY <1>3
    <3>2. v' = t
      BY <1>1, <3>1
    <3>3. ComeTo(h, t)'
      BY <1>9, <3>2
    <3> QED
      BY <3>3
  <2> QED
    BY <1>1, <1>8, <2>1 DEF Witnessed
<1> QED
  BY <1>6, <1>10 DEF StreamInv

(* Messages are sent after those on their way. *)
LEMMA QueueGrows ==
  ASSUME StreamTypeOK, NEW m \in Message, NEW c \in {<<m>>, <<m, m>>}, queue' = queue \o c
  PROVE  /\ queue' \in Seq(OtherMessage \cup Snapshot \cup PriceChange) /\ queue' # <<>>
         /\ \A i \in DOMAIN queue : i \in DOMAIN queue' /\ queue'[i] = queue[i]
         /\ \E i \in DOMAIN queue' : queue'[i] = m
         /\ \A i \in DOMAIN queue' :
                 (i \in DOMAIN queue /\ i <= Len(queue)) \/ (queue'[i] = m /\ i > Len(queue))
<1>1. queue \in Seq(Message) /\ Len(queue) \in Nat /\ DOMAIN queue = 1..Len(queue)
  BY QueueTyped
<1>2. c \in Seq(Message) /\ Len(c) \in {1, 2} /\ \A i \in 1..Len(c) : c[i] = m
  BY SMT
<1>3. /\ queue' \in Seq(Message) /\ Len(queue') = Len(queue) + Len(c)
      /\ \A i \in 1..(Len(queue) + Len(c)) :
            queue'[i] = IF i <= Len(queue) THEN queue[i] ELSE c[i - Len(queue)]
  BY <1>1, <1>2, ConcatProperties
<1>4. DOMAIN queue' = 1..(Len(queue) + Len(c))
  BY <1>3, SMT
<1> DEFINE n == Len(queue)
           k == Len(c)
<1> HIDE DEF n, k
<1>5. /\ n \in Nat /\ k \in {1, 2} /\ DOMAIN queue = 1..n /\ DOMAIN queue' = 1..(n + k)
      /\ \A i \in 1..(n + k) : queue'[i] = IF i <= n THEN queue[i] ELSE c[i - n]
      /\ \A i \in 1..k : c[i] = m
  BY <1>1, <1>2, <1>3, <1>4 DEF n, k
<1>6. \A i \in DOMAIN queue : i \in DOMAIN queue' /\ queue'[i] = queue[i]
  BY <1>5, SMT
<1>7. n + 1 \in DOMAIN queue' /\ queue'[n + 1] = m
  <2>1. n + 1 \in 1..(n + k) /\ ~(n + 1 <= n) /\ n + 1 - n = 1 /\ 1 \in 1..k
    BY <1>5, SMT
  <2> QED
    BY <1>5, <2>1
<1>8. ASSUME NEW i \in DOMAIN queue'
      PROVE  (i \in DOMAIN queue /\ i <= n) \/ (queue'[i] = m /\ i > n)
  <2>1. CASE i <= n
    BY <1>5, <2>1, SMT
  <2>2. CASE ~(i <= n)
    <3>1. i > n /\ i - n \in 1..k
      BY <1>5, <2>2, SMT
    <3> QED
      BY <1>5, <2>2, <3>1
  <2> QED
    BY <2>1, <2>2
<1>9. queue' # <<>>
  BY <1>7, SMT
<1>10. queue' \in Seq(OtherMessage \cup Snapshot \cup PriceChange)
  BY <1>3 DEF Message
<1>11. \A i \in DOMAIN queue' : (i \in DOMAIN queue /\ i <= n) \/ (queue'[i] = m /\ i > n)
  BY <1>8
<1>12. \E i \in DOMAIN queue' : queue'[i] = m
  BY <1>7
<1> QED
  BY <1>6, <1>9, <1>10, <1>11, <1>12 DEF n

LEMMA OtherKeeps ==
  ASSUME StreamInv, Other
  PROVE  StreamInv'
<1> DEFINE m == [kind |-> "other"]
<1>1. /\ at = "session" /\ at' = at /\ queue' = Append(queue, m) /\ venueBook' = venueBook
      /\ book' = book /\ dedup' = dedup /\ told' = told
  BY DEF Other
<1>2. m \in Message /\ ~AboutBook(m) /\ m.kind # "price_change" /\ m.kind # "book"
  BY DEF Message, OtherMessage, AboutBook
<1> HIDE DEF m
<1>3. queue \in Seq(Message)
  BY QueueTyped DEF StreamInv
<1>4. queue' = queue \o <<m>>
  BY <1>1, <1>2, <1>3, AppendIsConcat
<1>5. /\ queue' \in Seq(OtherMessage \cup Snapshot \cup PriceChange) /\ queue' # <<>>
      /\ \A i \in DOMAIN queue : i \in DOMAIN queue' /\ queue'[i] = queue[i]
      /\ \A i \in DOMAIN queue' :
              (i \in DOMAIN queue /\ i <= Len(queue)) \/ (queue'[i] = m /\ i > Len(queue))
  BY <1>2, <1>4, QueueGrows DEF StreamInv
<1>6. StreamTypeOK'
  BY <1>1, <1>5 DEF StreamInv, StreamTypeOK
<1>7. PICK h \in [Stamp -> Book] : Witnessed(h)
  BY DEF StreamInv
<1>8. PICK t \in Stamp : ComeTo(h, t)
  BY <1>1, <1>7 DEF Witnessed
<1>9. \A i \in DOMAIN queue' : AboutBook(queue'[i]) => i \in DOMAIN queue /\ queue'[i] = queue[i]
  BY <1>2, <1>5
<1>10. VenueHistory(h)'
  <2>1. VenueHistory(h)
    BY <1>7 DEF Witnessed
  <2>2. \A i \in DOMAIN queue' : AboutBook(queue'[i]) => BorneOut(h, queue[i])
    BY <1>9, <2>1 DEF VenueHistory
  <2>3. \A i \in DOMAIN queue' : AboutBook(queue'[i]) => BorneOut(h, queue[i])'
    BY <1>1, <1>9, <2>2, SMTT(30) DEF BorneOut
  <2>4. \A i, j \in DOMAIN queue' :
           AboutBook(queue'[i]) /\ AboutBook(queue'[j]) /\ i < j => queue'[i].ts <= queue'[j].ts
    BY <1>9, <2>1 DEF VenueHistory
  <2> QED
    BY <1>1, <2>1, <2>3, <2>4 DEF VenueHistory, AboutBook
<1>11. ComeTo(h, t)'
  <2>1. told = Unsure => queue' # <<>> /\ queue'[1].kind = "book" /\ queue'[1].ts = t
    <3> SUFFICES ASSUME told = Unsure PROVE queue'[1] = queue[1] /\ queue' # <<>>
      BY <1>8 DEF ComeTo
    <3>1. queue # <<>>
      BY <1>8 DEF ComeTo
    <3>2. 1 \in DOMAIN queue
      BY <1>3, <3>1, SMT
    <3> QED
      BY <1>5, <3>2
  <2>2. RepeatHarmless(h, t)' <=> RepeatHarmless(h, t)
    BY <1>1 DEF RepeatHarmless
  <2>3. \A i \in DOMAIN queue' : AboutBook(queue'[i]) =>
           t <= queue'[i].ts /\ (queue'[i].kind = "book" => queue'[i].ts = t)
    BY <1>8, <1>9 DEF ComeTo
  <2>4. \A u \in (t + 1)..venueBook.ts :
           \E i \in DOMAIN queue' : queue'[i].kind = "price_change" /\ queue'[i].ts = u
    BY <1>5, <1>8 DEF ComeTo
  <2> QED
    BY <1>1, <1>8, <2>1, <2>2, <2>3, <2>4 DEF ComeTo, AboutBook
<1>12. Witnessed(h)'
  BY <1>1, <1>10, <1>11 DEF Witnessed
<1> QED
  BY <1>6, <1>12 DEF StreamInv

(* What the venue's history bears out it bears out when it has gone on. *)
LEMMA HistoryGrows ==
  ASSUME NEW w \in Stamp, NEW h \in [Stamp -> Book], NEW h2 \in [Stamp -> Book],
         w = venueBook.ts, venueBook'.ts = w + 1,
         \A u \in Stamp : u <= w => h2[u] = h[u],
         NEW x \in Message, AboutBook(x), BorneOut(h, x)
  PROVE  BorneOut(h2, x)'
<1>1. x.ts \in Stamp /\ x.ts \in Nat /\ x.ts <= w /\ w \in Nat
  BY MessageTyped, Stamps DEF BorneOut
<1>2. x.ts <= w + 1 /\ h2[x.ts] = h[x.ts]
  <2>1. x.ts <= w + 1
    BY <1>1, SMT
  <2> QED
    BY <1>1, <2>1
<1>3. x.ts > 0 => h2[x.ts - 1] = h[x.ts - 1]
  <2>1. x.ts > 0 => x.ts - 1 \in Stamp /\ x.ts - 1 <= w
    BY <1>1, StreamAssumption, SMT DEF Stamp
  <2> QED
    BY <2>1
<1>4. x.kind = "book" => x.book = x.hash
  BY DEF BorneOut
<1>5. x.kind # "book" => x.ts > 0 /\ x.hash = [h2[x.ts - 1] EXCEPT ![x.level] = x.size]
  BY <1>3 DEF BorneOut
<1>6. x.hash = h2[x.ts]
  BY <1>2 DEF BorneOut
<1> QED
  BY <1>2, <1>4, <1>5, <1>6 DEF BorneOut

BorneBy(old, m) == m.hash = [old EXCEPT ![m.level] = m.size]

(* The change is told, if a session is there to hear it, after all that is on its way. *)
LEMMA ChangeTold ==
  ASSUME StreamTypeOK, NEW h \in [Stamp -> Book], Witnessed(h),
         NEW w \in Stamp, w + 1 \in Stamp, w = venueBook.ts,
         NEW h2 \in [Stamp -> Book], \A u \in Stamp : u <= w => h2[u] = h[u],
         NEW m \in Message, m.kind = "price_change", m.ts = w + 1, m.hash = h2[w + 1],
         BorneBy(h[w], m),
         venueBook'.ts = w + 1, venueBook'.book = h2[w + 1], at' = at, book' = book,
         dedup' = dedup, told' = told,
         IF at = "session" THEN \E c \in {<<m>>, <<m, m>>} : queue' = queue \o c
         ELSE queue' = queue
  PROVE  /\ queue' \in Seq(OtherMessage \cup Snapshot \cup PriceChange)
         /\ Witnessed(h2)'
<1>1. VenueHistory(h) /\ w \in Nat
  BY Stamps DEF Witnessed
<1>2. /\ queue' \in Seq(OtherMessage \cup Snapshot \cup PriceChange)
      /\ \A i \in DOMAIN queue : i \in DOMAIN queue' /\ queue'[i] = queue[i]
      /\ \A i \in DOMAIN queue' :
              (i \in DOMAIN queue /\ i <= Len(queue) /\ queue'[i] = queue[i]) \/ (queue'[i] = m /\ i > Len(queue))
      /\ at = "session" => queue' # <<>> /\ \E i \in DOMAIN queue' : queue'[i] = m
  <2>1. CASE at = "session"
    <3>1. PICK c \in {<<m>>, <<m, m>>} : queue' = queue \o c
      BY <2>1
    <3>2. /\ queue' \in Seq(OtherMessage \cup Snapshot \cup PriceChange) /\ queue' # <<>>
          /\ \A i \in DOMAIN queue : i \in DOMAIN queue' /\ queue'[i] = queue[i]
          /\ \E i \in DOMAIN queue' : queue'[i] = m
          /\ \A i \in DOMAIN queue' :
                  (i \in DOMAIN queue /\ i <= Len(queue)) \/ (queue'[i] = m /\ i > Len(queue))
      BY <3>1, QueueGrows
    <3> QED
      BY <3>2
  <2>2. CASE at # "session"
    <3>1. queue' = queue
      BY <2>2
    <3>2. \A i \in DOMAIN queue : i <= Len(queue)
      BY QueueTyped, SMT
    <3> QED
      BY <2>2, <3>1, <3>2 DEF StreamTypeOK
  <2> QED
    BY <2>1, <2>2
<1>3. BorneOut(h2, m)'
  <2>1. w + 1 <= w + 1 /\ w + 1 > 0 /\ w + 1 - 1 = w /\ w <= w
    BY <1>1, SMT
  <2>2. h2[w] = h[w]
    BY <2>1
  <2>3. m.ts - 1 = w /\ m.ts > 0 /\ m.ts <= w + 1 /\ m.kind # "book"
    <3>1. \A x \in Nat : x = w + 1 => x - 1 = w /\ x > 0 /\ x <= w + 1
      BY <1>1, SMT
    <3>2. m.ts \in Nat
      BY Stamps
    <3> QED
      BY <3>1, <3>2
  <2>4. m.hash = h2[m.ts] /\ m.hash = [h2[m.ts - 1] EXCEPT ![m.level] = m.size]
    BY <2>2, <2>3 DEF BorneBy
  <2> QED
    BY <2>3, <2>4 DEF BorneOut
<1>4. ASSUME NEW i \in DOMAIN queue', AboutBook(queue'[i])
      PROVE  BorneOut(h2, queue[i])'
  <2>1. CASE i \in DOMAIN queue /\ queue'[i] = queue[i]
    <3>1. PICK x \in Message : x = queue[i]
      BY <2>1, QueueTyped
    <3>2. AboutBook(x) /\ BorneOut(h, x)
      BY <1>1, <1>4, <2>1, <3>1 DEF VenueHistory, AboutBook
    <3>3. BorneOut(h2, x)'
      BY <3>2, HistoryGrows
    <3> QED
      BY <2>1, <3>1, <3>3 DEF BorneOut
  <2>2. CASE queue'[i] = m
    BY <1>3, <2>2 DEF BorneOut
  <2> QED
    BY <1>2, <2>1, <2>2
<1>5. VenueHistory(h2)'
  <2>1. ASSUME NEW i \in DOMAIN queue', NEW j \in DOMAIN queue', i < j,
               AboutBook(queue'[i]), AboutBook(queue'[j])
        PROVE  queue'[i].ts <= queue'[j].ts
    <3>1. CASE j \in DOMAIN queue /\ j <= Len(queue) /\ queue'[j] = queue[j]
      <4>1. i \in DOMAIN queue /\ queue'[i] = queue[i]
        <5>1. j \in 1..Len(queue) /\ Len(queue) \in Nat
          BY <3>1, QueueTyped
        <5>2. ~(queue'[i] = m /\ i > Len(queue))
          <6>1. i \in Nat
            BY <1>2, SMT
          <6> QED
            BY <2>1, <3>1, <5>1, <6>1, SMT
        <5> QED
          BY <1>2, <5>2
      <4> QED
        BY <1>1, <2>1, <3>1, <4>1 DEF VenueHistory
    <3>2. CASE queue'[j] = m
      <4>1. BorneOut(h2, queue[i])'
        BY <1>4, <2>1
      <4> QED
        BY <3>2, <4>1 DEF BorneOut
    <3> QED
      BY <1>2, <3>1, <3>2
  <2>2. \A i \in DOMAIN dedup' : dedup'[i][3] <= w + 1
    <3> SUFFICES ASSUME NEW i \in DOMAIN dedup PROVE dedup[i][3] <= w + 1
      OBVIOUS
    <3>1. dedup[i][3] <= w
      BY <1>1 DEF VenueHistory
    <3>2. dedup[i] \in Remembered
      <4>1. dedup \in Seq(Remembered)
        BY QueueTyped
      <4> QED
        BY <4>1
    <3>3. dedup[i][3] \in Nat
      BY <3>2, Stamps DEF Remembered
    <3> QED
      BY <1>1, <3>1, <3>3, SMT
  <2>3. \A i \in DOMAIN queue' : AboutBook(queue'[i]) => BorneOut(h2, queue[i])'
    BY <1>4
  <2> QED
    BY <2>1, <2>2, <2>3 DEF VenueHistory, AboutBook
<1>6. CASE at = "session"
  <2>1. PICK t \in Stamp : ComeTo(h, t)
    BY <1>6 DEF Witnessed
  <2>2. t \in Nat /\ t <= w /\ t <= w + 1 /\ h2[t] = h[t]
    <3>1. t \in Nat /\ t <= w
      BY <2>1, Stamps DEF ComeTo
    <3>2. t <= w + 1
      BY <1>1, <3>1, SMT
    <3> QED
      BY <3>1, <3>2
  <2>3. told = Unsure => queue' # <<>> /\ queue'[1].kind = "book" /\ queue'[1].ts = t
    <3> SUFFICES ASSUME told = Unsure
                 PROVE queue' # <<>> /\ queue'[1].kind = "book" /\ queue'[1].ts = t
      OBVIOUS
    <3>1. queue # <<>> /\ queue[1].kind = "book" /\ queue[1].ts = t
      BY <2>1 DEF ComeTo
    <3>2. 1 \in DOMAIN queue
      BY <3>1, QueueTyped, SMT
    <3>3. queue'[1] = queue[1] /\ queue' # <<>>
      BY <1>2, <1>6, <3>2
    <3> QED
      BY <3>1, <3>3
  <2>4. RepeatHarmless(h2, t)' <=> RepeatHarmless(h, t)
    BY <2>2 DEF RepeatHarmless
  <2>5. ASSUME NEW i \in DOMAIN queue', AboutBook(queue'[i])
        PROVE  t <= queue'[i].ts /\ (queue'[i].kind = "book" => queue'[i].ts = t)
    <3>1. CASE i \in DOMAIN queue /\ queue'[i] = queue[i]
      BY <2>1, <2>5, <3>1 DEF ComeTo
    <3>2. CASE queue'[i] = m
      BY <2>2, <3>2
    <3> QED
      BY <1>2, <3>1, <3>2
  <2>6. ASSUME NEW u \in (t + 1)..(w + 1)
        PROVE  \E i \in DOMAIN queue' : queue'[i].kind = "price_change" /\ queue'[i].ts = u
    <3>1. u = w + 1 \/ u \in (t + 1)..w
      BY <1>1, <2>2, SMT
    <3>2. CASE u = w + 1
      BY <1>2, <1>6, <3>2
    <3>3. CASE u \in (t + 1)..w
      <4>1. \E i \in DOMAIN queue : queue[i].kind = "price_change" /\ queue[i].ts = u
        BY <2>1, <3>3 DEF ComeTo
      <4> QED
        BY <1>2, <4>1
    <3> QED
      BY <3>1, <3>2, <3>3
  <2>7. ComeTo(h2, t)'
    <3>1. IF told' = Unsure
          THEN /\ queue' # <<>> /\ queue'[1].kind = "book" /\ queue'[1].ts = t
               /\ RepeatHarmless(h2, t)'
          ELSE told' = <<h2[t]>> /\ book' = h2[t]
      <4>1. IF told = Unsure THEN RepeatHarmless(h, t) ELSE told = <<h[t]>> /\ book = h[t]
        BY <2>1 DEF ComeTo
      <4> QED
        BY <2>2, <2>3, <2>4, <4>1
    <3>2. \A i \in DOMAIN dedup' : dedup'[i][3] <= t
      BY <2>1 DEF ComeTo
    <3>3. \A i \in DOMAIN queue' : AboutBook(queue'[i]) =>
             t <= queue'[i].ts /\ (queue'[i].kind = "book" => queue'[i].ts = t)
      BY <2>5
    <3>4. \A u \in (t + 1)..(w + 1) :
             \E i \in DOMAIN queue' : queue'[i].kind = "price_change" /\ queue'[i].ts = u
      BY <2>6
    <3> QED
      BY <2>2, <3>1, <3>2, <3>3, <3>4 DEF ComeTo, AboutBook
  <2> QED
    BY <1>2, <1>5, <1>6, <2>7 DEF Witnessed
<1>7. CASE at # "session"
  <2>1. queue' = <<>> /\ told' = Unsure
    BY <1>7 DEF Witnessed
  <2>2. RepeatHarmless(h2, venueBook.ts)'
    <3> SUFFICES ASSUME NEW i \in DOMAIN dedup, dedup[i] = <<"book", h2[w + 1], w + 1>>
                 PROVE FALSE
      BY DEF RepeatHarmless
    <3>1. dedup[i][3] = w + 1
      OBVIOUS
    <3>2. w + 1 <= w
      BY <1>1, <3>1 DEF VenueHistory
    <3> QED
      BY <1>1, <3>2, SMT
  <2> QED
    BY <1>2, <1>5, <1>7, <2>1, <2>2 DEF Witnessed
<1> QED
  BY <1>6, <1>7

(* The venue's history goes on; the change is told if a session is there to hear it. *)
LEMMA ChangeKeeps ==
  ASSUME StreamInv, Change
  PROVE  StreamInv'
<1>1. /\ venueBook.ts < MaxChanges
      /\ at' = at /\ book' = book /\ dedup' = dedup /\ told' = told
  BY DEF Change
<1>2. PICK l \in Level, s \in Size :
        LET new == [venueBook.book EXCEPT ![l] = s]
            m == [kind |-> "price_change", level |-> l, size |-> s,
                  hash |-> new, ts |-> venueBook.ts + 1]
        IN /\ venueBook' = [book |-> new, ts |-> venueBook.ts + 1]
           /\ IF at = "session"
              THEN \E c \in Copies(m) : queue' = queue \o c
              ELSE queue' = queue
  BY DEF Change
<1>3. PICK h \in [Stamp -> Book] : Witnessed(h)
  BY DEF StreamInv
<1>4. /\ venueBook.book \in Book /\ venueBook.ts \in Stamp /\ venueBook.ts \in Nat
      /\ venueBook.book = h[venueBook.ts] /\ StreamTypeOK
  BY <1>3, QueueTyped, Stamps DEF StreamInv, Witnessed, VenueHistory
<1>5. PICK w \in Stamp : w = venueBook.ts
  BY <1>4
<1>6. [h[w] EXCEPT ![l] = s] \in Book
  BY <1>4, <1>5 DEF Book
<1>7. PICK n \in Book : n = [h[w] EXCEPT ![l] = s]
  BY <1>6
<1>8. w + 1 \in Stamp
  BY <1>1, <1>4, <1>5, Stamps
<1>9. \E h2 \in [Stamp -> Book] : h2[w + 1] = n /\ \A u \in Stamp : u <= w => h2[u] = h[u]
  <2> DEFINE g == [h EXCEPT ![w + 1] = n]
  <2>1. \A u \in Stamp : u <= w => u # w + 1
    BY Stamps, SMT
  <2>2. g \in [Stamp -> Book] /\ g[w + 1] = n /\ \A u \in Stamp : u <= w => g[u] = h[u]
    BY <1>8, <2>1
  <2> QED
    BY <2>2
<1>10. PICK h2 \in [Stamp -> Book] : h2[w + 1] = n /\ \A u \in Stamp : u <= w => h2[u] = h[u]
  BY <1>9
<1> DEFINE msg == [kind |-> "price_change", level |-> l, size |-> s, hash |-> n, ts |-> w + 1]
<1>11. /\ msg \in Message /\ msg.kind = "price_change" /\ msg.ts = w + 1 /\ msg.hash = n
       /\ msg.level = l /\ msg.size = s
  BY <1>8 DEF Message, PriceChange
<1>12. /\ venueBook' = [book |-> n, ts |-> w + 1]
       /\ IF at = "session" THEN \E c \in {<<msg>>, <<msg, msg>>} : queue' = queue \o c
          ELSE queue' = queue
  BY <1>2, <1>4, <1>5, <1>7 DEF Copies
<1> HIDE DEF msg
<1>13. PICK m \in Message : m = msg
  BY <1>11
<1>14. /\ m.kind = "price_change" /\ m.ts = w + 1 /\ m.hash = n /\ m.level = l /\ m.size = s
       /\ venueBook'.ts = w + 1 /\ venueBook'.book = n
       /\ IF at = "session" THEN \E c \in {<<m>>, <<m, m>>} : queue' = queue \o c
          ELSE queue' = queue
  BY <1>11, <1>12, <1>13
<1>15. queue' \in Seq(OtherMessage \cup Snapshot \cup PriceChange) /\ Witnessed(h2)'
  <2>1. StreamTypeOK /\ Witnessed(h) /\ w + 1 \in Stamp /\ w = venueBook.ts
    BY <1>3, <1>4, <1>5, <1>8
  <2>2. m.hash = h2[w + 1] /\ venueBook'.book = h2[w + 1]
    BY <1>10, <1>14
  <2>3. BorneBy(h[w], m)
    BY <1>7, <1>14 DEF BorneBy
  <2>4. \A u \in Stamp : u <= w => h2[u] = h[u]
    BY <1>10
  <2> QED
    BY <1>1, <1>14, <2>1, <2>2, <2>3, <2>4, ChangeTold
<1>16. StreamTypeOK'
  BY <1>1, <1>4, <1>8, <1>12, <1>15 DEF StreamTypeOK
<1> QED
  BY <1>15, <1>16 DEF StreamInv

-----------------------------------------------------------------------------
(* Handling a message takes it off the queue and may remember it. *)
LEMMA Dequeues ==
  ASSUME StreamTypeOK, queue # <<>>, queue' = Tail(queue)
  PROVE  /\ queue' \in Seq(OtherMessage \cup Snapshot \cup PriceChange)
         /\ 1 \in DOMAIN queue /\ Head(queue) = queue[1] /\ queue[1] \in Message
         /\ DOMAIN queue \subseteq Nat /\ DOMAIN queue' \subseteq Nat
         /\ \A i \in DOMAIN queue' : i + 1 \in DOMAIN queue /\ queue'[i] = queue[i + 1] /\ 1 < i + 1
         /\ \A i \in DOMAIN queue : i # 1 =>
               1 < i /\ \E j \in DOMAIN queue' : queue'[j] = queue[i]
<1>1. queue \in Seq(Message) /\ Len(queue) \in Nat /\ DOMAIN queue = 1..Len(queue)
  BY QueueTyped
<1> DEFINE n == Len(queue)
<1>2. n \in Nat /\ n > 0
  BY <1>1, SMT
<1>3. queue' \in Seq(Message) /\ Len(queue') = n - 1
  BY <1>1, <1>2, SMT
<1>4. \A i \in 1..(n - 1) : queue'[i] = queue[i + 1]
  BY <1>1, <1>2, SMT
<1>5. DOMAIN queue' = 1..(n - 1)
  BY <1>3, SMT
<1>6. Head(queue) = queue[1] /\ 1 \in DOMAIN queue
  BY <1>1, <1>2, SMT
<1> HIDE DEF n
<1>7. DOMAIN queue = 1..n
  BY <1>1 DEF n
<1>8. \A i \in DOMAIN queue' : i + 1 \in DOMAIN queue /\ queue'[i] = queue[i + 1] /\ 1 < i + 1
  <2>1. \A i \in 1..(n - 1) : i + 1 \in 1..n /\ 1 < i + 1
    BY <1>2, SMT
  <2> QED
    BY <1>4, <1>5, <1>7, <2>1
<1>9. ASSUME NEW i \in DOMAIN queue, i # 1
      PROVE  1 < i /\ \E j \in DOMAIN queue' : queue'[j] = queue[i]
  <2>1. i \in Nat /\ i - 1 \in 1..(n - 1) /\ (i - 1) + 1 = i /\ 1 < i
    BY <1>2, <1>7, <1>9, SMT
  <2>2. queue'[i - 1] = queue[i]
    BY <1>4, <2>1
  <2> QED
    BY <1>5, <2>1, <2>2
<1>10. DOMAIN queue \subseteq Nat /\ DOMAIN queue' \subseteq Nat
  BY <1>2, <1>5, <1>7, SMT
<1>11. queue[1] \in Message
  BY <1>1, <1>6
<1>12. queue' \in Seq(OtherMessage \cup Snapshot \cup PriceChange)
  BY <1>3 DEF Message
<1> QED
  BY <1>6, <1>8, <1>9, <1>10, <1>11, <1>12

LEMMA MarkedTyped ==
  ASSUME StreamTypeOK, NEW m \in Message, AboutBook(m)
  PROVE  /\ Marked(m) \in Seq(Remembered)
         /\ \A i \in DOMAIN Marked(m) :
               Marked(m)[i] = Key(m) \/ \E j \in DOMAIN dedup : Marked(m)[i] = dedup[j]
<1> DEFINE all == Append(dedup, Key(m))
           n == Len(dedup)
<1>1. dedup \in Seq(Remembered) /\ n \in Nat /\ DOMAIN dedup = 1..n
  BY QueueTyped
<1>2. Key(m) \in Remembered
  BY MessageTyped
<1>3. /\ all \in Seq(Remembered) /\ Len(all) = n + 1 /\ DOMAIN all = 1..(n + 1)
      /\ \A i \in 1..n : all[i] = dedup[i]
      /\ all[n + 1] = Key(m)
  BY <1>1, <1>2, SMT
<1>4. \A i \in 1..(n + 1) : all[i] = Key(m) \/ \E j \in DOMAIN dedup : all[i] = dedup[j]
  <2> TAKE i \in 1..(n + 1)
  <2>1. i = n + 1 \/ i \in 1..n
    BY <1>1, SMT
  <2> QED
    BY <1>1, <1>3, <2>1
<1> HIDE DEF all
<1>5. /\ Tail(all) \in Seq(Remembered) /\ DOMAIN Tail(all) = 1..n
      /\ \A i \in 1..n : Tail(all)[i] = all[i + 1]
  BY <1>1, <1>3, SMT
<1>6. \A i \in 1..n : i + 1 \in 1..(n + 1)
  BY <1>1, SMT
<1>7. Marked(m) = all \/ Marked(m) = Tail(all)
  BY DEF Marked, all
<1>8. CASE Marked(m) = all
  BY <1>3, <1>4, <1>8
<1>9. CASE Marked(m) = Tail(all)
  BY <1>4, <1>5, <1>6, <1>9
<1> QED
  BY <1>7, <1>8, <1>9

LEMMA ReceiveKeeps ==
  ASSUME StreamInv, Receive
  PROVE  StreamInv'
<1>1. /\ at = "session" /\ at' = at /\ queue # <<>> /\ queue' = Tail(queue)
      /\ venueBook' = venueBook /\ Dispatch(Head(queue))
  BY DEF Receive
<1>2. PICK h \in [Stamp -> Book] : Witnessed(h)
  BY DEF StreamInv
<1>3. PICK t \in Stamp : ComeTo(h, t)
  BY <1>1, <1>2 DEF Witnessed
<1>4. VenueHistory(h) /\ StreamTypeOK
  BY <1>2 DEF Witnessed, StreamInv
<1>5. /\ queue' \in Seq(OtherMessage \cup Snapshot \cup PriceChange)
      /\ 1 \in DOMAIN queue /\ Head(queue) = queue[1] /\ queue[1] \in Message
      /\ DOMAIN queue \subseteq Nat /\ DOMAIN queue' \subseteq Nat
      /\ \A i \in DOMAIN queue' : i + 1 \in DOMAIN queue /\ queue'[i] = queue[i + 1] /\ 1 < i + 1
      /\ \A i \in DOMAIN queue : i # 1 =>
            1 < i /\ \E j \in DOMAIN queue' : queue'[j] = queue[i]
  BY <1>1, <1>4, Dequeues
<1>6. PICK m \in Message : m = queue[1]
  BY <1>5
<1>7. Dispatch(m)
  BY <1>1, <1>5, <1>6
<1>8. PICK v \in Stamp : v = venueBook.ts
  BY <1>4, QueueTyped
<1>9. v \in Nat /\ t \in Nat /\ t <= v
  BY <1>3, <1>8, Stamps DEF ComeTo
<1>10. AboutBook(m) =>
         /\ m.ts \in Stamp /\ m.ts \in Nat /\ m.ts <= v /\ t <= m.ts /\ m.hash = h[m.ts]
         /\ m.kind = "book" => m.ts = t /\ m.book = m.hash
         /\ m.kind # "book" => m.ts > 0 /\ m.hash = [h[m.ts - 1] EXCEPT ![m.level] = m.size]
  <2> SUFFICES ASSUME AboutBook(m)
               PROVE  /\ m.ts \in Stamp /\ m.ts \in Nat /\ m.ts <= v /\ t <= m.ts
                      /\ m.hash = h[m.ts]
                      /\ m.kind = "book" => m.ts = t /\ m.book = m.hash
                      /\ m.kind # "book" =>
                            m.ts > 0 /\ m.hash = [h[m.ts - 1] EXCEPT ![m.level] = m.size]
    OBVIOUS
  <2>1. AboutBook(queue[1])
    BY <1>6
  <2>2. BorneOut(h, queue[1])
    BY <1>4, <1>5, <2>1 DEF VenueHistory
  <2>3. t <= m.ts /\ (m.kind = "book" => m.ts = t)
    BY <1>3, <1>5, <1>6, <2>1 DEF ComeTo
  <2>4. BorneOut(h, m)
    BY <1>6, <2>2
  <2>5. m.ts \in Stamp /\ m.ts \in Nat
    BY MessageTyped, Stamps
  <2> QED
    BY <1>8, <2>3, <2>4, <2>5 DEF BorneOut
<1>11. told = Unsure => m.kind = "book"
  BY <1>3, <1>6 DEF ComeTo
<1>12. \A i \in DOMAIN queue' : AboutBook(queue'[i]) /\ AboutBook(m) => m.ts <= queue'[i].ts
  <2> TAKE i \in DOMAIN queue'
  <2>1. i + 1 \in DOMAIN queue /\ queue'[i] = queue[i + 1] /\ 1 < i + 1
    BY <1>5
  <2> QED
    BY <1>4, <1>5, <1>6, <2>1 DEF VenueHistory, AboutBook
(* What is remembered is of times the session has come to. *)
<1>13. /\ dedup' \in Seq(Remembered)
       /\ \A i \in DOMAIN dedup' :
             (\E j \in DOMAIN dedup : dedup'[i] = dedup[j]) \/ (AboutBook(m) /\ dedup'[i] = Key(m))
  <2>1. CASE dedup' = dedup
    <3>1. dedup \in Seq(Remembered)
      BY <1>4, QueueTyped
    <3> QED
      BY <2>1, <3>1
  <2>2. CASE AboutBook(m) /\ dedup' = Marked(m)
    BY <1>4, <2>2, MarkedTyped
  <2> QED
    BY <1>7, <2>1, <2>2 DEF Dispatch, AboutBook
<1>14. VenueHistory(h)'
  <2>1. ASSUME NEW i \in DOMAIN queue', AboutBook(queue'[i])
        PROVE  BorneOut(h, queue[i])'
    <3>1. i + 1 \in DOMAIN queue /\ queue'[i] = queue[i + 1]
      BY <1>5
    <3>2. BorneOut(h, queue[i + 1])
      BY <1>4, <2>1, <3>1 DEF VenueHistory, AboutBook
    <3> QED
      BY <1>1, <3>1, <3>2 DEF BorneOut
  <2>2. ASSUME NEW i \in DOMAIN queue', NEW j \in DOMAIN queue', i < j,
               AboutBook(queue'[i]), AboutBook(queue'[j])
        PROVE  queue'[i].ts <= queue'[j].ts
    <3>1. i + 1 < j + 1
      BY <1>5, <2>2, SMT
    <3>2. /\ i + 1 \in DOMAIN queue /\ queue'[i] = queue[i + 1]
          /\ j + 1 \in DOMAIN queue /\ queue'[j] = queue[j + 1]
      BY <1>5
    <3> QED
      BY <1>4, <2>2, <3>1, <3>2 DEF VenueHistory, AboutBook
  <2>3. ASSUME NEW i \in DOMAIN dedup' PROVE dedup'[i][3] <= v
    <3>1. CASE \E j \in DOMAIN dedup : dedup'[i] = dedup[j]
      BY <1>4, <1>8, <3>1 DEF VenueHistory
    <3>2. CASE AboutBook(m) /\ dedup'[i] = Key(m)
      BY <1>10, <3>2 DEF Key
    <3> QED
      BY <1>13, <3>1, <3>2
  <2>4. venueBook.book = h[venueBook.ts]
    BY <1>4 DEF VenueHistory
  <2>5. \A i \in DOMAIN queue' : AboutBook(queue'[i]) => BorneOut(h, queue[i])'
    BY <2>1
  <2> QED
    BY <1>1, <1>8, <2>2, <2>3, <2>4, <2>5 DEF VenueHistory, AboutBook
(* The session comes to w, t or the time after it. *)
<1>15. ASSUME NEW w \in Stamp, w \in Nat, t <= w, w <= v, told' = <<h[w]>>, book' = h[w],
              AboutBook(m) => m.ts = w,
              w = t \/ (w = t + 1 /\ AboutBook(m))
       PROVE  StreamInv'
  <2>1. \A i \in DOMAIN dedup' : dedup'[i][3] <= w
    <3> TAKE i \in DOMAIN dedup'
    <3>1. CASE \E j \in DOMAIN dedup : dedup'[i] = dedup[j]
      <4>1. dedup'[i][3] <= t
        BY <1>3, <3>1 DEF ComeTo
      <4>2. dedup'[i] \in Remembered
        BY <1>13
      <4>3. dedup'[i][3] \in Nat
        BY <4>2, Stamps DEF Remembered
      <4> QED
        BY <1>9, <1>15, <4>1, <4>3, SMT
    <3>2. CASE AboutBook(m) /\ dedup'[i] = Key(m)
      <4>1. dedup'[i][3] = w
        BY <1>15, <3>2 DEF Key
      <4>2. w <= w
        BY <1>15, SMT
      <4> QED
        BY <4>1, <4>2
    <3> QED
      BY <1>13, <3>1, <3>2
  <2>2. ASSUME NEW i \in DOMAIN queue', AboutBook(queue'[i])
        PROVE  w <= queue'[i].ts /\ (queue'[i].kind = "book" => queue'[i].ts = w)
    <3>1. t <= queue'[i].ts /\ (queue'[i].kind = "book" => queue'[i].ts = t)
      <4>1. i + 1 \in DOMAIN queue /\ queue'[i] = queue[i + 1]
        BY <1>5
      <4> QED
        BY <1>3, <2>2, <4>1 DEF ComeTo, AboutBook
    <3>2. CASE w = t
      BY <3>1, <3>2
    <3>3. CASE w = t + 1 /\ AboutBook(m)
      <4>1. w <= queue'[i].ts
        BY <1>12, <1>15, <2>2, <3>3
      <4>2. queue'[i].ts # t
        <5>1. ~(w <= t)
          BY <1>9, <3>3, SMT
        <5> QED
          BY <4>1, <5>1
      <4> QED
        BY <3>1, <4>1, <4>2
    <3> QED
      BY <1>15, <3>2, <3>3
  <2>3. ASSUME NEW u \in (w + 1)..v
        PROVE  \E i \in DOMAIN queue' : queue'[i].kind = "price_change" /\ queue'[i].ts = u
    <3>1. u \in (t + 1)..v /\ u # w
      BY <1>9, <1>15, SMT
    <3>2. PICK i \in DOMAIN queue : queue[i].kind = "price_change" /\ queue[i].ts = u
      BY <1>3, <1>8, <3>1 DEF ComeTo
    <3>3. i # 1
      <4> SUFFICES ASSUME i = 1 PROVE FALSE
        OBVIOUS
      <4>1. AboutBook(m) /\ m.ts = u
        BY <1>6, <3>2 DEF AboutBook
      <4> QED
        BY <1>15, <3>1, <4>1
    <3> QED
      BY <1>5, <3>2, <3>3
  <2>4. told' # Unsure
    BY <1>15, SMT DEF Unsure
  <2>5. ComeTo(h, w)'
    <3>1. \A u \in (w + 1)..venueBook'.ts :
             \E i \in DOMAIN queue' : queue'[i].kind = "price_change" /\ queue'[i].ts = u
      BY <1>1, <1>8, <2>3
    <3>2. \A i \in DOMAIN queue' : AboutBook(queue'[i]) =>
             w <= queue'[i].ts /\ (queue'[i].kind = "book" => queue'[i].ts = w)
      BY <2>2
    <3> QED
      BY <1>1, <1>8, <1>15, <2>1, <2>4, <3>1, <3>2 DEF ComeTo, AboutBook, Unsure
  <2>6. Witnessed(h)'
    BY <1>1, <1>14, <2>5 DEF Witnessed
  <2>7. StreamTypeOK'
    <3>1. book' \in Book
      BY <1>15
    <3> QED
      BY <1>1, <1>4, <1>5, <1>13, <3>1 DEF StreamTypeOK, Remembered
  <2> QED
    BY <2>6, <2>7 DEF StreamInv
<1>16. t <= t
  BY <1>9, SMT
(* A message about something else. *)
<1>17. CASE ~AboutBook(m)
  <2>1. told' = told /\ book' = book
    BY <1>7, <1>17 DEF Dispatch, AboutBook
  <2>2. told # Unsure
    <3>1. "book" # "other"
      BY SMT
    <3> QED
      BY <1>11, <1>17, <3>1 DEF AboutBook
  <2>3. told = <<h[t]>> /\ book = h[t]
    BY <1>3, <2>2 DEF ComeTo
  <2> QED
    BY <1>9, <1>15, <1>16, <1>17, <2>1, <2>3
(* A snapshot, which may be dropped as a repetition. *)
<1>18. CASE m.kind = "book"
  <2>1. AboutBook(m)
    <3>1. "book" # "other"
      BY SMT
    <3> QED
      BY <1>18, <3>1 DEF AboutBook
  <2>2. m.ts = t /\ m.hash = h[t] /\ m.book = h[t]
    BY <1>10, <1>18, <2>1
  <2>3. told' = <<h[t]>>
    BY <1>7, <1>18, <2>1, <2>2 DEF Dispatch, AboutBook
  <2>4. book' = h[t]
    <3>1. CASE Seen(m)
      <4>1. book' = book
        BY <1>7, <2>1, <3>1 DEF Dispatch, AboutBook
      <4>2. \E i \in DOMAIN dedup : dedup[i] = <<"book", h[t], t>>
        BY <1>18, <2>2, <3>1 DEF Seen, Key
      <4>3. book = h[t]
        BY <1>3, <4>2 DEF ComeTo, RepeatHarmless
      <4> QED
        BY <4>1, <4>3
    <3>2. CASE ~Seen(m)
      <4>1. book' = m.book
        BY <1>7, <1>18, <2>1, <3>2 DEF Dispatch, AboutBook
      <4> QED
        BY <2>2, <4>1
    <3> QED
      BY <3>1, <3>2
  <2> QED
    BY <1>9, <1>15, <1>16, <2>2, <2>3, <2>4
(* A change: a repetition of the last one handled, or the next. *)
<1>19. CASE m.kind = "price_change"
  <2>1. AboutBook(m) /\ m.kind # "book"
    <3>1. "price_change" # "other" /\ "price_change" # "book"
      BY SMT
    <3> QED
      BY <1>19, <3>1 DEF AboutBook
  <2>2. /\ m.ts \in Stamp /\ m.ts \in Nat /\ m.ts <= v /\ t <= m.ts /\ m.hash = h[m.ts]
        /\ m.ts > 0 /\ m.hash = [h[m.ts - 1] EXCEPT ![m.level] = m.size]
    BY <1>10, <2>1
  <2>3. told # Unsure
    BY <1>11, <2>1
  <2>4. told = <<h[t]>> /\ book = h[t]
    BY <1>3, <2>3 DEF ComeTo
  <2>5. told' = <<h[m.ts]>>
    <3>1. told' = <<m.hash>>
      BY <1>7, <2>1, <2>3 DEF Dispatch, AboutBook
    <3> QED
      BY <2>2, <3>1
  <2>6. \/ book' = book /\ Seen(m)
        \/ book' = [book EXCEPT ![m.level] = m.size]
    BY <1>7, <2>1 DEF Dispatch, AboutBook
  <2>7. CASE m.ts = t
    <3>1. book' = h[t]
      <4>1. CASE book' = book
        BY <2>4, <4>1
      <4>2. CASE book' = [book EXCEPT ![m.level] = m.size]
        <5>1. m.level \in Level /\ m.size \in Size
          BY <1>19, MessageTyped
        <5>2. t - 1 \in Stamp
          BY <1>9, <2>2, <2>7, StreamAssumption, SMT DEF Stamp
        <5>3. PICK old \in Book : old = h[t - 1]
          BY <5>2
        <5>4. h[t] = [old EXCEPT ![m.level] = m.size]
          BY <2>2, <2>7, <5>3
        <5>5. [[old EXCEPT ![m.level] = m.size] EXCEPT ![m.level] = m.size]
                = [old EXCEPT ![m.level] = m.size]
          BY <5>1 DEF Book
        <5> QED
          BY <2>4, <4>2, <5>4, <5>5
      <4> QED
        BY <2>6, <4>1, <4>2
    <3>2. told' = <<h[t]>>
      BY <2>5, <2>7
    <3> QED
      BY <1>9, <1>15, <1>16, <2>7, <3>1, <3>2
  <2>8. CASE m.ts # t
    <3>1. t + 1 \in Nat /\ t + 1 <= m.ts /\ t + 1 \in (t + 1)..v /\ t <= t + 1
      BY <1>9, <2>2, <2>8, SMT
    <3>2. PICK i \in DOMAIN queue : queue[i].kind = "price_change" /\ queue[i].ts = t + 1
      BY <1>3, <1>8, <3>1 DEF ComeTo
    <3>3. m.ts <= t + 1
      <4>1. AboutBook(queue[i])
        BY <2>1, <1>19, <3>2 DEF AboutBook
      <4>2. CASE i = 1
        <5>1. m.ts = t + 1
          BY <1>6, <3>2, <4>2
        <5> QED
          BY <5>1, <3>1, SMT
      <4>3. CASE i # 1
        <5>1. 1 < i
          BY <1>5, <4>3
        <5>2. queue[1].ts <= queue[i].ts
          BY <1>4, <1>5, <1>6, <2>1, <4>1, <5>1 DEF VenueHistory
        <5> QED
          BY <1>6, <3>2, <5>2
      <4> QED
        BY <4>2, <4>3
    <3>4. m.ts = t + 1
      BY <2>2, <3>1, <3>3, SMT
    <3>5. ~Seen(m)
      <4> SUFFICES ASSUME NEW j \in DOMAIN dedup, dedup[j] = Key(m) PROVE FALSE
        BY DEF Seen
      <4>1. dedup[j][3] = t + 1
        BY <3>4 DEF Key
      <4>2. t + 1 <= t
        BY <1>3, <4>1 DEF ComeTo
      <4> QED
        BY <1>9, <4>2, SMT
    <3>6. book' = h[t + 1]
      <4>1. book' = [book EXCEPT ![m.level] = m.size]
        BY <2>6, <3>5
      <4>2. m.ts - 1 = t
        BY <1>9, <3>4, SMT
      <4>3. h[t + 1] = [h[t] EXCEPT ![m.level] = m.size]
        BY <2>2, <3>4, <4>2
      <4> QED
        BY <2>4, <4>1, <4>3
    <3>7. PICK w \in Stamp : w = t + 1
      BY <2>2, <3>4
    <3>8. w \in Nat /\ t <= w /\ w <= v
      BY <2>2, <3>1, <3>4, <3>7
    <3>9. told' = <<h[w]>> /\ book' = h[w] /\ m.ts = w
      BY <2>5, <3>4, <3>6, <3>7
    <3> QED
      BY <1>15, <2>1, <3>7, <3>8, <3>9
  <2> QED
    BY <2>7, <2>8
<1> QED
  BY <1>17, <1>18, <1>19, MessageTyped DEF AboutBook

-----------------------------------------------------------------------------
LEMMA StreamBegins == WInit => StreamInv
<1> SUFFICES ASSUME WInit PROVE StreamInv
  OBVIOUS
<1> DEFINE h == [u \in Stamp |-> Empty]
<1>1. Empty \in Book
  BY DEF Empty, Book
<1>2. 0 \in Stamp
  BY Stamps
<1>3. h \in [Stamp -> Book] /\ h[0] = Empty
  BY <1>1, <1>2
<1>4. /\ venueBook = [book |-> Empty, ts |-> 0] /\ queue = <<>> /\ dedup = <<>> /\ book = Empty
      /\ told = Unsure /\ at # "session"
  BY DEF WInit
<1>5. DOMAIN <<>> = {}
  BY SMT
<1> HIDE DEF h
<1>6. Witnessed(h)
  BY <1>3, <1>4, <1>5 DEF Witnessed, VenueHistory, RepeatHarmless
<1>7. StreamTypeOK
  <2>1. \A S : <<>> \in Seq(S)
    BY SMT
  <2> QED
    BY <1>1, <1>2, <1>4, <2>1 DEF StreamTypeOK
<1> QED
  BY <1>3, <1>6, <1>7 DEF StreamInv

LEMMA StreamGoesOn == StreamInv /\ [WNext]_wVars => StreamInv'
<1> SUFFICES ASSUME StreamInv, [WNext]_wVars PROVE StreamInv'
  OBVIOUS
<1>1. CASE Change
  BY <1>1, ChangeKeeps
<1>2. CASE Other
  BY <1>2, OtherKeeps
<1>3. CASE Subscribe
  BY <1>3, SubscribeKeeps
<1>4. CASE Receive
  BY <1>4, ReceiveKeeps
<1>5. CASE Start \/ Reconnect
  BY <1>5, StreamRests DEF Start, Reconnect, Connecting
<1>6. CASE Stop
  BY <1>6, StreamRests DEF Stop
<1>7. CASE UNCHANGED wVars
  BY <1>7, StreamRests DEF wVars
<1>8. CASE ConnectFails \/ Stale \/ Breaks
  BY <1>8, SessionEnds DEF ConnectFails, Stale, Breaks, Closed
<1>9. CASE Cancelled
  BY <1>9, SessionEnds DEF Cancelled
<1> QED
  BY <1>1, <1>2, <1>3, <1>4, <1>5, <1>6, <1>7, <1>8, <1>9 DEF WNext

(* Although the venue's messages repeat and sessions break and miss some of   *)
(* them, the book kept from them is the venue's as of the last message, from  *)
(* the session's snapshot on, for every number of levels, changes and         *)
(* messages on their way and every length of the memory of repetitions        *)
(* (clients/clob_ws.py, _dispatch, _seen and _mark_seen).                     *)
THEOREM BooksAreTheVenues == StreamSpec => []BookFaithful
<1>1. StreamInv => BookFaithful
  <2> SUFFICES ASSUME StreamInv, told # Unsure PROVE told = <<book>>
    BY DEF BookFaithful
  <2>1. PICK h \in [Stamp -> Book] : Witnessed(h)
    BY DEF StreamInv
  <2>2. PICK t \in Stamp : ComeTo(h, t)
    BY <2>1 DEF Witnessed
  <2> QED
    BY <2>2 DEF ComeTo
<1> QED
  BY <1>1, StreamBegins, StreamGoesOn, PTL DEF StreamSpec

-----------------------------------------------------------------------------
(***************************************************************************)
(* Batched requests.  RequestsInv is inductive: the batches that were      *)
(* answered join to the beginning of the tokens without repetitions.       *)
(***************************************************************************)

(* The tokens without repetitions are those asked for, each once.             *)
LEMMA UniqueIsUnique ==
    ASSUME wanted \in Seq(QToken \cup {Absent})
    PROVE  /\ Unique \in Seq(QToken \cup {Absent})
           /\ IsInjective(Unique)
           /\ Range(Unique) = Range(wanted) \ {Absent}
PROOF
<1> DEFINE R == {p \in Firsts \X Firsts : p[1] < p[2]}
           n == Cardinality(Firsts)
           place(i) == Cardinality({j \in Firsts : j <= i})
           atPlace(k) == CHOOSE i \in Firsts : place(i) = k
<1>1. /\ Len(wanted) \in Nat /\ DOMAIN wanted = 1..Len(wanted)
      /\ \A i \in DOMAIN wanted : wanted[i] \in QToken \cup {Absent}
  BY LenProperties, ElementOfSeq
<1>2. Firsts \in SUBSET (1..Len(wanted)) /\ Firsts \in SUBSET Nat
  BY <1>1 DEF Firsts
<1>3. IsFiniteSet(Firsts) /\ n \in Nat
  <2>1. IsFiniteSet(1..Len(wanted))
    BY <1>1, FS_Interval
  <2>2. IsFiniteSet(Firsts)
    BY <1>2, <2>1, FS_Subset
  <2> QED BY <2>2, FS_CardinalityType
<1>4. \A i, j \in Firsts : <<i, j>> \in R <=> i < j
  OBVIOUS
<1>5. StrictOrder(R, Firsts)
  <2> HIDE DEF R
  <2> QED BY <1>2, <1>4 DEF StrictOrder
<1>6. \A i \in Firsts : UpToIn(R, Firsts, i) = {j \in Firsts : j <= i}
  <2> HIDE DEF R
  <2> TAKE i \in Firsts
  <2>1. \A j \in Firsts : (j = i \/ <<j, i>> \in R) <=> j <= i
    BY <1>2, <1>4
  <2> QED BY <2>1 DEF UpToIn
<1>7. \A i \in Firsts : place(i) \in 1..n
  <2> TAKE i \in Firsts
  <2> HIDE DEF R
  <2> QED BY <1>3, <1>6, RankInRange
<1>8. \A k \in 1..n : \E i \in Firsts : place(i) = k
  <2> TAKE k \in 1..n
  <2> HIDE DEF R
  <2>1. PICK i \in Firsts : Cardinality(UpToIn(R, Firsts, i)) = k
    BY <1>3, <1>5, EveryRankTaken
  <2> QED BY <1>6, <2>1
<1>9. \A i, j \in Firsts : place(i) = place(j) => i = j
  <2> HIDE DEF R
  <2> TAKE i, j \in Firsts
  <2> QED BY <1>3, <1>5, <1>6, RanksDiffer
<1>10. \A k \in 1..n : atPlace(k) \in Firsts /\ place(atPlace(k)) = k
  <2> HIDE DEF place
  <2> QED BY <1>8
<1>11. \A i \in Firsts : atPlace(place(i)) = i
  <2> HIDE DEF place, atPlace
  <2> QED BY <1>7, <1>9, <1>10
<1>12. Unique = [k \in 1..n |-> wanted[atPlace(k)]]
  BY DEF Unique
<1> HIDE DEF place, atPlace, n
<1>13. Unique \in [1..n -> QToken \cup {Absent}]
  BY <1>1, <1>2, <1>10, <1>12
<1>14. Unique \in Seq(QToken \cup {Absent})
  BY <1>3, <1>13, SeqDef
<1>15. IsInjective(Unique)
  <2> SUFFICES ASSUME NEW k \in 1..n, NEW l \in 1..n, Unique[k] = Unique[l]
               PROVE  k = l
    BY <1>13 DEF IsInjective
  <2>1. wanted[atPlace(k)] = wanted[atPlace(l)] /\ atPlace(k) \in Firsts /\ atPlace(l) \in Firsts
    BY <1>10, <1>12
  <2>2. atPlace(k) = atPlace(l)
    BY <1>1, <1>2, <2>1 DEF Firsts
  <2> QED BY <1>10, <2>2
<1>16. Range(Unique) \subseteq Range(wanted) \ {Absent}
  BY <1>1, <1>10, <1>12, <1>13 DEF Range, Firsts
<1>17. ASSUME NEW t \in Range(wanted) \ {Absent}
       PROVE  t \in Range(Unique)
  <2> DEFINE T == {i \in 1..Len(wanted) : wanted[i] = t}
  <2>1. T \in SUBSET Nat /\ T # {}
    BY <1>1, <1>17 DEF Range
  <2>2. PICK i \in T : \A j \in T : i <= j
    <3> HIDE DEF T
    <3> QED BY <2>1, LeastNumber
  <2>3. i \in Firsts /\ wanted[i] = t
    BY <1>1, <1>17, <2>2 DEF Firsts
  <2>4. place(i) \in 1..n /\ Unique[place(i)] = t
    BY <1>7, <1>11, <1>12, <2>3
  <2> QED BY <1>13, <2>4 DEF Range
<1> QED BY <1>14, <1>15, <1>16, <1>17

(* A batch follows what was asked before it. *)
LEMMA ChunkFollows ==
    ASSUME RequestsInv, next <= Len(Unique), Request, next' = next + BatchSize,
           asked' = asked \o Chunk
    PROVE  asked' = SubSeq(Unique, 1, AskedTo')
PROOF
<1>1. Unique \in Seq(QToken \cup {Absent}) /\ Len(Unique) \in Nat
  BY UniqueIsUnique, LenProperties DEF RequestsInv
<1>2. Unique' = Unique
  BY DEF Request, Unique, Firsts
<1>3. PICK m : m = AskedTo'
  OBVIOUS
<1>4. m = IF next + BatchSize - 1 < Len(Unique) THEN next + BatchSize - 1 ELSE Len(Unique)
  BY <1>1, <1>2, <1>3, RequestAssumption DEF AskedTo, RequestsInv
<1>5. Chunk = SubSeq(Unique, next, m)
  BY <1>4 DEF Chunk, UpTo
<1>6. asked = SubSeq(Unique, 1, next - 1)
  BY DEF RequestsInv, AskedTo
<1>7. /\ 1 \in 1..Len(Unique) + 1 /\ next - 1 \in 0..Len(Unique)
      /\ m \in next - 1..Len(Unique)
  BY <1>1, <1>4, RequestAssumption DEF RequestsInv
<1>8. PICK k : k = next - 1 /\ k + 1 = next
  BY DEF RequestsInv
<1>9. SubSeq(Unique, 1, k) \o SubSeq(Unique, k + 1, m) = SubSeq(Unique, 1, m)
  <2>1. k \in 1 - 1..Len(Unique) /\ m \in k..Len(Unique)
    BY <1>7, <1>8
  <2> QED BY <1>1, <1>7, <2>1, ConcatAdjacentSubSeq
<1> QED BY <1>2, <1>3, <1>5, <1>6, <1>8, <1>9

THEOREM RequestsInvariant == QInit /\ [][QNext]_qVars => []RequestsInv
PROOF
<1>1. QInit => RequestsInv
  <2> SUFFICES ASSUME QInit PROVE RequestsInv
    OBVIOUS
  <2>1. wanted \in Seq(QToken \cup {Absent})
    BY RequestAssumption, SeqDef DEF QInit
  <2>2. Unique \in Seq(QToken \cup {Absent}) /\ Len(Unique) \in Nat
    BY <2>1, UniqueIsUnique, LenProperties
  <2>3. AskedTo = 0
    BY <2>2 DEF QInit, AskedTo
  <2>4. asked = SubSeq(Unique, 1, AskedTo)
    BY <2>3, SubSeqEmpty DEF QInit
  <2> QED BY <2>1, <2>4, RequestAssumption DEF QInit, RequestsInv
<1>2. RequestsInv /\ [QNext]_qVars => RequestsInv'
  <2> SUFFICES ASSUME RequestsInv, [QNext]_qVars PROVE RequestsInv'
    OBVIOUS
  <2>1. CASE Request
    <3>1. Unique' = Unique
      BY <2>1 DEF Request, Unique, Firsts
    <3>2. CASE next' = next + BatchSize /\ asked' = asked \o Chunk /\ attempt' = 0
               /\ verdict' = verdict
      <4>1. asked' = SubSeq(Unique, 1, AskedTo')
        BY <2>1, <3>2, ChunkFollows DEF Request
      <4>2. verdict = "busy" /\ wanted' = wanted
        BY <2>1 DEF Request
      <4>3. next' \in Nat \ {0} /\ attempt' \in 0..HttpRetries
        BY <3>2, RequestAssumption DEF RequestsInv
      <4> QED BY <3>1, <3>2, <4>1, <4>2, <4>3 DEF RequestsInv
    <3>3. CASE /\ UNCHANGED <<asked, next>>
               /\ \/ /\ MayTryAgain /\ attempt' = attempt + 1 /\ verdict' = verdict
                  \/ /\ verdict' = Raised(answer') /\ attempt' = attempt
                     /\ answer' \in Transient => ~MayTryAgain
      <4>1. AskedTo' = AskedTo
        BY <3>1, <3>3 DEF AskedTo
      <4>2. attempt' \in 0..HttpRetries
        BY <3>3, RequestAssumption DEF RequestsInv, MayTryAgain
      <4>3. verdict = "busy" /\ wanted' = wanted
        BY <2>1 DEF Request
      <4>4. \/ verdict' = "busy"
            \/ /\ verdict' = Raised(answer') /\ verdict' # "ok"
               /\ answer' \in Transient => attempt' = HttpRetries
        BY <3>3, <4>3, RequestAssumption DEF RequestsInv, MayTryAgain, Raised
      <4> QED BY <3>1, <3>3, <4>1, <4>2, <4>3, <4>4 DEF RequestsInv
    <3> QED BY <2>1, <3>2, <3>3 DEF Request
  <2>2. CASE Return
    <3>1. Unique' = Unique
      BY <2>2 DEF Return, Unique, Firsts
    <3>2. AskedTo' = AskedTo
      BY <2>2, <3>1 DEF Return, AskedTo
    <3> QED BY <2>2, <3>1, <3>2 DEF Return, RequestsInv
  <2>3. CASE UNCHANGED qVars
    <3>1. Unique' = Unique
      BY <2>3 DEF qVars, Unique, Firsts
    <3>2. AskedTo' = AskedTo
      BY <2>3, <3>1 DEF qVars, AskedTo
    <3> QED BY <2>3, <3>1, <3>2 DEF qVars, RequestsInv, Raised
  <2> QED BY <2>1, <2>2, <2>3 DEF QNext
<1> QED BY <1>1, <1>2, PTL

(* However many tokens repeat and wherever the batches end, a call that returns *)
(* has asked for each once (get_books); one that fails has retried enough.      *)
THEOREM BooksAreWhole == QInit /\ [][QNext]_qVars => []BooksWhole
PROOF
<1>1. RequestsInv => BooksWhole
  <2> SUFFICES ASSUME RequestsInv PROVE BooksWhole
    OBVIOUS
  <2>1. /\ Unique \in Seq(QToken \cup {Absent}) /\ IsInjective(Unique)
        /\ Range(Unique) = Range(wanted) \ {Absent}
    BY UniqueIsUnique DEF RequestsInv
  <2>2. Len(Unique) \in Nat /\ DOMAIN Unique = 1..Len(Unique)
    BY <2>1, LenProperties
  <2>3. AskedTo \in 0..Len(Unique)
    BY <2>2 DEF RequestsInv, AskedTo
  <2>4. asked = Restrict(Unique, 1..AskedTo)
    BY <2>1, <2>3, SubSeqRestrict DEF RequestsInv
  <2>5. IsInjective(asked)
    BY <2>1, <2>2, <2>3, <2>4 DEF IsInjective, Restrict
  <2>6. verdict = "ok" => asked = Unique
    BY <2>1, <2>2, SubSeqFull DEF RequestsInv, AskedTo
  <2> QED BY <2>1, <2>5, <2>6 DEF RequestsInv, BooksWhole
<1> QED BY <1>1, RequestsInvariant, PTL

-----------------------------------------------------------------------------
(***************************************************************************)
(* The records of a page of markets.  What is left of the tokens and of    *)
(* the rows are elements of them, each with what was paired with it.       *)
(***************************************************************************)

LEMMA OutcomesStand ==
  ASSUME NEW raw, raw.tokens \in Seq(ToSet(raw.tokens)), NEW k \in DOMAIN Outcomes(raw)
  PROVE  \E i \in DOMAIN raw.tokens :
            Outcomes(raw)[k] = [token |-> raw.tokens[i], name |-> At(raw.names, i, "Outcome"),
                                price |-> Float(At(raw.prices, i, NoNumber))]
PROOF
<1> DEFINE all == [i \in DOMAIN raw.tokens |->
                      [token |-> raw.tokens[i], name |-> At(raw.names, i, "Outcome"),
                       price |-> Float(At(raw.prices, i, NoNumber))]]
           K == {o \in ToSet(all) : o.token # ""}
<1>1. Outcomes(raw) = Kept(all, K)
  BY DEF Outcomes
<1>2. PICK n \in Nat : DOMAIN raw.tokens = 1..n
  OBVIOUS
<1>3. DOMAIN all = 1..n
  BY <1>2
<1>4. \E i \in 1..n : Kept(all, K)[k] = all[i]
  <2> HIDE DEF all, K
  <2> QED BY <1>1, <1>3, KeptElements
<1> QED BY <1>1, <1>2, <1>4

LEMMA RecordsAligned ==
  ASSUME NEW p \in Page, p.kind = "markets", NEW m \in ToSet(Markets(p))
  PROVE  \E raw \in ToSet(p.rows) :
            /\ raw.id = m.id
            /\ \A o \in ToSet(m.outcomes) : \E i \in DOMAIN raw.tokens :
                   /\ raw.tokens[i] = o.token
                   /\ i <= Len(raw.names) => o.name = raw.names[i]
                   /\ o.price = IF At(raw.prices, i, NoNumber) = NoNumber THEN NoNumber
                                ELSE Bounded(At(raw.prices, i, NoNumber))
PROOF
<1> DEFINE kept == Kept(p.rows, {raw \in ToSet(p.rows) : MarketKept(raw)})
<1>1. PICK k \in DOMAIN kept : m = MarketOf(kept[k], p.tags)
  BY DEF Markets, ToSet
<1>2. PICK raw \in ToSet(p.rows) : raw = kept[k] /\ raw.tokens \in Seq(ToSet(raw.tokens))
  <2>1. p.rows \in Seq(ToSet(p.rows))
    BY PageAssumption
  <2>2. PICK i \in DOMAIN p.rows : kept[k] = p.rows[i]
    <3>1. PICK K : kept = Kept(p.rows, K)
      OBVIOUS
    <3> HIDE DEF kept
    <3> QED BY <2>1, <3>1, KeptOfList
  <2> QED BY <2>2, PageAssumption DEF ToSet
<1> HIDE DEF kept
<1>3. /\ m.id = raw.id
      /\ m.outcomes = [i \in DOMAIN Outcomes(raw) |->
            [Outcomes(raw)[i] EXCEPT !.price = IF @ = NoNumber THEN @ ELSE Bounded(@)]]
  BY <1>1, <1>2 DEF MarketOf
<1>4. ASSUME NEW o \in ToSet(m.outcomes)
      PROVE  \E i \in DOMAIN raw.tokens :
                /\ raw.tokens[i] = o.token
                /\ i <= Len(raw.names) => o.name = raw.names[i]
                /\ o.price = IF At(raw.prices, i, NoNumber) = NoNumber THEN NoNumber
                             ELSE Bounded(At(raw.prices, i, NoNumber))
  <2>1. PICK j \in DOMAIN Outcomes(raw) : o = m.outcomes[j]
    BY <1>3 DEF ToSet
  <2>2. PICK i \in DOMAIN raw.tokens :
            Outcomes(raw)[j] = [token |-> raw.tokens[i], name |-> At(raw.names, i, "Outcome"),
                                price |-> Float(At(raw.prices, i, NoNumber))]
    BY <1>2, OutcomesStand
  <2>3. PICK price, name : price = At(raw.prices, i, NoNumber) /\ name = At(raw.names, i, "Outcome")
    OBVIOUS
  <2>4. Outcomes(raw)[j] = [token |-> raw.tokens[i], name |-> name, price |-> price]
    BY <2>2, <2>3 DEF Float
  <2>5. o = [Outcomes(raw)[j] EXCEPT !.price = IF @ = NoNumber THEN @ ELSE Bounded(@)]
    BY <1>3, <2>1
  <2>6. /\ o.token = raw.tokens[i] /\ o.name = name
        /\ o.price = IF price = NoNumber THEN NoNumber ELSE Bounded(price)
    BY <2>4, <2>5
  <2>7. i <= Len(raw.names) => name = raw.names[i]
    BY <2>3 DEF At
  <2> QED BY <2>3, <2>6, <2>7
<1> QED BY <1>2, <1>3, <1>4

LEMMA RecordStep == RecordOfPage /\ [NNext]_nVars => RecordOfPage'
PROOF
<1> SUFFICES ASSUME RecordOfPage, [NNext]_nVars PROVE RecordOfPage'
  OBVIOUS
<1>1. CASE ReceivePage
  <2>1. record.state = "none" /\ record.rows = <<>> /\ record' = record /\ page' \in Page
    BY <1>1 DEF ReceivePage, RecordOfPage
  <2> QED BY <2>1 DEF RecordOfPage
<1>2. CASE Normalise
  <2>1. page' = page /\ page.kind # "none"
    BY <1>2 DEF Normalise
  <2>2. /\ record'.rows # <<>> => record'.rows = Records(page)
        /\ record'.state # "none"
    BY <1>2 DEF Normalise
  <2> QED BY <2>1, <2>2 DEF RecordOfPage
<1>3. CASE UNCHANGED nVars
  BY <1>3 DEF nVars, RecordOfPage
<1> QED BY <1>1, <1>2, <1>3 DEF NNext

(* Whatever tokens and rows of a page of markets are dropped, what is left of *)
(* them stands with the names and prices of their own positions upstream.     *)
THEOREM OutcomesStandAligned == NInit /\ [][NNext]_nVars => []OutcomesAligned
PROOF
<1>1. NInit => RecordOfPage
  BY DEF NInit, RecordOfPage
<1>2. RecordOfPage => OutcomesAligned
  <2> SUFFICES ASSUME RecordOfPage, page.kind = "markets", NEW m \in ToSet(record.rows)
               PROVE  \E raw \in ToSet(page.rows) :
                        /\ raw.id = m.id
                        /\ \A o \in ToSet(m.outcomes) : \E i \in DOMAIN raw.tokens :
                               /\ raw.tokens[i] = o.token
                               /\ i <= Len(raw.names) => o.name = raw.names[i]
                               /\ o.price = IF At(raw.prices, i, NoNumber) = NoNumber
                                            THEN NoNumber ELSE Bounded(raw.prices[i])
    BY DEF OutcomesAligned
  <2>1. page \in Page /\ record.rows = Markets(page)
    <3>1. record.rows # <<>>
      BY DEF ToSet
    <3> QED BY <3>1 DEF RecordOfPage, Records
  <2>2. PICK p \in Page : p = page /\ p.kind = "markets" /\ m \in ToSet(Markets(p))
    BY <2>1
  <2>3. PICK raw \in ToSet(p.rows) :
            /\ raw.id = m.id
            /\ \A o \in ToSet(m.outcomes) : \E i \in DOMAIN raw.tokens :
                   /\ raw.tokens[i] = o.token
                   /\ i <= Len(raw.names) => o.name = raw.names[i]
                   /\ o.price = IF At(raw.prices, i, NoNumber) = NoNumber THEN NoNumber
                                ELSE Bounded(At(raw.prices, i, NoNumber))
    BY <2>2, RecordsAligned
  <2>4. \A i : At(raw.prices, i, NoNumber) # NoNumber =>
                 At(raw.prices, i, NoNumber) = raw.prices[i]
    BY DEF At
  <2> QED BY <2>2, <2>3, <2>4
<1> QED BY <1>1, <1>2, RecordStep, PTL
================================================================================
