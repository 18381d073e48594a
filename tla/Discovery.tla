------------------------------- MODULE Discovery -------------------------------
(***************************************************************************)
(* The enumeration and analysis of one complete scan: the keyset walk of   *)
(* the client (clients/gamma.py), the bounded discovery over it with its   *)
(* recursive windows (discovery/bounded_discovery.py), and the gate,       *)
(* scoring and ranking of run_scan (discovery/scan_service.py).  Markets   *)
(* open and close on the venue while the walk is under way.                *)
(*                                                                         *)
(* The venue's keyset contract is external: a page is the next items of    *)
(* the listing after the cursor, in id order and at most PageSize of them, *)
(* empty only at the end.  The venue may fail a request, refuse it, answer *)
(* with something else than the object, or repeat a cursor.                *)
(***************************************************************************)
EXTENDS Integers, FiniteSets

CONSTANTS
    Market,          \* ids of the markets, in the order of the keyset
    Event,           \* ids of the events that the verification path lists
    EventOf,         \* the event that a market is nested in; one that is not
                     \* in Event when its own date is out of the range
    Fact,            \* what the raw record of a market says
    Priority,        \* research priority and strength of a scored market, as one
                     \* order
    Span,            \* TARGET_DAYS, in the unit of a market's `closes`
    FallbackWindows, \* FALLBACK_WINDOWS
    MinWidth,        \* MIN_WINDOW_HOURS
    Edges,           \* the upper ends of the closing-time buckets
    MaxPages,        \* the emergency guard of paginate_keyset
    PageSize, Retries \* page_size and http_max_retries

Window == [lo : Nat, hi : Nat]

Facts == [closes : Int, dated : BOOLEAN, liquid : BOOLEAN, parsed : BOOLEAN,
          tokens : BOOLEAN, tradable : BOOLEAN]

ASSUME IdAssumption ==
    /\ Market \subseteq Nat \ {0} /\ IsFiniteSet(Market)
    /\ Event \subseteq Nat \ {0}

ASSUME FactAssumption ==
    /\ Fact \in [Market -> Facts]
    /\ EventOf \in [Market -> Nat]
    /\ Priority \in [Market -> Nat]

ASSUME BoundAssumption ==
    /\ Span \in Nat /\ MinWidth \in Nat /\ MaxPages \in Nat
    /\ PageSize \in Nat /\ Retries \in Nat

(* The fallback windows lie in the range and leave no gap. *)
ASSUME WindowAssumption ==
    /\ FallbackWindows \in SUBSET Window /\ FallbackWindows # {}
    /\ \A x \in 0 .. Span - 1 : \E w \in FallbackWindows : w.lo <= x /\ x < w.hi

VARIABLES
    listing,  \* the venue: whether a market is listed, and since when
    phase,    \* which query of discover() is under way
    window,   \* the window of that query
    todo,     \* windows the fallback has still to visit
    cursor,   \* after_cursor; 0 in the first request
    seen,     \* seen_cursors
    pages,    \* pages fetched by this query
    tries,    \* failed attempts at this page
    batch,    \* markets of this query so far
    primary,  \* markets of the primary path
    verified, \* markets of the verification path
    lapsed,   \* those of them that came as closed
    failed,   \* report.incomplete_reason is set
    complete, \* report.complete
    analysed, excluded, directional, rank \* the result of run_scan

venue == <<listing>>
query == <<window, cursor, seen, pages, tries, batch>>
found == <<primary, failed>>
events == <<verified, lapsed>>
result == <<analysed, excluded, directional, rank>>
vars == <<venue, phase, todo, query, found, events, complete, result>>

Phases == {"primary", "fallback", "events", "classify", "done", "raised"}

TypeOK ==
    /\ listing \in [Market -> {"open", "late", "unlisted", "closed"}]
    /\ phase \in Phases
    /\ window \in Window /\ todo \in SUBSET Window
    /\ cursor \in Nat /\ seen \in SUBSET Nat
    /\ pages \in Nat /\ tries \in Nat
    /\ batch \in SUBSET Market /\ primary \in SUBSET Market
    /\ verified \in SUBSET Market /\ lapsed \in SUBSET Market
    /\ failed \in BOOLEAN /\ complete \in BOOLEAN
    /\ analysed \in SUBSET Market /\ excluded \in SUBSET Market
    /\ directional \in SUBSET Market
    /\ rank \in [Market -> Nat]

Whole == [lo |-> 0, hi |-> Span]

Init ==
    /\ listing \in [Market -> {"open", "unlisted"}]
    /\ phase = "primary"
    /\ window = Whole /\ todo = {}
    /\ cursor = 0 /\ seen = {} /\ pages = 0 /\ tries = 0 /\ batch = {}
    /\ primary = {} /\ verified = {} /\ lapsed = {}
    /\ failed = FALSE /\ complete = FALSE
    /\ analysed = {} /\ excluded = {} /\ directional = {}
    /\ rank = [m \in Market |-> 0]

-----------------------------------------------------------------------------
(* The venue.  A market that opens during the scan is told apart from one *)
(* that was open before it.                                               *)
ListMarket(m) ==
    /\ listing[m] = "unlisted"
    /\ listing' = [listing EXCEPT ![m] = "late"]
    /\ UNCHANGED <<phase, todo, query, found, events, complete, result>>

CloseMarket(m) ==
    /\ listing[m] \in {"open", "late"}
    /\ listing' = [listing EXCEPT ![m] = "closed"]
    /\ UNCHANGED <<phase, todo, query, found, events, complete, result>>

Inside(m, w) ==
    /\ Fact[m].dated
    /\ w.lo <= Fact[m].closes /\ Fact[m].closes < w.hi

(* active=true, closed=false and the date bounds: what the query ranges over. *)
Listed ==
    IF phase = "events" THEN Event
    ELSE {m \in Market : listing[m] \in {"open", "late"} /\ Inside(m, window)}

(* A mutant: offset paging, which skips as many items as were fetched. *)
RestByOffset ==
    {i \in Listed : Cardinality({j \in Listed : j < i}) >= pages * PageSize}

(* What lies after the cursor, and the pages the venue may answer with. *)
Rest == {i \in Listed : i > cursor}

Pages ==
    {p \in SUBSET Rest : /\ p = {} <=> Rest = {}
                         /\ Cardinality(p) <= PageSize
                         /\ \A i \in p, j \in Rest : j < i => j \in p}

-----------------------------------------------------------------------------
Asking == phase \in {"primary", "fallback", "events"}

(* A query starts over: paginate_keyset's locals. *)
Ask(w) ==
    /\ window' = w
    /\ cursor' = 0 /\ seen' = {} /\ pages' = 0 /\ tries' = 0 /\ batch' = {}

(* The windows are visited from the left, depth first; after the last of *)
(* them comes the verification query.                                    *)
Visit(windows) ==
    \/ /\ windows = {}
       /\ phase' = "events"
       /\ Ask(Whole)
       /\ todo' = {}
    \/ \E w \in windows :
          /\ \A v \in windows : w.lo <= v.lo
          /\ phase' = "fallback"
          /\ Ask(w)
          /\ todo' = windows \ {w}

(* mutant of Narrow: the bisection has no floor *)
NeverNarrow(w) == FALSE

Halves(w) ==
    LET mid == (w.lo + w.hi) \div 2
    IN {[lo |-> w.lo, hi |-> mid], [lo |-> mid, hi |-> w.hi]}

Narrow(w) == w.hi - w.lo <= MinWidth

(* The primary query ends: a walk that did not exhaust is thrown away. *)
EndPrimary(ok, page) ==
    /\ phase = "primary"
    /\ \/ /\ ok
          /\ primary' = batch \cup page
          /\ Visit({})
       \/ /\ ~ok
          /\ Visit(FallbackWindows)
          /\ UNCHANGED primary
    /\ UNCHANGED <<failed, events, complete>>

(* A window ends: kept when exhausted; bisected, its items dropped, when not; *)
(* kept and reported when it is too narrow to bisect.                         *)
EndWindow(ok, page) ==
    /\ phase = "fallback"
    /\ \/ /\ ok \/ Narrow(window)
          /\ primary' = primary \cup batch \cup page
          /\ failed' = (failed \/ ~ok)
          /\ Visit(todo)
       \/ /\ ~ok /\ ~Narrow(window)
          /\ Visit(todo \cup Halves(window))
          /\ UNCHANGED found
    /\ UNCHANGED <<events, complete>>

(* The markets nested in the events of a page, as they stand by then. *)
Nested(page) == {m \in Market : EventOf[m] \in page /\ listing[m] # "unlisted"}

Verify(page) ==
    /\ verified' = verified \cup Nested(page)
    /\ lapsed' = lapsed \cup {m \in Nested(page) \ verified : listing[m] = "closed"}

(* The completeness proof: both paths ended and no window was given up. *)
Verdict(ok) == ok /\ ~failed

EndEvents(ok, page) ==
    /\ phase = "events"
    /\ Verify(page)
    /\ complete' = Verdict(ok)
    /\ phase' = "classify"
    /\ UNCHANGED <<query, todo, found>>

End(ok, page) ==
    /\ \/ EndPrimary(ok, page)
       \/ EndWindow(ok, page)
       \/ EndEvents(ok, page)
    /\ UNCHANGED <<venue, result>>

-----------------------------------------------------------------------------
(* The last page: the venue gives no further cursor, or the page is empty. *)
LastPage ==
    /\ Asking /\ pages < MaxPages
    /\ \E page \in Pages : page = Rest /\ End(TRUE, page)

(* A page with a cursor, which is the last item's. *)
NextPage ==
    /\ Asking /\ pages < MaxPages
    /\ \E page \in Pages : \E last \in page :
          /\ \A i \in page : i <= last
          /\ last \notin seen
          /\ cursor' = last /\ seen' = seen \cup {last}
          /\ pages' = pages + 1 /\ tries' = 0
          /\ IF phase = "events"
             THEN Verify(page) /\ UNCHANGED batch
             ELSE batch' = batch \cup page /\ UNCHANGED events
    /\ UNCHANGED <<venue, phase, todo, window, found, complete, result>>

(* The venue repeats a cursor: the page is taken, the walk is not exhausted. *)
RepeatedCursor ==
    /\ Asking /\ pages < MaxPages
    /\ seen # {}
    /\ \E page \in Pages \ {{}} : End(FALSE, page)

(* The emergency guard. *)
PageGuard ==
    /\ Asking /\ pages >= MaxPages
    /\ End(FALSE, {})

(* A time-out, a 429 or a 5xx: tried again, up to Retries times. *)
Retry ==
    /\ Asking /\ pages < MaxPages
    /\ tries < Retries
    /\ tries' = tries + 1
    /\ UNCHANGED <<venue, phase, todo, window, cursor, seen, pages, batch, found,
                   events, complete, result>>

(* The retries are exhausted, or the venue refuses the request (4xx). *)
PageFails ==
    /\ Asking /\ pages < MaxPages
    /\ End(FALSE, {})

(* A 404 or a body that is no object is not caught: the scan raises. *)
Raise ==
    /\ Asking /\ pages < MaxPages
    /\ phase' = "raised"
    /\ UNCHANGED <<venue, todo, query, found, events, complete, result>>

-----------------------------------------------------------------------------
Union == primary \cup verified

(* prefilter, normalisation and classify_public, on the record of the union *)
(* (the primary path's wins).                                               *)
Eligible(m) ==
    /\ Fact[m].liquid /\ Fact[m].parsed
    /\ m \in primary \/ m \notin lapsed
    /\ Fact[m].dated /\ 0 < Fact[m].closes /\ Fact[m].closes <= Span
    /\ Fact[m].tokens /\ Fact[m].tradable

Candidates == {m \in Union : Eligible(m)}

(* primary_bucket: the first edge that is not behind the close. *)
Bucket(m) ==
    CHOOSE e \in Edges : /\ Fact[m].closes <= e
                         /\ \A d \in Edges : Fact[m].closes <= d => e <= d

(* The priority decides, and among equals the order of the ids. *)
Ahead(a, b) ==
    Priority[a] > Priority[b] \/ (Priority[a] = Priority[b] /\ a < b)

(* _rank: over all directional members of the bucket. *)
RankOf(m, members) ==
    IF m \notin members THEN 0
    ELSE 1 + Cardinality({a \in members : Bucket(a) = Bucket(m) /\ Ahead(a, m)})

(* A mutant of Unscored: a market that was not enriched goes unrecorded. *)
UnscoredEnriched(enriched, scored) == enriched \ scored

(* scoring_excluded: not scored, or not even enriched. *)
Unscored(enriched, scored) == Candidates \ scored

(* Each candidate is enriched or lost, and each enriched one scored or not. *)
Analyse ==
    /\ phase = "classify"
    /\ phase' = "done"
    /\ \E enriched \in SUBSET Candidates : \E scored \in SUBSET enriched :
          /\ analysed' = scored
          /\ excluded' = Unscored(enriched, scored)
          /\ \E d \in SUBSET scored :
                /\ directional' = d
                /\ rank' = [m \in Market |-> RankOf(m, d)]
    /\ UNCHANGED <<venue, todo, query, found, events, complete>>

-----------------------------------------------------------------------------
Work ==
    \/ LastPage \/ NextPage \/ RepeatedCursor \/ PageGuard
    \/ Retry \/ PageFails \/ Raise \/ Analyse

Venue == \E m \in Market : ListMarket(m) \/ CloseMarket(m)

Next == Work \/ Venue

Spec == Init /\ [][Next]_vars

-----------------------------------------------------------------------------
(* Open since before the scan, and closing within the range. *)
Steady(m) == listing[m] = "open" /\ Inside(m, Whole)

(* Nothing that the walk has passed in this window is missing from it. *)
PassedKept ==
    phase \in {"primary", "fallback"} =>
        \A m \in Market :
            Steady(m) /\ Inside(m, window) /\ m <= cursor => m \in batch

(* Nothing is lost between the windows: a market of the range is found, or *)
(* in the window under way, or in one that is still to come.               *)
NothingDropped ==
    /\ phase = "primary" => window = Whole
    /\ phase = "fallback" =>
          \A m \in Market : Steady(m) =>
              \/ failed \/ m \in primary
              \/ \E w \in todo \cup {window} : Inside(m, w)

(* Once the primary path has ended it has everything, or says that it has not. *)
PrimaryWhole ==
    /\ phase \in {"events", "classify", "done"} =>
          failed \/ \A m \in Market : Steady(m) => m \in primary
    /\ phase \in {"classify", "done"} /\ complete => ~failed

(* The result of a scan is about its candidates, each of them once. *)
ResultWhole ==
    phase = "done" =>
        analysed \cup excluded = Candidates /\ analysed \cap excluded = {}

(* The inductive invariant. *)
IInv == TypeOK /\ PassedKept /\ NothingDropped /\ PrimaryWhole /\ ResultWhole

(* A scan that calls itself complete has every market of the range that was *)
(* open from before its start until now, however pages failed, cursors were *)
(* repeated, windows were bisected and other markets came and went          *)
(* (bounded_discovery.py: "Completeness is proven and stored").             *)
CompleteMeansWhole ==
    phase = "done" /\ complete =>
        \A m \in Market : Steady(m) => m \in Union

(* No market of the range that passes the gate vanishes between discovery and *)
(* the stored result of a complete scan: it is analysed, or recorded as       *)
(* excluded, and not both (run_scan, "honestly recorded as excluded").        *)
EligibleAccounted ==
    phase = "done" /\ complete =>
        /\ \A m \in Market : Steady(m) /\ Eligible(m) => m \in analysed \cup excluded
        /\ analysed \cap excluded = {}

=============================================================================
