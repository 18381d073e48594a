------------------------------ MODULE SignalBoard ------------------------------
(***************************************************************************)
(* discovery/signal_service.py and trajectory.py: what the API says of the *)
(* stored scans.  Scans are appended (scan_store.py), a freeze makes some  *)
(* of them permanent and retention prunes the others; a request reads the  *)
(* latest scan, its rows and the history of the rows' markets in three     *)
(* queries, between which the jobs go on.                                  *)
(***************************************************************************)
EXTENDS Integers, FiniteSets, SequencesExt, Orders

CONSTANTS Market,          \* market ids, which break the last tie
          Row,             \* what a scan may say of a market: [direction, strength, priority,
                           \*   category, hours]
          Request,         \* [kind, scope, category, window, sort]
          PublicN,         \* public top of a bucket
          Hours6,          \* bound of the first bucket and window
          DisplayLimit,    \* [category -> limit], opportunity_display_limit
          HistoryLimit,    \* rows snapshots_for_markets keeps of a market
          KeepFor,         \* retention window
          Threshold,       \* STABILITY_THRESHOLD
          StaleAfter,      \* STALE_AFTER_SECONDS
          RefreshInterval, \* REFRESH_INTERVAL_SECONDS
          BackTo,          \* the spans of change_15m, change_1h, change_6h
          LastTime         \* bound on the clock

ASSUME SignalAssumption ==
    /\ Market \subseteq Int /\ IsFiniteSet(Market)
    /\ \A r \in Row : r.strength \in Int /\ r.priority \in Int
    /\ \A q \in Request : DisplayLimit[q.category] \in Nat
    /\ HistoryLimit \in Nat \ {0} /\ RefreshInterval \in Nat \ {0}

VARIABLES wall,  \* the clock
          scans, \* stored scans, oldest first: [at, complete, rows, kept]
          view   \* the request in progress, or answered

gVars == <<wall, scans, view>>
NoView == [pc |-> "none"]
NotSeen == [direction |-> "absent"]

GInit == wall = 0 /\ scans = <<>> /\ view = NoView

-----------------------------------------------------------------------------
(* Ranks (scan_service._rank): directional rows by priority, strength and id.  *)
Seen(s) == {m \in Market : s.rows[m] # NotSeen}
Directional(r) == r.direction \in {"up", "down"}
Calls(s) == {m \in Seen(s) : Directional(s.rows[m])}
Outranks(s, a, b) ==
    LET x == s.rows[a]
        y == s.rows[b]
    IN \/ x.priority > y.priority
       \/ x.priority = y.priority /\ x.strength > y.strength
       \/ x.priority = y.priority /\ x.strength = y.strength /\ a < b
Ranking(s, set) == InOrder({p \in set \X set : Outranks(s, p[1], p[2])}, set)
Bucket(r) == IF r.hours <= Hours6 THEN "0-6h" ELSE "6h-30d"
SameBucket(s, m) == {n \in Calls(s) : Bucket(s.rows[n]) = Bucket(s.rows[m])}
RankOfRow(s, m) == IF m \in Calls(s)
                   THEN 1 + Cardinality({n \in SameBucket(s, m) : Outranks(s, n, m)}) ELSE 0

InCategory(filter, r) == filter = "All" \/ r.category = filter

(* signals: scope, then category, over the whole scan; a missing rank sorts last. *)
InScope(s, m, scope) ==
    CASE scope = "public" -> m \in Calls(s) /\ RankOfRow(s, m) <= PublicN
      [] scope = "shadow" -> m \in Calls(s) /\ RankOfRow(s, m) > PublicN
      [] scope = "full" -> TRUE
      [] OTHER -> m \in Calls(s)
Metric(r, sort) ==
    IF sort \in {"strength_desc", "strength_asc"} THEN r.strength ELSE r.priority
SortedBefore(s, a, b, sort) ==
    LET x == Metric(s.rows[a], sort)
        y == Metric(s.rows[b], sort)
        i == RankOfRow(s, a)
        j == RankOfRow(s, b)
    IN IF x # y THEN IF sort \in {"strength_desc", "priority_desc"} THEN x > y ELSE x < y
       ELSE IF (i = 0) # (j = 0) THEN i # 0
       ELSE IF i # j THEN i < j ELSE a < b
SignalRows(s, q) ==
    LET set == {m \in Seen(s) : InScope(s, m, q.scope) /\ InCategory(q.category, s.rows[m])}
    IN  InOrder({p \in set \X set : SortedBefore(s, p[1], p[2], q.sort)}, set)

(* opportunities: rank all, then filter by category, then cut. *)
InWindow(r, window) == window = "all" \/ (r.hours > 0 /\ r.hours <= Hours6)

OpportunityRows(s, q) ==
    LET ranked == Ranking(s, {m \in Calls(s) : InWindow(s.rows[m], q.window)})
        chosen == Kept(ranked, {m \in Seen(s) : InCategory(q.category, s.rows[m])})
    IN SubSeq(chosen, 1, Min({Len(chosen), DisplayLimit[q.category]}))

RowsFor(s, q) == IF q.kind = "signals" THEN SignalRows(s, q) ELSE OpportunityRows(s, q)

-----------------------------------------------------------------------------
(* snapshots_for_markets: oldest first, the first HistoryLimit of a market.    *)
Recorded(m) == Kept(scans, {s \in ToSet(scans) : s.rows[m] # NotSeen})
HistoryOf(m) == SubSeq(Recorded(m), 1, Min({Len(Recorded(m)), HistoryLimit}))

(* _at_or_before: the newest reading that old. *)
AtOrBefore(h, t) ==
    LET old == {i \in DOMAIN h : h[i].at <= t} IN IF old = {} THEN 0 ELSE Max(old)

(* compute_trajectory of market m over history h; a change is a set with at *)
(* most one number, empty when there is no reading that old.                *)
ChangedSince(h, m, span) ==
    LET ref == AtOrBefore(h, h[Len(h)].at - span)
    IN IF ref \in {0, Len(h)} THEN {} ELSE {h[Len(h)].rows[m].strength - h[ref].rows[m].strength}
Reversed(h, m) ==
    /\ Len(h) >= 2 /\ Directional(h[Len(h)].rows[m]) /\ Directional(h[Len(h) - 1].rows[m])
    /\ h[Len(h)].rows[m].direction # h[Len(h) - 1].rows[m].direction
Consecutive(h, m) ==
    LET d == h[Len(h)].rows[m].direction
        broken == {0} \cup {i \in DOMAIN h : h[i].rows[m].direction # d}
    IN IF d \in {"up", "down"} THEN Len(h) - Max(broken) ELSE 0
Label(h, m, t) ==
    LET change == h[Len(h)].rows[m].strength - h[Len(h) - 1].rows[m].strength
    IN IF t - h[Len(h)].at > StaleAfter THEN "stale"
       ELSE IF Len(h) = 1 THEN "new"
       ELSE IF Reversed(h, m) THEN "reversed"
       ELSE IF change > Threshold THEN "strengthening"
       ELSE IF change < -Threshold THEN "weakening" ELSE "stable"
Trajectory(h, m, t) ==
    IF h = <<>> THEN [label |-> "unavailable", scans |-> 0, ends |-> -1]
    ELSE [label |-> Label(h, m, t), scans |-> Len(h), ends |-> h[Len(h)].at,
          changes |-> [i \in DOMAIN BackTo |-> ChangedSince(h, m, BackTo[i])],
          run |-> Consecutive(h, m), turned |-> Reversed(h, m)]

(* freshness of the latest scan. *)
Freshness(age) == IF age <= 2 * RefreshInterval THEN "fresh"
                  ELSE IF age <= 6 * RefreshInterval THEN "refresh_delayed" ELSE "out_of_date"

-----------------------------------------------------------------------------
(* The scheduled refresh appends a scan, header and rows in one commit; a scan   *)
(* whose discovery fell short is stored too, and its header says so.             *)
StoreScan ==
    /\ scans # <<>> => wall - Last(scans).at >= RefreshInterval
    /\ \E rows \in [Market -> Row \cup {NotSeen}], complete \in BOOLEAN :
         scans' = Append(scans, [at |-> wall, complete |-> complete, rows |-> rows,
                                 kept |-> FALSE])
    /\ UNCHANGED <<wall, view>>

(* A cohort freezes a complete scan, the latest or one that is named; it is then *)
(* never pruned.                                                                 *)
FreezeScan ==
    \E i \in DOMAIN scans :
        /\ scans[i].complete /\ ~scans[i].kept
        /\ scans' = [scans EXCEPT ![i].kept = TRUE]
        /\ UNCHANGED <<wall, view>>

(* Candidates for pruning are older than the hot window. *)
InHotWindow(s) == s.at >= wall - KeepFor

(* By age and cohort alone, the current scan too. *)
RetainedByAge(s) == s.kept \/ InHotWindow(s)

(* What run_retention leaves: the scans of the cohorts, the latest complete one *)
(* and those in the hot window.  The latest of all, if incomplete, may go.      *)
LatestComplete(s) ==
    s.complete /\ \A i \in DOMAIN scans : scans[i].complete => scans[i].at <= s.at
Retained(s) == s.kept \/ LatestComplete(s) \/ InHotWindow(s)

Prune ==
    /\ \E i \in DOMAIN scans : ~Retained(scans[i])
    /\ scans' = Kept(scans, {s \in ToSet(scans) : Retained(s)})
    /\ UNCHANGED <<wall, view>>

(* The three queries of a request. *)
ReadLatest(q) ==
    /\ view.pc \in {"none", "answered"} /\ scans # <<>>
    /\ view' = [pc |-> "latest", q |-> q, scan |-> Last(scans)]
    /\ UNCHANGED <<wall, scans>>

ReadRows ==
    /\ view.pc = "latest"
    /\ view' = [pc |-> "rows", q |-> view.q, scan |-> view.scan,
                rows |-> IF \E i \in DOMAIN scans : scans[i].at = view.scan.at
                         THEN RowsFor(view.scan, view.q) ELSE <<>>]
    /\ UNCHANGED <<wall, scans>>

AttachTrajectory ==
    /\ view.pc = "rows"
    /\ view' = [pc |-> "answered", q |-> view.q, scan |-> view.scan, rows |-> view.rows,
                latest |-> \A i \in DOMAIN scans : scans[i].at <= view.scan.at,
                recent |-> InHotWindow(view.scan),
                fresh |-> Freshness(wall - view.scan.at),
                paths |-> [i \in DOMAIN view.rows |->
                             Trajectory(HistoryOf(view.rows[i]), view.rows[i], wall)]]
    /\ UNCHANGED <<wall, scans>>

(* A request is over before the clock, which counts parts of an hour, moves. *)
GAdvance == /\ view.pc \in {"none", "answered"} /\ wall < LastTime
            /\ wall' = wall + 1 /\ UNCHANGED <<scans, view>>

GNext == \/ StoreScan \/ FreezeScan \/ Prune
         \/ \E q \in Request : ReadLatest(q)
         \/ ReadRows \/ AttachTrajectory \/ GAdvance

-----------------------------------------------------------------------------
Answered == view.pc = "answered"

(* "The latest complete scan is NEVER pruned, regardless of age" (retention.py: *)
(* 15), but the live surfaces serve the latest scan of any completeness.  What   *)
(* that leaves them: while the row's scan is the latest, the trajectory beside   *)
(* the row reaches it, until the market has more snapshots than one read takes,  *)
(* or the scan is incomplete and older than the retention window.                *)
TrajectoryReachesRow ==
    (Answered /\ view.latest /\ (view.scan.complete \/ view.recent)) =>
        \A i \in DOMAIN view.paths :
            view.paths[i].scans < HistoryLimit => view.paths[i].ends = view.scan.at

-----------------------------------------------------------------------------
Scan == [at : Nat, complete : BOOLEAN, rows : [Market -> Row \cup {NotSeen}], kept : BOOLEAN]

ScansTyped == /\ wall \in Nat /\ scans \in Seq(Scan)
              /\ \A i \in DOMAIN scans : scans[i].at <= wall
              /\ \A i, j \in DOMAIN scans : i < j => scans[i].at < scans[j].at

(* While a request is read, what it read of is still stored, or something later  *)
(* is, that retention has no more right to; what it shows was seen in its scan.  *)
Lasting(s) == s.complete \/ InHotWindow(s)
ReadsLatest ==
    view.pc \in {"latest", "rows"} =>
        /\ view.scan \in Scan /\ view.q \in Request
        /\ Lasting(view.scan) => \E i \in DOMAIN scans :
               /\ Lasting(scans[i])
               /\ \/ scans[i].at > view.scan.at
                  \/ scans[i].at = view.scan.at /\ scans[i].rows = view.scan.rows
RowsSeen == view.pc = "rows" => view.rows \in Seq(Seen(view.scan))

SignalInv == ScansTyped /\ ReadsLatest /\ RowsSeen /\ TrajectoryReachesRow
=============================================================================
