------------------------------- MODULE MCReads -------------------------------
(***************************************************************************)
(* What a reader sees: calls of run_refresh over the scan lock (the horizon *)
(* lets a lock left by a crash expire and be reclaimed by two calls at      *)
(* once), requests for research answers, whose names are those of the       *)
(* calls, and pages of the list.  A behaviour moves one part, the others    *)
(* rest in their first state.                                               *)
(***************************************************************************)
EXTENDS ScanLock, ResearchCache, ExploreList, TLC

CONSTANT Parts \* the parts that the run explores

VARIABLE part \* the part that moves in this behaviour

Kind(volume, volume24, liquidity, end, raw, tags, status, words) ==
    [volume |-> volume, volume24 |-> volume24, liquidity |-> liquidity, end |-> end,
     raw |-> raw, tags |-> tags, status |-> status, words |-> words]
MCItemAt == <<1, 2, 3, 4>>
MCKindOf == <<Kind(2, 1, 1, 0, "Politics", {"geopolitics"}, "open", {"a"}),
              Kind(2, 3, 1, 8, "Economy", {"commodities"}, "open", {"b"}),
              Kind(1, 1, 2, -1, "Bitcoin", {"crypto", "technology"}, "closed", {"a", "b"}),
              Kind(0, 1, 1, 31, "Commodity", {"geopolitics"}, "open", {"a"})>>
Stored(strength, category) == [strength |-> strength, category |-> category]
MCSnapOf == <<Stored(2, "politics"), Stored(1, "none"), Stored(-1, "none"), Stored(2, "none")>>
MCQuery == [category : {"All", "politics", "commodities"}, words : {{}, {"a"}},
            status : {"any", "open"}, closing : {"any", "week", "month", "later"},
            sort : {"volume", "volume_24hr", "liquidity", "end_date",
                    "signal_desc", "signal_asc"}]

ReadSymmetry == Permutations(Proc) \cup Permutations(Key)

-----------------------------------------------------------------------------
PartsInit ==
    /\ part \in Parts
    /\ Init
    /\ RInit
    /\ EInit
    /\ part # "list" => universe = ItemAt /\ asked = CHOOSE q \in Query : Acceptable(q.category)

PartsNext ==
    \/ part = "scans" /\ Next /\ UNCHANGED <<part, rVars, eVars>>
    \/ part = "research" /\ RNext /\ UNCHANGED <<part, vars, eVars>>
    \/ part = "list" /\ ENext /\ UNCHANGED <<part, vars, rVars>>

allVars == <<part, vars, rVars, eVars>>

PartsSpec == PartsInit /\ [][PartsNext]_allVars
=============================================================================
