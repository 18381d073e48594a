----------------------------- MODULE ExploreCache -----------------------------
(***************************************************************************)
(* The read side of the markets (service/market_service.py and             *)
(* service/sources.py): which source answers a request, with what reason,  *)
(* and the process cache of the whole universe that Explore and the facets *)
(* share.  A scan publishes itself in two steps, the scan row first and    *)
(* the markets after it, and a request reads the scan key, the markets and *)
(* the signals in three sessions, so the two interleave.                   *)
(***************************************************************************)
EXTENDS Integers, FiniteSets

CONSTANTS Req,          \* requests
          NoReq,        \* the lock's holder when it is free
          CacheSeconds, \* explore_cache_seconds
          MaxAge,       \* explore_cache_max_age_seconds
          MemoTtl,      \* live_discovery_cache_seconds
          MaxRead,      \* bound on the duration of a request's reads
          MaxScan,      \* bound on the number of scans
          XHorizon      \* bound on the clock

(* Whether a read may outlast the interval of the cache is left open.         *)
ASSUME ExploreAssumption ==
    /\ NoReq \notin Req
    /\ CacheSeconds \in Nat \ {0} /\ MaxAge \in Nat /\ MemoTtl \in Nat
    /\ MaxRead \in Nat /\ MaxScan \in Nat

VARIABLES xclock,    \* time.monotonic
          prod,      \* environment == "production"
          scanKey,   \* the latest scan's id; 0: none yet
          table,     \* the scan whose markets the table holds; 0: empty
          upserting, \* the scans recorded whose market upsert may still land
          landed,    \* history: when the markets of a scan landed; 0: not yet
          memo,      \* how long the memoised discovery page is still served; 0: none
          lock,      \* _universe_lock
          cached,    \* _universe_cache
          xpc, mode, xnow, key, got, answer \* per request

xVars == <<xclock, prod, scanKey, table, upserting, landed, memo,
           lock, cached, xpc, mode, xnow, key, got, answer>>
worldVars == <<prod, scanKey, table, upserting, landed>>

Mode == {"live", "cached", "replay"}

(* What a client sees; raced is history: a market upsert was under way.        *)
NoAnswer == [src |-> "none", reason |-> FALSE, mk |-> 0, raced |-> FALSE]

(* _UniverseCache. *)
NoCache == [ans |-> NoAnswer, loaded |-> 0, key |-> 0, checked |-> 0]

XInit ==
    /\ xclock = 1 /\ prod \in BOOLEAN
    /\ scanKey = 0 /\ table = 0 /\ upserting = {} /\ landed = [s \in 1..MaxScan |-> 0]
    /\ memo = 0
    /\ lock = NoReq /\ cached = NoCache
    /\ xpc = [r \in Req |-> "new"] /\ mode = [r \in Req |-> "live"]
    /\ xnow = [r \in Req |-> 0] /\ key = [r \in Req |-> 0]
    /\ got = [r \in Req |-> NoAnswer] /\ answer = [r \in Req |-> NoAnswer]

-----------------------------------------------------------------------------
(* record_scan commits the scan; the upsert of its markets follows, unless the *)
(* scan was incomplete, and may fail.                                          *)
RecordScan ==
    /\ scanKey < MaxScan
    /\ scanKey' = scanKey + 1
    /\ \E complete \in BOOLEAN :
          upserting' = IF complete THEN {scanKey + 1} ELSE {}
    /\ UNCHANGED <<xclock, prod, table, landed, memo, lock, cached, xpc, mode,
                   xnow, key, got, answer>>

UpsertMarkets ==
    /\ upserting # {}
    /\ upserting' = {}
    /\ \/ \E s \in upserting : table' = s /\ landed' = [landed EXCEPT ![s] = xclock]
       \/ UNCHANGED <<table, landed>>
    /\ UNCHANGED <<xclock, prod, scanKey, memo, lock, cached, xpc, mode, xnow,
                   key, got, answer>>

Reading(r) == xpc[r] \in {"validate", "key", "markets", "select", "signals"}

(* Time passes; the reads of one request are bounded. *)
XAdvance ==
    /\ xclock < XHorizon
    /\ \A r \in Req : Reading(r) => xclock < xnow[r] + MaxRead
    /\ xclock' = xclock + 1
    /\ memo' = IF memo > 0 THEN memo - 1 ELSE 0
    /\ UNCHANGED <<worldVars, lock, cached, xpc, mode, xnow, key, got, answer>>

-----------------------------------------------------------------------------
(* _replay_allowed *)
ReplayAllowed == ~prod

(* LiveSource.markets: the memoised page, or a fetch that succeeds or fails; a *)
(* success is memoised in production, a failure never.  Only live is probed.   *)
LiveMarkets(m, up) ==
    /\ memo > 0 => up
    /\ memo' = IF prod /\ up /\ memo = 0 /\ m # "cached" THEN MemoTtl ELSE memo

(* _select_source: the sources that may answer a request of mode m, with      *)
(* whether a reason is given; none: UpstreamUnavailable.  The persisted cache *)
(* is wired.  The probe for its rows may fail and then counts as empty.       *)
SelectedSource(m, up) ==
    CASE m = "replay" /\ ReplayAllowed -> {<<"replay", FALSE>>}
      [] m = "cached"                  -> {<<"cached", FALSE>>}
      [] up                            -> {<<"live", FALSE>>}
      [] OTHER -> (IF table # 0 THEN {<<"cached", TRUE>>} ELSE {})
                    \cup {<<IF ReplayAllowed THEN "replay" ELSE "none", TRUE>>}

(* A handler over _select_source alone: overview, signals, status, detail.     *)
Direct(r) ==
    /\ xpc[r] = "new"
    /\ \E m \in Mode, up \in BOOLEAN : \E s \in SelectedSource(m, up) :
          /\ LiveMarkets(m, up)
          /\ mode' = [mode EXCEPT ![r] = m]
          /\ xpc' = [xpc EXCEPT ![r] = "done"]
          /\ answer' = [answer EXCEPT ![r] =
                [src |-> s[1], reason |-> s[2],
                 mk |-> IF s[1] = "cached" THEN table ELSE 0, raced |-> FALSE]]
    /\ UNCHANGED <<xclock, worldVars, lock, cached, xnow, key, got>>

-----------------------------------------------------------------------------
(* list_markets and facets.  Outside production there is no cache and no lock. *)
Explore(r) ==
    /\ xpc[r] = "new"
    /\ \E m \in Mode : mode' = [mode EXCEPT ![r] = m]
    /\ xpc' = [xpc EXCEPT ![r] = IF prod THEN "wait" ELSE "markets"]
    /\ xnow' = [xnow EXCEPT ![r] = IF prod THEN 0 ELSE xclock]
    /\ UNCHANGED <<xclock, worldVars, memo, lock, cached, key, got, answer>>

ServeAnswer(r, a) ==
    /\ answer' = [answer EXCEPT ![r] = a]
    /\ xpc' = [xpc EXCEPT ![r] = "done"]
    /\ got' = [got EXCEPT ![r] = NoAnswer]
    /\ xnow' = [xnow EXCEPT ![r] = 0] /\ key' = [key EXCEPT ![r] = 0]

(* mutant of Holdable: the universe is held for as long as no scan lands *)
HoldableForever(c, at) == c.key # 0 /\ c.ans.src = "cached"

(* What a lapsed entry must be to be revalidated instead of read again. *)
Holdable(c, at) == c.key # 0 /\ c.ans.src = "cached" /\ at - c.loaded < MaxAge

Fresh == cached.ans.src # "none" /\ xclock - cached.checked < CacheSeconds
locals == <<got, key, answer>>

(* The lock is taken: serve a fresh entry, revalidate a lapsed one, or drop it *)
(* and read anew.                                                              *)
EnterFresh(r) ==
    /\ xpc[r] = "wait" /\ lock = NoReq /\ Fresh
    /\ ServeAnswer(r, cached.ans)
    /\ UNCHANGED <<xclock, worldVars, memo, mode, lock, cached>>

EnterLapsed(r) ==
    /\ xpc[r] = "wait" /\ lock = NoReq /\ ~Fresh
    /\ lock' = r
    /\ xnow' = [xnow EXCEPT ![r] = xclock]
    /\ IF Holdable(cached, xclock)
       THEN xpc' = [xpc EXCEPT ![r] = "validate"] /\ UNCHANGED cached
       ELSE xpc' = [xpc EXCEPT ![r] = "key"] /\ cached' = NoCache
    /\ UNCHANGED <<xclock, worldVars, memo, mode, locals>>

(* The revalidation: the same scan key keeps the entry, checked at the time the *)
(* request read before; another key, or a failed read, drops it.                *)
Validate(r) ==
    /\ xpc[r] = "validate"
    /\ \/ /\ cached.key = scanKey
          /\ cached' = [cached EXCEPT !.checked = xnow[r]]
          /\ ServeAnswer(r, cached.ans) /\ lock' = NoReq
       \/ /\ xpc' = [xpc EXCEPT ![r] = "key"]
          /\ cached' = NoCache /\ UNCHANGED <<locals, lock, xnow>>
    /\ UNCHANGED <<xclock, worldVars, memo, mode>>

(* The key under which the universe will be held; a failed read gives none. *)
ReadKey(r) ==
    /\ xpc[r] = "key"
    /\ \E k \in {0, scanKey} : key' = [key EXCEPT ![r] = k]
    /\ xpc' = [xpc EXCEPT ![r] = "markets"]
    /\ UNCHANGED <<xclock, worldVars, memo, lock, cached, mode, xnow, got, answer>>

(* An error of the store, or no source, ends the request and frees the lock. *)
FailRead(r) ==
    /\ ServeAnswer(r, NoAnswer)
    /\ lock' = IF lock = r THEN NoReq ELSE lock

Got(r, src, reason) ==
    /\ xpc' = [xpc EXCEPT ![r] = "signals"]
    /\ got' = [got EXCEPT ![r] = [src |-> src, reason |-> reason,
                   mk |-> IF src = "cached" THEN table ELSE 0, raced |-> upserting # {}]]
    /\ UNCHANGED <<lock, xnow, key, answer>>

(* _read_explore_universe: the complete persisted universe first, unless replay *)
(* is asked for and allowed.                                                    *)
PersistedFirst(r) == table # 0 /\ ~(mode[r] = "replay" /\ ReplayAllowed)

ReadMarkets(r) ==
    /\ xpc[r] = "markets"
    /\ \/ PersistedFirst(r) /\ Got(r, "cached", TRUE)
       \/ /\ ~PersistedFirst(r)
          /\ xpc' = [xpc EXCEPT ![r] = "select"] /\ UNCHANGED <<locals, lock, xnow>>
       \/ FailRead(r)
    /\ UNCHANGED <<xclock, worldVars, memo, cached, mode>>

(* Otherwise the selected source, read at once; either step may fail. *)
SelectSource(r) ==
    /\ xpc[r] = "select"
    /\ \E up \in BOOLEAN : \E s \in SelectedSource(mode[r], up) :
          /\ LiveMarkets(mode[r], up)
          /\ FailRead(r) \/ (s[1] # "none" /\ Got(r, s[1], s[2]))
    /\ UNCHANGED <<xclock, worldVars, cached, mode>>

(* The signals of the latest scan, and the entry stored under the lock. *)
ReadSignals(r) ==
    /\ xpc[r] = "signals"
    /\ \/ /\ ServeAnswer(r, got[r])
          /\ lock' = IF prod THEN NoReq ELSE lock
          /\ cached' = IF prod THEN [ans |-> got[r], loaded |-> xclock, key |-> key[r],
                                      checked |-> xclock]
                       ELSE cached
       \/ FailRead(r) /\ UNCHANGED cached
    /\ UNCHANGED <<xclock, worldVars, memo, mode>>

(* The answer is out; the slot serves another request. *)
NextRequest(r) ==
    /\ xpc[r] = "done"
    /\ xpc' = [xpc EXCEPT ![r] = "new"]
    /\ mode' = [mode EXCEPT ![r] = "live"]
    /\ answer' = [answer EXCEPT ![r] = NoAnswer]
    /\ UNCHANGED <<xclock, worldVars, memo, lock, cached, xnow, key, got>>

XNext ==
    \/ RecordScan \/ UpsertMarkets \/ XAdvance
    \/ \E r \in Req :
          \/ Direct(r) \/ Explore(r) \/ EnterFresh(r) \/ EnterLapsed(r) \/ Validate(r)
          \/ ReadKey(r) \/ ReadMarkets(r) \/ SelectSource(r) \/ ReadSignals(r)
          \/ NextRequest(r)

-----------------------------------------------------------------------------
Newer(a) == {s \in 1..MaxScan : a.mk < s /\ s <= table /\ landed[s] > 0}
StaleBound(a) ==
    IF a.raced THEN MaxAge + CacheSeconds + 2 * MaxRead ELSE CacheSeconds + MaxRead

(* An answer from the persisted universe misses markets that landed since for   *)
(* less than the cache's interval; only a read that came between a scan and its *)
(* market upsert is kept longer, and then for less than the hard maximum age.   *)
(* Either time begins with a read and its renewal with another.                 *)
ExploreFresh ==
    [][\A r \in Req : answer[r] # answer'[r] /\ answer'[r].src = "cached" =>
          \A s \in Newer(answer'[r]) : xclock - landed[s] < StaleBound(answer'[r])]_xVars

-----------------------------------------------------------------------------
(* The inductive invariant of the proof.                                       *)
Answers == [src : {"none", "live", "cached", "replay"}, reason : BOOLEAN, mk : 0..MaxScan,
            raced : BOOLEAN]

ExploreTypeOK ==
    /\ xclock \in Nat /\ prod \in BOOLEAN /\ memo \in Nat
    /\ scanKey \in 0..MaxScan /\ table \in 0..scanKey /\ upserting \subseteq {scanKey}
    /\ landed \in [1..MaxScan -> 0..xclock]
    /\ lock \in Req \cup {NoReq}
    /\ cached \in [ans : Answers, loaded : 0..xclock, key : 0..scanKey, checked : 0..xclock]
    /\ xpc \in [Req -> {"new", "wait", "validate", "key", "markets", "select", "signals",
                        "done"}]
    /\ mode \in [Req -> Mode] /\ xnow \in [Req -> 0..xclock] /\ key \in [Req -> 0..scanKey]
    /\ got \in [Req -> Answers] /\ answer \in [Req -> Answers]

(* The table goes forward: an upsert under way is of a later scan than it holds. *)
TableGoesForward ==
    /\ \A s \in upserting : table < s
    /\ \A s \in 1..MaxScan : landed[s] > 0 => s <= table

(* Who reads holds the lock where there is one, and is not past its bound.       *)
ReadersHold ==
    \A r \in Req :
        /\ Reading(r) => xclock <= xnow[r] + MaxRead
        /\ IF prod THEN Reading(r) <=> lock = r
           ELSE lock = NoReq /\ xpc[r] \notin {"wait", "validate", "key"}
        /\ xpc[r] = "validate" =>
              cached.ans.src = "cached" /\ xnow[r] - cached.loaded < MaxAge

(* What was read at a time, under a key: it lacks what landed later, and nothing *)
(* while the key is current, unless an upsert was under way.                     *)
ReadAt(a, at, k) ==
    /\ \A s \in Newer(a) : at <= landed[s]
    /\ ~a.raced /\ k = scanKey => Newer(a) = {} /\ upserting = {}

ReadsCurrent == \A r \in Req :
    xpc[r] = "signals" /\ got[r].src = "cached" => ReadAt(got[r], xnow[r], key[r])

(* The entry is one that was read like that, and it was checked while it stood.  *)
EntryCurrent ==
    cached.ans.src = "cached" =>
        /\ ReadAt(cached.ans, cached.loaded - MaxRead, cached.key)
        /\ ~cached.ans.raced =>
              \A s \in Newer(cached.ans) : cached.checked <= landed[s] + MaxRead
        /\ cached.checked <= cached.loaded \/ cached.checked < cached.loaded + MaxAge

ExploreInv ==
    /\ ExploreTypeOK /\ TableGoesForward /\ ReadersHold /\ ReadsCurrent /\ EntryCurrent

=============================================================================
