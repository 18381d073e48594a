----------------------------- MODULE Reads_proofs ------------------------------
(***************************************************************************)
(* Proofs about the scan lock with the cache it guards, about the cached   *)
(* answers of the research API, and about the list of markets and its pages.*)
(***************************************************************************)
EXTENDS ScanLock, ResearchCache, ExploreCache, ExploreList, FiniteSetTheorems,
        WellFoundedInduction, SequenceTheorems, Counting, TLAPS

-----------------------------------------------------------------------------
(***************************************************************************)
(* The scan lock.  ScanInv is inductive: while nobody died in a scan, the  *)
(* one who scans is the holder of a row that has not expired.              *)
(***************************************************************************)

(* The first state. *)
LEMMA ScanInitHolds ==
    ASSUME Init
    PROVE  ScanInv
PROOF
<1> USE NoProcAssumption, LimitAssumption DEF Init
<1>1. TypeOK
  BY DEF TypeOK, Absent, Pc
<1>2. CallsTimely /\ CacheBehind
  BY DEF CallsTimely, CacheBehind, Alive, InScan
<1>3. RowIsHolders
  BY DEF RowIsHolders, InScan, Absent
<1> QED BY <1>1, <1>2, <1>3 DEF ScanInv

(* Time does not outrun a call. *)
LEMMA ScanAdvanceKeeps ==
    ASSUME ScanInv, Advance
    PROVE  ScanInv'
PROOF
<1> USE NoProcAssumption, LimitAssumption DEF Advance, ScanInv, lockVars, scanVars, TypeOK
<1>1. TypeOK'
  OBVIOUS
<1>2. CallsTimely'
  BY DEF CallsTimely, Alive, InScan
<1>3. (cache <= clock)'
  OBVIOUS
<1>4. ASSUME ~orphaned' PROVE RowIsHolders'
  BY <1>4 DEF RowIsHolders, InScan
<1>5. ASSUME ~orphaned' PROVE CacheBehind'
  BY <1>5 DEF CacheBehind, InScan
<1> QED BY <1>1, <1>2, <1>3, <1>4, <1>5

(* A new call reads the clock. *)
LEMMA ScanCallKeeps ==
    ASSUME ScanInv, NEW p \in Proc, Call(p)
    PROVE  ScanInv'
PROOF
<1> USE NoProcAssumption, LimitAssumption DEF Call, Goto, ScanInv, lockVars, scanVars
<1>1. TypeOK'
  BY DEF TypeOK, Pc, Absent
<1>2. CallsTimely'
  BY DEF TypeOK, CallsTimely, Alive, InScan
<1>3. (cache <= clock)'
  BY DEF TypeOK, CallsTimely
<1>4. ASSUME ~orphaned' PROVE RowIsHolders'
  BY <1>4 DEF TypeOK, RowIsHolders, CallsTimely, Alive, InScan
<1>5. ASSUME ~orphaned' PROVE CacheBehind'
  BY <1>5 DEF TypeOK, CallsTimely, RowIsHolders, CacheBehind, InScan
<1> QED BY <1>1, <1>2, <1>3, <1>4, <1>5

(* The row of a call in its scan is live, so nobody goes on to overwrite it. *)
LEMMA ScanAcquireSelectKeeps ==
    ASSUME ScanInv, NEW p \in Proc, AcquireSelect(p)
    PROVE  ScanInv'
PROOF
<1> USE NoProcAssumption, LimitAssumption DEF AcquireSelect, Decide, Live, ScanInv, lockVars, scanVars
<1>1. TypeOK'
  BY DEF TypeOK, Pc, Absent
<1>2. CallsTimely'
  BY DEF TypeOK, CallsTimely, Alive, InScan
<1>3. (cache <= clock)'
  BY DEF TypeOK, CallsTimely
<1>4. ASSUME ~orphaned' PROVE RowIsHolders'
  BY <1>4 DEF TypeOK, RowIsHolders, CallsTimely, Alive, InScan
<1>5. ASSUME ~orphaned' PROVE CacheBehind'
  BY <1>5 DEF TypeOK, CallsTimely, RowIsHolders, CacheBehind, InScan
<1> QED BY <1>1, <1>2, <1>3, <1>4, <1>5

(* The INSERT goes through only if no call is in its scan. *)
LEMMA ScanAcquireInsertKeeps ==
    ASSUME ScanInv, NEW p \in Proc, AcquireInsert(p)
    PROVE  ScanInv'
PROOF
<1> USE NoProcAssumption, LimitAssumption DEF AcquireInsert, Grant, GrantFails, Locked, ScanInv, lockVars, scanVars
<1>1. TypeOK'
  BY DEF TypeOK, Pc, Absent
<1>2. CallsTimely'
  BY DEF TypeOK, CallsTimely, Alive, InScan
<1>3. (cache <= clock)'
  BY DEF TypeOK, CallsTimely
<1>4. ASSUME ~orphaned' PROVE RowIsHolders'
  BY <1>4 DEF TypeOK, RowIsHolders, CallsTimely, Alive, InScan
<1>5. ASSUME ~orphaned' PROVE CacheBehind'
  BY <1>5 DEF TypeOK, CallsTimely, RowIsHolders, CacheBehind, InScan
<1> QED BY <1>1, <1>2, <1>3, <1>4, <1>5

(* No UPDATE is tried unless a row was left behind. *)
LEMMA ScanAcquireUpdateKeeps ==
    ASSUME ScanInv, NEW p \in Proc, AcquireUpdate(p)
    PROVE  ScanInv'
PROOF
<1> USE NoProcAssumption, LimitAssumption DEF AcquireUpdate, Grant, GrantFails, Locked, ScanInv, lockVars, scanVars
<1>1. TypeOK'
  BY DEF TypeOK, Pc, Absent
<1>2. CallsTimely'
  BY DEF TypeOK, CallsTimely, Alive, InScan
<1>3. (cache <= clock)'
  BY DEF TypeOK, CallsTimely
<1>4. ASSUME ~orphaned' PROVE RowIsHolders'
  BY <1>4 DEF TypeOK, RowIsHolders, CallsTimely, Alive, InScan
<1>5. ASSUME ~orphaned' PROVE CacheBehind'
  BY <1>5 DEF TypeOK, CallsTimely, RowIsHolders, CacheBehind, InScan
<1> QED BY <1>1, <1>2, <1>3, <1>4, <1>5

(* A scan ends under the lock. *)
LEMMA ScanScanKeeps ==
    ASSUME ScanInv, NEW p \in Proc, Scan(p)
    PROVE  ScanInv'
PROOF
<1> USE NoProcAssumption, LimitAssumption DEF Scan, ScanInv, lockVars, scanVars
<1>1. TypeOK'
  BY DEF TypeOK, Pc, Absent
<1>2. CallsTimely'
  BY DEF TypeOK, CallsTimely, Alive, InScan
<1>3. (cache <= clock)'
  BY DEF TypeOK, CallsTimely
<1>4. ASSUME ~orphaned' PROVE RowIsHolders'
  BY <1>4 DEF TypeOK, RowIsHolders, CallsTimely, Alive, InScan
<1>5. ASSUME ~orphaned' PROVE CacheBehind'
  BY <1>5 DEF TypeOK, CallsTimely, RowIsHolders, CacheBehind, InScan
<1> QED BY <1>1, <1>2, <1>3, <1>4, <1>5

(* A scan is recorded under the lock. *)
LEMMA ScanRecordKeeps ==
    ASSUME ScanInv, NEW p \in Proc, Record(p)
    PROVE  ScanInv'
PROOF
<1> USE NoProcAssumption, LimitAssumption DEF Record, AfterRecord, ScanInv, lockVars, scanVars
<1>1. TypeOK'
  <2>1. pc' \in [Proc -> Pc] /\ broken' \in [Proc -> BOOLEAN]
    BY DEF TypeOK, Pc
  <2>2. started[p] \in Nat
    BY DEF TypeOK
  <2>3. stored \subseteq Nat /\ (stored' = stored \cup {started[p]} \/ stored' = stored)
    BY DEF TypeOK
  <2>4. stored' \in SUBSET Nat
    BY <2>2, <2>3
  <2> QED BY <2>1, <2>4 DEF TypeOK
<1>2. CallsTimely'
  BY DEF TypeOK, CallsTimely, Alive, InScan
<1>3. (cache <= clock)'
  BY DEF TypeOK, CallsTimely
<1>4. ASSUME ~orphaned' PROVE RowIsHolders'
  BY <1>4 DEF TypeOK, RowIsHolders, CallsTimely, Alive, InScan
<1>5. ASSUME ~orphaned' PROVE CacheBehind'
  BY <1>5 DEF TypeOK, CallsTimely, RowIsHolders, CacheBehind, InScan
<1> QED BY <1>1, <1>2, <1>3, <1>4, <1>5

(* The cache takes a scan that began after the one it holds. *)
LEMMA ScanCacheMarketsKeeps ==
    ASSUME ScanInv, NEW p \in Proc, CacheMarkets(p)
    PROVE  ScanInv'
PROOF
<1> USE NoProcAssumption, LimitAssumption DEF CacheMarkets, ScanInv, lockVars, scanVars
<1>1. TypeOK'
  BY DEF TypeOK, Pc, Absent
<1>2. CallsTimely'
  BY DEF TypeOK, CallsTimely, Alive, InScan
<1>3. (cache <= clock)'
  BY DEF TypeOK, CallsTimely
<1>4. ASSUME ~orphaned' PROVE RowIsHolders'
  BY <1>4 DEF TypeOK, RowIsHolders, CallsTimely, Alive, InScan
<1>5. ASSUME ~orphaned' PROVE CacheBehind'
  BY <1>5 DEF TypeOK, CallsTimely, RowIsHolders, CacheBehind, InScan
<1> QED BY <1>1, <1>2, <1>3, <1>4, <1>5

(* A call whose session is broken leaves its row behind. *)
LEMMA ScanReleaseSelectKeeps ==
    ASSUME ScanInv, NEW p \in Proc, ReleaseSelect(p)
    PROVE  ScanInv'
PROOF
<1> USE NoProcAssumption, LimitAssumption DEF ReleaseSelect, ScanInv, lockVars, scanVars
<1>1. TypeOK'
  BY DEF TypeOK, Pc, Absent
<1>2. CallsTimely'
  BY DEF TypeOK, CallsTimely, Alive, InScan
<1>3. (cache <= clock)'
  BY DEF TypeOK, CallsTimely
<1>4. ASSUME ~orphaned' PROVE RowIsHolders'
  BY <1>4 DEF TypeOK, RowIsHolders, CallsTimely, Alive, InScan
<1>5. ASSUME ~orphaned' PROVE CacheBehind'
  BY <1>5 DEF TypeOK, CallsTimely, RowIsHolders, CacheBehind, InScan
<1> QED BY <1>1, <1>2, <1>3, <1>4, <1>5

(* The row deleted is the call's own. *)
LEMMA ScanReleaseDeleteKeeps ==
    ASSUME ScanInv, NEW p \in Proc, ReleaseDelete(p)
    PROVE  ScanInv'
PROOF
<1> USE NoProcAssumption, LimitAssumption DEF ReleaseDelete, Goto, Absent, ScanInv, lockVars, scanVars
<1>1. TypeOK'
  BY DEF TypeOK, Pc, Absent
<1>2. CallsTimely'
  BY DEF TypeOK, CallsTimely, Alive, InScan
<1>3. (cache <= clock)'
  BY DEF TypeOK, CallsTimely
<1>4. ASSUME ~orphaned' PROVE RowIsHolders'
  BY <1>4 DEF TypeOK, RowIsHolders, CallsTimely, Alive, InScan
<1>5. ASSUME ~orphaned' PROVE CacheBehind'
  BY <1>5 DEF TypeOK, CallsTimely, RowIsHolders, CacheBehind, InScan
<1> QED BY <1>1, <1>2, <1>3, <1>4, <1>5

(* A call that dies in its scan leaves its row behind. *)
LEMMA ScanDieKeeps ==
    ASSUME ScanInv, NEW p \in Proc, Die(p)
    PROVE  ScanInv'
PROOF
<1> USE NoProcAssumption, LimitAssumption DEF Die, ScanInv, lockVars, scanVars
<1>1. TypeOK'
  BY DEF TypeOK, Pc, Absent
<1>2. CallsTimely'
  BY DEF TypeOK, CallsTimely, Alive, InScan
<1>3. (cache <= clock)'
  BY DEF TypeOK, CallsTimely
<1>4. ASSUME ~orphaned' PROVE RowIsHolders'
  BY <1>4 DEF TypeOK, RowIsHolders, CallsTimely, Alive, InScan
<1>5. ASSUME ~orphaned' PROVE CacheBehind'
  BY <1>5 DEF TypeOK, CallsTimely, RowIsHolders, CacheBehind, InScan
<1> QED BY <1>1, <1>2, <1>3, <1>4, <1>5

(* The invariant that both results rest on: what holds whoever reads, scans, *)
(* writes the cache or dies next (discovery/scan_store.py).                   *)
THEOREM ScanInvariant == Spec => []ScanInv
PROOF
<1>1. Init => ScanInv
  BY ScanInitHolds
<1>2. ScanInv /\ [Next]_vars => ScanInv'
  <2> SUFFICES ASSUME ScanInv, [Next]_vars PROVE ScanInv'
    OBVIOUS
  <2>1. CASE UNCHANGED vars
    BY <2>1 DEF vars, ScanInv, TypeOK, CallsTimely, RowIsHolders, CacheBehind, Alive, InScan
  <2>2. CASE Advance
    BY <2>2, ScanAdvanceKeeps
  <2>3. ASSUME NEW p \in Proc,
               \/ Call(p) \/ AcquireSelect(p) \/ AcquireInsert(p) \/ AcquireUpdate(p)
               \/ Scan(p) \/ Record(p) \/ CacheMarkets(p)
               \/ ReleaseSelect(p) \/ ReleaseDelete(p) \/ Die(p)
        PROVE ScanInv'
    BY <2>3, ScanCallKeeps, ScanAcquireSelectKeeps, ScanAcquireInsertKeeps,
       ScanAcquireUpdateKeeps, ScanScanKeeps, ScanRecordKeeps, ScanCacheMarketsKeeps,
       ScanReleaseSelectKeeps, ScanReleaseDeleteKeeps, ScanDieKeeps
  <2> QED BY <2>1, <2>2, <2>3 DEF Next
<1> QED BY <1>1, <1>2, PTL DEF Spec

(* NoOverlapWithoutCrash: as long as no call died or failed inside its scan, *)
(* at most one is in it, for any number of calls, any lease and any limit    *)
(* below it: all of them are the row's holder.                               *)
THEOREM ScansDoNotOverlap == Spec => []NoOverlapWithoutCrash
PROOF
<1>1. ScanInv => NoOverlapWithoutCrash
  <2> SUFFICES ASSUME ScanInv, ~orphaned
               PROVE  Cardinality({p \in Proc : InScan(p)}) <= 1
    BY DEF NoOverlapWithoutCrash, NoOverlappingScans
  <2>1. {p \in Proc : InScan(p)} \in SUBSET {row.holder}
    BY DEF ScanInv, RowIsHolders
  <2>2. IsFiniteSet({row.holder}) /\ Cardinality({row.holder}) = 1
    BY FS_Singleton
  <2>3. /\ IsFiniteSet({p \in Proc : InScan(p)})
        /\ Cardinality({p \in Proc : InScan(p)}) <= Cardinality({row.holder})
    BY <2>1, <2>2, FS_Subset
  <2> QED BY <2>2, <2>3, FS_CardinalityType
<1> QED BY <1>1, ScanInvariant, PTL

(* CacheNeverOlder: without such a crash no step replaces the cached markets *)
(* by those of an earlier scan.                                              *)
THEOREM CacheGoesForward == Spec => CacheNeverOlder
PROOF
<1>1. ScanInv /\ [Next]_vars => [~orphaned => cache' >= cache]_vars
  <2> SUFFICES ASSUME ScanInv, Next, ~orphaned PROVE cache' >= cache
    OBVIOUS
  <2>1. cache \in Int
    BY DEF ScanInv, TypeOK
  <2>2. ASSUME NEW p \in Proc, CacheMarkets(p) PROVE cache' >= cache
    BY <2>1, <2>2 DEF CacheMarkets, ScanInv, CacheBehind, InScan, TypeOK
  <2>3. ASSUME NEW p \in Proc,
               \/ Call(p) \/ AcquireSelect(p) \/ AcquireInsert(p) \/ AcquireUpdate(p)
               \/ Scan(p) \/ Record(p)
               \/ ReleaseSelect(p) \/ ReleaseDelete(p) \/ Die(p)
        PROVE cache' = cache
    BY <2>3 DEF Call, AcquireSelect, AcquireInsert, AcquireUpdate, Scan, Record,
                ReleaseSelect, ReleaseDelete, Die, scanVars
  <2>4. Advance => cache' = cache
    BY DEF Advance, scanVars
  <2> QED BY <2>1, <2>2, <2>3, <2>4 DEF Next
<1> QED BY <1>1, ScanInvariant, PTL DEF Spec, CacheNeverOlder

-----------------------------------------------------------------------------
(***************************************************************************)
(* The research cache.  ResearchInv is inductive: who computes or waits is on*)
(* the queue of the lock of the key, and an entry's version speaks of the  *)
(* rows that its computation saw.                                          *)
(***************************************************************************)

(* The rows of a set have a highest id. *)
LEMMA HighestIsHighest ==
  ASSUME NEW S \in SUBSET (1..Rows)
  PROVE  /\ Highest(S) \in Nat
         /\ S # {} => Highest(S) \in S
         /\ \A i \in S : i <= Highest(S)
<1>1. CASE S = {}
  BY <1>1 DEF Highest
<1>2. CASE S # {}
  <2> DEFINE R == {ss \in Nat \X Nat : ss[1] < ss[2]}
             T == {Rows - i : i \in S}
  <2>1. IsWellFoundedOn(R, Nat)
    BY NatLessThanWellFounded DEF OpToRel
  <2>2. T \subseteq Nat /\ T # {}
    <3>1. \A i \in S : Rows - i \in Nat
      BY CacheAssumption
    <3> QED BY <1>2, <3>1
  <2> HIDE DEF T, R
  <2>3. PICK x \in T : \A y \in T : ~(<<y, x>> \in R)
    BY <2>1, <2>2, WFMin
  <2>4. \A y \in T : x <= y
    <3> TAKE y \in T
    <3>1. x \in Nat /\ y \in Nat
      BY <2>2
    <3>2. ~(y < x)
      BY <3>1, <2>3 DEF R
    <3> QED
      BY <3>1, <3>2, SMT
  <2>5. PICK m \in S : x = Rows - m
    BY DEF T
  <2>6. \A i \in S : i <= m
    <3> TAKE i \in S
    <3>1. x <= Rows - i
      BY <2>4 DEF T
    <3> QED
      BY <2>5, <3>1, CacheAssumption, SMT
  <2>7. Highest(S) \in S /\ \A i \in S : i <= Highest(S)
    BY <1>2, <2>6 DEF Highest
  <2>8. S \subseteq Nat
    BY CacheAssumption, SMT
  <2> QED
    BY <2>7, <2>8
<1> QED
  BY <1>1, <1>2

(* The answers but one. *)
LEMMA OthersOfKey ==
  ASSUME ResearchInv, NEW k \in Key
  PROVE  /\ Others(k) \in Seq(Answer) /\ Len(Others(k)) <= Len(entries)
         /\ k \in Keys(entries) => Len(Others(k)) = Len(entries) - 1
         /\ \A i \in DOMAIN Others(k) :
               \E j \in DOMAIN entries : Others(k)[i] = entries[j] /\ entries[j].key # k
         /\ \A i, j \in DOMAIN Others(k) : Others(k)[i].key = Others(k)[j].key => i = j
         /\ Keys(Others(k)) = Keys(entries) \ {k}
<1>1. /\ entries \in Seq(Answer) /\ Len(entries) \in Nat /\ DOMAIN entries = 1..Len(entries)
      /\ \A i, j \in DOMAIN entries : entries[i].key = entries[j].key => i = j
  BY SMT DEF ResearchInv, ResearchTypeOK, AnswersSound
<1>2. CASE k \notin Keys(entries)
  <2>1. Others(k) = entries /\ \A j \in DOMAIN entries : entries[j].key # k
    BY <1>2 DEF Others, Keys
  <2>2. Len(entries) <= Len(entries)
    BY <1>1, SMT
  <2>3. Keys(entries) = Keys(entries) \ {k}
    BY <1>2
  <2>4. \A i \in DOMAIN entries :
           \E j \in DOMAIN entries : entries[i] = entries[j] /\ entries[j].key # k
    BY <2>1
  <2> QED
    BY <1>1, <1>2, <2>1, <2>2, <2>3, <2>4
<1>3. CASE k \in Keys(entries)
  <2> DEFINE p == Place(k)
             f == Others(k)
             n == Len(entries)
  <2>1. p \in 1..n /\ entries[p].key = k
    BY <1>1, <1>3 DEF Place, Keys
  <2>2. f = SubSeq(entries, 1, p - 1) \o SubSeq(entries, p + 1, n)
    BY <1>3 DEF Others, RemoveAt
  <2>3. /\ f \in Seq(Answer) /\ Len(f) = n - 1
        /\ \A i \in 1..(n - 1) : f[i] = IF i < p THEN entries[i] ELSE entries[i + 1]
    <3> HIDE DEF p, f
    <3> DEFINE a == SubSeq(entries, 1, p - 1)
               b == SubSeq(entries, p + 1, n)
    <3>1. a \in Seq(Answer) /\ Len(a) = p - 1 /\ \A i \in 1..(p - 1) : a[i] = entries[i]
      BY <1>1, <2>1, SMT
    <3>2. b \in Seq(Answer) /\ Len(b) = n - p /\ \A i \in 1..(n - p) : b[i] = entries[p + i]
      <4>1. p + 1 \in Int /\ n \in Int /\ \A i \in (p + 1)..n : entries[i] \in Answer
        BY <1>1, <2>1, SMT
      <4> HIDE DEF n
      <4>2. /\ b \in Seq(Answer) /\ Len(b) = IF p + 1 <= n THEN n - (p + 1) + 1 ELSE 0
            /\ \A i \in 1..(n - (p + 1) + 1) : b[i] = entries[p + 1 + i - 1]
        BY <4>1, SubSeqProperties
      <4>3. n - (p + 1) + 1 = n - p /\ \A i \in 1..(n - p) : p + 1 + i - 1 = p + i
        BY <2>1, <4>1, SMT
      <4>4. Len(b) = n - p
        BY <2>1, <4>1, <4>2, SMT
      <4>5. \A i \in 1..(n - p) : b[i] = entries[p + i]
        <5> TAKE i \in 1..(n - p)
        <5>1. p + 1 + i - 1 = p + i /\ i \in 1..(n - (p + 1) + 1)
          BY <4>3
        <5> QED
          BY <4>2, <5>1
      <4> QED
        BY <4>2, <4>4, <4>5
    <3>3. f = a \o b
      BY <2>2
    <3> HIDE DEF a, b, n
    <3>4. n \in Nat
      BY <1>1 DEF n
    <3>5. /\ f \in Seq(Answer) /\ Len(f) = Len(a) + Len(b)
          /\ \A i \in 1..(Len(a) + Len(b)) : f[i] = IF i <= Len(a) THEN a[i] ELSE b[i - Len(a)]
      BY <3>1, <3>2, <3>3, ConcatProperties
    <3> QED
      BY <3>1, <3>2, <3>4, <3>5, <2>1, SMT
  <2> HIDE DEF p, f, n
  <2>4. n \in Nat /\ DOMAIN f = 1..(n - 1) /\ DOMAIN entries = 1..n
    BY <1>1, <2>3, SMT DEF n
  <2>5. ASSUME NEW i \in DOMAIN f
        PROVE  \E j \in DOMAIN entries : /\ f[i] = entries[j] /\ j # p
                                         /\ j = IF i < p THEN i ELSE i + 1
    BY <2>1, <2>3, <2>4, SMT
  <2>6. \A i \in DOMAIN f : \E j \in DOMAIN entries : f[i] = entries[j] /\ entries[j].key # k
    <3> TAKE i \in DOMAIN f
    <3>1. PICK j \in DOMAIN entries : f[i] = entries[j] /\ j # p
      BY <2>5
    <3>2. p \in DOMAIN entries
      BY <2>1, <2>4
    <3>3. entries[j].key # k
      BY <1>1, <2>1, <3>1, <3>2
    <3> QED
      BY <3>1, <3>3
  <2>7. ASSUME NEW i \in DOMAIN f, NEW j \in DOMAIN f, f[i].key = f[j].key PROVE i = j
    <3>1. PICK x \in DOMAIN entries : f[i] = entries[x] /\ x = IF i < p THEN i ELSE i + 1
      BY <2>5
    <3>2. PICK y \in DOMAIN entries : f[j] = entries[y] /\ y = IF j < p THEN j ELSE j + 1
      BY <2>5
    <3>3. x = y
      BY <1>1, <2>7, <3>1, <3>2
    <3> QED
      BY <2>1, <2>4, <3>1, <3>2, <3>3, SMT
  <2>8. ASSUME NEW j \in DOMAIN entries, j # p PROVE \E i \in DOMAIN f : f[i] = entries[j]
    <3>1. CASE j < p
      BY <2>1, <2>3, <2>4, <3>1, SMT
    <3>2. CASE j > p
      <4>1. j - 1 \in DOMAIN f /\ f[j - 1] = entries[j]
        BY <2>1, <2>3, <2>4, <3>2, SMT
      <4> QED
        BY <4>1
    <3> QED
      BY <2>8, <3>1, <3>2, <2>1, <2>4, SMT
  <2>9. Keys(f) = Keys(entries) \ {k}
    <3>1. Keys(f) \subseteq Keys(entries) \ {k}
      BY <2>6 DEF Keys
    <3>2. Keys(entries) \ {k} \subseteq Keys(f)
      BY <2>1, <2>8 DEF Keys
    <3> QED
      BY <3>1, <3>2
  <2>10. Len(f) <= n /\ Len(f) = n - 1
    BY <2>3, <2>4, SMT
  <2> QED
    BY <2>3, <2>6, <2>7, <2>9, <2>10 DEF f, n
<1> QED
  BY <1>2, <1>3

(* There are more locks than keys and calls: one is always unused. *)
LEMMA UnusedExists ==
  ASSUME ResearchInv, NEW r \in Asker, rlock[r] = 0
  PROVE  \E l \in LockId : Unused(l)
<1> SUFFICES ASSUME ~\E l \in LockId : Unused(l) PROVE FALSE
  OBVIOUS
<1> DEFINE ofKeys == {locks[k] : k \in Key}
           ofCalls == {rlock[q] : q \in Asker}
           n == Cardinality(Asker) + Cardinality(Key)
<1>1. /\ IsFiniteSet(Asker) /\ IsFiniteSet(Key)
      /\ Cardinality(Asker) \in Nat /\ Cardinality(Key) \in Nat
  BY CacheAssumption, FS_CardinalityType
<1>2. IsFiniteSet(ofKeys) /\ Cardinality(ofKeys) <= Cardinality(Key)
  <2>1. locks \in Surjection(Key, ofKeys)
    BY DEF Surjection, ResearchInv, ResearchTypeOK
  <2> QED
    BY <1>1, <2>1, FS_Surjection
<1>3. IsFiniteSet(ofCalls) /\ Cardinality(ofCalls) <= Cardinality(Asker)
  <2>1. rlock \in Surjection(Asker, ofCalls)
    BY DEF Surjection, ResearchInv, ResearchTypeOK
  <2> QED
    BY <1>1, <2>1, FS_Surjection
<1>4. n \in Nat /\ LockId = 1..n
  BY <1>1, SMT DEF LockId
<1>5. 0..n \subseteq ofKeys \cup ofCalls
  <2> SUFFICES ASSUME NEW l \in 0..n PROVE l \in ofKeys \cup ofCalls
    OBVIOUS
  <2>1. CASE l = 0
    BY <2>1
  <2>2. CASE l # 0
    <3>1. l \in LockId
      BY <1>4, <2>2, SMT
    <3> QED
      BY <3>1 DEF Unused
  <2> QED
    BY <2>1, <2>2
<1> HIDE DEF ofKeys, ofCalls, n
<1>6. /\ IsFiniteSet(ofKeys \cup ofCalls)
      /\ Cardinality(ofKeys \cup ofCalls)
            = Cardinality(ofKeys) + Cardinality(ofCalls) - Cardinality(ofKeys \cap ofCalls)
  BY <1>2, <1>3, FS_Union
<1>7. Cardinality(ofKeys \cap ofCalls) \in Nat
  <2>1. IsFiniteSet(ofKeys \cap ofCalls)
    BY <1>2, FS_Intersection
  <2> QED
    BY <2>1, FS_CardinalityType
<1>8. Cardinality(ofKeys) \in Nat /\ Cardinality(ofCalls) \in Nat
  BY <1>2, <1>3, FS_CardinalityType
<1>9. Cardinality(0..n) <= Cardinality(ofKeys \cup ofCalls)
  BY <1>5, <1>6, FS_Subset
<1>10. Cardinality(0..n) = n + 1
  <2>1. Cardinality(0..n) = IF 0 > n THEN 0 ELSE n - 0 + 1
    BY <1>4, FS_Interval
  <2> QED
    BY <1>4, <2>1, SMT
<1>11. n = Cardinality(Asker) + Cardinality(Key)
  BY DEF n
<1> DEFINE a == Cardinality(Asker)
           b == Cardinality(Key)
           c == Cardinality(ofKeys)
           d == Cardinality(ofCalls)
           e == Cardinality(ofKeys \cap ofCalls)
           u == Cardinality(ofKeys \cup ofCalls)
<1>12. /\ a \in Nat /\ b \in Nat /\ c \in Nat /\ d \in Nat /\ e \in Nat
       /\ c <= b /\ d <= a /\ u = c + d - e /\ n = a + b
  BY <1>1, <1>2, <1>3, <1>6, <1>7, <1>8, <1>11
<1>13. n + 1 <= u
  BY <1>9, <1>10
<1> HIDE DEF a, b, c, d, e, u
<1> QED
  BY <1>12, <1>13, SMT

-----------------------------------------------------------------------------
(* With the tables unchanged the answers cover what they did. *)
LEMMA CoversOn ==
  ASSUME UNCHANGED tableVars
  PROVE  /\ Committed' = Committed
         /\ \A v, S : Covers(v, S)' <=> Covers(v, S)
<1>1. dataRow' = dataRow /\ overtaken' = overtaken
  BY DEF tableVars
<1> QED
  BY <1>1 DEF Covers, Committed, Version, Highest

(* ... and so they do when no call begins to compute and no answer is stored. *)
LEMMA SoundOn ==
  ASSUME AnswersSound, UNCHANGED tableVars, UNCHANGED <<entries, rval>>,
         \A q \in Asker : rpc'[q] = "compute" => rpc[q] = "compute"
  PROVE  AnswersSound'
<1>1. /\ dataRow' = dataRow /\ overtaken' = overtaken /\ entries' = entries /\ rval' = rval
  BY DEF tableVars
<1>2. Committed' = Committed /\ Version' = Version
  BY <1>1 DEF Committed, Version, Highest
<1>3. \A i \in DOMAIN entries : Covers(entries[i].ver, entries[i].val)'
  BY <1>1, <1>2 DEF AnswersSound, Covers
<1>4. \A q \in Asker : rpc'[q] = "compute" =>
         rval'[q] \subseteq Committed' /\ Covers(Highest(rval[q]), rval[q])'
  BY <1>1, <1>2 DEF AnswersSound, Covers, Highest
<1> QED
  BY <1>1, <1>3, <1>4 DEF AnswersSound, Highest, Covers

(* A call that begins joins its key's lock, or a new one. *)
LEMMA AskKeeps ==
  ASSUME ResearchInv, NEW r \in Asker, NEW k \in Key, Ask(r, k)
  PROVE  ResearchInv'
<1> DEFINE l == LockFor(k)
<1>1. /\ rpc[r] = "idle" /\ rkey' = [rkey EXCEPT ![r] = k]
      /\ locks' = [locks EXCEPT ![k] = l] /\ rlock' = [rlock EXCEPT ![r] = l]
      /\ \/ /\ Free(l) /\ holder' = [holder EXCEPT ![l] = r] /\ queue' = queue
            /\ rpc' = [rpc EXCEPT ![r] = "version"]
         \/ /\ ~Free(l) /\ queue' = [queue EXCEPT ![l] = Append(@, r)] /\ holder' = holder
            /\ rpc' = [rpc EXCEPT ![r] = "wait"]
      /\ UNCHANGED tableVars /\ UNCHANGED <<entries, rval, shaky>>
  BY DEF Ask
<1>2. rkey[r] = NoOne /\ rlock[r] = 0 /\ ResearchTypeOK
  BY <1>1 DEF ResearchInv, ResearchTypeOK
<1>3. 0 \notin LockId
  <2>1. Cardinality(Asker) + Cardinality(Key) \in Nat
    BY CacheAssumption, FS_CardinalityType, SMT
  <2> QED
    BY <2>1, SMT DEF LockId
<1>4. \/ locks[k] # 0 /\ l = locks[k] /\ l \in LockId
      \/ locks[k] = 0 /\ l \in LockId /\ Unused(l)
  <2>1. locks[k] \in LockId \cup {0}
    BY <1>2 DEF ResearchTypeOK
  <2>2. CASE locks[k] # 0
    BY <2>1, <2>2 DEF LockFor
  <2>3. CASE locks[k] = 0
    <3>1. \E u \in LockId : Unused(u)
      BY <1>2, UnusedExists
    <3>2. l = CHOOSE u \in LockId : Unused(u)
      BY <2>3 DEF LockFor
    <3> QED
      BY <2>3, <3>1, <3>2
  <2> QED
    BY <2>2, <2>3
<1> HIDE DEF l
<1>5. l \in LockId
  BY <1>4
<1>6. /\ locks' \in [Key -> LockId \cup {0}] /\ locks'[k] = l
      /\ \A j \in Key \ {k} : locks'[j] = locks[j]
      /\ rlock' \in [Asker -> LockId \cup {0}] /\ rlock'[r] = l
      /\ \A q \in Asker \ {r} : rlock'[q] = rlock[q]
      /\ rkey' \in [Asker -> Key \cup {NoOne}] /\ rkey'[r] = k
      /\ \A q \in Asker \ {r} : rkey'[q] = rkey[q]
  BY <1>1, <1>2, <1>5 DEF ResearchTypeOK
<1>7. /\ rpc' \in [Asker -> Calling \cup {"idle"}] /\ rpc'[r] \in {"version", "wait"}
      /\ \A q \in Asker \ {r} : rpc'[q] = rpc[q]
  BY <1>1, <1>2 DEF ResearchTypeOK, Calling, Inside
<1>8. /\ holder' \in [LockId -> Asker \cup {NoOne}]
      /\ \A m \in LockId : holder'[m] = IF m = l /\ Free(l) THEN r ELSE holder[m]
  BY <1>1, <1>2, <1>5 DEF ResearchTypeOK
<1>9. /\ queue' \in [LockId -> Seq(Asker)]
      /\ \A m \in LockId \ {l} : queue'[m] = queue[m]
      /\ queue'[l] = IF Free(l) THEN queue[l] ELSE Append(queue[l], r)
  <2>1. queue[l] \in Seq(Asker) /\ Append(queue[l], r) \in Seq(Asker)
    BY <1>2, <1>5 DEF ResearchTypeOK
  <2> QED
    BY <1>1, <1>2, <1>5, <2>1, ZenonT(60) DEF ResearchTypeOK
<1>10. \A q \in Asker : \A m \in LockId :
          (\E i \in DOMAIN queue[m] : queue[m][i] = q)
             => \E i \in DOMAIN queue'[m] : queue'[m][i] = q
  <2>1. queue[l] \in Seq(Asker)
    BY <1>2, <1>5 DEF ResearchTypeOK
  <2>2. \A i \in DOMAIN queue[l] : i \in DOMAIN Append(queue[l], r) /\ Append(queue[l], r)[i] = queue[l][i]
    BY <2>1, SMT
  <2>3. \A i \in DOMAIN queue[l] : i \in DOMAIN queue'[l] /\ queue'[l][i] = queue[l][i]
    BY <1>9, <2>2
  <2> QED
    BY <1>9, <2>3
<1>11. ~Free(l) => \E i \in DOMAIN queue'[l] : queue'[l][i] = r
  <2>1. queue[l] \in Seq(Asker)
    BY <1>2, <1>5 DEF ResearchTypeOK
  <2>2. \E i \in DOMAIN Append(queue[l], r) : Append(queue[l], r)[i] = r
    <3>1. Len(queue[l]) + 1 \in DOMAIN Append(queue[l], r)
          /\ Append(queue[l], r)[Len(queue[l]) + 1] = r
      BY <2>1, SMT
    <3> QED
      BY <3>1
  <2> QED
    BY <1>9, <2>2
<1>12. r \notin {NoOne} /\ NoOne \notin Asker /\ NoOne \notin Key
  BY CacheAssumption
<1>13. \A q \in Asker : rlock[q] = l => locks[k] = l /\ rpc[q] # "idle" /\ rkey[q] = k
  <2> SUFFICES ASSUME NEW q \in Asker, rlock[q] = l PROVE locks[k] = l /\ rpc[q] # "idle" /\ rkey[q] = k
    OBVIOUS
  <2>1. rpc[q] # "idle"
    BY <1>2, <1>3, <1>5 DEF ResearchTypeOK
  <2>2. locks[k] = l
    BY <1>4 DEF Unused
  <2> QED
    BY <2>1, <2>2 DEF ResearchInv, LockOfKey
<1>14. \A j \in Key \ {k} : locks[j] # l
  BY <1>3, <1>4 DEF ResearchInv, LockOfKey, Unused
<1>15. ResearchTypeOK'
  <2>1. \A q \in Asker : IF rpc'[q] = "idle" THEN rkey'[q] = NoOne /\ rlock'[q] = 0
                          ELSE rkey'[q] \in Key /\ rlock'[q] \in LockId
    BY <1>2, <1>5, <1>6, <1>7 DEF ResearchTypeOK
  <2> QED
    BY <1>1, <1>2, <1>6, <1>7, <1>8, <1>9, <2>1 DEF ResearchTypeOK, tableVars
<1>16. CallsHold'
  <2>1. ASSUME NEW m \in LockId, NEW q \in Asker
        PROVE  holder'[m] = q <=> rpc'[q] \in Inside /\ rlock'[q] = m
    <3>1. holder[m] = q <=> rpc[q] \in Inside /\ rlock[q] = m
      BY DEF ResearchInv, CallsHold
    <3>2. CASE q = r
      <4>1. holder[m] # r
        BY <1>1, <3>1, <3>2 DEF Inside
      <4>2. rpc'[r] \in Inside <=> Free(l)
        BY <1>1, <1>2 DEF Inside, ResearchTypeOK
      <4> QED
        BY <1>6, <1>8, <3>2, <4>1, <4>2
    <3>3. CASE q # r
      <4>1. rpc'[q] = rpc[q] /\ rlock'[q] = rlock[q]
        BY <1>6, <1>7, <3>3
      <4>2. m = l /\ Free(l) => holder[m] # q
        BY <1>12 DEF Free
      <4> QED
        BY <1>8, <3>1, <3>3, <4>1, <4>2
    <3> QED
      BY <3>2, <3>3
  <2>2. ASSUME NEW q \in Asker, rpc'[q] = "wait"
        PROVE  \E i \in DOMAIN queue'[rlock'[q]] : queue'[rlock'[q]][i] = q
    <3>1. CASE q = r
      <4>1. ~Free(l)
        BY <1>1, <1>2, <2>2, <3>1 DEF ResearchTypeOK
      <4> QED
        BY <1>6, <1>11, <3>1, <4>1
    <3>2. CASE q # r
      <4>1. rpc[q] = "wait" /\ rlock'[q] = rlock[q]
        BY <1>6, <1>7, <2>2, <3>2
      <4>2. rlock[q] \in LockId
        BY <1>2, <4>1 DEF ResearchTypeOK
      <4>3. \E i \in DOMAIN queue[rlock[q]] : queue[rlock[q]][i] = q
        BY <4>1 DEF ResearchInv, CallsHold, Queued
      <4> QED
        BY <1>10, <4>1, <4>2, <4>3
    <3> QED
      BY <3>1, <3>2
  <2> QED
    BY <2>1, <2>2 DEF CallsHold, Queued
<1>17. LockOfKey'
  <2>1. ASSUME NEW q \in Asker, NEW s \in Asker, rpc'[s] # "idle", rlock'[q] = rlock'[s]
        PROVE  rkey'[q] = rkey'[s]
    <3>1. CASE q # r /\ s # r
      BY <1>6, <1>7, <2>1, <3>1 DEF ResearchInv, LockOfKey
    <3>2. CASE q = r /\ s # r
      BY <1>6, <1>13, <2>1, <3>2
    <3>3. CASE q # r /\ s = r
      BY <1>6, <1>13, <2>1, <3>3
    <3> QED
      BY <3>1, <3>2, <3>3
  <2>2. ASSUME NEW s \in Asker, NEW j \in Key, rpc'[s] # "idle", locks'[j] = rlock'[s]
        PROVE  rkey'[s] = j
    <3>1. CASE s = r
      BY <1>6, <1>14, <2>2, <3>1
    <3>2. CASE s # r /\ j = k
      BY <1>6, <1>13, <2>2, <3>2
    <3>3. CASE s # r /\ j # k
      BY <1>6, <1>7, <2>2, <3>3 DEF ResearchInv, LockOfKey
    <3> QED
      BY <3>1, <3>2, <3>3
  <2>3. ASSUME NEW i \in Key, NEW j \in Key, locks'[i] = locks'[j], locks'[j] # 0
        PROVE  i = j
    BY <1>6, <1>14, <2>3 DEF ResearchInv, LockOfKey
  <2>4. ASSUME NEW s \in Asker, rpc'[s] # "idle", rkey'[s] \notin shaky'
        PROVE  locks'[rkey'[s]] = rlock'[s]
    <3>1. CASE s = r
      BY <1>6, <3>1
    <3>2. CASE s # r
      <4>1. rpc[s] # "idle" /\ rkey'[s] = rkey[s] /\ rlock'[s] = rlock[s] /\ rkey[s] \notin shaky
        BY <1>1, <1>6, <1>7, <2>4, <3>2
      <4>2. locks[rkey[s]] = rlock[s] /\ rlock[s] \in LockId /\ rkey[s] \in Key
        BY <1>2, <4>1 DEF ResearchInv, LockOfKey, ResearchTypeOK
      <4>3. CASE rkey[s] = k
        BY <1>3, <1>4, <1>6, <4>1, <4>2, <4>3
      <4>4. CASE rkey[s] # k
        BY <1>6, <4>1, <4>2, <4>4
      <4> QED
        BY <4>3, <4>4
    <3> QED
      BY <3>1, <3>2
  <2> QED
    BY <2>1, <2>2, <2>3, <2>4 DEF LockOfKey
<1>18. LocksOwned'
  <2> SUFFICES ASSUME NEW j \in Key, j \notin shaky', locks'[j] # 0, j \notin Keys(entries)'
               PROVE  \E q \in Asker : rkey'[q] = j
    BY DEF LocksOwned
  <2>1. CASE j = k
    BY <1>6, <2>1
  <2>2. CASE j # k
    <3>1. locks[j] # 0 /\ j \notin shaky /\ j \notin Keys(entries)
      BY <1>1, <1>6, <2>2 DEF Keys
    <3>2. PICK q \in Asker : rkey[q] = j
      BY <3>1 DEF ResearchInv, LocksOwned
    <3>3. q # r
      BY <1>2, <1>12, <3>2
    <3> QED
      BY <1>6, <3>2, <3>3
  <2> QED
    BY <2>1, <2>2
<1>19. AnswersSound'
  <2>1. \A q \in Asker : rpc'[q] = "compute" => rpc[q] = "compute"
    BY <1>7
  <2>3. AnswersSound /\ UNCHANGED <<entries, rval>>
    BY <1>1 DEF ResearchInv
  <2> QED
    BY <1>1, <2>1, <2>3, SoundOn
<1> QED
  BY <1>15, <1>16, <1>17, <1>18, <1>19 DEF ResearchInv

(* A lock goes to the call at the head of its queue. *)
LEMMA WakeKeeps ==
  ASSUME ResearchInv, NEW r \in Asker, Wake(r)
  PROVE  ResearchInv'
<1> DEFINE l == rlock[r]
<1>1. /\ rpc[r] = "wait" /\ holder[l] = NoOne /\ Head(queue[l]) = r
      /\ holder' = [holder EXCEPT ![l] = r] /\ queue' = [queue EXCEPT ![l] = Tail(@)]
      /\ rpc' = [rpc EXCEPT ![r] = "version"]
      /\ UNCHANGED tableVars /\ UNCHANGED <<entries, locks, rkey, rlock, rval, shaky>>
  BY DEF Wake
<1>2. ResearchTypeOK /\ l \in LockId /\ queue[l] \in Seq(Asker)
  BY <1>1 DEF ResearchInv, ResearchTypeOK
<1>3. \E i \in DOMAIN queue[l] : queue[l][i] = r
  BY <1>1 DEF ResearchInv, CallsHold, Queued
<1> HIDE DEF l
<1>4. queue[l] # <<>> /\ Tail(queue[l]) \in Seq(Asker)
  BY <1>2, <1>3, SMT
<1>5. /\ rpc' \in [Asker -> Calling \cup {"idle"}] /\ rpc'[r] = "version"
      /\ \A q \in Asker \ {r} : rpc'[q] = rpc[q]
  BY <1>1, <1>2 DEF ResearchTypeOK, Calling, Inside
<1>6. /\ holder' \in [LockId -> Asker \cup {NoOne}]
      /\ \A m \in LockId : holder'[m] = IF m = l THEN r ELSE holder[m]
  BY <1>1, <1>2 DEF ResearchTypeOK
<1>7. /\ queue' \in [LockId -> Seq(Asker)]
      /\ \A m \in LockId : queue'[m] = IF m = l THEN Tail(queue[l]) ELSE queue[m]
  BY <1>1, <1>2, <1>4 DEF ResearchTypeOK
<1>8. NoOne \notin Asker
  BY CacheAssumption
<1>9. ResearchTypeOK'
  <2>1. \A q \in Asker : IF rpc'[q] = "idle" THEN rkey'[q] = NoOne /\ rlock'[q] = 0
                          ELSE rkey'[q] \in Key /\ rlock'[q] \in LockId
    BY <1>1, <1>2, <1>5 DEF ResearchTypeOK
  <2> QED
    BY <1>1, <1>2, <1>5, <1>6, <1>7, <2>1 DEF ResearchTypeOK, tableVars
<1>10. CallsHold'
  <2>1. ASSUME NEW m \in LockId, NEW q \in Asker
        PROVE  holder'[m] = q <=> rpc'[q] \in Inside /\ rlock'[q] = m
    <3>1. holder[m] = q <=> rpc[q] \in Inside /\ rlock[q] = m
      BY DEF ResearchInv, CallsHold
    <3>2. rlock'[q] = rlock[q]
      BY <1>1
    <3>3. CASE q = r
      <4>1. holder[m] # r
        BY <1>1, <3>1, <3>3 DEF Inside
      <4>2. rpc'[r] \in Inside
        BY <1>5 DEF Inside
      <4> QED
        BY <1>6, <3>2, <3>3, <4>1, <4>2 DEF l
    <3>4. CASE q # r
      <4>1. m = l => holder[m] # q
        BY <1>1, <1>8
      <4> QED
        BY <1>5, <1>6, <3>1, <3>2, <3>4, <4>1
    <3> QED
      BY <3>3, <3>4
  <2>2. ASSUME NEW q \in Asker, rpc'[q] = "wait"
        PROVE  \E i \in DOMAIN queue'[rlock'[q]] : queue'[rlock'[q]][i] = q
    <3>1. q # r /\ rpc[q] = "wait" /\ rlock'[q] = rlock[q]
      BY <1>1, <1>5, <2>2
    <3>2. rlock[q] \in LockId
      BY <1>2, <3>1 DEF ResearchTypeOK
    <3>3. PICK i \in DOMAIN queue[rlock[q]] : queue[rlock[q]][i] = q
      BY <3>1 DEF ResearchInv, CallsHold, Queued
    <3>4. CASE rlock[q] = l
      <4>1. Head(queue[l]) # queue[l][i]
        BY <1>1, <3>1, <3>3, <3>4
      <4>2. i \in DOMAIN queue[l] /\ queue[l] \in Seq(Asker) /\ queue[l] # <<>>
        BY <1>2, <1>4, <3>3, <3>4
      <4>3. i - 1 \in DOMAIN Tail(queue[l]) /\ Tail(queue[l])[i - 1] = queue[l][i]
        BY <4>1, <4>2, SMT
      <4>4. queue'[rlock'[q]] = Tail(queue[l])
        BY <1>7, <3>1, <3>2, <3>4
      <4> QED
        BY <3>3, <3>4, <4>3, <4>4
    <3>5. CASE rlock[q] # l
      BY <1>7, <3>1, <3>2, <3>3, <3>5
    <3> QED
      BY <3>4, <3>5
  <2> QED
    BY <2>1, <2>2 DEF CallsHold, Queued
<1>11. LockOfKey'
  <2>1. \A q \in Asker : rpc'[q] # "idle" <=> rpc[q] # "idle"
    BY <1>1, <1>5
  <2>2. locks' = locks /\ rlock' = rlock /\ rkey' = rkey /\ shaky' = shaky
    BY <1>1
  <2> QED
    BY <2>1, <2>2 DEF ResearchInv, LockOfKey
<1>12. LocksOwned'
  BY <1>1 DEF ResearchInv, LocksOwned, Keys
<1>13. AnswersSound'
  <2>1. \A q \in Asker : rpc'[q] = "compute" => rpc[q] = "compute"
    BY <1>5
  <2>2. AnswersSound /\ UNCHANGED <<entries, rval>>
    BY <1>1 DEF ResearchInv
  <2> QED
    BY <1>1, <2>1, <2>2, SoundOn
<1> QED
  BY <1>9, <1>10, <1>11, <1>12, <1>13 DEF ResearchInv

(* Rows are drawn and committed beside the cache: an answer that covered the rows *)
(* goes on doing so, since a row that is committed is above the version or was    *)
(* overtaken.                                                                     *)
LEMMA CommitRowCovers ==
  ASSUME ResearchTypeOK, NEW i \in 1..Rows, CommitRow(i)
  PROVE  /\ Committed \subseteq Committed'
         /\ \A v \in Nat, S \in SUBSET (1..Rows) : Covers(v, S) => Covers(v, S)'
<1>1. /\ dataRow[i] = "open" /\ dataRow' = [dataRow EXCEPT ![i] = "committed"]
      /\ overtaken' = IF i < Version THEN overtaken \cup {i} ELSE overtaken
      /\ dataRow \in [1..Rows -> {"none", "open", "committed"}]
  BY DEF CommitRow, ResearchTypeOK
<1>2. Committed' = Committed \cup {i} /\ i \notin Committed
  BY <1>1 DEF Committed
<1>3. Committed \in SUBSET (1..Rows) /\ (Committed \cup {i}) \in SUBSET (1..Rows)
  BY DEF Committed
<1> DEFINE before == Highest(Committed)
           after == Highest(Committed \cup {i})
<1>4. /\ before \in Nat /\ (Committed # {} => before \in Committed)
      /\ \A j \in Committed : j <= before
  BY <1>3, HighestIsHighest
<1>5. /\ after \in Nat /\ \A j \in Committed \cup {i} : j <= after
  BY <1>3, HighestIsHighest
<1>6. Version = before /\ Version' = after
  BY <1>2 DEF Version, Highest
<1> HIDE DEF before, after
<1>7. i \in Nat /\ i > 0
  BY CacheAssumption, SMT
<1>8. before <= after
  <2>1. CASE Committed = {}
    <3>1. before = 0
      BY <2>1 DEF before, Highest
    <3> QED
      BY <1>5, <3>1, SMT
  <2>2. CASE Committed # {}
    BY <1>4, <1>5, <2>2
  <2> QED
    BY <2>1, <2>2
<1>9. i < before \/ before < i
  <2>1. CASE Committed = {}
    <3>1. before = 0
      BY <2>1 DEF before, Highest
    <3> QED
      BY <1>7, <3>1, SMT
  <2>2. CASE Committed # {}
    <3>1. i # before
      BY <1>2, <1>4, <2>2
    <3> QED
      BY <1>4, <1>7, <3>1, SMT
  <2> QED
    BY <2>1, <2>2
<1>10. ASSUME NEW v \in Nat, NEW S \in SUBSET (1..Rows), Covers(v, S) PROVE Covers(v, S)'
  <2>1. v <= before /\ \A j \in Committed \ S : v < j \/ j \in overtaken
    BY <1>6, <1>10 DEF Covers
  <2>2. v <= after
    BY <1>4, <1>5, <1>8, <2>1, SMT
  <2>3. overtaken \subseteq overtaken' /\ (i < before => i \in overtaken')
    BY <1>1, <1>6
  <2>4. before < i => v < i
    BY <1>4, <1>7, <2>1, SMT
  <2>5. \A j \in (Committed \cup {i}) \ S : v < j \/ j \in overtaken'
    BY <1>9, <2>1, <2>3, <2>4
  <2> QED
    BY <1>2, <1>6, <2>2, <2>5 DEF Covers
<1> QED
  BY <1>2, <1>10

LEMMA RowsKeep ==
  ASSUME ResearchInv, NEW i \in 1..Rows, OpenRow(i) \/ CommitRow(i)
  PROVE  ResearchInv'
<1>1. UNCHANGED keyLockVars /\ UNCHANGED <<entries, rpc, rkey, rlock, rval>>
  BY DEF OpenRow, CommitRow
<1>2. dataRow' \in [1..Rows -> {"none", "open", "committed"}]
  BY DEF OpenRow, CommitRow, ResearchInv, ResearchTypeOK
<1>3. ResearchTypeOK'
  BY <1>1, <1>2 DEF ResearchInv, ResearchTypeOK, keyLockVars
<1>4. CallsHold' /\ LockOfKey' /\ LocksOwned'
  BY <1>1 DEF ResearchInv, CallsHold, Queued, LockOfKey, LocksOwned, Keys, keyLockVars
<1>5. /\ Committed \subseteq Committed'
      /\ \A v \in Nat, S \in SUBSET (1..Rows) : Covers(v, S) => Covers(v, S)'
  <2>1. CASE OpenRow(i)
    <3>1. Committed' = Committed /\ overtaken' = overtaken
      BY <2>1 DEF OpenRow, Committed, ResearchInv, ResearchTypeOK
    <3>2. Version' = Version
      BY <3>1 DEF Version, Highest
    <3> QED
      BY <3>1, <3>2 DEF Covers
  <2>2. CASE CommitRow(i)
    BY <2>2, CommitRowCovers DEF ResearchInv
  <2> QED
    BY <2>1, <2>2
<1>6. AnswersSound'
  <2>1. entries' = entries /\ rpc' = rpc /\ rval' = rval /\ AnswersSound
    BY <1>1 DEF ResearchInv
  <2>2. ASSUME NEW j \in DOMAIN entries PROVE Covers(entries[j].ver, entries[j].val)'
    <3>1. entries[j].ver \in Nat /\ entries[j].val \in SUBSET (1..Rows)
      <4>1. entries \in Seq(Answer)
        BY DEF ResearchInv, ResearchTypeOK
      <4>2. entries[j] \in Answer
        BY <4>1, SMT
      <4> QED
        BY <4>2 DEF Answer
    <3>2. Covers(entries[j].ver, entries[j].val)
      BY <2>1 DEF AnswersSound
    <3> DEFINE v == entries[j].ver
               S == entries[j].val
    <3>3. entries'[j].ver = v /\ entries'[j].val = S
      BY <2>1
    <3>4. v <= Version' /\ \A x \in Committed' \ S : v < x \/ x \in overtaken'
      <4> HIDE DEF v, S
      <4> QED
        BY <1>5, <3>1, <3>2 DEF Covers, v, S
    <3> QED
      BY <3>3, <3>4 DEF Covers
  <2>3. ASSUME NEW r \in Asker, rpc[r] = "compute"
        PROVE  rval[r] \subseteq Committed' /\ Covers(Highest(rval[r]), rval[r])'
    <3>1. rval[r] \subseteq Committed /\ Covers(Highest(rval[r]), rval[r])
      BY <2>1, <2>3 DEF AnswersSound
    <3>2. rval[r] \in SUBSET (1..Rows)
      BY DEF ResearchInv, ResearchTypeOK
    <3>3. Highest(rval[r]) \in Nat
      BY <3>2, HighestIsHighest
    <3> DEFINE v == Highest(rval[r])
               S == rval[r]
    <3>4. Highest(rval[r])' = v /\ rval'[r] = S
      BY <2>1 DEF Highest
    <3>5. v <= Version' /\ \A x \in Committed' \ S : v < x \/ x \in overtaken'
      <4> HIDE DEF v, S
      <4> QED
        BY <1>5, <3>1, <3>2, <3>3 DEF Covers, v, S
    <3> QED
      BY <1>5, <3>1, <3>4, <3>5 DEF Covers
  <2> QED
    BY <2>1, <2>2, <2>3 DEF AnswersSound, Highest
<1> QED
  BY <1>3, <1>4, <1>6 DEF ResearchInv

(* An answer grows too old to be served; nothing else changes. *)
LEMMA ExpireKeeps ==
  ASSUME ResearchInv, NEW i \in 1..MaxEntries, Expire(i)
  PROVE  ResearchInv'
<1>1. /\ i \in DOMAIN entries /\ entries' = [entries EXCEPT ![i].old = TRUE]
      /\ UNCHANGED tableVars /\ UNCHANGED keyLockVars /\ UNCHANGED <<rpc, rkey, rlock, rval>>
  BY DEF Expire
<1>2. entries \in Seq(Answer) /\ entries[i] \in Answer
  BY <1>1, SMT DEF ResearchInv, ResearchTypeOK
<1> DEFINE e == [entries[i] EXCEPT !.old = TRUE]
<1>3. e \in Answer /\ e.key = entries[i].key /\ e.ver = entries[i].ver /\ e.val = entries[i].val
  BY <1>2 DEF Answer
<1>4. entries' = [entries EXCEPT ![i] = e]
  BY <1>1
<1> HIDE DEF e
<1>5. entries' \in Seq(Answer) /\ Len(entries') = Len(entries) /\ DOMAIN entries' = DOMAIN entries
  <2>1. i \in 1..Len(entries)
    BY <1>1, <1>2, SMT
  <2>2. entries' \in Seq(Answer) /\ Len(entries') = Len(entries)
    BY <1>2, <1>3, <1>4, <2>1, ExceptSeq
  <2> QED
    BY <1>4, <2>2
<1>6. \A j \in DOMAIN entries : /\ entries'[j].key = entries[j].key
                               /\ entries'[j].ver = entries[j].ver
                               /\ entries'[j].val = entries[j].val
  BY <1>1, <1>3, <1>4
<1>7. Keys(entries') = Keys(entries)
  BY <1>5, <1>6 DEF Keys
<1>8. ResearchTypeOK'
  BY <1>1, <1>5 DEF ResearchInv, ResearchTypeOK, tableVars, keyLockVars
<1>9. CallsHold' /\ LockOfKey'
  BY <1>1 DEF ResearchInv, CallsHold, Queued, LockOfKey, keyLockVars
<1>10. LocksOwned'
  <2>1. Keys(entries)' = Keys(entries)
    BY <1>7 DEF Keys
  <2> QED
    BY <1>1, <2>1 DEF ResearchInv, LocksOwned, keyLockVars
<1>11. AnswersSound'
  <2>1. Committed' = Committed /\ Version' = Version /\ overtaken' = overtaken
    BY <1>1 DEF Committed, Version, Highest, tableVars
  <2>2. Len(entries') <= MaxEntries
    BY <1>5 DEF ResearchInv, AnswersSound
  <2>3. \A j, k \in DOMAIN entries' : entries'[j].key = entries'[k].key => j = k
    BY <1>5, <1>6 DEF ResearchInv, AnswersSound
  <2>4. \A j \in DOMAIN entries' : Covers(entries[j].ver, entries[j].val)'
    <3> TAKE j \in DOMAIN entries'
    <3>1. Covers(entries[j].ver, entries[j].val)
      BY <1>5 DEF ResearchInv, AnswersSound
    <3> QED
      BY <1>5, <1>6, <2>1, <3>1 DEF Covers
  <2>5. \A r \in Asker : rpc'[r] = "compute" =>
           rval'[r] \subseteq Committed' /\ Covers(Highest(rval[r]), rval[r])'
    BY <1>1, <2>1 DEF ResearchInv, AnswersSound, Covers, Highest
  <2> QED
    BY <2>2, <2>3, <2>4, <2>5 DEF AnswersSound
<1> QED
  BY <1>8, <1>9, <1>10, <1>11 DEF ResearchInv

(* The stored answer will not do: it is dropped, and the call computes under the *)
(* version it read.                                                               *)
LEMMA MissKeeps ==
  ASSUME ResearchInv, NEW r \in Asker, Miss(r)
  PROVE  ResearchInv'
<1> DEFINE k == rkey[r]
<1>1. /\ rpc[r] = "version" /\ entries' = Others(k)
      /\ rval' = [rval EXCEPT ![r] = Committed] /\ rpc' = [rpc EXCEPT ![r] = "compute"]
      /\ UNCHANGED tableVars /\ UNCHANGED keyLockVars /\ rkey' = rkey /\ rlock' = rlock
  BY DEF Miss
<1>2. ResearchTypeOK /\ AnswersSound /\ k \in Key
  BY <1>1 DEF ResearchInv, ResearchTypeOK
<1> HIDE DEF k
<1>3. /\ entries' \in Seq(Answer) /\ Len(entries') <= Len(entries)
      /\ \A i \in DOMAIN entries' :
            \E j \in DOMAIN entries : entries'[i] = entries[j] /\ entries[j].key # k
      /\ \A i, j \in DOMAIN entries' : entries'[i].key = entries'[j].key => i = j
      /\ Keys(entries') = Keys(entries) \ {k}
  BY <1>1, <1>2, OthersOfKey
<1>4. /\ rpc' \in [Asker -> Calling \cup {"idle"}] /\ rpc'[r] = "compute"
      /\ \A q \in Asker \ {r} : rpc'[q] = rpc[q]
  BY <1>1, <1>2 DEF ResearchTypeOK, Calling, Inside
<1>5. Committed \in SUBSET (1..Rows)
  BY DEF Committed
<1>6. /\ rval' \in [Asker -> SUBSET (1..Rows)] /\ rval'[r] = Committed
      /\ \A q \in Asker \ {r} : rval'[q] = rval[q]
  BY <1>1, <1>2, <1>5 DEF ResearchTypeOK
<1>7. ResearchTypeOK'
  <2>1. \A q \in Asker : IF rpc'[q] = "idle" THEN rkey'[q] = NoOne /\ rlock'[q] = 0
                          ELSE rkey'[q] \in Key /\ rlock'[q] \in LockId
    BY <1>1, <1>2, <1>4 DEF ResearchTypeOK
  <2> QED
    BY <1>1, <1>2, <1>3, <1>4, <1>6, <2>1 DEF ResearchTypeOK, tableVars, keyLockVars
<1>8. CallsHold'
  <2>1. \A q \in Asker : /\ rpc'[q] \in Inside <=> rpc[q] \in Inside
                         /\ rpc'[q] = "wait" <=> rpc[q] = "wait"
    BY <1>1, <1>4 DEF Inside
  <2>2. holder' = holder /\ queue' = queue /\ rlock' = rlock
    BY <1>1 DEF keyLockVars
  <2> QED
    BY <2>1, <2>2 DEF ResearchInv, CallsHold, Queued
<1>9. LockOfKey'
  <2>1. \A q \in Asker : rpc'[q] # "idle" <=> rpc[q] # "idle"
    BY <1>1, <1>4
  <2>2. locks' = locks /\ rlock' = rlock /\ rkey' = rkey /\ shaky' = shaky
    BY <1>1 DEF keyLockVars
  <2> QED
    BY <2>1, <2>2 DEF ResearchInv, LockOfKey
<1>10. LocksOwned'
  <2> SUFFICES ASSUME NEW j \in Key, j \notin shaky', locks'[j] # 0, j \notin Keys(entries)'
               PROVE  \E q \in Asker : rkey'[q] = j
    BY DEF LocksOwned
  <2>1. CASE j = k
    BY <1>1, <2>1 DEF k
  <2>2. CASE j # k
    <3>1. Keys(entries)' = Keys(entries) \ {k}
      BY <1>3 DEF Keys
    <3>2. j \notin Keys(entries) /\ j \notin shaky /\ locks[j] # 0
      BY <1>1, <2>2, <3>1 DEF keyLockVars
    <3> QED
      BY <1>1, <3>2 DEF ResearchInv, LocksOwned
  <2> QED
    BY <2>1, <2>2
<1>11. AnswersSound'
  <2>1. Committed' = Committed /\ Version' = Version /\ overtaken' = overtaken
    BY <1>1 DEF Committed, Version, Highest, tableVars
  <2>2. Len(entries') <= MaxEntries
    <3>1. Len(entries') \in Nat /\ Len(entries) \in Nat /\ Len(entries) <= MaxEntries
      BY <1>2, <1>3 DEF ResearchTypeOK, AnswersSound
    <3> QED
      BY <1>3, <3>1, CacheAssumption, SMT
  <2>3. \A j \in DOMAIN entries' : Covers(entries[j].ver, entries[j].val)'
    <3> TAKE j \in DOMAIN entries'
    <3>1. PICK x \in DOMAIN entries : entries'[j] = entries[x]
      BY <1>3
    <3>2. Covers(entries[x].ver, entries[x].val)
      BY <1>2 DEF AnswersSound
    <3> QED
      BY <2>1, <3>1, <3>2 DEF Covers
  <2>4. ASSUME NEW q \in Asker, rpc'[q] = "compute"
        PROVE  rval'[q] \subseteq Committed' /\ Covers(Highest(rval[q]), rval[q])'
    <3>1. CASE q = r
      <4>1. Highest(rval[q])' = Version
        BY <1>6, <3>1 DEF Highest, Version
      <4>2. Version \in Nat
        BY <1>5, HighestIsHighest DEF Version
      <4>3. Version <= Version
        BY <4>2, SMT
      <4> QED
        BY <1>6, <2>1, <3>1, <4>1, <4>3 DEF Covers
    <3>2. CASE q # r
      <4>1. rpc[q] = "compute" /\ rval'[q] = rval[q]
        BY <1>4, <1>6, <2>4, <3>2
      <4>2. rval[q] \subseteq Committed /\ Covers(Highest(rval[q]), rval[q])
        BY <1>2, <4>1 DEF AnswersSound
      <4>3. Highest(rval[q])' = Highest(rval[q])
        BY <4>1 DEF Highest
      <4> QED
        BY <2>1, <4>1, <4>2, <4>3 DEF Covers
    <3> QED
      BY <3>1, <3>2
  <2> QED
    BY <1>3, <2>2, <2>3, <2>4 DEF AnswersSound
<1> QED
  BY <1>7, <1>8, <1>9, <1>10, <1>11 DEF ResearchInv

(* A call ends with `es` stored.  A lock that goes without being marked has no *)
(* waiter, and no holder but the call that ends.                               *)
LEMMA FinishKeeps ==
  ASSUME ResearchInv, NEW r \in Asker, rpc[r] \in Inside, UNCHANGED tableVars,
         NEW es \in Seq(Answer), Finish(r, es), Len(es) <= MaxEntries,
         \A i, j \in DOMAIN es : es[i].key = es[j].key => i = j,
         \A i \in DOMAIN es : Covers(es[i].ver, es[i].val)
  PROVE  ResearchInv'
<1> DEFINE l == rlock[r]
           gone == {k \in Keys(entries) \ Keys(es) : locks[k] # 0 /\ holder[locks[k]] = NoOne}
                     \cup {k \in {rkey[r]} \ Keys(es) : locks[k] = l}
<1>1. /\ entries' = es /\ holder' = [holder EXCEPT ![l] = NoOne]
      /\ locks' = [k \in Key |-> IF k \in gone THEN 0 ELSE locks[k]]
      /\ shaky' = shaky \cup {k \in gone : queue[locks[k]] # <<>>}
      /\ rpc' = [rpc EXCEPT ![r] = "idle"] /\ rkey' = [rkey EXCEPT ![r] = NoOne]
      /\ rlock' = [rlock EXCEPT ![r] = 0] /\ rval' = [rval EXCEPT ![r] = {}]
      /\ queue' = queue
  BY DEF Finish
<1>2. ResearchTypeOK /\ l \in LockId /\ holder[l] = r /\ rkey[r] \in Key
  BY DEF ResearchInv, ResearchTypeOK, CallsHold, Inside
<1>3. 0 \notin LockId
  <2>1. Cardinality(Asker) + Cardinality(Key) \in Nat
    BY CacheAssumption, FS_CardinalityType, SMT
  <2> QED
    BY <2>1, SMT DEF LockId
<1>4. NoOne \notin Asker /\ NoOne \notin Key
  BY CacheAssumption
<1>5. ASSUME NEW k \in Key, NEW q \in Asker, k \in gone, queue[locks[k]] = <<>>,
             q # r, locks[k] = rlock[q]
      PROVE  rpc[q] = "idle"
  <2> SUFFICES ASSUME rpc[q] # "idle" PROVE FALSE
    OBVIOUS
  <2>1. rpc[q] # "wait"
    <3>1. queue[rlock[q]] = <<>>
      BY <1>5
    <3> QED
      BY <3>1, SMT DEF ResearchInv, CallsHold, Queued
  <2>2. rpc[q] \in Inside
    BY <1>2, <2>1 DEF ResearchTypeOK, Calling, Inside
  <2>3. rlock[q] \in LockId
    BY <1>2 DEF ResearchTypeOK
  <2>4. holder[rlock[q]] = q
    BY <2>2, <2>3 DEF ResearchInv, CallsHold
  <2> QED
    BY <1>2, <1>4, <1>5, <2>4
<1>6. rkey[r] \notin Keys(es) /\ locks[rkey[r]] = l => rkey[r] \in gone
  OBVIOUS
<1>7. \A k \in Keys(entries) \ Keys(es) : k \in gone \/ locks[k] = 0 \/ holder[locks[k]] # NoOne
  OBVIOUS
<1> HIDE DEF l, gone
<1>8. /\ rpc' \in [Asker -> Calling \cup {"idle"}] /\ rpc'[r] = "idle"
      /\ \A q \in Asker \ {r} : rpc'[q] = rpc[q]
      /\ rkey' \in [Asker -> Key \cup {NoOne}] /\ rkey'[r] = NoOne
      /\ \A q \in Asker \ {r} : rkey'[q] = rkey[q]
  BY <1>1, <1>2 DEF ResearchTypeOK
<1>9. /\ rlock' \in [Asker -> LockId \cup {0}] /\ rlock'[r] = 0
      /\ \A q \in Asker \ {r} : rlock'[q] = rlock[q]
      /\ rval' \in [Asker -> SUBSET (1..Rows)]
      /\ \A q \in Asker \ {r} : rval'[q] = rval[q]
  BY <1>1, <1>2 DEF ResearchTypeOK
<1>10. /\ holder' \in [LockId -> Asker \cup {NoOne}]
       /\ \A m \in LockId : holder'[m] = IF m = l THEN NoOne ELSE holder[m]
  BY <1>1, <1>2 DEF ResearchTypeOK
<1>11. /\ locks' \in [Key -> LockId \cup {0}]
       /\ \A k \in Key : locks'[k] = IF k \in gone THEN 0 ELSE locks[k]
  BY <1>1, <1>2 DEF ResearchTypeOK
<1>12. ResearchTypeOK'
  <2>1. \A q \in Asker : IF rpc'[q] = "idle" THEN rkey'[q] = NoOne /\ rlock'[q] = 0
                          ELSE rkey'[q] \in Key /\ rlock'[q] \in LockId
    BY <1>2, <1>8, <1>9, SMTT(30) DEF ResearchTypeOK
  <2> QED
    BY <1>1, <1>2, <1>8, <1>9, <1>10, <1>11, <2>1 DEF ResearchTypeOK, tableVars
<1>13. CallsHold'
  <2>1. ASSUME NEW m \in LockId, NEW q \in Asker
        PROVE  holder'[m] = q <=> rpc'[q] \in Inside /\ rlock'[q] = m
    <3>1. holder[m] = q <=> rpc[q] \in Inside /\ rlock[q] = m
      BY DEF ResearchInv, CallsHold
    <3>2. CASE q = r
      <4>1. holder[m] = r => m = l
        BY <3>1, <3>2 DEF l
      <4>2. rpc'[r] \notin Inside
        BY <1>8 DEF Inside
      <4> QED
        BY <1>4, <1>10, <3>2, <4>1, <4>2
    <3>3. CASE q # r
      <4>1. rpc'[q] = rpc[q] /\ rlock'[q] = rlock[q]
        BY <1>8, <1>9, <3>3
      <4> QED
        BY <1>2, <1>4, <1>10, <3>1, <3>3, <4>1
    <3> QED
      BY <3>2, <3>3
  <2>2. ASSUME NEW q \in Asker, rpc'[q] = "wait"
        PROVE  \E i \in DOMAIN queue'[rlock'[q]] : queue'[rlock'[q]][i] = q
    <3>1. q # r /\ rpc[q] = "wait" /\ rlock'[q] = rlock[q] /\ queue' = queue
      BY <1>1, <1>8, <1>9, <2>2
    <3>2. \E i \in DOMAIN queue[rlock[q]] : queue[rlock[q]][i] = q
      BY <3>1 DEF ResearchInv, CallsHold, Queued
    <3> QED
      BY <3>1, <3>2
  <2> QED
    BY <2>1, <2>2 DEF CallsHold, Queued
<1>14. LockOfKey'
  <2>1. ASSUME NEW q \in Asker, NEW s \in Asker, rpc'[s] # "idle", rlock'[q] = rlock'[s]
        PROVE  rkey'[q] = rkey'[s]
    <3>1. s # r /\ rpc[s] # "idle" /\ rlock'[s] = rlock[s] /\ rkey'[s] = rkey[s]
      BY <1>8, <1>9, <2>1
    <3>2. rlock[s] \in LockId
      BY <1>2, <3>1 DEF ResearchTypeOK
    <3>3. q # r
      BY <1>3, <1>9, <2>1, <3>1, <3>2
    <3>4. rkey[q] = rkey[s]
      BY <1>9, <2>1, <3>1, <3>3 DEF ResearchInv, LockOfKey
    <3> QED
      BY <1>8, <3>1, <3>3, <3>4
  <2>2. ASSUME NEW s \in Asker, NEW k \in Key, rpc'[s] # "idle", locks'[k] = rlock'[s]
        PROVE  rkey'[s] = k
    <3>1. s # r /\ rpc[s] # "idle" /\ rlock'[s] = rlock[s] /\ rkey'[s] = rkey[s]
      BY <1>8, <1>9, <2>2
    <3>2. rlock[s] \in LockId
      BY <1>2, <3>1 DEF ResearchTypeOK
    <3>3. locks[k] = rlock[s]
      BY <1>3, <1>11, <2>2, <3>1, <3>2
    <3> QED
      BY <3>1, <3>3 DEF ResearchInv, LockOfKey
  <2>3. ASSUME NEW i \in Key, NEW j \in Key, locks'[i] = locks'[j], locks'[j] # 0
        PROVE  i = j
    BY <1>11, <2>3 DEF ResearchInv, LockOfKey
  <2>4. ASSUME NEW s \in Asker, rpc'[s] # "idle", rkey'[s] \notin shaky'
        PROVE  locks'[rkey'[s]] = rlock'[s]
    <3>1. s # r /\ rpc[s] # "idle" /\ rlock'[s] = rlock[s] /\ rkey'[s] = rkey[s]
      BY <1>8, <1>9, <2>4
    <3>2. rkey[s] \in Key /\ rkey[s] \notin shaky
      BY <1>1, <1>2, <2>4, <3>1 DEF ResearchTypeOK
    <3>3. locks[rkey[s]] = rlock[s]
      BY <3>1, <3>2 DEF ResearchInv, LockOfKey
    <3>4. rkey[s] \notin gone
      <4> SUFFICES ASSUME rkey[s] \in gone PROVE FALSE
        OBVIOUS
      <4>1. queue[locks[rkey[s]]] = <<>>
        BY <1>1, <2>4, <3>1
      <4> QED
        BY <1>5, <3>1, <3>2, <3>3, <4>1
    <3> QED
      BY <1>11, <3>1, <3>2, <3>3, <3>4
  <2> QED
    BY <2>1, <2>2, <2>3, <2>4 DEF LockOfKey
<1>15. LocksOwned'
  <2> SUFFICES ASSUME NEW k \in Key, k \notin shaky', locks'[k] # 0, k \notin Keys(entries)'
               PROVE  \E q \in Asker : rkey'[q] = k
    BY DEF LocksOwned
  <2>1. k \notin shaky /\ k \notin gone /\ locks[k] # 0 /\ k \notin Keys(es)
    BY <1>1, <1>11 DEF Keys
  <2>2. k # rkey[r]
    <3> SUFFICES ASSUME k = rkey[r] PROVE FALSE
      OBVIOUS
    <3>1. locks[k] = l
      BY <2>1 DEF ResearchInv, LockOfKey, Inside, l
    <3> QED
      BY <1>6, <2>1, <3>1
  <2>3. CASE \E q \in Asker : rkey[q] = k
    <3>1. PICK q \in Asker : rkey[q] = k
      BY <2>3
    <3>2. q # r
      BY <2>2, <3>1
    <3> QED
      BY <1>8, <3>1, <3>2
  <2>4. CASE k \in Keys(entries)
    <3>1. holder[locks[k]] # NoOne
      BY <1>7, <2>1, <2>4
    <3>2. locks[k] \in LockId
      BY <1>2, <2>1 DEF ResearchTypeOK
    <3>3. holder[locks[k]] \in Asker
      BY <1>2, <3>1, <3>2 DEF ResearchTypeOK
    <3>4. PICK q \in Asker : q = holder[locks[k]]
      BY <3>3
    <3>5. rpc[q] \in Inside /\ rlock[q] = locks[k]
      BY <3>2, <3>4 DEF ResearchInv, CallsHold
    <3>6. rkey[q] = k
      BY <3>5 DEF ResearchInv, LockOfKey, Inside
    <3> QED
      BY <2>3, <3>6
  <2> QED
    BY <2>1, <2>3, <2>4 DEF ResearchInv, LocksOwned
<1>16. AnswersSound'
  <2>1. Committed' = Committed /\ Version' = Version /\ overtaken' = overtaken
    BY DEF Committed, Version, Highest, tableVars
  <2>2. \A j \in DOMAIN entries' : Covers(entries[j].ver, entries[j].val)'
    <3> TAKE j \in DOMAIN entries'
    <3>1. Covers(es[j].ver, es[j].val) /\ entries' = es
      BY <1>1
    <3> QED
      BY <2>1, <3>1 DEF Covers
  <2>3. ASSUME NEW q \in Asker, rpc'[q] = "compute"
        PROVE  rval'[q] \subseteq Committed' /\ Covers(Highest(rval[q]), rval[q])'
    <3>1. rpc[q] = "compute" /\ rval'[q] = rval[q]
      BY <1>8, <1>9, <2>3
    <3>2. rval[q] \subseteq Committed /\ Covers(Highest(rval[q]), rval[q])
      BY <3>1 DEF ResearchInv, AnswersSound
    <3>3. Highest(rval[q])' = Highest(rval[q])
      BY <3>1 DEF Highest
    <3> QED
      BY <2>1, <3>1, <3>2, <3>3 DEF Covers
  <2> QED
    BY <1>1, <2>2, <2>3 DEF AnswersSound
<1> QED
  BY <1>12, <1>13, <1>14, <1>15, <1>16 DEF ResearchInv

(* What is kept of the answers: the last of them, each key once. *)
LEMMA TrimmedAnswers ==
  ASSUME NEW es \in Seq(Answer),
         \A i, j \in DOMAIN es : es[i].key = es[j].key => i = j
  PROVE  /\ Trimmed(es) \in Seq(Answer) /\ Len(Trimmed(es)) <= MaxEntries
         /\ \A i \in DOMAIN Trimmed(es) : \E j \in DOMAIN es : Trimmed(es)[i] = es[j]
         /\ \A i, j \in DOMAIN Trimmed(es) : Trimmed(es)[i].key = Trimmed(es)[j].key => i = j
<1> DEFINE n == Len(es)
           m == IF n > MaxEntries THEN n - MaxEntries + 1 ELSE 1
           t == Trimmed(es)
<1>1. n \in Nat /\ DOMAIN es = 1..n
  BY SMT
<1>2. MaxEntries \in Nat \ {0}
  BY CacheAssumption
<1>3. m \in Nat /\ m >= 1 /\ m <= n + 1 /\ n - m + 1 <= MaxEntries
  BY <1>1, <1>2, SMT
<1>4. t = SubSeq(es, m, n)
  BY DEF Trimmed
<1> HIDE DEF n, m, t
<1>5. /\ t \in Seq(Answer) /\ Len(t) = n - m + 1
      /\ \A i \in 1..(n - m + 1) : t[i] = es[m + i - 1]
  <2>1. m \in Int /\ n \in Int /\ \A i \in m..n : es[i] \in Answer
    BY <1>1, <1>3, SMT
  <2>2. /\ t \in Seq(Answer) /\ Len(t) = IF m <= n THEN n - m + 1 ELSE 0
        /\ \A i \in 1..(n - m + 1) : t[i] = es[m + i - 1]
    BY <1>4, <2>1, SubSeqProperties
  <2> QED
    BY <1>1, <1>3, <2>2, SMT
<1>6. Len(t) <= MaxEntries
  BY <1>3, <1>5
<1>7. DOMAIN t = 1..(n - m + 1)
  BY <1>5, SMT
<1>8. \A i \in DOMAIN t : t[i] = es[m + i - 1] /\ m + i - 1 \in DOMAIN es
  BY <1>1, <1>3, <1>5, <1>7, SMT
<1>9. ASSUME NEW i \in DOMAIN t, NEW j \in DOMAIN t, t[i].key = t[j].key PROVE i = j
  <2>1. m + i - 1 = m + j - 1
    BY <1>8, <1>9
  <2> QED
    BY <1>1, <1>3, <1>7, <2>1, SMT
<1> QED
  BY <1>5, <1>6, <1>8, <1>9 DEF t

(* The answer of a key moves to, or comes in at, the end. *)
LEMMA AppendedAnswers ==
  ASSUME ResearchInv, NEW k \in Key, NEW e \in Answer, e.key = k
  PROVE  LET es == Append(Others(k), e) IN
         /\ es \in Seq(Answer)
         /\ k \in Keys(entries) => Len(es) <= MaxEntries
         /\ \A i \in DOMAIN es : es[i] = e \/ \E j \in DOMAIN entries : es[i] = entries[j]
         /\ \A i, j \in DOMAIN es : es[i].key = es[j].key => i = j
<1> DEFINE f == Others(k)
           es == Append(f, e)
<1>1. /\ f \in Seq(Answer)
      /\ k \in Keys(entries) => Len(f) = Len(entries) - 1
      /\ \A i \in DOMAIN f : \E j \in DOMAIN entries : f[i] = entries[j] /\ entries[j].key # k
      /\ \A i, j \in DOMAIN f : f[i].key = f[j].key => i = j
  BY OthersOfKey
<1> HIDE DEF f
<1>2. /\ es \in Seq(Answer) /\ Len(es) = Len(f) + 1 /\ Len(f) \in Nat
      /\ DOMAIN f = 1..Len(f) /\ DOMAIN es = 1..(Len(f) + 1)
      /\ es[Len(f) + 1] = e /\ \A i \in 1..Len(f) : es[i] = f[i]
  BY <1>1, SMT
<1> HIDE DEF es
<1>3. k \in Keys(entries) => Len(es) <= MaxEntries
  <2>1. entries \in Seq(Answer) /\ Len(entries) <= MaxEntries
    BY DEF ResearchInv, ResearchTypeOK, AnswersSound
  <2>2. Len(entries) \in Nat
    BY <2>1, SMT
  <2> QED
    BY <1>1, <1>2, <2>1, <2>2, CacheAssumption, SMT
<1>4. \A i \in DOMAIN es : i = Len(f) + 1 \/ i \in DOMAIN f
  BY <1>2, SMT
<1>5. \A i \in DOMAIN es : es[i] = e \/ \E j \in DOMAIN entries : es[i] = entries[j]
  BY <1>1, <1>2, <1>4
<1>6. \A i \in DOMAIN f : es[i].key # k
  BY <1>1, <1>2
<1>7. \A i, j \in DOMAIN es : es[i].key = es[j].key => i = j
  BY <1>1, <1>2, <1>4, <1>6
<1> QED
  BY <1>2, <1>3, <1>5, <1>7 DEF es, f

LEMMA ServeHitKeeps ==
  ASSUME ResearchInv, NEW r \in Asker, ServeHit(r)
  PROVE  ResearchInv'
<1> DEFINE k == rkey[r]
           e == Entry(k)
           es == Append(Others(k), e)
<1>1. rpc[r] = "version" /\ k \in Keys(entries) /\ Finish(r, es) /\ UNCHANGED tableVars
  BY DEF ServeHit, Hit
<1>2. k \in Key /\ entries \in Seq(Answer)
  BY <1>1 DEF ResearchInv, ResearchTypeOK
<1>3. Place(k) \in DOMAIN entries /\ entries[Place(k)].key = k
  BY <1>1 DEF Place, Keys
<1>4. e \in Answer /\ e.key = k
  BY <1>2, <1>3, SMT DEF Entry
<1>5. Covers(e.ver, e.val)
  BY <1>3 DEF ResearchInv, AnswersSound, Entry
<1>6. \A i \in DOMAIN entries : Covers(entries[i].ver, entries[i].val)
  BY DEF ResearchInv, AnswersSound
<1> HIDE DEF k, e
<1>7. /\ es \in Seq(Answer) /\ Len(es) <= MaxEntries
      /\ \A i \in DOMAIN es : es[i] = e \/ \E j \in DOMAIN entries : es[i] = entries[j]
      /\ \A i, j \in DOMAIN es : es[i].key = es[j].key => i = j
  BY <1>1, <1>2, <1>4, AppendedAnswers
<1> HIDE DEF es
<1>8. \A i \in DOMAIN es : Covers(es[i].ver, es[i].val)
  BY <1>5, <1>6, <1>7
<1> QED
  BY <1>1, <1>7, <1>8, FinishKeeps DEF Inside

(* An answer computed under a version holds the rows of the version. *)
LEMMA StoreKeeps ==
  ASSUME ResearchInv, NEW r \in Asker, Store(r)
  PROVE  ResearchInv'
<1> DEFINE k == rkey[r]
<1>1. PICK seen \in {rval[r], Committed} :
         Finish(r, Trimmed(Append(Others(k),
            [key |-> k, ver |-> Highest(rval[r]), val |-> seen, old |-> FALSE])))
  BY DEF Store
<1> DEFINE e == [key |-> k, ver |-> Highest(rval[r]), val |-> seen, old |-> FALSE]
           es == Append(Others(k), e)
<1>2. rpc[r] = "compute" /\ UNCHANGED tableVars
  BY DEF Store
<1>3. k \in Key /\ rval[r] \in SUBSET (1..Rows) /\ Committed \in SUBSET (1..Rows)
  BY <1>2 DEF ResearchInv, ResearchTypeOK, Committed
<1>4. Highest(rval[r]) \in Nat
  BY <1>3, HighestIsHighest
<1>5. e \in Answer /\ e.key = k /\ e.ver = Highest(rval[r]) /\ e.val = seen
  BY <1>3, <1>4 DEF Answer
<1>6. Covers(e.ver, e.val)
  <2>1. Covers(Highest(rval[r]), rval[r])
    BY <1>2 DEF ResearchInv, AnswersSound
  <2>2. Covers(Highest(rval[r]), Committed)
    BY <2>1 DEF Covers
  <2> QED
    BY <1>5, <2>1, <2>2
<1>7. \A i \in DOMAIN entries : Covers(entries[i].ver, entries[i].val)
  BY DEF ResearchInv, AnswersSound
<1>8. Finish(r, Trimmed(es))
  BY <1>1
<1> HIDE DEF k, e
<1>9. /\ es \in Seq(Answer)
      /\ \A i \in DOMAIN es : es[i] = e \/ \E j \in DOMAIN entries : es[i] = entries[j]
      /\ \A i, j \in DOMAIN es : es[i].key = es[j].key => i = j
  BY <1>3, <1>5, AppendedAnswers
<1> HIDE DEF es
<1>10. \A i \in DOMAIN es : Covers(es[i].ver, es[i].val)
  BY <1>6, <1>7, <1>9
<1> DEFINE t == Trimmed(es)
<1>11. /\ t \in Seq(Answer) /\ Len(t) <= MaxEntries
       /\ \A i \in DOMAIN t : \E j \in DOMAIN es : t[i] = es[j]
       /\ \A i, j \in DOMAIN t : t[i].key = t[j].key => i = j
  BY <1>9, TrimmedAnswers
<1>12. Finish(r, t)
  BY <1>8
<1> HIDE DEF t
<1>13. \A i \in DOMAIN t : Covers(t[i].ver, t[i].val)
  BY <1>10, <1>11
<1> QED
  BY <1>2, <1>11, <1>12, <1>13, FinishKeeps DEF Inside

LEMMA RaiseKeeps ==
  ASSUME ResearchInv, NEW r \in Asker, Raise(r)
  PROVE  ResearchInv'
<1>1. rpc[r] \in Inside /\ Finish(r, entries) /\ UNCHANGED tableVars
  BY DEF Raise, Inside
<1>2. entries \in Seq(Answer) /\ AnswersSound
  BY DEF ResearchInv, ResearchTypeOK
<1> QED
  BY <1>1, <1>2, FinishKeeps DEF AnswersSound

LEMMA ResearchStarts == RInit => ResearchInv
<1> SUFFICES ASSUME RInit PROVE ResearchInv
  OBVIOUS
<1>1. NoOne \notin Asker /\ NoOne \notin Key /\ MaxEntries \in Nat
  BY CacheAssumption
<1>2. 0 \notin LockId
  <2>1. Cardinality(Asker) + Cardinality(Key) \in Nat
    BY CacheAssumption, FS_CardinalityType, SMT
  <2> QED
    BY <2>1, SMT DEF LockId
<1>3. ResearchTypeOK
  <2>1. <<>> \in Seq(Answer) /\ <<>> \in Seq(Asker)
    BY SMT
  <2> QED
    BY <2>1 DEF RInit, ResearchTypeOK, Calling, Inside
<1>4. CallsHold
  BY <1>1 DEF RInit, CallsHold, Queued, Inside
<1>5. LockOfKey
  BY DEF RInit, LockOfKey
<1>6. LocksOwned
  BY DEF RInit, LocksOwned
<1>7. AnswersSound
  <2>1. entries = <<>> /\ Len(entries) = 0 /\ DOMAIN entries = {}
    BY SMT DEF RInit
  <2> QED
    BY <1>1, <2>1, SMT DEF RInit, AnswersSound
<1> QED
  BY <1>3, <1>4, <1>5, <1>6, <1>7 DEF ResearchInv

LEMMA ResearchStepKeeps == ResearchInv /\ [RNext]_rVars => ResearchInv'
<1> SUFFICES ASSUME ResearchInv, [RNext]_rVars PROVE ResearchInv'
  OBVIOUS
<1>1. CASE UNCHANGED rVars
  <2>1. UNCHANGED tableVars /\ UNCHANGED keyLockVars /\ UNCHANGED <<entries, rpc, rkey, rlock, rval>>
    BY <1>1 DEF rVars, tableVars, keyLockVars
  <2>2. ResearchTypeOK'
    BY <2>1 DEF ResearchInv, ResearchTypeOK, tableVars, keyLockVars
  <2>3. CallsHold' /\ LockOfKey' /\ LocksOwned'
    BY <2>1 DEF ResearchInv, CallsHold, Queued, LockOfKey, LocksOwned, Keys, keyLockVars
  <2>4. AnswersSound'
    BY <2>1, SoundOn DEF ResearchInv
  <2> QED
    BY <2>2, <2>3, <2>4 DEF ResearchInv
<1>2. ASSUME NEW i \in 1..MaxEntries, Expire(i) PROVE ResearchInv'
  BY <1>2, ExpireKeeps
<1>3. ASSUME NEW i \in 1..Rows, OpenRow(i) \/ CommitRow(i) PROVE ResearchInv'
  BY <1>3, RowsKeep
<1>4. ASSUME NEW r \in Asker, NEW k \in Key, Ask(r, k) PROVE ResearchInv'
  BY <1>4, AskKeeps
<1>5. ASSUME NEW r \in Asker, Wake(r) PROVE ResearchInv'
  BY <1>5, WakeKeeps
<1>6. ASSUME NEW r \in Asker, ServeHit(r) PROVE ResearchInv'
  BY <1>6, ServeHitKeeps
<1>7. ASSUME NEW r \in Asker, Miss(r) PROVE ResearchInv'
  BY <1>7, MissKeeps
<1>8. ASSUME NEW r \in Asker, Store(r) PROVE ResearchInv'
  BY <1>8, StoreKeeps
<1>9. ASSUME NEW r \in Asker, Raise(r) PROVE ResearchInv'
  BY <1>9, RaiseKeeps
<1> QED
  BY <1>1, <1>2, <1>3, <1>4, <1>5, <1>6, <1>7, <1>8, <1>9 DEF RNext

LEMMA OneComputes ==
  ASSUME ResearchInv, NEW k \in Key \ shaky
  PROVE  Cardinality(Computing(k)) <= 1
<1> DEFINE B == Computing(k)
<1>1. ASSUME NEW t \in B, NEW u \in B PROVE t = u
  <2>1. \A v \in B : v \in Asker /\ rkey[v] = k /\ rpc[v] = "compute"
    BY DEF Computing
  <2>2. \A v \in B : rlock[v] = locks[k] /\ rlock[v] \in LockId
    BY <2>1 DEF ResearchInv, ResearchTypeOK, LockOfKey
  <2>3. \A v \in B : holder[locks[k]] = v
    BY <2>1, <2>2 DEF ResearchInv, CallsHold, Inside
  <2> QED
    BY <2>3
<1> HIDE DEF B
<1>2. CASE B = {}
  BY <1>2, FS_EmptySet, SMT DEF B
<1>3. CASE B # {}
  <2>1. PICK t : B = {t}
    BY <1>1, <1>3
  <2>2. Cardinality({t}) = 1
    BY FS_Singleton
  <2>3. Cardinality(B) = 1
    BY <2>1, <2>2
  <2> QED
    BY <2>3, SMT DEF B
<1> QED
  BY <1>2, <1>3

(* research_cache.py: over every run, however many requests ask for however *)
(* many keys, and whatever fails, expires or is evicted, one computes the    *)
(* answer of a key at a time, but for keys whose lock was dropped under a    *)
(* waiter; and no lock outlives both its answer and its calls.               *)
THEOREM ResearchIsComputedOnce == RSpec => []SingleFlight
<1>1. RInit => ResearchInv
  BY ResearchStarts
<1>2. ResearchInv /\ [RNext]_rVars => ResearchInv'
  BY ResearchStepKeeps
<1>3. ResearchInv => SingleFlight
  <2> SUFFICES ASSUME ResearchInv PROVE SingleFlight
    OBVIOUS
  <2>1. \A k \in Key \ shaky : Cardinality(Computing(k)) <= 1
    BY OneComputes
  <2> QED
    BY <2>1 DEF ResearchInv, AnswersSound, LocksOwned, SingleFlight
<1> QED
  BY <1>1, <1>2, <1>3, PTL DEF RSpec

(* research_cache.py: an answer served from the cache misses no committed row *)
(* but those that were committed behind a higher id, which the data version   *)
(* cannot show.                                                               *)
THEOREM ServedAnswersAreCurrent == RSpec => []CachedAnswersCurrent
<1>1. RInit => ResearchInv
  BY ResearchStarts
<1>2. ResearchInv /\ [RNext]_rVars => ResearchInv'
  BY ResearchStepKeeps
<1>3. ResearchInv => CachedAnswersCurrent
  <2> SUFFICES ASSUME ResearchInv, NEW r \in Asker, rpc[r] = "version", Hit(rkey[r])
               PROVE  Committed \ Entry(rkey[r]).val \subseteq overtaken /\ ~Entry(rkey[r]).old
    BY DEF CachedAnswersCurrent
  <2> DEFINE k == rkey[r]
             e == Entry(k)
  <2>1. Place(k) \in DOMAIN entries
    BY DEF Hit, Place, Keys
  <2>2. Covers(e.ver, e.val) /\ e.ver = Version /\ ~e.old
    BY <2>1 DEF ResearchInv, AnswersSound, Entry, Hit
  <2>3. Committed \in SUBSET (1..Rows)
    BY DEF Committed
  <2>4. Version \in Nat /\ \A i \in Committed : i \in Nat /\ i <= Version
    <3>1. Version \in Nat /\ \A i \in Committed : i <= Version
      BY <2>3, HighestIsHighest DEF Version
    <3>2. \A i \in Committed : i \in Nat
      BY <2>3, CacheAssumption, SMT
    <3> QED
      BY <3>1, <3>2
  <2>5. \A i \in Committed : ~(Version < i)
    BY <2>4, SMT
  <2> HIDE DEF e
  <2>6. Committed \ e.val \subseteq overtaken
    BY <2>2, <2>5 DEF Covers
  <2> QED
    BY <2>2, <2>6 DEF e
<1> QED
  BY <1>1, <1>2, <1>3, PTL DEF RSpec

-----------------------------------------------------------------------------
(***************************************************************************)
(* The cached universe of markets.  ExploreInv is inductive: what was read *)
(* under a scan's key lacks nothing while the key is current, unless that  *)
(* scan's markets were landing during the read.                            *)
(***************************************************************************)

(* What an answer is made of. *)
LEMMA AnswersKnown ==
    /\ NoAnswer \in Answers
    /\ \A src \in {"none", "live", "cached", "replay"}, reason, raced \in BOOLEAN,
         mk \in 0..MaxScan :
          [src |-> src, reason |-> reason, mk |-> mk, raced |-> raced] \in Answers
PROOF
<1>1. 0 \in 0..MaxScan
  BY ExploreAssumption
<1> QED BY <1>1 DEF NoAnswer, Answers

(* A source that may answer, and whether a reason goes with it. *)
LEMMA SourcesKnown ==
    ASSUME NEW m \in Mode, NEW up \in BOOLEAN, NEW s \in SelectedSource(m, up)
    PROVE  s[1] \in {"none", "live", "cached", "replay"} /\ s[2] \in BOOLEAN
PROOF
<1>1. \/ s = <<"replay", FALSE>> \/ s = <<"cached", FALSE>> \/ s = <<"live", FALSE>>
      \/ s = <<"cached", TRUE>> \/ s = <<"replay", TRUE>> \/ s = <<"none", TRUE>>
  BY DEF SelectedSource
<1>2. CASE s = <<"replay", FALSE>>
  BY <1>2
<1>3. CASE s = <<"cached", FALSE>>
  BY <1>3
<1>4. CASE s = <<"live", FALSE>>
  BY <1>4
<1>5. CASE s = <<"cached", TRUE>>
  BY <1>5
<1>6. CASE s = <<"replay", TRUE>>
  BY <1>6
<1>7. CASE s = <<"none", TRUE>>
  BY <1>7
<1> QED BY <1>1, <1>2, <1>3, <1>4, <1>5, <1>6, <1>7

(* The values that the steps assign are of the types of the invariant. *)
LEMMA TimesKnown ==
    ASSUME ExploreTypeOK
    PROVE  /\ 0 \in 0..xclock /\ xclock \in 0..xclock
           /\ 0 \in 0..scanKey /\ scanKey \in 0..scanKey /\ {0, scanKey}
               \subseteq 0..scanKey
           /\ 0 \in 0..MaxScan /\ table \in 0..MaxScan
PROOF
BY ExploreAssumption DEF ExploreTypeOK

(* A step that does not touch the store leaves what a reading may lack.         *)
LEMMA ReadingStands ==
    ASSUME UNCHANGED <<table, landed, scanKey, upserting>>, NEW a, NEW at, NEW
        k, ReadAt(a, at, k)
    PROVE  ReadAt(a, at, k)'
PROOF
BY DEF ReadAt, Newer

(* Nor does a landing upsert add more than a market that lands now.             *)
LEMMA LandsLater ==
    ASSUME ExploreInv, UpsertMarkets, NEW a \in Answers, NEW at \in Int, at <=
        xclock,
           \A s \in Newer(a) : at <= landed[s]
    PROVE  \A s \in Newer(a)' : at <= landed'[s]
PROOF
<1> SUFFICES ASSUME NEW s \in Newer(a)'
             PROVE  at <= landed'[s]
  OBVIOUS
<1>1. s \in 1..MaxScan /\ a.mk < s /\ s <= table' /\ landed'[s] > 0
  BY DEF Newer
<1>2. CASE UNCHANGED <<table, landed>>
  BY <1>1, <1>2 DEF Newer
<1>3. CASE \E u \in upserting : table' = u /\ landed' = [landed EXCEPT ![u] =
    xclock]
  <2>1. PICK u \in upserting : table' = u /\ landed' = [landed EXCEPT ![u] = xclock]
    BY <1>3
  <2>2. CASE s = u
    BY <1>1, <2>1, <2>2 DEF ExploreInv, ExploreTypeOK
  <2>3. CASE s # u
    <3>1. landed'[s] = landed[s] /\ landed[s] > 0
      BY <1>1, <2>1, <2>3 DEF ExploreInv, ExploreTypeOK
    <3>2. s \in Newer(a)
      BY <1>1, <3>1 DEF ExploreInv, TableGoesForward, Newer
    <3> QED BY <3>1, <3>2
  <2> QED BY <2>2, <2>3
<1> QED BY <1>2, <1>3 DEF UpsertMarkets

LEMMA ReadingStandsUpsert ==
    ASSUME ExploreInv, UpsertMarkets, NEW a \in Answers, NEW at \in Int, at <=
        xclock,
           NEW k \in Nat, ReadAt(a, at, k)
    PROVE  ReadAt(a, at, k)'
PROOF
<1>1. ~(~a.raced /\ k = scanKey) /\ scanKey' = scanKey
  BY DEF UpsertMarkets, ReadAt
<1>2. \A s \in Newer(a)' : at <= landed'[s]
  BY LandsLater DEF ReadAt
<1> QED BY <1>1, <1>2 DEF ReadAt

(* One lemma for each action. *)
LEMMA RecordScanKeeps ==
    ASSUME ExploreInv, RecordScan
    PROVE  ExploreInv'
PROOF
<1>1. ExploreTypeOK'
  BY ExploreAssumption DEF ExploreInv, RecordScan, ExploreTypeOK
<1>2. TableGoesForward'
  BY ExploreAssumption DEF ExploreInv, RecordScan, ExploreTypeOK, TableGoesForward
<1>3. ReadersHold'
  BY ExploreAssumption
     DEF ExploreInv, RecordScan, ExploreTypeOK, ReadersHold, Reading, Answers,
         NoCache, NoAnswer
<1>4. ReadsCurrent'
  BY ExploreAssumption
     DEF ExploreInv, RecordScan, ExploreTypeOK, Answers, TableGoesForward,
         ReadersHold, Reading, ReadsCurrent, ReadAt, Newer, NoAnswer
<1>5. EntryCurrent'
  BY ExploreAssumption
     DEF ExploreInv, RecordScan, ExploreTypeOK, Answers, ReadersHold, Reading,
         ReadsCurrent, EntryCurrent, ReadAt, Newer, NoAnswer, NoCache
<1> QED BY <1>1, <1>2, <1>3, <1>4, <1>5 DEF ExploreInv

LEMMA UpsertMarketsKeeps ==
    ASSUME ExploreInv, UpsertMarkets
    PROVE  ExploreInv'
PROOF
<1>1. ExploreTypeOK'
  <2> USE ExploreAssumption, TimesKnown, AnswersKnown
      DEF ExploreInv, ExploreTypeOK, UpsertMarkets
  <2>1. (/\ xclock \in Nat /\ prod \in BOOLEAN /\ memo \in Nat
         /\ lock \in Req \cup {NoReq})'
    OBVIOUS
  <2>1a. (/\ scanKey \in 0..MaxScan /\ table \in 0..scanKey
          /\ upserting \subseteq {scanKey})'
    BY \A u \in upserting : u = scanKey
  <2>1b. (landed \in [1..MaxScan -> 0..xclock])'
    OBVIOUS
  <2>2. (cached \in [ans : Answers, loaded : 0..xclock, key : 0..scanKey,
                     checked : 0..xclock])'
    BY DEF NoCache
  <2>3. (/\ xpc \in [Req -> {"new", "wait", "validate", "key", "markets", "select",
                             "signals", "done"}]
         /\ mode \in [Req -> Mode])'
    BY DEF Mode
  <2>4. (xnow \in [Req -> 0..xclock])'
    OBVIOUS
  <2>5. (key \in [Req -> 0..scanKey])'
    OBVIOUS
  <2>6. (got \in [Req -> Answers])'
    OBVIOUS
  <2>7. (answer \in [Req -> Answers])'
    OBVIOUS
  <2> QED BY <2>1, <2>1a, <2>1b, <2>2, <2>3, <2>4, <2>5, <2>6, <2>7
<1>2. TableGoesForward'
  BY ExploreAssumption
     DEF ExploreInv, UpsertMarkets, ExploreTypeOK, TableGoesForward
<1>3. ReadersHold'
  BY ExploreAssumption
     DEF ExploreInv, UpsertMarkets, ExploreTypeOK, ReadersHold, Reading,
         Answers, NoCache, NoAnswer
<1>4. ReadsCurrent'
  <2> SUFFICES ASSUME NEW r \in Req, xpc'[r] = "signals", got'[r].src = "cached"
               PROVE  ReadAt(got[r], xnow[r], key[r])'
    BY DEF UpsertMarkets, ReadsCurrent, ReadAt, Newer
  <2>1. ReadAt(got[r], xnow[r], key[r])
    BY DEF ExploreInv, ReadsCurrent, UpsertMarkets
  <2>2. PICK a \in Answers, at \in Int, k \in Nat :
          a = got[r] /\ at = xnow[r] /\ k = key[r] /\ at <= xclock
    BY DEF ExploreInv, ExploreTypeOK
  <2>3. ReadAt(a, at, k)'
    BY <2>1, <2>2, ReadingStandsUpsert
  <2> QED BY <2>2, <2>3 DEF UpsertMarkets, ReadAt, Newer
<1>5. EntryCurrent'
  <2> SUFFICES ASSUME cached.ans.src = "cached"
               PROVE  EntryCurrent'
    BY DEF UpsertMarkets, EntryCurrent
  <2>1. PICK a \in Answers, l \in 0..xclock, k \in Nat, c \in 0..xclock :
          /\ a = cached.ans /\ l = cached.loaded
          /\ k = cached.key /\ c = cached.checked
    BY DEF ExploreInv, ExploreTypeOK
  <2>2. cached' = cached
    BY DEF UpsertMarkets
  <2>3. ReadAt(a, l - MaxRead, k) /\ l - MaxRead \in Int /\ l - MaxRead <= xclock
    BY <2>1, ExploreAssumption DEF ExploreInv, ExploreTypeOK, EntryCurrent
  <2>4. ReadAt(a, l - MaxRead, k)'
    BY <2>3, ReadingStandsUpsert
  <2>5. ~a.raced => \A s \in Newer(a)' : c <= landed'[s] + MaxRead
    <3> SUFFICES ASSUME ~a.raced
                 PROVE  \A s \in Newer(a)' : c <= landed'[s] + MaxRead
      OBVIOUS
    <3>1. c - MaxRead \in Int /\ c - MaxRead <= xclock
      BY ExploreAssumption DEF ExploreInv, ExploreTypeOK
    <3>2. \A s \in Newer(a) : landed[s] \in Nat /\ c - MaxRead <= landed[s]
      BY <2>1, ExploreAssumption DEF ExploreInv, ExploreTypeOK, EntryCurrent, Newer
    <3>3. \A s \in Newer(a)' : c - MaxRead <= landed'[s]
      BY <3>1, <3>2, LandsLater
    <3>4. \A s \in 1..MaxScan : landed'[s] \in Nat
      BY <1>1 DEF ExploreTypeOK
    <3>5. Newer(a)' \subseteq 1..MaxScan
      BY DEF Newer
    <3> QED BY <3>3, <3>4, <3>5, ExploreAssumption
  <2> QED BY <2>1, <2>2, <2>4, <2>5 DEF ExploreInv, EntryCurrent, ReadAt, Newer
<1> QED BY <1>1, <1>2, <1>3, <1>4, <1>5 DEF ExploreInv

LEMMA XAdvanceKeeps ==
    ASSUME ExploreInv, XAdvance
    PROVE  ExploreInv'
PROOF
<1>1. ExploreTypeOK'
  BY ExploreAssumption DEF ExploreInv, XAdvance, worldVars, ExploreTypeOK
<1>2. TableGoesForward'
  BY ExploreAssumption
     DEF ExploreInv, XAdvance, worldVars, ExploreTypeOK, TableGoesForward
<1>3. ReadersHold'
  BY ExploreAssumption
     DEF ExploreInv, XAdvance, worldVars, ExploreTypeOK, ReadersHold, Reading,
         Answers, NoCache, NoAnswer
<1>4. ReadsCurrent'
  BY ExploreAssumption
     DEF ExploreInv, XAdvance, worldVars, ExploreTypeOK, Answers,
         TableGoesForward, ReadersHold, Reading, ReadsCurrent, ReadAt, Newer,
         NoAnswer
<1>5. EntryCurrent'
  BY ExploreAssumption
     DEF ExploreInv, XAdvance, worldVars, ExploreTypeOK, Answers, ReadersHold,
         Reading, ReadsCurrent, EntryCurrent, ReadAt, Newer, NoAnswer, NoCache
<1> QED BY <1>1, <1>2, <1>3, <1>4, <1>5 DEF ExploreInv

LEMMA DirectKeeps ==
    ASSUME ExploreInv, NEW r \in Req, Direct(r)
    PROVE  ExploreInv'
PROOF
<1>1. ExploreTypeOK'
  <2> USE ExploreAssumption, TimesKnown, AnswersKnown
      DEF ExploreInv, ExploreTypeOK, Direct, worldVars, LiveMarkets, ReplayAllowed
  <2>1. (/\ xclock \in Nat /\ prod \in BOOLEAN /\ memo \in Nat
         /\ lock \in Req \cup {NoReq} /\ scanKey \in 0..MaxScan
         /\ table \in 0..scanKey /\ upserting \subseteq {scanKey}
         /\ landed \in [1..MaxScan -> 0..xclock])'
    OBVIOUS
  <2>2. (cached \in [ans : Answers, loaded : 0..xclock, key : 0..scanKey,
                     checked : 0..xclock])'
    BY DEF NoCache
  <2>3. (/\ xpc \in [Req -> {"new", "wait", "validate", "key", "markets", "select",
                             "signals", "done"}]
         /\ mode \in [Req -> Mode])'
    BY DEF Mode
  <2>4. (xnow \in [Req -> 0..xclock])'
    OBVIOUS
  <2>5. (key \in [Req -> 0..scanKey])'
    OBVIOUS
  <2>6. (got \in [Req -> Answers])'
    OBVIOUS
  <2>7. (answer \in [Req -> Answers])'
    <3>1. PICK m \in Mode, up \in BOOLEAN : \E s \in SelectedSource(m, up) :
             answer' = [answer EXCEPT ![r] =
                [src |-> s[1], reason |-> s[2],
                 mk |-> IF s[1] = "cached" THEN table ELSE 0, raced |-> FALSE]]
      OBVIOUS
    <3>2. PICK s \in SelectedSource(m, up) :
             answer' = [answer EXCEPT ![r] =
                [src |-> s[1], reason |-> s[2],
                 mk |-> IF s[1] = "cached" THEN table ELSE 0, raced |-> FALSE]]
      BY <3>1
    <3>3. s[1] \in {"none", "live", "cached", "replay"} /\ s[2] \in BOOLEAN
      BY SourcesKnown
    <3> QED BY <3>2, <3>3
  <2> QED BY <2>1, <2>2, <2>3, <2>4, <2>5, <2>6, <2>7
<1>2. TableGoesForward'
  BY ExploreAssumption
     DEF ExploreInv, Direct, worldVars, LiveMarkets, ReplayAllowed,
         ExploreTypeOK, TableGoesForward
<1>3. ReadersHold'
  BY ExploreAssumption
     DEF ExploreInv, Direct, worldVars, LiveMarkets, ReplayAllowed,
         ExploreTypeOK, ReadersHold, Reading, Answers, NoCache, NoAnswer
<1>4. ReadsCurrent'
  BY ExploreAssumption, SMTT(30)
     DEF ExploreInv, Direct, worldVars, LiveMarkets, ReplayAllowed,
         ExploreTypeOK, Answers, TableGoesForward, ReadersHold, Reading,
         ReadsCurrent, ReadAt, Newer, NoAnswer
<1>5. EntryCurrent'
  BY ExploreAssumption
     DEF ExploreInv, Direct, worldVars, LiveMarkets, ReplayAllowed,
         ExploreTypeOK, Answers, ReadersHold, Reading, ReadsCurrent, EntryCurrent,
         ReadAt, Newer, NoAnswer, NoCache
<1> QED BY <1>1, <1>2, <1>3, <1>4, <1>5 DEF ExploreInv

LEMMA ExploreKeeps ==
    ASSUME ExploreInv, NEW r \in Req, Explore(r)
    PROVE  ExploreInv'
PROOF
<1>1. ExploreTypeOK'
  <2> USE ExploreAssumption, TimesKnown, AnswersKnown
      DEF ExploreInv, ExploreTypeOK, Explore, worldVars
  <2>1. (/\ xclock \in Nat /\ prod \in BOOLEAN /\ memo \in Nat
         /\ lock \in Req \cup {NoReq} /\ scanKey \in 0..MaxScan
         /\ table \in 0..scanKey /\ upserting \subseteq {scanKey}
         /\ landed \in [1..MaxScan -> 0..xclock])'
    OBVIOUS
  <2>2. (cached \in [ans : Answers, loaded : 0..xclock, key : 0..scanKey,
                     checked : 0..xclock])'
    BY DEF NoCache
  <2>3. (/\ xpc \in [Req -> {"new", "wait", "validate", "key", "markets", "select",
                             "signals", "done"}]
         /\ mode \in [Req -> Mode])'
    BY DEF Mode
  <2>4. (xnow \in [Req -> 0..xclock])'
    OBVIOUS
  <2>5. (key \in [Req -> 0..scanKey])'
    OBVIOUS
  <2>6. (got \in [Req -> Answers])'
    OBVIOUS
  <2>7. (answer \in [Req -> Answers])'
    OBVIOUS
  <2> QED BY <2>1, <2>2, <2>3, <2>4, <2>5, <2>6, <2>7
<1>2. TableGoesForward'
  BY ExploreAssumption
     DEF ExploreInv, Explore, worldVars, ExploreTypeOK, TableGoesForward
<1>3. ReadersHold'
  BY ExploreAssumption
     DEF ExploreInv, Explore, worldVars, ExploreTypeOK, ReadersHold, Reading,
         Answers, NoCache, NoAnswer
<1>4. ReadsCurrent'
  BY ExploreAssumption
     DEF ExploreInv, Explore, worldVars, ExploreTypeOK, Answers,
         TableGoesForward, ReadersHold, Reading, ReadsCurrent, ReadAt, Newer,
         NoAnswer
<1>5. EntryCurrent'
  BY ExploreAssumption
     DEF ExploreInv, Explore, worldVars, ExploreTypeOK, Answers, ReadersHold,
         Reading, ReadsCurrent, EntryCurrent, ReadAt, Newer, NoAnswer, NoCache
<1> QED BY <1>1, <1>2, <1>3, <1>4, <1>5 DEF ExploreInv

LEMMA EnterFreshKeeps ==
    ASSUME ExploreInv, NEW r \in Req, EnterFresh(r)
    PROVE  ExploreInv'
PROOF
<1>1. ExploreTypeOK'
  <2> USE ExploreAssumption, TimesKnown, AnswersKnown
      DEF ExploreInv, ExploreTypeOK, EnterFresh, worldVars, ServeAnswer, Fresh
  <2>1. (/\ xclock \in Nat /\ prod \in BOOLEAN /\ memo \in Nat
         /\ lock \in Req \cup {NoReq} /\ scanKey \in 0..MaxScan
         /\ table \in 0..scanKey /\ upserting \subseteq {scanKey}
         /\ landed \in [1..MaxScan -> 0..xclock])'
    OBVIOUS
  <2>2. (cached \in [ans : Answers, loaded : 0..xclock, key : 0..scanKey,
                     checked : 0..xclock])'
    BY DEF NoCache
  <2>3. (/\ xpc \in [Req -> {"new", "wait", "validate", "key", "markets", "select",
                             "signals", "done"}]
         /\ mode \in [Req -> Mode])'
    BY DEF Mode
  <2>4. (xnow \in [Req -> 0..xclock])'
    OBVIOUS
  <2>5. (key \in [Req -> 0..scanKey])'
    OBVIOUS
  <2>6. (got \in [Req -> Answers])'
    OBVIOUS
  <2>7. (answer \in [Req -> Answers])'
    OBVIOUS
  <2> QED BY <2>1, <2>2, <2>3, <2>4, <2>5, <2>6, <2>7
<1>2. TableGoesForward'
  BY ExploreAssumption
     DEF ExploreInv, EnterFresh, worldVars, ServeAnswer, Fresh, ExploreTypeOK,
         TableGoesForward
<1>3. ReadersHold'
  BY ExploreAssumption
     DEF ExploreInv, EnterFresh, worldVars, ServeAnswer, Fresh, ExploreTypeOK,
         ReadersHold, Reading, Answers, NoCache, NoAnswer
<1>4. ReadsCurrent'
  BY ExploreAssumption
     DEF ExploreInv, EnterFresh, worldVars, ServeAnswer, Fresh, ExploreTypeOK,
         Answers, TableGoesForward, ReadersHold, Reading, ReadsCurrent, ReadAt,
         Newer, NoAnswer
<1>5. EntryCurrent'
  BY ExploreAssumption
     DEF ExploreInv, EnterFresh, worldVars, ServeAnswer, Fresh, ExploreTypeOK,
         Answers, ReadersHold, Reading, ReadsCurrent, EntryCurrent, ReadAt, Newer,
         NoAnswer, NoCache
<1> QED BY <1>1, <1>2, <1>3, <1>4, <1>5 DEF ExploreInv

LEMMA EnterLapsedKeeps ==
    ASSUME ExploreInv, NEW r \in Req, EnterLapsed(r)
    PROVE  ExploreInv'
PROOF
<1>1. ExploreTypeOK'
  <2> USE ExploreAssumption, TimesKnown, AnswersKnown
      DEF ExploreInv, ExploreTypeOK, EnterLapsed, worldVars, locals, Fresh, Holdable
  <2>1. (/\ xclock \in Nat /\ prod \in BOOLEAN /\ memo \in Nat
         /\ lock \in Req \cup {NoReq} /\ scanKey \in 0..MaxScan
         /\ table \in 0..scanKey /\ upserting \subseteq {scanKey}
         /\ landed \in [1..MaxScan -> 0..xclock])'
    OBVIOUS
  <2>2. (cached \in [ans : Answers, loaded : 0..xclock, key : 0..scanKey,
                     checked : 0..xclock])'
    BY DEF NoCache
  <2>3. (/\ xpc \in [Req -> {"new", "wait", "validate", "key", "markets", "select",
                             "signals", "done"}]
         /\ mode \in [Req -> Mode])'
    BY DEF Mode
  <2>4. (xnow \in [Req -> 0..xclock])'
    OBVIOUS
  <2>5. (key \in [Req -> 0..scanKey])'
    OBVIOUS
  <2>6. (got \in [Req -> Answers])'
    OBVIOUS
  <2>7. (answer \in [Req -> Answers])'
    OBVIOUS
  <2> QED BY <2>1, <2>2, <2>3, <2>4, <2>5, <2>6, <2>7
<1>2. TableGoesForward'
  BY ExploreAssumption
     DEF ExploreInv, EnterLapsed, worldVars, locals, Fresh, Holdable,
         ExploreTypeOK, TableGoesForward
<1>3. ReadersHold'
  BY ExploreAssumption, SMTT(30)
     DEF ExploreInv, EnterLapsed, worldVars, locals, Fresh, Holdable,
         ExploreTypeOK, ReadersHold, Reading, Answers, NoCache, NoAnswer
<1>4. ReadsCurrent'
  BY ExploreAssumption, ZenonT(60)
     DEF ExploreInv, EnterLapsed, worldVars, locals, Fresh, Holdable,
         ExploreTypeOK, Answers, TableGoesForward, ReadersHold, Reading,
         ReadsCurrent, ReadAt, Newer, NoAnswer
<1>5. EntryCurrent'
  <2>1. UNCHANGED <<table, landed, scanKey, upserting>>
    BY DEF EnterLapsed, worldVars
  <2>2. CASE cached' = NoCache
    BY <2>2 DEF EntryCurrent, NoCache, NoAnswer
  <2>3. CASE UNCHANGED cached
    BY <2>1, <2>3 DEF ExploreInv, EntryCurrent, ReadAt, Newer
  <2> QED BY <2>2, <2>3 DEF EnterLapsed
<1> QED BY <1>1, <1>2, <1>3, <1>4, <1>5 DEF ExploreInv

LEMMA ValidateKeeps ==
    ASSUME ExploreInv, NEW r \in Req, Validate(r)
    PROVE  ExploreInv'
PROOF
<1>1. ExploreTypeOK'
  <2> USE ExploreAssumption, TimesKnown, AnswersKnown
      DEF ExploreInv, ExploreTypeOK, Validate, worldVars, locals, ServeAnswer
  <2>1. (/\ xclock \in Nat /\ prod \in BOOLEAN /\ memo \in Nat
         /\ lock \in Req \cup {NoReq} /\ scanKey \in 0..MaxScan
         /\ table \in 0..scanKey /\ upserting \subseteq {scanKey}
         /\ landed \in [1..MaxScan -> 0..xclock])'
    OBVIOUS
  <2>2. (cached \in [ans : Answers, loaded : 0..xclock, key : 0..scanKey,
                     checked : 0..xclock])'
    <3>1. xnow[r] \in 0..xclock
      OBVIOUS
    <3>2. CASE cached' = [cached EXCEPT !.checked = xnow[r]]
      BY <3>1, <3>2
    <3>3. CASE cached' = NoCache
      BY <3>3 DEF NoCache
    <3> QED BY <3>2, <3>3
  <2>3. (/\ xpc \in [Req -> {"new", "wait", "validate", "key", "markets", "select",
                             "signals", "done"}]
         /\ mode \in [Req -> Mode])'
    BY DEF Mode
  <2>4. (xnow \in [Req -> 0..xclock])'
    OBVIOUS
  <2>5. (key \in [Req -> 0..scanKey])'
    BY ZenonT(60)
  <2>6. (got \in [Req -> Answers])'
    BY ZenonT(60)
  <2>7. (answer \in [Req -> Answers])'
    OBVIOUS
  <2> QED BY <2>1, <2>2, <2>3, <2>4, <2>5, <2>6, <2>7
<1>2. TableGoesForward'
  BY ExploreAssumption
     DEF ExploreInv, Validate, worldVars, locals, ServeAnswer, ExploreTypeOK,
         TableGoesForward
<1>3. ReadersHold'
  <2> USE DEF ExploreInv, ExploreTypeOK, Validate, worldVars, locals, Reading
  <2>1. prod /\ lock = r
    BY DEF ReadersHold
  <2>2. CASE ServeAnswer(r, cached.ans) /\ lock' = NoReq
    BY <2>1, <2>2, ExploreAssumption DEF ReadersHold, ServeAnswer
  <2>3. CASE xpc' = [xpc EXCEPT ![r] = "key"] /\ UNCHANGED <<locals, lock, xnow>>
    BY <2>1, <2>3, ExploreAssumption DEF ReadersHold
  <2> QED BY <2>2, <2>3
<1>4. ReadsCurrent'
  <2> SUFFICES ASSUME NEW q \in Req, xpc'[q] = "signals", got'[q].src = "cached"
               PROVE  ReadAt(got[q], xnow[q], key[q])'
    BY DEF ReadsCurrent, ReadAt, Newer
  <2>1. q # r /\ xpc[q] = "signals" /\ got'[q] = got[q] /\ xnow'[q] = xnow[q]
           /\ key'[q] = key[q]
    BY DEF ExploreInv, ExploreTypeOK, Validate, ServeAnswer, worldVars, locals
  <2>2. ReadAt(got[q], xnow[q], key[q])
    BY <2>1 DEF ExploreInv, ReadsCurrent
  <2>3. UNCHANGED <<table, landed, scanKey, upserting>>
    BY DEF Validate, worldVars
  <2> QED BY <2>1, <2>2, <2>3 DEF ReadAt, Newer
<1>5. EntryCurrent'
  <2>1. UNCHANGED <<table, landed, scanKey, upserting>>
    BY DEF Validate, worldVars
  <2>2. CASE cached' = NoCache
    BY <2>2 DEF EntryCurrent, NoCache, NoAnswer
  <2>3. CASE cached.key = scanKey /\ cached' = [cached EXCEPT !.checked = xnow[r]]
    <3> SUFFICES ASSUME cached.ans.src = "cached"
                 PROVE  EntryCurrent'
      BY <2>3 DEF EntryCurrent, ExploreInv, ExploreTypeOK
    <3>1. /\ cached'.ans = cached.ans /\ cached'.loaded = cached.loaded
          /\ cached'.key = cached.key /\ cached'.checked = xnow[r]
      BY <2>3 DEF ExploreInv, ExploreTypeOK
    <3>2. ReadAt(cached.ans, cached.loaded - MaxRead, cached.key)
      BY DEF ExploreInv, EntryCurrent
    <3>3. ReadAt(cached.ans, cached.loaded - MaxRead, cached.key)'
      BY <2>1, <3>1, <3>2 DEF ReadAt, Newer
    <3>4. ~cached.ans.raced => Newer(cached.ans)' = {}
      BY <2>1, <2>3, <3>1, <3>2 DEF ReadAt, Newer
    <3>5. cached'.checked < cached'.loaded + MaxAge
      BY <3>1, ExploreAssumption
         DEF ExploreInv, ExploreTypeOK, ReadersHold, Validate
    <3> QED BY <3>1, <3>3, <3>4, <3>5 DEF EntryCurrent
  <2> QED BY <2>2, <2>3 DEF Validate
<1> QED BY <1>1, <1>2, <1>3, <1>4, <1>5 DEF ExploreInv

LEMMA ReadKeyKeeps ==
    ASSUME ExploreInv, NEW r \in Req, ReadKey(r)
    PROVE  ExploreInv'
PROOF
<1>1. ExploreTypeOK'
  <2> USE ExploreAssumption, TimesKnown, AnswersKnown
      DEF ExploreInv, ExploreTypeOK, ReadKey, worldVars
  <2>1. (/\ xclock \in Nat /\ prod \in BOOLEAN /\ memo \in Nat
         /\ lock \in Req \cup {NoReq} /\ scanKey \in 0..MaxScan
         /\ table \in 0..scanKey /\ upserting \subseteq {scanKey}
         /\ landed \in [1..MaxScan -> 0..xclock])'
    OBVIOUS
  <2>2. (cached \in [ans : Answers, loaded : 0..xclock, key : 0..scanKey,
                     checked : 0..xclock])'
    BY DEF NoCache
  <2>3. (/\ xpc \in [Req -> {"new", "wait", "validate", "key", "markets", "select",
                             "signals", "done"}]
         /\ mode \in [Req -> Mode])'
    BY DEF Mode
  <2>4. (xnow \in [Req -> 0..xclock])'
    OBVIOUS
  <2>5. (key \in [Req -> 0..scanKey])'
    OBVIOUS
  <2>6. (got \in [Req -> Answers])'
    OBVIOUS
  <2>7. (answer \in [Req -> Answers])'
    OBVIOUS
  <2> QED BY <2>1, <2>2, <2>3, <2>4, <2>5, <2>6, <2>7
<1>2. TableGoesForward'
  BY ExploreAssumption
     DEF ExploreInv, ReadKey, worldVars, ExploreTypeOK, TableGoesForward
<1>3. ReadersHold'
  BY ExploreAssumption
     DEF ExploreInv, ReadKey, worldVars, ExploreTypeOK, ReadersHold, Reading,
         Answers, NoCache, NoAnswer
<1>4. ReadsCurrent'
  BY ExploreAssumption
     DEF ExploreInv, ReadKey, worldVars, ExploreTypeOK, Answers,
         TableGoesForward, ReadersHold, Reading, ReadsCurrent, ReadAt, Newer,
         NoAnswer
<1>5. EntryCurrent'
  BY ExploreAssumption
     DEF ExploreInv, ReadKey, worldVars, ExploreTypeOK, Answers, ReadersHold,
         Reading, ReadsCurrent, EntryCurrent, ReadAt, Newer, NoAnswer, NoCache
<1> QED BY <1>1, <1>2, <1>3, <1>4, <1>5 DEF ExploreInv

LEMMA ReadMarketsKeeps ==
    ASSUME ExploreInv, NEW r \in Req, ReadMarkets(r)
    PROVE  ExploreInv'
PROOF
<1>1. ExploreTypeOK'
  <2> USE ExploreAssumption, TimesKnown, AnswersKnown
      DEF ExploreInv, ExploreTypeOK, ReadMarkets, worldVars, locals,
          ServeAnswer, FailRead, Got, PersistedFirst, ReplayAllowed
  <2>1. (/\ xclock \in Nat /\ prod \in BOOLEAN /\ memo \in Nat
         /\ lock \in Req \cup {NoReq} /\ scanKey \in 0..MaxScan
         /\ table \in 0..scanKey /\ upserting \subseteq {scanKey}
         /\ landed \in [1..MaxScan -> 0..xclock])'
    OBVIOUS
  <2>2. (cached \in [ans : Answers, loaded : 0..xclock, key : 0..scanKey,
                     checked : 0..xclock])'
    BY DEF NoCache
  <2>3. (/\ xpc \in [Req -> {"new", "wait", "validate", "key", "markets", "select",
                             "signals", "done"}]
         /\ mode \in [Req -> Mode])'
    BY DEF Mode
  <2>4. (xnow \in [Req -> 0..xclock])'
    <3>1. UNCHANGED xnow \/ xnow' = [xnow EXCEPT ![r] = 0]
      OBVIOUS
    <3> QED BY <3>1
  <2>5. (key \in [Req -> 0..scanKey])'
    OBVIOUS
  <2>6. (got \in [Req -> Answers])'
    <3>1. \/ UNCHANGED got \/ got' = [got EXCEPT ![r] = NoAnswer]
          \/ got' = [got EXCEPT ![r] = [src |-> "cached", reason |-> TRUE, mk
              |-> table,
                                        raced |-> upserting # {}]]
      OBVIOUS
    <3>2. PICK b \in BOOLEAN : b = (upserting # {})
      OBVIOUS
    <3>3. [src |-> "cached", reason |-> TRUE, mk |-> table, raced |-> b] \in Answers
      OBVIOUS
    <3> QED BY <3>1, <3>2, <3>3, ZenonT(60)
  <2>7. (answer \in [Req -> Answers])'
    BY ZenonT(60)
  <2> QED BY <2>1, <2>2, <2>3, <2>4, <2>5, <2>6, <2>7
<1>2. TableGoesForward'
  BY ExploreAssumption
     DEF ExploreInv, ReadMarkets, worldVars, locals, ServeAnswer, FailRead, Got,
         PersistedFirst, ReplayAllowed, ExploreTypeOK, TableGoesForward
<1>3. ReadersHold'
  BY ExploreAssumption, SMTT(30)
     DEF ExploreInv, ReadMarkets, worldVars, locals, ServeAnswer, FailRead, Got,
         PersistedFirst, ReplayAllowed, ExploreTypeOK, ReadersHold, Reading,
         Answers, NoCache, NoAnswer
<1>4. ReadsCurrent'
  <2> SUFFICES ASSUME NEW q \in Req, xpc'[q] = "signals", got'[q].src = "cached"
               PROVE  ReadAt(got[q], xnow[q], key[q])'
    BY DEF ReadsCurrent, ReadAt, Newer
  <2>1. UNCHANGED <<table, landed, scanKey, upserting>>
    BY DEF ReadMarkets, worldVars
  <2>2. CASE q # r
    <3>1. xpc[q] = "signals" /\ got'[q] = got[q] /\ xnow'[q] = xnow[q] /\
        key'[q] = key[q]
      BY <2>2
         DEF ExploreInv, ExploreTypeOK, ReadMarkets, FailRead, ServeAnswer, Got,
             worldVars, locals
    <3>2. ReadAt(got[q], xnow[q], key[q])
      BY <3>1 DEF ExploreInv, ReadsCurrent
    <3> QED BY <2>1, <3>1, <3>2 DEF ReadAt, Newer
  <2>3. CASE q = r
    <3>1. got'[q].mk = table /\ got'[q].raced = (upserting # {})
      BY <2>3
         DEF ExploreInv, ExploreTypeOK, ReadMarkets, FailRead, ServeAnswer, Got,
             NoAnswer, worldVars, locals
    <3>2. Newer(got[q])' = {}
      BY <2>1, <3>1 DEF ExploreInv, ExploreTypeOK, Newer
    <3> QED BY <2>1, <3>1, <3>2 DEF ReadAt
  <2> QED BY <2>2, <2>3
<1>5. EntryCurrent'
  BY ExploreAssumption
     DEF ExploreInv, ReadMarkets, worldVars, locals, ServeAnswer, FailRead, Got,
         PersistedFirst, ReplayAllowed, ExploreTypeOK, Answers, ReadersHold,
         Reading, ReadsCurrent, EntryCurrent, ReadAt, Newer, NoAnswer, NoCache
<1> QED BY <1>1, <1>2, <1>3, <1>4, <1>5 DEF ExploreInv

LEMMA SelectSourceKeeps ==
    ASSUME ExploreInv, NEW r \in Req, SelectSource(r)
    PROVE  ExploreInv'
PROOF
<1>1. ExploreTypeOK'
  <2> USE ExploreAssumption, TimesKnown, AnswersKnown
      DEF ExploreInv, ExploreTypeOK, SelectSource, worldVars, ServeAnswer,
          FailRead, Got, LiveMarkets, ReplayAllowed
  <2>1. (/\ xclock \in Nat /\ prod \in BOOLEAN /\ memo \in Nat
         /\ lock \in Req \cup {NoReq} /\ scanKey \in 0..MaxScan
         /\ table \in 0..scanKey /\ upserting \subseteq {scanKey}
         /\ landed \in [1..MaxScan -> 0..xclock])'
    OBVIOUS
  <2>2. (cached \in [ans : Answers, loaded : 0..xclock, key : 0..scanKey,
                     checked : 0..xclock])'
    BY DEF NoCache
  <2>3. (/\ xpc \in [Req -> {"new", "wait", "validate", "key", "markets", "select",
                             "signals", "done"}]
         /\ mode \in [Req -> Mode])'
    BY DEF Mode
  <2>4. (xnow \in [Req -> 0..xclock])'
    OBVIOUS
  <2>5. (key \in [Req -> 0..scanKey])'
    BY ZenonT(60)
  <2>6. (got \in [Req -> Answers])'
    <3>1. PICK up \in BOOLEAN : \E s \in SelectedSource(mode[r], up) :
             FailRead(r) \/ Got(r, s[1], s[2])
      OBVIOUS
    <3>2. PICK s \in SelectedSource(mode[r], up) : FailRead(r) \/ Got(r, s[1], s[2])
      BY <3>1
    <3>3. PICK b \in BOOLEAN : b = (upserting # {})
      OBVIOUS
    <3>4. PICK mk \in 0..MaxScan : mk = IF s[1] = "cached" THEN table ELSE 0
      OBVIOUS
    <3>5. [src |-> s[1], reason |-> s[2], mk |-> mk, raced |-> b] \in Answers
      BY SourcesKnown
    <3>6. CASE FailRead(r)
      BY <3>6
    <3>7. CASE Got(r, s[1], s[2])
      BY <3>3, <3>4, <3>5, <3>7
    <3> QED BY <3>2, <3>6, <3>7
  <2>7. (answer \in [Req -> Answers])'
    OBVIOUS
  <2> QED BY <2>1, <2>2, <2>3, <2>4, <2>5, <2>6, <2>7
<1>2. TableGoesForward'
  BY ExploreAssumption
     DEF ExploreInv, SelectSource, worldVars, ServeAnswer, FailRead, Got,
         LiveMarkets, ReplayAllowed, ExploreTypeOK, TableGoesForward
<1>3. ReadersHold'
  <2>1. \/ FailRead(r)
        \/ \E src, reason : Got(r, src, reason)
    BY DEF SelectSource
  <2>2. CASE FailRead(r)
    BY <2>2, ExploreAssumption
       DEF ExploreInv, ExploreTypeOK, ReadersHold, Reading, SelectSource,
           FailRead, ServeAnswer, worldVars
  <2>3. CASE \E src, reason : Got(r, src, reason)
    BY <2>3, ExploreAssumption
       DEF ExploreInv, ExploreTypeOK, ReadersHold, Reading, SelectSource, Got,
           worldVars
  <2> QED BY <2>1, <2>2, <2>3
<1>4. ReadsCurrent'
  <2> SUFFICES ASSUME NEW q \in Req, xpc'[q] = "signals", got'[q].src = "cached"
               PROVE  ReadAt(got[q], xnow[q], key[q])'
    BY DEF ReadsCurrent, ReadAt, Newer
  <2>1. UNCHANGED <<table, landed, scanKey, upserting>>
    BY DEF SelectSource, worldVars
  <2>2. CASE q # r
    <3>1. xpc[q] = "signals" /\ got'[q] = got[q] /\ xnow'[q] = xnow[q] /\
        key'[q] = key[q]
      BY <2>2
         DEF ExploreInv, ExploreTypeOK, SelectSource, FailRead, ServeAnswer,
             Got, worldVars
    <3>2. ReadAt(got[q], xnow[q], key[q])
      BY <3>1 DEF ExploreInv, ReadsCurrent
    <3> QED BY <2>1, <3>1, <3>2 DEF ReadAt, Newer
  <2>3. CASE q = r
    <3>1. got'[q].mk = table /\ got'[q].raced = (upserting # {})
      BY <2>3
         DEF ExploreInv, ExploreTypeOK, SelectSource, FailRead, ServeAnswer,
             Got, NoAnswer, worldVars
    <3>2. Newer(got[q])' = {}
      BY <2>1, <3>1 DEF ExploreInv, ExploreTypeOK, Newer
    <3> QED BY <2>1, <3>1, <3>2 DEF ReadAt
  <2> QED BY <2>2, <2>3
<1>5. EntryCurrent'
  BY ExploreAssumption
     DEF ExploreInv, SelectSource, worldVars, ServeAnswer, FailRead, Got,
         LiveMarkets, ReplayAllowed, ExploreTypeOK, Answers, ReadersHold, Reading,
         ReadsCurrent, EntryCurrent, ReadAt, Newer, NoAnswer, NoCache
<1> QED BY <1>1, <1>2, <1>3, <1>4, <1>5 DEF ExploreInv

LEMMA ReadSignalsKeeps ==
    ASSUME ExploreInv, NEW r \in Req, ReadSignals(r)
    PROVE  ExploreInv'
PROOF
<1>1. ExploreTypeOK'
  <2> USE ExploreAssumption, TimesKnown, AnswersKnown
      DEF ExploreInv, ExploreTypeOK, ReadSignals, worldVars, ServeAnswer, FailRead
  <2>1. (/\ xclock \in Nat /\ prod \in BOOLEAN /\ memo \in Nat
         /\ lock \in Req \cup {NoReq} /\ scanKey \in 0..MaxScan
         /\ table \in 0..scanKey /\ upserting \subseteq {scanKey}
         /\ landed \in [1..MaxScan -> 0..xclock])'
    OBVIOUS
  <2>2. (cached \in [ans : Answers, loaded : 0..xclock, key : 0..scanKey,
                     checked : 0..xclock])'
    BY DEF NoCache
  <2>3. (/\ xpc \in [Req -> {"new", "wait", "validate", "key", "markets", "select",
                             "signals", "done"}]
         /\ mode \in [Req -> Mode])'
    BY DEF Mode
  <2>4. (xnow \in [Req -> 0..xclock])'
    OBVIOUS
  <2>5. (key \in [Req -> 0..scanKey])'
    OBVIOUS
  <2>6. (got \in [Req -> Answers])'
    OBVIOUS
  <2>7. (answer \in [Req -> Answers])'
    BY ZenonT(60)
  <2> QED BY <2>1, <2>2, <2>3, <2>4, <2>5, <2>6, <2>7
<1>2. TableGoesForward'
  BY ExploreAssumption
     DEF ExploreInv, ReadSignals, worldVars, ServeAnswer, FailRead,
         ExploreTypeOK, TableGoesForward
<1>3. ReadersHold'
  BY ExploreAssumption, SMTT(30)
     DEF ExploreInv, ReadSignals, worldVars, ServeAnswer, FailRead,
         ExploreTypeOK, ReadersHold, Reading, Answers, NoCache, NoAnswer
<1>4. ReadsCurrent'
  BY ExploreAssumption, ZenonT(60)
     DEF ExploreInv, ReadSignals, worldVars, ServeAnswer, FailRead,
         ExploreTypeOK, Answers, TableGoesForward, ReadersHold, Reading,
         ReadsCurrent, ReadAt, Newer, NoAnswer
<1>5. EntryCurrent'
  BY ExploreAssumption, SMTT(30)
     DEF ExploreInv, ReadSignals, worldVars, ServeAnswer, FailRead,
         ExploreTypeOK, Answers, ReadersHold, Reading, ReadsCurrent, EntryCurrent,
         ReadAt, Newer, NoAnswer, NoCache
<1> QED BY <1>1, <1>2, <1>3, <1>4, <1>5 DEF ExploreInv

LEMMA NextRequestKeeps ==
    ASSUME ExploreInv, NEW r \in Req, NextRequest(r)
    PROVE  ExploreInv'
PROOF
<1>1. ExploreTypeOK'
  <2> USE ExploreAssumption, TimesKnown, AnswersKnown
      DEF ExploreInv, ExploreTypeOK, NextRequest, worldVars
  <2>1. (/\ xclock \in Nat /\ prod \in BOOLEAN /\ memo \in Nat
         /\ lock \in Req \cup {NoReq} /\ scanKey \in 0..MaxScan
         /\ table \in 0..scanKey /\ upserting \subseteq {scanKey}
         /\ landed \in [1..MaxScan -> 0..xclock])'
    OBVIOUS
  <2>2. (cached \in [ans : Answers, loaded : 0..xclock, key : 0..scanKey,
                     checked : 0..xclock])'
    BY DEF NoCache
  <2>3. (/\ xpc \in [Req -> {"new", "wait", "validate", "key", "markets", "select",
                             "signals", "done"}]
         /\ mode \in [Req -> Mode])'
    BY DEF Mode
  <2>4. (xnow \in [Req -> 0..xclock])'
    OBVIOUS
  <2>5. (key \in [Req -> 0..scanKey])'
    OBVIOUS
  <2>6. (got \in [Req -> Answers])'
    OBVIOUS
  <2>7. (answer \in [Req -> Answers])'
    OBVIOUS
  <2> QED BY <2>1, <2>2, <2>3, <2>4, <2>5, <2>6, <2>7
<1>2. TableGoesForward'
  BY ExploreAssumption
     DEF ExploreInv, NextRequest, worldVars, ExploreTypeOK, TableGoesForward
<1>3. ReadersHold'
  BY ExploreAssumption
     DEF ExploreInv, NextRequest, worldVars, ExploreTypeOK, ReadersHold,
         Reading, Answers, NoCache, NoAnswer
<1>4. ReadsCurrent'
  BY ExploreAssumption
     DEF ExploreInv, NextRequest, worldVars, ExploreTypeOK, Answers,
         TableGoesForward, ReadersHold, Reading, ReadsCurrent, ReadAt, Newer,
         NoAnswer
<1>5. EntryCurrent'
  BY ExploreAssumption
     DEF ExploreInv, NextRequest, worldVars, ExploreTypeOK, Answers,
         ReadersHold, Reading, ReadsCurrent, EntryCurrent, ReadAt, Newer, NoAnswer,
         NoCache
<1> QED BY <1>1, <1>2, <1>3, <1>4, <1>5 DEF ExploreInv

(* What is kept of the store and of the readings agrees in every reachable state, *)
(* whatever scans and requests interleave (market_service.py, sources.py).        *)
THEOREM ExploreInvariant == XInit /\ [][XNext]_xVars => []ExploreInv
PROOF
<1>1. XInit => ExploreInv
  <2> SUFFICES ASSUME XInit
               PROVE  ExploreInv
    OBVIOUS
  <2>1. ExploreTypeOK
    BY ExploreAssumption, AnswersKnown
       DEF XInit, ExploreTypeOK, NoCache, Mode
  <2>2. TableGoesForward /\ ReadersHold /\ ReadsCurrent /\ EntryCurrent
    BY ExploreAssumption
       DEF XInit, TableGoesForward, ReadersHold, Reading, ReadsCurrent,
           EntryCurrent, NoCache,
           NoAnswer
  <2> QED BY <2>1, <2>2 DEF ExploreInv
<1>2. ExploreInv /\ [XNext]_xVars => ExploreInv'
  <2> SUFFICES ASSUME ExploreInv, [XNext]_xVars
               PROVE  ExploreInv'
    OBVIOUS
  <2>1. CASE UNCHANGED xVars
    BY <2>1
       DEF xVars, ExploreInv, ExploreTypeOK, TableGoesForward, ReadersHold,
           Reading,
                ReadsCurrent, EntryCurrent, ReadAt, Newer
  <2>2. CASE XNext
    BY <2>2, RecordScanKeeps, UpsertMarketsKeeps, XAdvanceKeeps, DirectKeeps,
        ExploreKeeps,
       EnterFreshKeeps, EnterLapsedKeeps, ValidateKeeps, ReadKeyKeeps,
           ReadMarketsKeeps,
       SelectSourceKeeps, ReadSignalsKeeps, NextRequestKeeps DEF XNext
  <2> QED BY <2>1, <2>2
<1> QED BY <1>1, <1>2, PTL

(* What a request answers from the persisted universe was true shortly before:  *)
(* the four ways to answer one by one.                                          *)
LEMMA AnswersFresh ==
    ASSUME ExploreInv, XNext, NEW r \in Req, answer[r] # answer'[r],
           answer'[r].src = "cached", NEW s \in Newer(answer'[r])
    PROVE  xclock - landed[s] < StaleBound(answer'[r])
PROOF
<1>1. PICK a : a = answer'[r]
  OBVIOUS
<1>2. /\ a.src = "cached" /\ s \in Newer(a) /\ s \in 1..MaxScan /\ landed[s] \in Nat
      /\ xclock \in Nat
  BY <1>1 DEF Newer, ExploreInv, ExploreTypeOK
<1>3. \/ Direct(r) \/ EnterFresh(r) \/ Validate(r) \/ ReadSignals(r)
  <2>1. answer # answer'
    OBVIOUS
  <2>2. PICK q \in Req :
          \/ Direct(q) \/ EnterFresh(q) \/ Validate(q) \/ ReadMarkets(q) \/
              SelectSource(q)
          \/ ReadSignals(q) \/ NextRequest(q)
    BY <2>1
       DEF XNext, RecordScan, UpsertMarkets, XAdvance, Explore, EnterLapsed,
           ReadKey, locals
  <2>3. PICK b : answer' = [answer EXCEPT ![q] = b] \/ answer' = answer
    BY <2>2
       DEF Direct, EnterFresh, Validate, ReadMarkets, SelectSource, ReadSignals,
           NextRequest,
                FailRead, ServeAnswer, Got, locals
  <2>4. q = r
    BY <2>1, <2>3 DEF ExploreInv, ExploreTypeOK
  <2>5. ~NextRequest(r) /\ ~ReadMarkets(r) /\ ~SelectSource(r)
    BY
       DEF NextRequest, ReadMarkets, SelectSource, FailRead, ServeAnswer, Got,
           NoAnswer, locals,
           ExploreInv, ExploreTypeOK
  <2> QED BY <2>2, <2>4, <2>5
<1>4. CASE Direct(r)
  <2>1. a.mk = table
    BY <1>1, <1>2, <1>4 DEF Direct, ExploreInv, ExploreTypeOK
  <2> QED BY <1>2, <2>1 DEF Newer, ExploreInv, ExploreTypeOK
<1>5. CASE EnterFresh(r)
  <2>1. a = cached.ans /\ xclock - cached.checked < CacheSeconds
    BY <1>1, <1>5 DEF EnterFresh, ServeAnswer, Fresh, ExploreInv, ExploreTypeOK
  <2>2. /\ cached.checked \in Nat /\ cached.loaded \in Nat
    BY DEF ExploreInv, ExploreTypeOK
  <2>2a. cached.loaded - MaxRead <= landed[s]
    BY <1>2, <2>1 DEF ExploreInv, EntryCurrent, ReadAt
  <2>2b. /\ ~a.raced => cached.checked <= landed[s] + MaxRead
         /\ cached.checked <= cached.loaded \/ cached.checked < cached.loaded + MaxAge
    BY <1>2, <2>1 DEF ExploreInv, EntryCurrent
  <2>3. CASE a.raced
    BY <1>1, <1>2, <2>1, <2>2, <2>2a, <2>2b, <2>3, ExploreAssumption DEF StaleBound
  <2>4. CASE ~a.raced
    BY <1>1, <1>2, <2>1, <2>2, <2>2b, <2>4, ExploreAssumption DEF StaleBound
  <2> QED BY <2>3, <2>4
<1>6. CASE Validate(r)
  <2>1. a = cached.ans /\ cached.key = scanKey
    <3>1. ServeAnswer(r, cached.ans) /\ cached.key = scanKey
      BY <1>6 DEF Validate, locals
    <3> QED BY <1>1, <3>1 DEF ServeAnswer, ExploreInv, ExploreTypeOK
  <2>2. ReadAt(a, cached.loaded - MaxRead, scanKey)
    BY <1>2, <2>1 DEF ExploreInv, EntryCurrent
  <2>3. a.raced /\ cached.loaded - MaxRead <= landed[s]
    BY <1>2, <2>2 DEF ReadAt
  <2>4. /\ xclock <= xnow[r] + MaxRead /\ xnow[r] - cached.loaded < MaxAge
        /\ xnow[r] \in Nat /\ cached.loaded \in Nat
    BY <1>6 DEF Validate, ExploreInv, ExploreTypeOK, ReadersHold, Reading
  <2> QED BY <1>1, <1>2, <2>3, <2>4, ExploreAssumption DEF StaleBound
<1>7. CASE ReadSignals(r)
  <2>1. a = got[r] /\ xpc[r] = "signals"
    BY <1>1, <1>2, <1>7
       DEF ReadSignals, FailRead, ServeAnswer, NoAnswer, ExploreInv,
           ExploreTypeOK
  <2>2. ReadAt(a, xnow[r], key[r])
    BY <1>2, <2>1 DEF ExploreInv, ReadsCurrent
  <2>3. xnow[r] <= landed[s] /\ xclock <= xnow[r] + MaxRead /\ xnow[r] \in Nat
    BY <1>2, <2>1, <2>2 DEF ReadAt, ExploreInv, ExploreTypeOK, ReadersHold, Reading
  <2> QED BY <1>1, <1>2, <2>3, ExploreAssumption DEF StaleBound
<1> QED BY <1>3, <1>4, <1>5, <1>6, <1>7

(* An answer from the cached universe of markets misses only what landed within *)
(* the cache's interval and the time that reads take (market_service.py), or,   *)
(* when a scan was publishing its markets during the read, within the maximum   *)
(* age, for any requests, scans and intervals.                                  *)
THEOREM ExploreIsFresh == XInit /\ [][XNext]_xVars => ExploreFresh
PROOF
<1> DEFINE A == \A r \in Req : answer[r] # answer'[r] /\ answer'[r].src =
    "cached" =>
                   \A s \in Newer(answer'[r]) : xclock - landed[s] <
                       StaleBound(answer'[r])
<1>1. ExploreInv /\ [XNext]_xVars => [A]_xVars
  <2> SUFFICES ASSUME ExploreInv, XNext, NEW r \in Req, answer[r] # answer'[r],
                      answer'[r].src = "cached", NEW s \in Newer(answer'[r])
               PROVE  xclock - landed[s] < StaleBound(answer'[r])
    OBVIOUS
  <2> QED BY AnswersFresh
<1> QED BY <1>1, ExploreInvariant, PTL DEF ExploreFresh

-----------------------------------------------------------------------------
(***************************************************************************)
(* The list of markets.  Each sort order and its ties put any two markets  *)
(* in order, so the list has every matching market once, and its pages are *)
(* the pieces of it, as long as the list itself is not another one.        *)
(***************************************************************************)

(* Every sort is by a key, ... *)
LEMMA SortsAreWeak ==
    ASSUME NEW sort
    PROVE  /\ \A a \in Item : ~StrictlyBefore(a, a, sort)
           /\ \A a, b, c \in Item :
                 StrictlyBefore(a, b, sort) /\ StrictlyBefore(b, c, sort)
                    => StrictlyBefore(a, c, sort)
           /\ \A a, b, c \in Item :
                 ~StrictlyBefore(a, b, sort) /\ ~StrictlyBefore(b, c, sort)
                    => ~StrictlyBefore(a, c, sort)
PROOF
<1>1. \A m \in Item : /\ SnapOf[m].strength \in Int /\ KindOf[m].end \in Int
                      /\ KindOf[m].volume \in Int /\ KindOf[m].volume24 \in Int
                      /\ KindOf[m].liquidity \in Int
  BY ListAssumption
<1>2. CASE sort = "signal_desc"
  BY <1>1, <1>2 DEF StrictlyBefore
<1>3. CASE sort = "signal_asc"
  BY <1>1, <1>3 DEF StrictlyBefore
<1>4. CASE sort = "end_date"
  BY <1>1, <1>4 DEF StrictlyBefore, SoonerEnd
<1>5. CASE sort \notin {"signal_desc", "signal_asc", "end_date"}
  <2>1. \A m \in Item : Field(m, sort) \in Int
    BY <1>1 DEF Field
  <2>2. \A a, b \in Item : StrictlyBefore(a, b, sort) <=> Field(a, sort) > Field(b, sort)
    BY <1>5 DEF StrictlyBefore
  <2> QED BY <2>1, <2>2
<1> QED BY <1>2, <1>3, <1>4, <1>5

(* ... and its ties follow an order of all the markets. *)
LEMMA PlacesDiffer ==
    ASSUME NEW s \in SetToSeqs(Item)
    PROVE  /\ ToSet(s) = Item
           /\ \A a \in Item : IndexIn(s, a) \in Int
           /\ \A a, b \in Item : IndexIn(s, a) = IndexIn(s, b) => a = b
PROOF
<1> DEFINE n == Cardinality(Item)
<1>1. n \in Nat
  BY ListAssumption, FS_CardinalityType
<1>2. s \in [1..n -> Item] /\ \A i, j \in 1..n : i # j => s[i] # s[j]
  BY DEF SetToSeqs
<1>3. \A a \in Item : \E i \in 1..n : s[i] = a
  <2>1. s \in Injection(1..n, Item)
    BY <1>2 DEF Injection, IsInjective
  <2>2. IsFiniteSet(1..n) /\ Cardinality(1..n) = n
    BY <1>1, FS_Interval
  <2>3. s \in Surjection(1..n, Item)
    <3>1. IsFiniteSet(Item) /\ Cardinality(1..n) = Cardinality(Item)
      BY <2>2, ListAssumption
    <3> QED BY <2>1, <2>2, <3>1, FS_Injection
  <2> QED BY <2>3 DEF Surjection
<1> HIDE DEF n
<1>4. \A a \in Item : IndexIn(s, a) \in 1..n /\ s[IndexIn(s, a)] = a
  <2> TAKE a \in Item
  <2>1. \E i \in DOMAIN s : s[i] = a
    BY <1>2, <1>3
  <2>2. IndexIn(s, a) \in DOMAIN s /\ s[IndexIn(s, a)] = a
    BY <2>1 DEF IndexIn
  <2> QED BY <1>2, <2>2
<1>5. ToSet(s) = Item
  BY <1>2, <1>3 DEF ToSet
<1> QED BY <1>1, <1>4, <1>5

LEMMA ListInOrder ==
    ASSUME universe \in SetToSeqs(Item), NEW q
    PROVE  /\ IsFiniteSet(Listed(q)) /\ Listed(q) \subseteq Item
           /\ StrictOrder(ListedBefore(q), Listed(q))
PROOF
<1>1. PICK ties \in SetToSeqs(Item) : ties = TieOrder(q.sort)
  BY ListAssumption DEF TieOrder
<1>2. Listed(q) \in SUBSET Item
  BY PlacesDiffer DEF Listed
<1>3. IsFiniteSet(Listed(q))
  BY <1>2, ListAssumption, FS_Subset
<1>4. PICK sort : sort = q.sort
  OBVIOUS
<1>5. \A a, b \in Listed(q) : <<a, b>> \in ListedBefore(q) <=>
          \/ StrictlyBefore(a, b, sort)
          \/ ~StrictlyBefore(b, a, sort) /\ IndexIn(ties, a) < IndexIn(ties, b)
  BY <1>1, <1>4 DEF ListedBefore, Before
<1>6. \A a \in Listed(q) : a \in Item
  BY <1>2
<1>7. /\ \A a \in Item : IndexIn(ties, a) \in Int
      /\ \A a, b \in Item : IndexIn(ties, a) = IndexIn(ties, b) => a = b
  BY PlacesDiffer
<1>8. /\ \A a \in Item : ~StrictlyBefore(a, a, sort)
      /\ \A a, b, c \in Item :
            StrictlyBefore(a, b, sort) /\ StrictlyBefore(b, c, sort) => StrictlyBefore(a, c, sort)
      /\ \A a, b, c \in Item :
            ~StrictlyBefore(a, b, sort) /\ ~StrictlyBefore(b, c, sort) => ~StrictlyBefore(a, c, sort)
  BY SortsAreWeak
<1>9. \A a \in Listed(q) : <<a, a>> \notin ListedBefore(q)
  BY <1>5, <1>6, <1>7, <1>8
<1>10. \A a, b \in Listed(q) : \/ a = b \/ <<a, b>> \in ListedBefore(q)
                               \/ <<b, a>> \in ListedBefore(q)
  <2> TAKE a, b \in Listed(q)
  <2>1. /\ IndexIn(ties, a) \in Int /\ IndexIn(ties, b) \in Int
        /\ IndexIn(ties, a) = IndexIn(ties, b) => a = b
    BY <1>6, <1>7
  <2> QED BY <1>5, <2>1
<1>11. \A a, b, c \in Listed(q) :
          <<a, b>> \in ListedBefore(q) /\ <<b, c>> \in ListedBefore(q)
             => <<a, c>> \in ListedBefore(q)
  <2> TAKE a, b, c \in Listed(q)
  <2>1. /\ IndexIn(ties, a) \in Int /\ IndexIn(ties, b) \in Int /\ IndexIn(ties, c) \in Int
    BY <1>6, <1>7
  <2> QED BY <1>5, <1>6, <1>8, <2>1
<1> QED BY <1>2, <1>3, <1>9, <1>10, <1>11 DEF StrictOrder

LEMMA ListWhole ==
    ASSUME universe \in SetToSeqs(Item), NEW q
    PROVE  /\ Ordered(q) \in Seq(Listed(q)) /\ Total(q) \in Nat
           /\ Len(Ordered(q)) = Total(q)
           /\ \A m \in Listed(q) : \E k \in 1..Total(q) : Ordered(q)[k] = m
           /\ \A j, k \in 1..Total(q) : Ordered(q)[j] = Ordered(q)[k] => j = k
PROOF
<1> DEFINE S == Listed(q)
           n == Cardinality(S)
<1>1. /\ n \in Nat /\ Ordered(q) \in [1..n -> S]
      /\ \A x \in S : \E k \in 1..n : Ordered(q)[k] = x
      /\ \A j, k \in 1..n : Ordered(q)[j] = Ordered(q)[k] => j = k
  <2>1. IsFiniteSet(S) /\ StrictOrder(ListedBefore(q), S)
    BY ListInOrder
  <2> HIDE DEF S
  <2> QED BY <2>1, SortedAgain DEF Ordered, S
<1> HIDE DEF S, n
<1>2. Ordered(q) \in Seq(S) /\ Len(Ordered(q)) = n
  BY <1>1
<1>3. Total(q) = n
  BY <1>2 DEF Total
<1> QED BY <1>1, <1>2, <1>3 DEF S

(* The first markets of a list. *)
LEMMA LesserOf ==
    ASSUME NEW i \in Int, NEW j \in Int
    PROVE  Min({i, j}) = IF i <= j THEN i ELSE j
PROOF
<1> DEFINE k == IF i <= j THEN i ELSE j
<1>1. k \in {i, j} /\ \A y \in {i, j} : k <= y
  OBVIOUS
<1>2. \A x \in {i, j} : (\A y \in {i, j} : x <= y) => x = k
  OBVIOUS
<1>3. PICK S : S = {i, j}
  OBVIOUS
<1> HIDE DEF k
<1>4. Min(S) = k
  BY <1>1, <1>2, <1>3 DEF Min
<1> QED BY <1>3, <1>4 DEF k

LEMMA NextPage ==
    ASSUME NEW T, NEW L \in Seq(T), NEW i \in Nat, NEW size \in Nat \ {0},
           i = 0 \/ i < Len(L)
    PROVE  SubSeq(L, 1, Min({i, Len(L)})) \o SubSeq(L, i + 1, Min({i + size, Len(L)}))
              = SubSeq(L, 1, Min({i + size, Len(L)}))
PROOF
<1> DEFINE n == Len(L)
<1>1. n \in Nat
  OBVIOUS
<1> HIDE DEF n
<1>2. Min({i, n}) = i
  BY <1>1, LesserOf DEF n
<1>3. PICK k \in Nat : k = Min({i + size, n}) /\ i <= k /\ k <= n
  BY <1>1, LesserOf DEF n
<1>4. SubSeq(L, 1, i) \o SubSeq(L, i + 1, k) = SubSeq(L, 1, k)
  <2>1. 1 \in 1..Len(L)+1 /\ i \in (1 - 1)..Len(L) /\ k \in i..Len(L)
    BY <1>1, <1>3 DEF n
  <2> QED BY <2>1, ConcatAdjacentSubSeq
<1> QED BY <1>2, <1>3, <1>4 DEF n

LEMMA FirstOfList ==
    ASSUME NEW T, NEW L \in Seq(T), NEW k \in 0..Len(L), NEW p, p = SubSeq(L, 1, k),
           \A i, j \in 1..Len(L) : L[i] = L[j] => i = j
    PROVE  /\ IsPrefix(p, L) /\ IsInjective(p)
           /\ k = Len(L) => p = L
PROOF
<1>1. k \in Nat /\ k <= Len(L)
  OBVIOUS
<1>2. /\ p \in Seq(T) /\ Len(p) = k
      /\ \A i \in 1..k : p[i] = L[i]
  BY <1>1
<1>3. SubSeq(p, 1, k) = p
  BY <1>2, SubSeqFull
<1>4. IsPrefix(p, L)
  BY <1>1, <1>2, <1>3 DEF IsPrefix
<1>5. IsInjective(p)
  BY <1>1, <1>2 DEF IsInjective
<1>6. k = Len(L) => p = L
  BY SubSeqFull
<1> QED BY <1>4, <1>5, <1>6

(* A list depends on the clock only by which markets are in it. *)
LEMMA SameList ==
    ASSUME universe' = universe, asked' = asked, Listed(asked)' = Listed(asked)
    PROVE  Ordered(asked)' = Ordered(asked) /\ Total(asked)' = Total(asked)
PROOF
<1>1. ListedBefore(asked)' = ListedBefore(asked)
  BY DEF ListedBefore, Before, TieOrder
<1>2. Ordered(asked)' = Ordered(asked)
  BY <1>1 DEF Ordered
<1> QED BY <1>2 DEF Total

LEMMA PagesStep == PagesSoFar /\ [ENext]_eVars => PagesSoFar'
PROOF
<1> SUFFICES ASSUME PagesSoFar, [ENext]_eVars PROVE PagesSoFar'
  OBVIOUS
<1>1. CASE ListMarkets
  <2>1. /\ universe' = universe /\ asked' = asked /\ replaced' = replaced
        /\ today' = today /\ moved' = moved
        /\ offset' = offset + PageSize
        /\ offset = 0 \/ offset < Total(asked)
        /\ pages' = pages \o SubSeq(Ordered(asked), offset + 1,
                                    Min({offset + PageSize, Total(asked)}))
    BY <1>1 DEF ListMarkets, Page
  <2>2. offset' \in Nat /\ offset \in Nat
    BY <2>1, ListAssumption DEF PagesSoFar
  <2>3. Ordered(asked)' = Ordered(asked) /\ Total(asked)' = Total(asked)
    <3>1. Listed(asked)' = Listed(asked)
      BY <2>1 DEF Listed, Matches, ClosingMatches
    <3> QED BY <2>1, <3>1, SameList
  <2>4. ASSUME ~replaced, ~moved
        PROVE  pages' = SubSeq(Ordered(asked), 1, Min({offset + PageSize, Total(asked)}))
    <3>1. /\ universe \in SetToSeqs(Item)
          /\ pages = SubSeq(Ordered(asked), 1, Min({offset, Total(asked)}))
      <4>1. universe \in SetToSeqs(Item)
        BY <2>4 DEF PagesSoFar
      <4>2. CASE offset = 0
        <5>1. Total(asked) \in Nat
          BY <4>1, ListWhole
        <5>2. PICK n \in Nat : n = Total(asked)
          BY <5>1
        <5>3. Min({offset, Total(asked)}) = 0
          BY <4>2, <5>2, LesserOf
        <5>4. SubSeq(Ordered(asked), 1, 0) = <<>>
          BY SubSeqEmpty
        <5> QED BY <4>1, <4>2, <5>3, <5>4 DEF PagesSoFar
      <4>3. CASE offset > 0
        BY <2>4, <4>1, <4>3 DEF PagesSoFar
      <4>4. offset = 0 \/ offset > 0
        BY <2>2
      <4> QED BY <4>2, <4>3, <4>4
    <3>2. PICK T, L, i : T = Listed(asked) /\ L = Ordered(asked) /\ i = offset
      OBVIOUS
    <3>3. L \in Seq(T) /\ i \in Nat /\ Len(L) = Total(asked)
      BY <2>2, <3>1, <3>2, ListWhole
    <3>4. i = 0 \/ i < Len(L)
      BY <2>1, <3>2, <3>3
    <3>5. SubSeq(L, 1, Min({i, Len(L)})) \o SubSeq(L, i + 1, Min({i + PageSize, Len(L)}))
              = SubSeq(L, 1, Min({i + PageSize, Len(L)}))
      BY <3>4, <3>3, NextPage, ListAssumption
    <3> QED BY <2>1, <3>1, <3>2, <3>5, <3>3
  <2>5. offset' # 0
    BY <2>1, <2>2, ListAssumption
  <2>6. ~replaced' => universe' \in SetToSeqs(Item)
    BY <2>1 DEF PagesSoFar
  <2>7. asked'.closing = "any" => ~moved'
    BY <2>1 DEF PagesSoFar
  <2> QED BY <2>1, <2>2, <2>3, <2>4, <2>5, <2>6, <2>7 DEF PagesSoFar
<1>2. CASE ReplaceUniverse
  BY <1>2 DEF ReplaceUniverse, PagesSoFar
<1>3. CASE EAdvance
  <2>1. /\ universe' = universe /\ asked' = asked /\ replaced' = replaced
        /\ pages' = pages /\ offset' = offset
        /\ moved' = (moved \/ (offset > 0 /\ Listed(asked)' # Listed(asked)))
    BY <1>3 DEF EAdvance
  <2>2. asked.closing = "any" => Listed(asked)' = Listed(asked)
    BY <2>1 DEF Listed, Matches, ClosingMatches
  <2>3. asked'.closing = "any" => ~moved'
    BY <2>1, <2>2 DEF PagesSoFar
  <2>4. ASSUME offset > 0, ~replaced, ~moved, Listed(asked)' = Listed(asked)
        PROVE  pages' = SubSeq(Ordered(asked)', 1, Min({offset, Total(asked)'}))
    BY <2>1, <2>4, SameList DEF PagesSoFar
  <2>5. ASSUME offset' > 0, ~replaced', ~moved'
        PROVE  pages' = SubSeq(Ordered(asked)', 1, Min({offset', Total(asked)'}))
    BY <2>1, <2>4, <2>5
  <2>6. /\ offset' \in Nat /\ (offset' = 0 => pages' = <<>>)
        /\ ~replaced' => universe' \in SetToSeqs(Item)
    BY <2>1 DEF PagesSoFar
  <2> QED BY <2>3, <2>5, <2>6 DEF PagesSoFar
<1>4. CASE UNCHANGED eVars
  <2>1. universe' = universe /\ asked' = asked /\ today' = today
    BY <1>4 DEF eVars
  <2>2. Listed(asked)' = Listed(asked)
    BY <2>1 DEF Listed, Matches, ClosingMatches
  <2>3. Ordered(asked)' = Ordered(asked) /\ Total(asked)' = Total(asked)
    BY <2>1, <2>2, SameList
  <2> QED BY <1>4, <2>3 DEF eVars, PagesSoFar
<1> QED BY <1>1, <1>2, <1>3, <1>4 DEF ENext

(* Whatever the query, its ties and the size of a page: while the universe is  *)
(* not replaced, and no market crosses a bound of the closing filter if there  *)
(* is one, the pages received so far are the first markets of the list, none   *)
(* of them twice, and in the end they are all the markets that match.          *)
THEOREM PagesAreTheList == EInit /\ [][ENext]_eVars => []PagesPartition
PROOF
<1>1. EInit => PagesSoFar
  <2> SUFFICES ASSUME EInit PROVE PagesSoFar
    OBVIOUS
  <2>1. universe \in SetToSeqs(Item) /\ pages = <<>> /\ offset = 0
    BY DEF EInit
  <2> QED BY <2>1 DEF EInit, PagesSoFar
<1>2. PagesSoFar => PagesPartition
  <2> SUFFICES ASSUME PagesSoFar, ~replaced, ~moved, offset > 0
               PROVE  /\ IsPrefix(pages, Ordered(asked)) /\ IsInjective(pages)
                      /\ offset >= Total(asked) => ToSet(pages) = Listed(asked)
    BY DEF PagesPartition, PagesSoFar
  <2>1. /\ universe \in SetToSeqs(Item) /\ offset \in Nat
        /\ pages = SubSeq(Ordered(asked), 1, Min({offset, Total(asked)}))
    BY DEF PagesSoFar
  <2>2. PICK T, L, p : T = Listed(asked) /\ L = Ordered(asked) /\ p = pages
    OBVIOUS
  <2>3. PICK i \in Nat : i = offset
    BY <2>1
  <2>4. /\ L \in Seq(T) /\ Len(L) = Total(asked)
        /\ \A m \in T : \E k \in 1..Len(L) : L[k] = m
        /\ \A j, k \in 1..Len(L) : L[j] = L[k] => j = k
    BY <2>1, <2>2, ListWhole
  <2>5. PICK k \in 0..Len(L) : k = Min({i, Len(L)}) /\ (i >= Len(L) => k = Len(L))
    <3>1. Len(L) \in Nat
      BY <2>4
    <3> QED BY <3>1, LesserOf
  <2>6. p = SubSeq(L, 1, k)
    BY <2>1, <2>2, <2>3, <2>4, <2>5
  <2>7. /\ IsPrefix(p, L) /\ IsInjective(p)
        /\ k = Len(L) => p = L
    BY <2>4, <2>6, FirstOfList
  <2>8. ToSet(L) = T
    BY <2>4 DEF ToSet
  <2> QED BY <2>2, <2>3, <2>4, <2>5, <2>7, <2>8
<1> QED BY <1>1, <1>2, PagesStep, PTL
================================================================================
