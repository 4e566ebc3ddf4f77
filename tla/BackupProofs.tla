---------------------------- MODULE BackupProofs ----------------------------
(* What is proved of Backup, for every set of databases, every number of     *)
(* daily, weekly and monthly copies, every calendar and age.                 *)
EXTENDS Backup, FiniteSetTheorems, WellFoundedInduction, TLAPS

LEMMA ConstantsTyped == /\ Week \in Nat /\ Week > 0 /\ Month \in Nat /\ Month > 0
                        /\ KeepDaily \in Nat /\ KeepDaily > 0
                        /\ KeepWeekly \in Nat /\ KeepMonthly \in Nat
                        /\ MaxAge \in Nat /\ Expiry \in Nat /\ MaxAge <= Expiry
                        /\ MaxNow \in Nat /\ MaxNow > 0 /\ MaxCuts \in Nat
  BY CalendarPositive, KeepsTheLast, AgesNat, BackupBounds

-----------------------------------------------------------------------------
(* The newest of a set *)

LEMMA BoundedFinite ==
  ASSUME NEW m \in Nat, NEW S \in SUBSET (0 .. m) PROVE IsFiniteSet(S)
<1>1. S \in SUBSET Nat /\ \A s \in S : s <= m OBVIOUS
<1> QED BY <1>1, FS_BoundedSetOfNaturals

\* A bounded set of numbers that is not empty has a greatest one.
LEMMA MaxOf ==
  ASSUME NEW n \in Nat, NEW S \in SUBSET (0 .. n), S # {}
  PROVE  Max(S) \in S /\ \A x \in S : x <= Max(S)
<1> DEFINE D == {n - x : x \in S}
<1>1. D \in SUBSET Nat /\ D # {}
  <2>1. \A x \in S : x \in Nat /\ x <= n OBVIOUS
  <2>2. \A x \in S : n - x \in Nat BY <2>1
  <2>3. \A d \in D : d \in Nat BY <2>2
  <2>4. PICK x \in S : TRUE OBVIOUS
  <2>5. n - x \in D BY <2>4
  <2> QED BY <2>3, <2>5
<1> HIDE DEF D
<1>2. PICK d \in D : \A e \in D : <<e, d>> \notin OpToRel(<, Nat) BY <1>1, WFMin, NatLessThanWellFounded
<1>0. \A e \in D : d <= e
  <2> SUFFICES ASSUME NEW e \in D, e < d PROVE FALSE BY <1>1
  <2>1. <<e, d>> \in OpToRel(<, Nat) BY <1>1 DEF OpToRel
  <2> QED BY <1>2, <2>1
<1>3. PICK x \in S : d = n - x BY <1>2 DEF D
<1>4. \A y \in S : x >= y
  <2> SUFFICES ASSUME NEW y \in S PROVE x >= y OBVIOUS
  <2>1. d <= n - y BY <1>0 DEF D
  <2> QED BY <1>3, <2>1
<1>5. \E z \in S : \A y \in S : z >= y BY <1>4
<1> QED BY <1>5 DEF Max

\* What is among the newest of a set is so in every part of it.
LEMMA NewestOfPart ==
  ASSUME NEW n \in Nat, NEW T, IsFiniteSet(T), NEW S \in SUBSET T, NEW x \in Newest(n, T), x \in S
  PROVE  x \in Newest(n, S)
<1> DEFINE above(U) == {y \in U : y > x}
<1>1. above(T) \in SUBSET T /\ above(S) \in SUBSET above(T) OBVIOUS
<1> HIDE DEF above
<1>2. IsFiniteSet(above(T)) BY <1>1, FS_Subset
<1>3. Cardinality(above(S)) <= Cardinality(above(T)) BY <1>1, <1>2, FS_Subset
<1>4. Cardinality(above(S)) \in Nat /\ Cardinality(above(T)) \in Nat
  BY <1>1, <1>2, FS_Subset, FS_CardinalityType
<1>5. n \in Nat /\ Cardinality(above(T)) < n => Cardinality(above(S)) < n BY <1>3, <1>4
<1>6. Cardinality(above(T)) < n BY Zenon DEF Newest, above
<1>7. Cardinality(above(S)) < n BY <1>5, <1>6
<1> QED BY <1>7, Zenon DEF Newest, above

\* A set that has one not among its newest n has n that are.
LEMMA NewestAreMany ==
  ASSUME NEW m \in Nat, NEW n \in Nat, NEW S \in SUBSET (0 .. m), NEW x \in S, x \notin Newest(n, S)
  PROVE  Cardinality(Newest(n, S)) >= n
<1> DEFINE Old == S \ Newest(n, S)
<1> DEFINE o == Max(Old)
<1> DEFINE above == {y \in S : y > o}
<1>0. IsFiniteSet(S) BY BoundedFinite
<1>1. Old \in SUBSET (0 .. m) /\ Old # {} OBVIOUS
<1>2. o \in Old /\ \A y \in Old : y <= o BY <1>1, MaxOf
<1> HIDE DEF o
<1>3. above \subseteq Newest(n, S)
  <2> SUFFICES ASSUME NEW y \in above, y \notin Newest(n, S) PROVE FALSE OBVIOUS
  <2>1. y \in Old /\ y > o /\ y \in Int /\ o \in Int BY <1>2
  <2> QED BY <1>2, <2>1
<1>4. Newest(n, S) \in SUBSET S BY DEF Newest
<1>5. IsFiniteSet(Newest(n, S)) /\ IsFiniteSet(above) BY <1>0, <1>4, FS_Subset
<1>6. Cardinality(above) <= Cardinality(Newest(n, S)) BY <1>3, <1>5, FS_Subset
<1>7. Cardinality(above) \in Nat /\ Cardinality(Newest(n, S)) \in Nat BY <1>5, FS_CardinalityType
<1>8. ~(Cardinality(above) < n) BY <1>2 DEF Newest
<1> QED BY <1>6, <1>7, <1>8

\* The greatest of a set is among its newest.
LEMMA GreatestIsNewest ==
  ASSUME NEW n \in Nat, n > 0, NEW S \in SUBSET Int, NEW x \in S, \A y \in S : y <= x
  PROVE  x \in Newest(n, S)
<1>1. {y \in S : y > x} = {}
  <2>1. \A y \in S : y \in Int /\ x \in Int /\ y <= x OBVIOUS
  <2>2. \A y \in S : ~(y > x) BY <2>1
  <2> QED BY <2>2, Zenon
<1>2. Cardinality({y \in S : y > x}) = 0 BY <1>1, FS_EmptySet, Zenon
<1>3. Cardinality({y \in S : y > x}) < n BY <1>2
<1> QED BY <1>3, Zenon DEF Newest

-----------------------------------------------------------------------------
(* Slots *)

Periods(S, p) == {r \div p : r \in S}

\* H has what the newest days, weeks and months of L are to have.
Slots(L, H) ==
    /\ Newest(KeepDaily, L) \subseteq H
    /\ Newest(KeepWeekly, Periods(L, Week)) \subseteq Periods(H, Week)
    /\ Newest(KeepMonthly, Periods(L, Month)) \subseteq Periods(H, Month)

LEMMA PeriodsBounded ==
  ASSUME NEW m \in Nat, NEW S \in SUBSET (0 .. m), NEW p \in Nat, p > 0
  PROVE  /\ Periods(S, p) \in SUBSET (0 .. m)
         /\ IsFiniteSet(Periods(S, p)) /\ IsFiniteSet(S)
<1>1. ASSUME NEW r \in S PROVE r \div p \in 0 .. m
  <2>1. r \in Nat /\ r <= m OBVIOUS
  <2>2. r \div p \in Nat /\ r \div p <= r BY <2>1
  <2> QED BY <2>1, <2>2
<1>2. Periods(S, p) \in SUBSET (0 .. m) BY <1>1 DEF Periods
<1> QED BY <1>2, BoundedFinite

LEMMA SlotsMore ==
  ASSUME NEW L, NEW H, NEW G, H \subseteq G, Slots(L, H) PROVE Slots(L, G)
  BY DEF Slots, Periods

\* A run that stays behind fills a slot of its own.
LEMMA SlotsGrow ==
  ASSUME NEW m \in Nat, NEW L \in SUBSET (0 .. m), NEW x \in 0 .. m, NEW H, Slots(L, H)
  PROVE  Slots(L \cup {x}, H \cup {x})
<1> USE ConstantsTyped
<1> DEFINE M == L \cup {x}
<1> DEFINE G == H \cup {x}
<1>1. M \in SUBSET (0 .. m) /\ L \in SUBSET M OBVIOUS
<1> HIDE DEF M
<1>2. ASSUME NEW n \in Nat, NEW p \in Nat, p > 0,
             Newest(n, Periods(L, p)) \subseteq Periods(H, p)
      PROVE  Newest(n, Periods(M, p)) \subseteq Periods(G, p)
  <2> SUFFICES ASSUME NEW q \in Newest(n, Periods(M, p)) PROVE q \in Periods(G, p) OBVIOUS
  <2>1. q \in Periods(M, p) BY DEF Newest
  <2>2. CASE q \in Periods(L, p)
    <3>1. Periods(L, p) \in SUBSET Periods(M, p) BY <1>1 DEF Periods
    <3>2. IsFiniteSet(Periods(M, p)) BY <1>1, <1>2, PeriodsBounded
    <3>3. q \in Newest(n, Periods(L, p)) BY <2>2, <3>1, <3>2, NewestOfPart
    <3> QED BY <1>2, <3>3 DEF Periods
  <2>3. CASE q \notin Periods(L, p) BY <2>1, <2>3 DEF Periods, M
  <2> QED BY <2>2, <2>3
<1>3. Newest(KeepDaily, M) \subseteq G
  <2> SUFFICES ASSUME NEW r \in Newest(KeepDaily, M), r # x PROVE r \in H OBVIOUS
  <2>1. r \in L BY DEF Newest, M
  <2>2. IsFiniteSet(M) BY <1>1, BoundedFinite
  <2>3. r \in Newest(KeepDaily, L) BY <1>1, <2>1, <2>2, NewestOfPart
  <2> QED BY <2>3 DEF Slots
<1>4. Slots(M, G) BY <1>2, <1>3 DEF Slots
<1> QED BY <1>4 DEF M

\* SlotOf has a run of each of the newest periods.
LEMMA SlotOfHas ==
  ASSUME NEW m \in Nat, NEW S \in SUBSET (0 .. m), NEW n \in Nat, NEW p \in Nat, p > 0,
         NEW q \in Newest(n, Periods(S, p))
  PROVE  q \in Periods(SlotOf(S, p, n), p)
<1> DEFINE C == {r \in S : r \div p = q}
<1>1. C # {} /\ C \in SUBSET (0 .. m) BY DEF Newest, Periods
<1>2. Max(C) \in C BY <1>1, MaxOf
<1>3. Max(C) \in SlotOf(S, p, n) BY DEF SlotOf, Periods
<1> QED BY <1>2, <1>3 DEF Periods

\* What a prune keeps of H has what H had.
LEMMA SlotsPrune ==
  ASSUME NEW m \in Nat, NEW L \in SUBSET (0 .. m), NEW H \in SUBSET L, Slots(L, H),
         NEW K, Kept(H) \subseteq K
  PROVE  Slots(L, K)
<1> USE ConstantsTyped
<1>1. ASSUME NEW n \in Nat, NEW p \in Nat, p > 0, SlotOf(H, p, n) \subseteq K,
             Newest(n, Periods(L, p)) \subseteq Periods(H, p)
      PROVE  Newest(n, Periods(L, p)) \subseteq Periods(K, p)
  <2> SUFFICES ASSUME NEW q \in Newest(n, Periods(L, p)) PROVE q \in Periods(K, p) OBVIOUS
  <2>1. Periods(H, p) \in SUBSET Periods(L, p) BY DEF Periods
  <2>2. IsFiniteSet(Periods(L, p)) BY <1>1, PeriodsBounded
  <2>3. q \in Newest(n, Periods(H, p)) BY <1>1, <2>1, <2>2, NewestOfPart
  <2>4. H \in SUBSET (0 .. m) OBVIOUS
  <2>5. q \in Periods(SlotOf(H, p, n), p) BY <1>1, <2>3, <2>4, SlotOfHas
  <2> QED BY <1>1, <2>5 DEF Periods
<1>2. Newest(KeepDaily, L) \subseteq K
  <2> SUFFICES ASSUME NEW r \in Newest(KeepDaily, L) PROVE r \in K OBVIOUS
  <2>1. IsFiniteSet(L) BY BoundedFinite
  <2>2. r \in Newest(KeepDaily, H) BY <2>1, NewestOfPart DEF Slots
  <2> QED BY <2>2 DEF Kept
<1>3. SlotOf(H, Week, KeepWeekly) \subseteq K /\ SlotOf(H, Month, KeepMonthly) \subseteq K BY DEF Kept
<1> QED BY <1>1, <1>2, <1>3 DEF Slots

-----------------------------------------------------------------------------
(* Directories *)

LEMMA CopyTyped ==
  ASSUME NEW dumps \in SUBSET Dbs, NEW manifest \in BOOLEAN
  PROVE  [dumps |-> dumps, manifest |-> manifest] \in Copy
  BY DEF Copy

LEMMA CopyParts ==
  ASSUME NEW copy \in Copy PROVE copy.dumps \in SUBSET Dbs /\ copy.manifest \in BOOLEAN
  BY DEF Copy

-----------------------------------------------------------------------------
(* The inductive invariant *)

Bounds ==
    /\ last <= now
    /\ DOMAIN local \subseteq 1 .. last
    /\ DOMAIN remote \subseteq 1 .. last
    /\ left \subseteq 1 .. last
    /\ good \subseteq left

\* What a run that is going on has done so far.
RunShape ==
    /\ pc # "idle" => last = now /\ now \in DOMAIN local
    /\ pc = "dump" => now \notin left /\ Dbs \subseteq local[now].dumps \cup todo \cup failed
    /\ pc \in {"upload", "prune", "report"} =>
          now \in left /\ local[now].manifest /\ Dbs \subseteq local[now].dumps \cup failed
    /\ pc \in {"prune", "report"} => now \in DOMAIN remote /\ remote[now] = local[now]

\* A unit that is well says so of its newest run.
QuietShape ==
    pc = "idle" /\ unit = "ok" /\ ~forgotten /\ DOMAIN remote # {} =>
        last \in DOMAIN remote /\ Complete(remote[last])

KeepShape ==
    /\ \A r \in good \cap DOMAIN local : local[r].dumps = Dbs
    /\ \A r \in DOMAIN local : r \in left \/ (pc = "dump" /\ r = now)
    /\ Slots(left, DOMAIN local \cap left)

BackupInv == TypeOK /\ Bounds /\ RunShape /\ QuietShape /\ KeepShape

LEMMA NothingToKeep == Slots({}, {})
<1>1. \A p : Periods({}, p) = {} BY DEF Periods
<1>2. \A n : Newest(n, {}) = {} BY DEF Newest
<1> QED BY <1>1, <1>2 DEF Slots

LEMMA InvInit == Init => BackupInv
<1> SUFFICES ASSUME Init PROVE BackupInv OBVIOUS
<1>1. DOMAIN local = {} /\ DOMAIN remote = {} BY DEF Init, NoRuns
<1>2. TypeOK
  <2>1. now \in 1 .. MaxNow /\ cuts \in 0 .. MaxCuts /\ last \in 0 .. MaxNow BY ConstantsTyped DEF Init
  <2>2. pc \in Phases /\ unit \in {"ok", "failed"} /\ forgotten \in BOOLEAN BY DEF Init, Phases
  <2>3. todo \subseteq Dbs /\ failed \subseteq Dbs /\ good \subseteq Stamps /\ left \subseteq Stamps BY DEF Init
  <2> QED BY <1>1, <2>1, <2>2, <2>3 DEF TypeOK
<1>5. Bounds BY <1>1 DEF Init, Bounds
<1>6. RunShape BY DEF Init, RunShape
<1>7. QuietShape BY <1>1 DEF QuietShape
<1>3. Slots(left, DOMAIN local \cap left) BY <1>1, NothingToKeep DEF Init
<1>4. KeepShape BY <1>1, <1>3 DEF Init, KeepShape
<1> QED BY <1>2, <1>4, <1>5, <1>6, <1>7 DEF BackupInv

\* The steps that touch neither a directory nor the bucket nor what is remembered of them.
LEMMA FramedSteps ==
  ASSUME BackupInv, UNCHANGED <<now, local, remote, left>>, last' \in {last, now}, good' \subseteq good \cup {now},
         good' # good => pc = "report" /\ local[now].dumps = Dbs
  PROVE  Bounds' /\ ((pc = "dump" => pc' = "dump") => KeepShape')
<1>1. Bounds' BY DEF BackupInv, TypeOK, Bounds, RunShape
<1>2. ASSUME pc = "dump" => pc' = "dump" PROVE KeepShape'
  <2>1. \A r \in (good \cap DOMAIN local)' : local'[r].dumps = Dbs BY DEF BackupInv, KeepShape
  <2>2. \A r \in DOMAIN local' : r \in left' \/ (pc' = "dump" /\ r = now') BY <1>2 DEF BackupInv, KeepShape
  <2>3. Slots(left', DOMAIN local' \cap left') BY DEF BackupInv, KeepShape
  <2> QED BY <2>1, <2>2, <2>3 DEF KeepShape
<1> QED BY <1>1, <1>2

LEMMA InvRefuse == BackupInv /\ Refuse => BackupInv'
<1> SUFFICES ASSUME BackupInv, Refuse PROVE BackupInv' OBVIOUS
<1> USE DEF Refuse, Ends, history, BackupInv
<1>1. TypeOK'
  <2>1. last' \in 0 .. MaxNow BY ConstantsTyped DEF TypeOK
  <2> QED BY <2>1 DEF TypeOK, Phases, run
<1>2. Bounds' /\ KeepShape' BY FramedSteps
<1>3. RunShape' BY DEF RunShape
<1>4. QuietShape' BY DEF QuietShape
<1> QED BY <1>1, <1>2, <1>3, <1>4

LEMMA InvBegin == BackupInv /\ Begin => BackupInv'
<1> SUFFICES ASSUME BackupInv, Begin PROVE BackupInv' OBVIOUS
<1> USE DEF Begin, BackupInv
<1>0. /\ DOMAIN local' = DOMAIN local \cup {now}
      /\ local'[now] = [dumps |-> {}, manifest |-> FALSE]
      /\ \A r \in DOMAIN local \ {now} : local'[r] = local[r]
  <2>1. local' = Set(local, now, [dumps |-> {}, manifest |-> FALSE]) OBVIOUS
  <2> HIDE DEF Begin, BackupInv
  <2> QED BY <2>1 DEF Set
<1>6. now \notin left /\ now \notin DOMAIN local /\ now \notin DOMAIN remote BY DEF TypeOK, Bounds
<1>1. TypeOK'
  <2>1. local'[now] \in Copy BY <1>0, CopyTyped, FALSE \in BOOLEAN, {} \in SUBSET Dbs, Zenon
  <2>2. \A r \in DOMAIN local' : local'[r] \in Copy BY <1>0, <2>1 DEF TypeOK
  <2> QED BY <1>0, <2>2 DEF TypeOK, Phases, Stamps
<1>2. Bounds' BY <1>0 DEF TypeOK, Bounds
<1>3. RunShape' BY <1>0, <1>6 DEF RunShape
<1>4. QuietShape' BY DEF QuietShape
<1>5. KeepShape'
  <2>1. DOMAIN local' \cap left' = DOMAIN local \cap left BY <1>0, <1>6
  <2>2. Slots(left', DOMAIN local' \cap left') BY <2>1 DEF KeepShape
  <2>3. \A r \in (good \cap DOMAIN local)' : local'[r].dumps = Dbs BY <1>0, <1>6 DEF KeepShape, Bounds
  <2>4. \A r \in DOMAIN local' : r \in left' \/ (pc' = "dump" /\ r = now') BY <1>0 DEF KeepShape
  <2> QED BY <2>2, <2>3, <2>4 DEF KeepShape
<1> QED BY <1>1, <1>2, <1>3, <1>4, <1>5

LEMMA InvDumpOk == ASSUME NEW db \in Dbs, BackupInv, DumpOk(db) PROVE BackupInv'
<1> USE DEF DumpOk, history, BackupInv
<1>1. now \in DOMAIN local /\ local[now] \in Copy BY DEF TypeOK, RunShape
<1>2. /\ DOMAIN local' = DOMAIN local
      /\ local'[now] = [local[now] EXCEPT !.dumps = @ \cup {db}]
      /\ \A r \in DOMAIN local \ {now} : local'[r] = local[r]
  BY <1>1
<1>3. local'[now] = [dumps |-> local[now].dumps \cup {db}, manifest |-> local[now].manifest]
  BY <1>1, <1>2 DEF Copy
<1> HIDE DEF DumpOk
<1>4. TypeOK'
  <2>1. local'[now] \in Copy BY <1>1, <1>3, CopyParts, CopyTyped
  <2>2. \A r \in DOMAIN local' : local'[r] \in Copy BY <1>2, <2>1 DEF TypeOK
  <2> QED BY <1>2, <2>2 DEF TypeOK, DumpOk
<1>5. Bounds' BY <1>2 DEF Bounds, DumpOk
<1>6. RunShape' BY <1>2, <1>3 DEF RunShape, DumpOk
<1>7. QuietShape' BY DEF QuietShape, DumpOk
<1>8. KeepShape'
  <2>1. Slots(left', DOMAIN local' \cap left') BY <1>2 DEF KeepShape, DumpOk
  <2>2. now \notin good BY DEF RunShape, Bounds, DumpOk
  <2>3. \A r \in (good \cap DOMAIN local)' : local'[r].dumps = Dbs BY <1>2, <2>2 DEF KeepShape, DumpOk
  <2> QED BY <1>2, <2>1, <2>3 DEF KeepShape, DumpOk
<1> QED BY <1>4, <1>5, <1>6, <1>7, <1>8

LEMMA InvDumpErr == ASSUME NEW db \in Dbs, BackupInv, DumpErr(db) PROVE BackupInv'
<1> USE DEF DumpErr, history, BackupInv
<1>1. TypeOK' BY DEF TypeOK
<1>2. Bounds' /\ KeepShape' BY FramedSteps
<1>3. RunShape' BY DEF RunShape
<1>4. QuietShape' BY DEF QuietShape
<1> QED BY <1>1, <1>2, <1>3, <1>4

LEMMA InvTrap == BackupInv /\ Trap => BackupInv'
<1> SUFFICES ASSUME BackupInv, Trap PROVE BackupInv' OBVIOUS
<1>1. /\ DOMAIN local' = DOMAIN local \ {now}
      /\ \A r \in DOMAIN local \ {now} : local'[r] = local[r]
  BY DEF Trap, Without, Restrict
<1> USE DEF Trap, Ends, BackupInv
<1>2. TypeOK'
  <2>1. \A r \in DOMAIN local' : local'[r] \in Copy BY <1>1 DEF TypeOK
  <2> QED BY <1>1, <2>1 DEF TypeOK, Phases
<1>3. Bounds' BY <1>1 DEF Bounds
<1>4. RunShape' BY DEF RunShape
<1>5. QuietShape' BY DEF QuietShape
<1>6. KeepShape'
  <2>1. DOMAIN local' \cap left' = DOMAIN local \cap left BY <1>1 DEF RunShape
  <2>2. Slots(left', DOMAIN local' \cap left') BY <2>1 DEF KeepShape
  <2> QED BY <1>1, <2>2 DEF KeepShape
<1> QED BY <1>2, <1>3, <1>4, <1>5, <1>6

LEMMA InvManifest == BackupInv /\ Manifest => BackupInv'
<1> SUFFICES ASSUME BackupInv, Manifest PROVE BackupInv' OBVIOUS
<1> USE DEF Manifest, BackupInv
<1>1. now \in DOMAIN local /\ local[now] \in Copy BY DEF TypeOK, RunShape
<1>2. /\ DOMAIN local' = DOMAIN local
      /\ local'[now] = [local[now] EXCEPT !.manifest = TRUE]
      /\ \A r \in DOMAIN local \ {now} : local'[r] = local[r]
  BY <1>1
<1>3. local'[now] = [dumps |-> local[now].dumps, manifest |-> TRUE]
  BY <1>1, <1>2 DEF Copy
<1> HIDE DEF Manifest
<1>4. TypeOK'
  <2>1. local'[now] \in Copy BY <1>1, <1>3, CopyParts, CopyTyped
  <2>2. \A r \in DOMAIN local' : local'[r] \in Copy BY <1>2, <2>1 DEF TypeOK
  <2>3. left' \subseteq Stamps BY DEF TypeOK, Manifest, Stamps
  <2> QED BY <1>2, <2>2, <2>3 DEF TypeOK, Manifest, Phases, run
<1>5. Bounds'
  <2>1. last = now BY DEF RunShape, Manifest
  <2> QED BY <1>2, <2>1 DEF Bounds, Manifest, TypeOK
<1>6. RunShape' BY <1>1, <1>2, <1>3 DEF RunShape, Manifest, run
<1>7. QuietShape' BY DEF QuietShape, Manifest
<1>8. KeepShape'
  <2>1. DOMAIN local' \cap left' = (DOMAIN local \cap left) \cup {now} BY <1>1, <1>2 DEF Manifest
  <2>2. left \in SUBSET (0 .. MaxNow) /\ now \in 0 .. MaxNow /\ MaxNow \in Nat
    BY ConstantsTyped DEF TypeOK, Stamps
  <2>3. Slots(left \cup {now}, (DOMAIN local \cap left) \cup {now}) BY <2>2, SlotsGrow DEF KeepShape
  <2>4. Slots(left', DOMAIN local' \cap left') BY <2>1, <2>3 DEF Manifest
  <2>5. \A r \in (good \cap DOMAIN local)' : local'[r].dumps = Dbs BY <1>2, <1>3 DEF KeepShape, Manifest
  <2>6. \A r \in DOMAIN local' : r \in left' BY <1>2 DEF KeepShape, Manifest
  <2> QED BY <2>4, <2>5, <2>6 DEF KeepShape
<1> QED BY <1>4, <1>5, <1>6, <1>7, <1>8

LEMMA InvUploadOk == BackupInv /\ UploadOk => BackupInv'
<1> SUFFICES ASSUME BackupInv, UploadOk PROVE BackupInv' OBVIOUS
<1>1. /\ DOMAIN remote' = DOMAIN remote \cup {now}
      /\ remote'[now] = local[now]
      /\ \A r \in DOMAIN remote \ {now} : remote'[r] = remote[r]
  BY DEF UploadOk, Set
<1> USE DEF UploadOk, BackupInv, history
<1>2. last = now /\ now \in DOMAIN local /\ local[now] \in Copy BY DEF TypeOK, RunShape
<1>3. TypeOK'
  <2>1. \A r \in DOMAIN remote' : remote'[r] \in Copy BY <1>1, <1>2 DEF TypeOK
  <2>2. DOMAIN remote' \subseteq Stamps BY <1>1 DEF TypeOK, Stamps
  <2> QED BY <2>1, <2>2 DEF TypeOK, Phases, run
<1>4. Bounds' BY <1>1, <1>2 DEF Bounds, TypeOK
<1>5. RunShape' BY <1>1 DEF RunShape, run
<1>6. QuietShape' BY DEF QuietShape
<1>7. KeepShape' BY DEF KeepShape
<1> QED BY <1>3, <1>4, <1>5, <1>6, <1>7

\* What is left of a copy that was being shipped is a copy of the newest run.
LEMMA ShippedTyped ==
  ASSUME BackupInv, pc = "upload", Shipped
  PROVE  /\ DOMAIN remote' \subseteq DOMAIN remote \cup {last}
         /\ \A r \in DOMAIN remote' : remote'[r] \in Copy
<1> USE DEF BackupInv
<1>1. last = now /\ now \in DOMAIN local /\ local[now] \in Copy BY DEF TypeOK, RunShape
<1>2. CASE UNCHANGED remote BY <1>2 DEF TypeOK
<1>3. ASSUME NEW dumps \in SUBSET local[now].dumps, NEW manifest \in BOOLEAN,
             remote' = Set(remote, now, [dumps |-> dumps, manifest |-> manifest])
      PROVE  /\ DOMAIN remote' \subseteq DOMAIN remote \cup {last}
             /\ \A r \in DOMAIN remote' : remote'[r] \in Copy
  <2>1. /\ DOMAIN remote' = DOMAIN remote \cup {now}
        /\ remote'[now] = [dumps |-> dumps, manifest |-> manifest]
        /\ \A r \in DOMAIN remote \ {now} : remote'[r] = remote[r]
    BY <1>3 DEF Set
  <2>2. dumps \in SUBSET Dbs BY <1>1, CopyParts
  <2>3. remote'[now] \in Copy BY <2>1, <2>2, CopyTyped
  <2> QED BY <1>1, <2>1, <2>3 DEF TypeOK
<1> QED BY <1>2, <1>3 DEF Shipped

LEMMA InvUploadErr == BackupInv /\ UploadErr => BackupInv'
<1> SUFFICES ASSUME BackupInv, UploadErr PROVE BackupInv' OBVIOUS
<1> USE DEF UploadErr, Ends, BackupInv
<1>1. /\ DOMAIN remote' \subseteq DOMAIN remote \cup {last}
      /\ \A r \in DOMAIN remote' : remote'[r] \in Copy
  BY ShippedTyped
<1>2. last = now /\ last \in 1 .. MaxNow BY DEF RunShape, TypeOK
<1>3. TypeOK'
  <2>1. DOMAIN remote' \subseteq Stamps BY <1>1, <1>2 DEF TypeOK, Stamps
  <2> QED BY <1>1, <2>1 DEF TypeOK, Phases
<1>4. Bounds' BY <1>1, <1>2 DEF Bounds
<1>5. RunShape' BY DEF RunShape
<1>6. QuietShape' BY DEF QuietShape
<1>7. KeepShape' BY DEF KeepShape
<1> QED BY <1>3, <1>4, <1>5, <1>6, <1>7

\* A prune, or a part of one: nothing goes that is to be kept.
LEMMA KeptStay ==
  ASSUME BackupInv, pc = "prune",
         DOMAIN local' \subseteq DOMAIN local, Kept(DOMAIN local) \subseteq DOMAIN local',
         \A r \in DOMAIN local' : local'[r] = local[r],
         UNCHANGED <<now, left, last, good>>
  PROVE  now \in DOMAIN local' /\ KeepShape'
<1> USE DEF BackupInv
<1>1. DOMAIN local \subseteq left BY DEF KeepShape
<1>2. DOMAIN local \in SUBSET Int /\ now \in DOMAIN local /\ \A r \in DOMAIN local : r <= now
  BY DEF Bounds, RunShape, TypeOK
<1>3. now \in Newest(KeepDaily, DOMAIN local) BY <1>2, ConstantsTyped, GreatestIsNewest
<1>4. left \in SUBSET (0 .. MaxNow) /\ MaxNow \in Nat BY ConstantsTyped DEF TypeOK, Stamps
<1>5. DOMAIN local \cap left = DOMAIN local /\ DOMAIN local' \cap left = DOMAIN local' BY <1>1
<1>6. Slots(left, DOMAIN local) BY <1>5 DEF KeepShape
<1>7. Slots(left, DOMAIN local') BY <1>1, <1>4, <1>6, SlotsPrune
<1>8. Slots(left', DOMAIN local' \cap left') BY <1>5, <1>7
<1>9. \A r \in (good \cap DOMAIN local)' : local'[r].dumps = Dbs BY DEF KeepShape
<1>10. \A r \in DOMAIN local' : r \in left' BY <1>1
<1>11. KeepShape' BY <1>8, <1>9, <1>10 DEF KeepShape
<1>12. now \in DOMAIN local' BY <1>3 DEF Kept
<1> QED BY <1>11, <1>12

LEMMA KeptAreThere ==
  ASSUME NEW m \in Nat, NEW S \in SUBSET (0 .. m) PROVE Kept(S) \subseteq S
<1> USE ConstantsTyped
<1>1. ASSUME NEW n, NEW p, NEW r \in SlotOf(S, p, n) PROVE r \in S
  <2>1. PICK q \in Newest(n, Periods(S, p)) : r = Max({x \in S : x \div p = q})
    BY <1>1 DEF SlotOf, Periods
  <2>2. q \in Periods(S, p) BY DEF Newest
  <2>3. {x \in S : x \div p = q} # {} /\ {x \in S : x \div p = q} \in SUBSET (0 .. m) BY <2>2 DEF Periods
  <2>4. Max({x \in S : x \div p = q}) \in {x \in S : x \div p = q} BY <2>3, MaxOf
  <2> QED BY <2>1, <2>4
<1>2. Newest(KeepDaily, S) \subseteq S BY DEF Newest
<1> QED BY <1>1, <1>2 DEF Kept

LEMMA InvPrune == BackupInv /\ Prune => BackupInv'
<1> SUFFICES ASSUME BackupInv, Prune PROVE BackupInv' OBVIOUS
<1> USE DEF Prune, history, BackupInv
<1>1. DOMAIN local \in SUBSET (0 .. MaxNow) /\ MaxNow \in Nat BY ConstantsTyped DEF TypeOK, Stamps
<1>2. Kept(DOMAIN local) \subseteq DOMAIN local BY <1>1, KeptAreThere
<1>3. DOMAIN local' = Kept(DOMAIN local) /\ \A r \in Kept(DOMAIN local) : local'[r] = local[r]
  BY DEF Restrict
<1>4. now \in DOMAIN local' /\ KeepShape' BY <1>2, <1>3, KeptStay
<1>5. TypeOK'
  <2>1. \A r \in DOMAIN local' : local'[r] \in Copy BY <1>2, <1>3 DEF TypeOK
  <2> QED BY <1>2, <1>3, <2>1 DEF TypeOK, Phases, run
<1>6. Bounds' BY <1>2, <1>3 DEF Bounds
<1>7. RunShape' BY <1>3, <1>4 DEF RunShape, run
<1>8. QuietShape' BY DEF QuietShape
<1> QED BY <1>4, <1>5, <1>6, <1>7, <1>8

LEMMA InvReport == BackupInv /\ Report => BackupInv'
<1> SUFFICES ASSUME BackupInv, Report PROVE BackupInv' OBVIOUS
<1> USE DEF Report, Ends, BackupInv
<1>1. now \in DOMAIN local /\ local[now] \in Copy /\ last = now /\ now \in left BY DEF TypeOK, RunShape
<1>2. failed = {} => local[now].dumps = Dbs BY <1>1, CopyParts DEF RunShape
<1>3. good' \subseteq good \cup {now} /\ (good' # good => local[now].dumps = Dbs) BY <1>2
<1>4. Bounds' /\ KeepShape' BY <1>3, FramedSteps
<1>5. TypeOK' BY <1>1 DEF TypeOK, Phases, Stamps
<1>6. RunShape' BY DEF RunShape
<1>7. QuietShape'
  <2>1. CASE failed = {} BY <2>1, <1>1, <1>2 DEF QuietShape, RunShape, Complete
  <2>2. CASE failed # {} BY <2>2 DEF QuietShape
  <2> QED BY <2>1, <2>2
<1> QED BY <1>4, <1>5, <1>6, <1>7

\* However a run is cut off.
LEMMA InterruptedKeeps ==
  ASSUME BackupInv, Interrupted
  PROVE  /\ DOMAIN local' \subseteq DOMAIN local /\ \A r \in DOMAIN local' : local'[r] \in Copy
         /\ DOMAIN remote' \subseteq Stamps /\ \A r \in DOMAIN remote' : remote'[r] \in Copy
         /\ cuts' \in 0 .. MaxCuts /\ left' \subseteq Stamps
         /\ Bounds' /\ RunShape' /\ KeepShape'
<1> USE DEF BackupInv
<1>1. cuts' \in 0 .. MaxCuts BY ConstantsTyped DEF TypeOK, Interrupted
<1>2. RunShape' BY DEF RunShape, Interrupted
<1>3. pc # "idle" => last = now /\ now \in Stamps BY DEF RunShape, TypeOK, Stamps
<1>4. UNCHANGED <<now, last, good>> /\ pc' = "idle" BY DEF Interrupted
<1>5. pc \in Phases BY DEF TypeOK
<1>6. CASE pc \in {"idle", "report"}
  <2>1. UNCHANGED <<local, remote, left>> BY <1>6 DEF Interrupted
  <2>2. Bounds' BY <1>4, <2>1 DEF Bounds
  <2>3. KeepShape' BY <1>4, <1>6, <2>1 DEF KeepShape
  <2> QED BY <1>1, <1>2, <2>1, <2>2, <2>3 DEF TypeOK
<1>7. CASE pc = "dump"
  <2>1. UNCHANGED <<local, remote>> /\ left' = left \cup {now} BY <1>7 DEF Interrupted
  <2>2. now \in DOMAIN local /\ now \notin left BY <1>7 DEF RunShape
  <2>3. Bounds' BY <1>3, <1>4, <1>7, <2>1 DEF Bounds, TypeOK
  <2>4. KeepShape'
    <3>1. DOMAIN local' \cap left' = (DOMAIN local \cap left) \cup {now} BY <2>1, <2>2
    <3>2. left \in SUBSET (0 .. MaxNow) /\ now \in 0 .. MaxNow /\ MaxNow \in Nat
      BY ConstantsTyped DEF TypeOK, Stamps
    <3>3. Slots(left \cup {now}, (DOMAIN local \cap left) \cup {now}) BY <3>2, SlotsGrow DEF KeepShape
    <3>4. Slots(left', DOMAIN local' \cap left') BY <2>1, <3>1, <3>3
    <3>5. \A r \in (good \cap DOMAIN local)' : local'[r].dumps = Dbs BY <1>4, <2>1 DEF KeepShape
    <3>6. \A r \in DOMAIN local' : r \in left' BY <2>1 DEF KeepShape
    <3> QED BY <3>4, <3>5, <3>6 DEF KeepShape
  <2> QED BY <1>1, <1>2, <1>3, <1>7, <2>1, <2>3, <2>4 DEF TypeOK
<1>8. CASE pc = "upload"
  <2>1. UNCHANGED <<local, left>> /\ Shipped BY <1>8 DEF Interrupted
  <2>2. /\ DOMAIN remote' \subseteq DOMAIN remote \cup {last}
        /\ \A r \in DOMAIN remote' : remote'[r] \in Copy
    BY <1>8, <2>1, ShippedTyped
  <2>3. last \in 1 .. last /\ last \in Stamps BY <1>3, <1>8 DEF Stamps, TypeOK
  <2>4. Bounds' BY <1>4, <2>1, <2>2, <2>3 DEF Bounds
  <2>5. KeepShape' BY <1>4, <1>8, <2>1 DEF KeepShape
  <2>6. DOMAIN remote' \subseteq Stamps BY <2>2, <2>3 DEF TypeOK
  <2> QED BY <1>1, <1>2, <2>1, <2>2, <2>4, <2>5, <2>6 DEF TypeOK
<1>9. CASE pc = "prune"
  <2>1. UNCHANGED <<remote, left>> BY <1>9 DEF Interrupted
  <2>2. PICK gone \in SUBSET (DOMAIN local \ Kept(DOMAIN local)) : local' = Without(local, gone)
    BY <1>9 DEF Interrupted
  <2>3. DOMAIN local' = DOMAIN local \ gone /\ \A r \in DOMAIN local' : local'[r] = local[r]
    BY <2>2 DEF Without, Restrict
  <2>4. DOMAIN local \in SUBSET (0 .. MaxNow) /\ MaxNow \in Nat BY ConstantsTyped DEF TypeOK, Stamps
  <2>5. Kept(DOMAIN local) \subseteq DOMAIN local BY <2>4, KeptAreThere
  <2>6. Kept(DOMAIN local) \subseteq DOMAIN local' BY <2>3, <2>5
  <2>7. KeepShape' BY <1>4, <1>9, <2>1, <2>3, <2>6, KeptStay
  <2>8. Bounds' BY <1>4, <2>1, <2>3 DEF Bounds
  <2>9. \A r \in DOMAIN local' : local'[r] \in Copy BY <2>3 DEF TypeOK
  <2> QED BY <1>1, <1>2, <2>1, <2>3, <2>7, <2>8, <2>9 DEF TypeOK
<1> QED BY <1>5, <1>6, <1>7, <1>8, <1>9 DEF Phases

LEMMA InvKill == BackupInv /\ Kill => BackupInv'
<1> SUFFICES ASSUME BackupInv, Kill PROVE BackupInv' OBVIOUS
<1>1. Interrupted /\ unit' = "failed" /\ forgotten' = FALSE BY DEF Kill
<1>2. Bounds' /\ RunShape' /\ KeepShape' BY <1>1, InterruptedKeeps
<1>3. pc' = "idle" /\ todo' = {} /\ failed' = {} /\ UNCHANGED <<now, good, last>> BY <1>1 DEF Interrupted
<1>4. TypeOK'
  <2>1. TypeOK BY DEF BackupInv
  <2> QED BY <1>1, <1>3, <2>1, InterruptedKeeps DEF TypeOK, Phases
<1>5. QuietShape' BY <1>1 DEF QuietShape
<1> QED BY <1>2, <1>4, <1>5 DEF BackupInv

LEMMA InvReboot == BackupInv /\ Reboot => BackupInv'
<1> SUFFICES ASSUME BackupInv, Reboot PROVE BackupInv' OBVIOUS
<1>1. Interrupted /\ unit' = "ok" /\ forgotten' = (forgotten \/ unit = "failed" \/ pc # "idle") BY DEF Reboot
<1>2. Bounds' /\ RunShape' /\ KeepShape' BY <1>1, InterruptedKeeps
<1>3. pc' = "idle" /\ todo' = {} /\ failed' = {} /\ UNCHANGED <<now, good, last>> BY <1>1 DEF Interrupted
<1>4. TypeOK'
  <2>1. TypeOK BY DEF BackupInv
  <2>2. forgotten' \in BOOLEAN BY <1>1, Zenon
  <2> QED BY <1>1, <1>3, <2>1, <2>2, InterruptedKeeps DEF TypeOK, Phases
<1>5. QuietShape'
  <2>1. SUFFICES ASSUME ~forgotten', DOMAIN remote' # {}
                 PROVE  last' \in DOMAIN remote' /\ Complete(remote'[last'])
    BY DEF QuietShape
  <2>2. ~forgotten /\ unit = "ok" /\ pc = "idle" BY <1>1, <2>1 DEF BackupInv, TypeOK
  <2>3. UNCHANGED remote BY <1>1, <2>2 DEF Interrupted
  <2> QED BY <1>3, <2>1, <2>2, <2>3 DEF BackupInv, QuietShape
<1> QED BY <1>2, <1>4, <1>5 DEF BackupInv

LEMMA InvTick == BackupInv /\ Tick => BackupInv'
<1> SUFFICES ASSUME BackupInv, Tick PROVE BackupInv' OBVIOUS
<1> USE DEF BackupInv
<1>1. /\ DOMAIN remote' = {r \in DOMAIN remote : ~(now' - r > Expiry)}
      /\ \A r \in DOMAIN remote' : remote'[r] = remote[r]
  <2>1. remote' = Without(remote, {r \in DOMAIN remote : now' - r > Expiry}) BY DEF Tick
  <2> HIDE DEF BackupInv
  <2> QED BY <2>1 DEF Without, Restrict
<1>2. /\ now' = now + 1 /\ now < MaxNow /\ pc = "idle"
      /\ UNCHANGED <<local, pc, todo, failed, unit, cuts, good, left, last, forgotten>>
  BY DEF Tick, run, history
<1>3. TypeOK'
  <2>1. \A r \in DOMAIN remote' : remote'[r] \in Copy BY <1>1 DEF TypeOK
  <2>2. now' \in 1 .. MaxNow BY <1>2, ConstantsTyped DEF TypeOK
  <2> QED BY <1>1, <1>2, <2>1, <2>2 DEF TypeOK
<1>4. Bounds' BY <1>1, <1>2 DEF Bounds, TypeOK
<1>5. RunShape' BY <1>2 DEF RunShape
<1>6. KeepShape' BY <1>2 DEF KeepShape
<1>7. QuietShape'
  <2> SUFFICES ASSUME unit = "ok", ~forgotten, NEW r \in DOMAIN remote'
               PROVE  last \in DOMAIN remote' /\ Complete(remote'[last])
    BY <1>2 DEF QuietShape
  <2>1. r \in DOMAIN remote /\ ~(now' - r > Expiry) BY <1>1
  <2>2. last \in DOMAIN remote /\ Complete(remote[last]) BY <1>2, <2>1 DEF QuietShape
  <2>3. r \in Int /\ last \in Int /\ r <= last /\ now' \in Int /\ Expiry \in Int
    BY <1>2, <2>1, ConstantsTyped DEF Bounds, TypeOK
  <2>4. \A a, b, c, e \in Int : b <= c /\ ~(a - b > e) => ~(a - c > e) OBVIOUS
  <2>5. ~(now' - last > Expiry) BY <2>1, <2>3, <2>4
  <2> QED BY <1>1, <2>2, <2>5
<1> QED BY <1>3, <1>4, <1>5, <1>6, <1>7

LEMMA InvNext == BackupInv /\ [Next]_vars => BackupInv'
<1> SUFFICES ASSUME BackupInv, [Next]_vars PROVE BackupInv' OBVIOUS
<1>1. CASE UNCHANGED vars
  <2>1. UNCHANGED <<now, local, remote, pc, todo, failed, unit, cuts, good, left, last, forgotten>>
    BY <1>1 DEF vars, run, history
  <2> QED BY <2>1 DEF BackupInv, TypeOK, Bounds, RunShape, QuietShape, KeepShape
<1>2. ASSUME NEW db \in Dbs, DumpOk(db) \/ DumpErr(db) PROVE BackupInv' BY <1>2, InvDumpOk, InvDumpErr
<1> QED
  BY <1>1, <1>2, InvRefuse, InvBegin, InvTrap, InvManifest, InvUploadOk, InvUploadErr, InvPrune,
     InvReport, InvKill, InvReboot, InvTick DEF Next

\* Every reachable state is typed, a run that goes on has done what its place says, a unit
\* that is well vouches for the newest copy, and what is to be kept is there.
THEOREM BackupInductive == Spec => []BackupInv
<1> QED BY InvInit, InvNext, PTL DEF Spec

\* Backup.tla, TypeOK.
THEOREM TypeTheorem == Spec => []TypeOK
<1>1. BackupInv => TypeOK BY DEF BackupInv
<1> QED BY <1>1, BackupInductive, PTL

-----------------------------------------------------------------------------
(* What the operator may conclude *)

LEMMA InvQuiet == BackupInv => QuietMeansRestorable
<1> SUFFICES ASSUME BackupInv, pc = "idle", unit = "ok", Fresh, ~forgotten
             PROVE  /\ \E r \in DOMAIN remote : Complete(remote[r]) /\ now - r <= MaxAge
                    /\ \A db \in Dbs : DrillPasses(db)
  BY DEF QuietMeansRestorable
<1> USE DEF BackupInv
<1>1. PICK r \in DOMAIN remote : now - r <= MaxAge BY DEF Fresh
<1>2. last \in DOMAIN remote /\ Complete(remote[last]) BY <1>1 DEF QuietShape
<1>3. DOMAIN remote \in SUBSET (0 .. last) /\ last \in Nat /\ \A q \in DOMAIN remote : q <= last
  BY DEF Bounds, TypeOK
<1>4. Max(DOMAIN remote) \in DOMAIN remote /\ last <= Max(DOMAIN remote) BY <1>2, <1>3, MaxOf
<1>5. Max(DOMAIN remote) = last BY <1>3, <1>4
<1>6. now - last <= MaxAge
  <2>1. \A a, b, c, e \in Int : b <= c /\ a - b <= e => a - c <= e OBVIOUS
  <2>2. r \in Int /\ last \in Int /\ r <= last /\ now \in Int /\ MaxAge \in Int
    BY <1>1, <1>3, ConstantsTyped DEF TypeOK
  <2> QED BY <1>1, <2>1, <2>2
<1>7. ASSUME NEW db \in Dbs PROVE DrillPasses(db)
  BY <1>2, <1>5, <1>7 DEF DrillPasses, Complete
<1> QED BY <1>2, <1>6, <1>7

\* backup.sh, freshness.sh, restore-drill.sh: a unit that is well and a bucket that is fresh
\* mean a complete copy within the age limit, and a drill that passes.
THEOREM QuietTheorem == Spec => []QuietMeansRestorable
BY BackupInductive, InvQuiet, PTL

-----------------------------------------------------------------------------
(* What the prune keeps *)

LEMMA InvSlots == BackupInv => SlotsHold
<1> SUFFICES ASSUME BackupInv PROVE SlotsHold OBVIOUS
<1>1. Slots(left, DOMAIN local \cap left) BY DEF BackupInv, KeepShape
<1>2. Slots(left, DOMAIN local) BY <1>1, SlotsMore
<1> QED BY <1>2 DEF Slots, Periods, SlotsHold

\* backup.sh:179: every slot of the newest days, weeks and months that any run has left a
\* directory for is filled.
THEOREM SlotsTheorem == Spec => []SlotsHold
BY BackupInductive, InvSlots, PTL

\* What is removed when something to be kept is lost: a directory that KeepDaily newer ones
\* have outlived.
LEMMA LossIsOutlived ==
  ASSUME BackupInv, pc = "prune", NEW db \in Dbs, Holds(local, db), ~Holds(local', db),
         DOMAIN local' \subseteq DOMAIN local, Kept(DOMAIN local) \subseteq DOMAIN local',
         \A r \in DOMAIN local' : local'[r] = local[r],
         UNCHANGED <<now, left, last, good>>
  PROVE  /\ Cardinality(DOMAIN local') >= KeepDaily
         /\ DOMAIN local' \cap good = {}
         /\ db \in failed
<1> USE DEF BackupInv
<1>1. now \in DOMAIN local' BY KeptStay
<1>2. DOMAIN local' \cap good = {}
  <2> SUFFICES ASSUME NEW g \in DOMAIN local' \cap good PROVE FALSE OBVIOUS
  <2>1. g \in left /\ local[g].dumps = Dbs BY DEF Bounds, KeepShape
  <2>2. db \in local'[g].dumps BY <2>1
  <2> QED BY <2>1, <2>2 DEF Holds
<1>3. db \in failed
  <2>1. now \in left /\ Dbs \subseteq local[now].dumps \cup failed BY DEF RunShape
  <2>2. db \notin local'[now].dumps BY <1>1, <2>1 DEF Holds
  <2> QED BY <1>1, <2>1, <2>2
<1>4. Cardinality(DOMAIN local') >= KeepDaily
  <2>1. PICK r \in DOMAIN local \cap left : db \in local[r].dumps BY DEF Holds
  <2>2. r \notin DOMAIN local' BY <2>1 DEF Holds
  <2>3. r \notin Newest(KeepDaily, DOMAIN local) BY <2>2 DEF Kept
  <2>4. DOMAIN local \in SUBSET (0 .. MaxNow) /\ MaxNow \in Nat BY ConstantsTyped DEF TypeOK, Stamps
  <2>5. Cardinality(Newest(KeepDaily, DOMAIN local)) >= KeepDaily
    BY <2>1, <2>3, <2>4, ConstantsTyped, NewestAreMany
  <2>6. Newest(KeepDaily, DOMAIN local) \in SUBSET DOMAIN local' BY DEF Kept
  <2>7. IsFiniteSet(DOMAIN local')
    <3>1. DOMAIN local' \in SUBSET (0 .. MaxNow) BY <2>4
    <3> QED BY <2>4, <3>1, BoundedFinite
  <2>8. /\ Cardinality(Newest(KeepDaily, DOMAIN local)) <= Cardinality(DOMAIN local')
        /\ IsFiniteSet(Newest(KeepDaily, DOMAIN local))
    BY <2>6, <2>7, FS_Subset
  <2>9. Cardinality(Newest(KeepDaily, DOMAIN local)) \in Nat /\ Cardinality(DOMAIN local') \in Nat
    BY <2>7, <2>8, FS_CardinalityType
  <2> QED BY <2>5, <2>8, <2>9, ConstantsTyped
<1> QED BY <1>2, <1>3, <1>4

LEMMA StepKeepsLastCopy ==
  ASSUME BackupInv, [Next]_vars, NEW db \in Dbs, Holds(local, db), ~Holds(local', db)
  PROVE  /\ Cardinality(DOMAIN local') >= KeepDaily
         /\ DOMAIN local' \cap good = {} /\ (pc = "prune" => db \in failed)
<1> USE DEF BackupInv
\* Nothing is lost while every directory that stays behind keeps its dumps.
<1>1. ASSUME \A r \in DOMAIN local \cap left : r \in DOMAIN local' /\ local[r].dumps \subseteq local'[r].dumps
      PROVE  FALSE
  <2>1. PICK r \in DOMAIN local \cap left : db \in local[r].dumps BY DEF Holds
  <2> QED BY <1>1, <2>1 DEF Holds
<1>2. CASE UNCHANGED local BY <1>1, <1>2
<1>3. CASE Begin
  <2>1. \A r \in DOMAIN local : r # now BY <1>3 DEF Begin, Bounds, TypeOK
  <2>2. local' = Set(local, now, [dumps |-> {}, manifest |-> FALSE]) BY <1>3 DEF Begin
  <2>3. \A r \in DOMAIN local : r \in DOMAIN local' /\ local'[r] = local[r] BY <2>1, <2>2 DEF Set
  <2> QED BY <1>1, <2>3
<1>4. ASSUME NEW d \in Dbs, DumpOk(d) PROVE FALSE
  <2>1. \A r \in DOMAIN local \cap left : r # now BY <1>4 DEF DumpOk, RunShape
  <2>2. local' = [local EXCEPT ![now].dumps = @ \cup {d}] BY <1>4 DEF DumpOk
  <2>3. \A r \in DOMAIN local \cap left : r \in DOMAIN local' /\ local'[r] = local[r] BY <2>1, <2>2
  <2> QED BY <1>1, <2>3
<1>5. CASE Trap
  <2>1. \A r \in DOMAIN local \cap left : r # now BY <1>5 DEF Trap, RunShape
  <2>2. local' = Without(local, {now}) BY <1>5 DEF Trap
  <2>3. \A r \in DOMAIN local \cap left : r \in DOMAIN local' /\ local'[r] = local[r]
    BY <2>1, <2>2 DEF Without, Restrict
  <2> QED BY <1>1, <2>3
<1>6. CASE Manifest
  <2>1. local' = [local EXCEPT ![now].manifest = TRUE] BY <1>6 DEF Manifest
  <2>2. \A r \in DOMAIN local : local[r] \in Copy BY DEF TypeOK
  <2>3. \A r \in DOMAIN local : r \in DOMAIN local' /\ local'[r].dumps = local[r].dumps
    BY <2>1, <2>2 DEF Copy
  <2> QED BY <1>1, <2>3
<1>7. DOMAIN local \in SUBSET (0 .. MaxNow) /\ MaxNow \in Nat BY ConstantsTyped DEF TypeOK, Stamps
<1>8. Kept(DOMAIN local) \subseteq DOMAIN local BY <1>7, KeptAreThere
<1>9. CASE Prune
  <2>1. pc = "prune" /\ local' = Restrict(local, Kept(DOMAIN local)) /\ UNCHANGED <<now, left, last, good>>
    BY <1>9 DEF Prune, history
  <2>2. DOMAIN local' = Kept(DOMAIN local) /\ \A r \in DOMAIN local' : local'[r] = local[r]
    BY <2>1 DEF Restrict
  <2> QED BY <1>8, <2>1, <2>2, LossIsOutlived
<1>10. CASE Interrupted /\ pc = "prune"
  <2>1. UNCHANGED <<now, left, last, good>> BY <1>10 DEF Interrupted
  <2>2. PICK gone \in SUBSET (DOMAIN local \ Kept(DOMAIN local)) : local' = Without(local, gone)
    BY <1>10 DEF Interrupted
  <2>3. DOMAIN local' = DOMAIN local \ gone /\ \A r \in DOMAIN local' : local'[r] = local[r]
    BY <2>2 DEF Without, Restrict
  <2> QED BY <1>8, <1>10, <2>1, <2>3, LossIsOutlived
<1>11. CASE Interrupted /\ pc # "prune" BY <1>2, <1>11 DEF Interrupted
<1> QED
  BY <1>2, <1>3, <1>4, <1>5, <1>6, <1>9, <1>10, <1>11
  DEF Next, vars, Refuse, DumpErr, UploadOk, UploadErr, Report, Kill, Reboot, Tick

\* backup.sh:181: the last local dump of a database goes only when KeepDaily newer runs are
\* there, none of which has ended well.
THEOREM LastCopyTheorem == Spec => LastCopyGoesLoudly
<1>1. ASSUME BackupInv, [Next]_vars
      PROVE  [\A db \in Dbs : Holds(local, db) /\ ~Holds(local', db) =>
                 /\ Cardinality(DOMAIN local') >= KeepDaily
                 /\ DOMAIN local' \cap good = {} /\ (pc = "prune" => db \in failed)]_vars
  BY <1>1, StepKeepsLastCopy
<1> QED BY <1>1, BackupInductive, PTL DEF Spec, LastCopyGoesLoudly
=============================================================================
