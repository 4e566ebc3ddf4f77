-------------------------- MODULE DailySaltProofs --------------------------
(* Proofs about DailySalt, for every number of handlers, salts and days.     *)
EXTENDS DailySalt, FiniteSetTheorems, TLAPS

\* The table has rows for days of the run only, each with a salt.
LEMMA SaltsShape ==
    TypeOK => Stored \subseteq Days /\ \A d \in Stored : salts[d] \in Salts
BY DEF TypeOK, Stored

\* There is a first day.
LEMMA FirstDay == 0 \in Days
BY MaxDayNat DEF Days

\* A function from some days to salts is a possible content of the table.
LEMMA SaltsFunction ==
    ASSUME NEW D, D \subseteq Days, NEW f, f \in [D -> Salts]
    PROVE  f \in UNION {[E -> Salts] : E \in SUBSET Days}
OBVIOUS

\* The initial state is well typed.
LEMMA SaltTypeInit == Init => TypeOK
<1> SUFFICES ASSUME Init PROVE TypeOK OBVIOUS
<1> USE MaxDayNat DEF Init
<1>1. salts \in [{} -> Salts] OBVIOUS
<1>2. salts \in UNION {[E -> Salts] : E \in SUBSET Days} BY <1>1
<1>3. today \in Days /\ cache \in [day : Days, salt : Salts \cup {NoSalt}]
      /\ used \in [Days -> SUBSET Salts]
  BY DEF Days, Empty
<1> QED BY <1>2, <1>3 DEF TypeOK, Days

\* What a prune leaves is typed, and is part of the table.
LEMMA PruneShape ==
    ASSUME TypeOK, NEW d \in Days, Prune(d)
    PROVE  /\ salts' \in UNION {[E -> Salts] : E \in SUBSET Days}
           /\ Stored' = {e \in Stored : e >= d - 1}
           /\ \A e \in Stored' : e \in Stored /\ salts'[e] = salts[e]
<1>1. Stored' = Kept(d) /\ \A e \in Kept(d) : salts'[e] = salts[e] BY DEF Prune, Stored
<1>2. Kept(d) \subseteq Stored BY DEF Kept
<1>3. salts' \in [Kept(d) -> Salts] BY <1>2, SaltsShape DEF Prune
<1>4. Kept(d) \subseteq Days BY <1>2, SaltsShape
<1> QED BY <1>1, <1>2, <1>3, <1>4, SaltsFunction DEF Kept

\* What the winning INSERT leaves: one more day.
LEMMA InsertShape ==
    ASSUME TypeOK, NEW c \in Tasks, NEW s \in Salts, at[c] \notin Stored,
           salts' = [d \in Stored \cup {at[c]} |-> IF d = at[c] THEN s ELSE salts[d]]
    PROVE  /\ salts' \in UNION {[E -> Salts] : E \in SUBSET Days}
           /\ Stored' = Stored \cup {at[c]}
           /\ salts'[at[c]] = s
           /\ \A e \in Stored : salts'[e] = salts[e]
<1>1. Stored \cup {at[c]} \subseteq Days BY SaltsShape DEF TypeOK
<1>2. salts' \in [Stored \cup {at[c]} -> Salts] BY SaltsShape
<1>3. salts' \in UNION {[E -> Salts] : E \in SUBSET Days} BY <1>1, <1>2, SaltsFunction
<1> QED BY <1>3 DEF Stored

\* Every step keeps the state well typed (TaskShape bounds a handler's day).
LEMMA SaltTypeStep == ASSUME TypeOK, TaskShape, [Next]_vars PROVE TypeOK'
<1> USE FirstDay
<1>1. ASSUME NEW c \in Collectors, CurrentSalt(c) PROVE TypeOK'
  <2>1. c \in Tasks BY DEF Tasks
  <2>2. CASE HashFromCache(c)
    <3>1. cache.salt \in Salts BY <2>2 DEF HashFromCache, Hit, TypeOK
    <3>2. used' \in [Days -> SUBSET Salts]
      BY <2>2, <3>1 DEF HashFromCache, Hash, TypeOK
    <3> QED BY <2>2, <3>2 DEF HashFromCache, TypeOK
  <2>3. CASE Begin(c) BY <2>1, <2>3 DEF Begin, GoTo, TypeOK
  <2>4. CASE Insert(c)
    <3>1. salts' \in UNION {[E -> Salts] : E \in SUBSET Days} /\ drawn' \subseteq Salts
      <4>1. CASE UNCHANGED <<salts, drawn>> BY <4>1 DEF TypeOK
      <4>2. ASSUME NEW s \in Salts \ drawn, at[c] \notin Stored,
                   salts' = [d \in Stored \cup {at[c]} |-> IF d = at[c] THEN s ELSE salts[d]],
                   drawn' = drawn \cup {s}
            PROVE  salts' \in UNION {[E -> Salts] : E \in SUBSET Days} /\ drawn' \subseteq Salts
        BY <2>1, <4>2, InsertShape DEF TypeOK
      <4> QED BY <2>4, <4>1, <4>2 DEF Insert
    <3> QED BY <2>1, <2>4, <3>1 DEF Insert, GoTo, TypeOK
  <2>5. CASE Select(c) BY <2>1, <2>5, SaltsShape DEF Select, GoTo, TypeOK
  <2>6. CASE PruneInline(c)
    <3>1. at[c] \in Days BY <2>1 DEF TypeOK
    <3>2. salts' \in UNION {[E -> Salts] : E \in SUBSET Days}
      BY <2>6, <3>1, PruneShape DEF PruneInline
    <3> QED BY <2>1, <2>6, <3>2 DEF PruneInline, GoTo, TypeOK
  <2>7. CASE Store(c)
    <3>1. got[c] \in Salts
      BY <2>7, SaltsShape DEF Store, TaskShape
    <3>2. at[c] \in Days BY <2>1 DEF TypeOK
    <3>3. used' \in [Days -> SUBSET Salts] BY <2>7, <3>1, <3>2 DEF Store, Hash, TypeOK
    <3>4. cache' \in [day : Days, salt : Salts \cup {NoSalt}]
      BY <2>7, <3>1, <3>2 DEF Store
    <3> QED BY <2>1, <2>7, <3>3, <3>4 DEF Store, Finish, GoTo, TypeOK
  <2> QED BY <1>1, <2>2, <2>3, <2>4, <2>5, <2>6, <2>7 DEF CurrentSalt
<1>2. ASSUME NEW c \in Tasks, Fail(c) PROVE TypeOK'
  BY <1>2 DEF Fail, Finish, GoTo, TypeOK
<1>3. CASE PruneTick BY <1>3 DEF PruneTick, GoTo, TypeOK, Tasks
<1>4. CASE PruneHourly
  <2>1. at[Pruner] \in Days BY DEF TypeOK, Tasks
  <2>2. salts' \in UNION {[E -> Salts] : E \in SUBSET Days}
    BY <1>4, <2>1, PruneShape DEF PruneHourly
  <2> QED BY <1>4, <2>2 DEF PruneHourly, Finish, GoTo, TypeOK
<1>5. CASE NextDay
  <2>1. today' \in Days BY <1>5, MaxDayNat DEF NextDay, TypeOK, Days
  <2> QED BY <1>5, <2>1 DEF NextDay, TypeOK
<1>6. CASE Stop BY <1>6 DEF Stop, Empty, TypeOK
<1>7. CASE Start
  <2>1. today \in Days BY DEF TypeOK
  <2>2. salts' \in UNION {[E -> Salts] : E \in SUBSET Days}
    BY <1>7, <2>1, PruneShape DEF Start
  <2> QED BY <1>7, <2>2 DEF Start, TypeOK
<1>8. CASE UNCHANGED vars BY <1>8 DEF vars, TypeOK
<1> QED BY <1>1, <1>2, <1>3, <1>4, <1>5, <1>6, <1>7, <1>8 DEF Next

-----------------------------------------------------------------------------
\* The conjuncts of SaltInv hold initially.
LEMMA SaltPartsInit == Init => TaskShape /\ CacheShape /\ UsedShape /\ DrawnShape /\ SaltsRotate
<1> SUFFICES ASSUME Init
             PROVE  TaskShape /\ CacheShape /\ UsedShape /\ DrawnShape /\ SaltsRotate
  OBVIOUS
<1> USE DEF Init
<1>1. Stored = {} BY DEF Stored
<1>2. TaskShape BY DEF TaskShape, Tasks
<1>3. CacheShape BY DEF CacheShape, Empty
<1>4. UsedShape BY DEF UsedShape
<1>5. DrawnShape BY <1>1 DEF DrawnShape
<1>6. SaltsRotate BY DEF SaltsRotate
<1> QED BY <1>2, <1>3, <1>4, <1>5, <1>6

\* The heart of the argument: a prune by a task of yesterday or today spares every
\* recent row, so the winners that handlers, cache and hashes rely on stay.
LEMMA PruneKeepsParts ==
    ASSUME SaltInv, NEW d \in Days, d <= today, Prune(d),
           UNCHANGED <<today, cache, drawn, used>>
    PROVE  /\ \A e \in Stored : e >= today - 1 => e \in Stored'
           /\ CacheShape' /\ UsedShape' /\ DrawnShape' /\ SaltsRotate'
<1> USE DEF SaltInv
<1>1. /\ Stored' = {e \in Stored : e >= d - 1}
      /\ \A e \in Stored' : e \in Stored /\ salts'[e] = salts[e]
  BY PruneShape
<1>2. Stored \subseteq Days /\ today \in Days BY SaltsShape DEF TypeOK
<1>3. \A e \in Stored : e >= today - 1 => e \in Stored'
  BY <1>1, <1>2, MaxDayNat DEF Days
<1>4. CacheShape' BY <1>1, <1>3 DEF CacheShape
<1>5. UsedShape'
  <2>1. ASSUME NEW e \in Days, e >= today - 1
        PROVE  \A s \in used[e] : e \in Stored' /\ s = salts'[e]
    BY <1>1, <1>3, <2>1 DEF UsedShape
  <2> QED BY <2>1 DEF UsedShape
<1>6. DrawnShape' BY <1>1 DEF DrawnShape
<1>7. SaltsRotate' BY DEF SaltsRotate
<1> QED BY <1>3, <1>4, <1>5, <1>6, <1>7

\* Hashing a recent day with its winner.
LEMMA HashKeepsParts ==
    ASSUME SaltInv, NEW d \in Stored, d >= today - 1, Hash(d, salts[d]),
           UNCHANGED <<today, salts, drawn>>
    PROVE  UsedShape' /\ DrawnShape' /\ SaltsRotate'
<1> USE DEF SaltInv
<1>1. Stored' = Stored /\ d \in Days BY SaltsShape DEF Stored
<1>2. /\ used'[d] = used[d] \cup {salts[d]}
      /\ \A e \in Days : e # d => used'[e] = used[e]
  BY <1>1 DEF Hash, TypeOK
<1>3. \A s \in used[d] : s = salts[d]
  BY <1>1 DEF UsedShape
<1>4. UsedShape'
  <2>1. ASSUME NEW e \in Days, e >= today - 1
        PROVE  \A s \in used'[e] : e \in Stored /\ s = salts[e]
    <3>1. CASE e = d BY <1>2, <1>3, <3>1
    <3>2. CASE e # d BY <1>2, <2>1, <3>2 DEF UsedShape
    <3> QED BY <3>1, <3>2
  <2>2. ASSUME NEW e \in Days PROVE \A s, t \in used'[e] : s = t
    <3>1. CASE e = d BY <1>2, <1>3, <3>1
    <3>2. CASE e # d BY <1>2, <3>2 DEF UsedShape
    <3> QED BY <3>1, <3>2
  <2> QED BY <1>1, <2>1, <2>2 DEF UsedShape
<1>5. DrawnShape' BY <1>1, <1>2 DEF DrawnShape
<1>6. SaltsRotate' BY <1>1, <1>2 DEF SaltsRotate, DrawnShape
<1> QED BY <1>4, <1>5, <1>6

\* What a step leaves alone of the table, the cache and the hashes.
LEMMA QuietKeepsParts ==
    ASSUME SaltInv, UNCHANGED <<salts, cache, drawn, used>>, today' >= today, today' \in Days
    PROVE  CacheShape' /\ UsedShape' /\ DrawnShape' /\ SaltsRotate'
<1> USE DEF SaltInv
<1>1. Stored' = Stored BY DEF Stored
<1>2. ASSUME NEW d \in Days, d >= today' - 1 PROVE d >= today - 1
  <2>1. today \in Int /\ today' \in Int /\ d \in Int BY MaxDayNat DEF TypeOK, Days
  <2>2. \A x, y, z \in Int : x >= y - 1 /\ y >= z => x >= z - 1 OBVIOUS
  <2>3. today' >= today OBVIOUS
  <2> QED BY <1>2, <2>1, <2>2, <2>3, Zenon
<1>3. cache.day \in Days BY DEF TypeOK
<1>4. CacheShape' BY <1>1, <1>2, <1>3 DEF CacheShape
<1>5. UsedShape' BY <1>1, <1>2 DEF UsedShape
<1>6. DrawnShape' BY <1>1 DEF DrawnShape
<1>7. SaltsRotate' BY DEF SaltsRotate
<1> QED BY <1>4, <1>5, <1>6, <1>7

\* Every step of a handler, of the hourly task, of the clock and of the process keeps
\* the conjuncts of SaltInv; one lemma of cases, an action each.
LEMMA SaltPartsStep ==
    ASSUME SaltInv, [Next]_vars
    PROVE  TaskShape' /\ CacheShape' /\ UsedShape' /\ DrawnShape' /\ SaltsRotate'
<1> USE DEF SaltInv
<1>0. /\ today \in Days /\ today \in Int /\ Pruner \in Tasks /\ Collectors \subseteq Tasks
      /\ \A c \in Tasks : at[c] \in Days /\ at[c] \in Int
      /\ \A c \in Collectors : c # Pruner
  BY MaxDayNat, PrunerIsNoCollector DEF TypeOK, Days, Tasks
<1>1. ASSUME NEW c \in Collectors, HashFromCache(c)
      PROVE  TaskShape' /\ CacheShape' /\ UsedShape' /\ DrawnShape' /\ SaltsRotate'
  <2>1. today \in Stored /\ cache.salt = salts[today] /\ today >= today - 1
    BY <1>0, <1>1 DEF HashFromCache, Hit, CacheShape
  <2>2. UsedShape' /\ DrawnShape' /\ SaltsRotate'
    BY <1>1, <2>1, HashKeepsParts DEF HashFromCache
  <2>3. TaskShape' BY <1>1 DEF HashFromCache, TaskShape, Stored
  <2>4. CacheShape' BY <1>1 DEF HashFromCache, CacheShape, Stored
  <2> QED BY <2>2, <2>3, <2>4
<1>2. ASSUME NEW c \in Collectors, Begin(c)
      PROVE  TaskShape' /\ CacheShape' /\ UsedShape' /\ DrawnShape' /\ SaltsRotate'
  <2>1. TaskShape' BY <1>0, <1>2 DEF Begin, GoTo, TaskShape, Stored, TypeOK
  <2> QED BY <1>0, <1>2, <2>1, QuietKeepsParts DEF Begin
<1>3. ASSUME NEW c \in Collectors, Insert(c)
      PROVE  TaskShape' /\ CacheShape' /\ UsedShape' /\ DrawnShape' /\ SaltsRotate'
  <2>1. CASE UNCHANGED <<salts, drawn>>
    <3>1. TaskShape' BY <1>0, <1>3, <2>1 DEF Insert, GoTo, TaskShape, Stored, TypeOK
    <3> QED BY <1>0, <1>3, <2>1, <3>1, QuietKeepsParts DEF Insert
  <2>2. ASSUME NEW s \in Salts \ drawn, at[c] \notin Stored,
               salts' = [d \in Stored \cup {at[c]} |-> IF d = at[c] THEN s ELSE salts[d]],
               drawn' = drawn \cup {s}
        PROVE  TaskShape' /\ CacheShape' /\ UsedShape' /\ DrawnShape' /\ SaltsRotate'
    <3>1. /\ Stored' = Stored \cup {at[c]} /\ salts'[at[c]] = s
          /\ \A e \in Stored : salts'[e] = salts[e]
      BY <1>0, <2>2, InsertShape
    <3>2. UNCHANGED <<today, up, cache, at, got, used>> BY <1>3 DEF Insert
    <3>3. used[at[c]] = {}
      <4>1. at[c] >= today - 1 BY <1>0, <1>3 DEF Insert, TaskShape
      <4> QED BY <1>0, <2>2, <4>1 DEF UsedShape
    <3>4. TaskShape' BY <1>0, <1>3, <3>1, <3>2 DEF Insert, GoTo, TaskShape, TypeOK
    <3>5. CacheShape' BY <3>1, <3>2 DEF CacheShape
    <3>6. UsedShape' BY <3>1, <3>2 DEF UsedShape
    <3>7. DrawnShape' BY <2>2, <3>1, <3>2, <3>3 DEF DrawnShape
    <3>8. SaltsRotate' BY <3>2 DEF SaltsRotate
    <3> QED BY <3>4, <3>5, <3>6, <3>7, <3>8
  <2> QED BY <1>3, <2>1, <2>2 DEF Insert
<1>4. ASSUME NEW c \in Collectors, Select(c)
      PROVE  TaskShape' /\ CacheShape' /\ UsedShape' /\ DrawnShape' /\ SaltsRotate'
  <2>1. TaskShape' BY <1>0, <1>4 DEF Select, GoTo, TaskShape, Stored, TypeOK
  <2> QED BY <1>0, <1>4, <2>1, QuietKeepsParts DEF Select
<1>5. ASSUME NEW c \in Collectors, PruneInline(c)
      PROVE  TaskShape' /\ CacheShape' /\ UsedShape' /\ DrawnShape' /\ SaltsRotate'
  <2>1. at[c] <= today BY <1>0, <1>5 DEF PruneInline, TaskShape
  <2>2. /\ \A e \in Stored : e >= today - 1 => e \in Stored'
        /\ CacheShape' /\ UsedShape' /\ DrawnShape' /\ SaltsRotate'
    BY <1>0, <1>5, <2>1, PruneKeepsParts DEF PruneInline
  <2>3. \A e \in Stored' : e \in Stored /\ salts'[e] = salts[e]
    BY <1>0, <1>5, PruneShape DEF PruneInline
  <2>4. TaskShape'
    <3>1. \A x \in Collectors : pc[x] \in {"prune", "store"} => at[x] \in Stored'
      BY <1>0, <2>2 DEF TaskShape
    <3> QED BY <1>0, <1>5, <2>3, <3>1 DEF PruneInline, GoTo, TaskShape, TypeOK
  <2> QED BY <2>2, <2>4
<1>6. ASSUME NEW c \in Collectors, Store(c)
      PROVE  TaskShape' /\ CacheShape' /\ UsedShape' /\ DrawnShape' /\ SaltsRotate'
  <2>1. at[c] \in Stored /\ got[c] = salts[at[c]] /\ at[c] >= today - 1
    BY <1>0, <1>6 DEF Store, TaskShape
  <2>2. UsedShape' /\ DrawnShape' /\ SaltsRotate'
    BY <1>6, <2>1, HashKeepsParts DEF Store
  <2>3. TaskShape' BY <1>0, <1>6 DEF Store, Finish, GoTo, TaskShape, Stored, TypeOK
  <2>4. CacheShape' BY <1>6, <2>1 DEF Store, CacheShape, Stored
  <2> QED BY <2>2, <2>3, <2>4
<1>7. ASSUME NEW c \in Tasks, Fail(c)
      PROVE  TaskShape' /\ CacheShape' /\ UsedShape' /\ DrawnShape' /\ SaltsRotate'
  <2>1. TaskShape' BY <1>0, <1>7 DEF Fail, Finish, GoTo, TaskShape, Stored, TypeOK
  <2> QED BY <1>0, <1>7, <2>1, QuietKeepsParts DEF Fail
<1>8. CASE PruneTick
  <2>1. TaskShape' BY <1>0, <1>8 DEF PruneTick, GoTo, TaskShape, Stored, TypeOK
  <2> QED BY <1>0, <1>8, <2>1, QuietKeepsParts DEF PruneTick
<1>9. CASE PruneHourly
  <2>1. at[Pruner] <= today BY <1>9 DEF PruneHourly, TaskShape
  <2>2. /\ \A e \in Stored : e >= today - 1 => e \in Stored'
        /\ CacheShape' /\ UsedShape' /\ DrawnShape' /\ SaltsRotate'
    BY <1>0, <1>9, <2>1, PruneKeepsParts DEF PruneHourly
  <2>3. \A e \in Stored' : e \in Stored /\ salts'[e] = salts[e]
    BY <1>0, <1>9, PruneShape DEF PruneHourly
  <2>4. TaskShape'
    <3>1. \A x \in Collectors : pc[x] \in {"prune", "store"} => at[x] \in Stored'
      BY <1>0, <2>2 DEF TaskShape
    <3> QED BY <1>0, <1>9, <2>3, <3>1 DEF PruneHourly, Finish, GoTo, TaskShape, TypeOK
  <2> QED BY <2>2, <2>4
<1>10. CASE NextDay
  <2>1. today' = today + 1 /\ today' \in Days /\ today' >= today
    BY <1>0, <1>10, MaxDayNat DEF NextDay, Days
  <2>2. TaskShape' BY <1>0, <1>10, <2>1 DEF NextDay, TaskShape, Stored
  <2> QED BY <1>10, <2>1, <2>2, QuietKeepsParts DEF NextDay
<1>11. CASE Stop
  <2>1. TaskShape' BY <1>0, <1>11 DEF Stop, TaskShape, Stored
  <2>2. CacheShape' BY <1>11 DEF Stop, CacheShape, Empty
  <2>3. UsedShape' /\ DrawnShape' /\ SaltsRotate'
    BY <1>11 DEF Stop, UsedShape, DrawnShape, SaltsRotate, Stored
  <2> QED BY <2>1, <2>2, <2>3
<1>12. CASE Start
  <2>1. CacheShape' /\ UsedShape' /\ DrawnShape' /\ SaltsRotate'
    BY <1>0, <1>12, PruneKeepsParts DEF Start
  <2>2. TaskShape' BY <1>0, <1>12 DEF Start, TaskShape
  <2> QED BY <2>1, <2>2
<1>13. CASE UNCHANGED vars
  <2>1. TaskShape' BY <1>13 DEF vars, TaskShape, Stored
  <2> QED BY <1>0, <1>13, <2>1, QuietKeepsParts DEF vars
<1> QED BY <1>1, <1>2, <1>3, <1>4, <1>5, <1>6, <1>7, <1>8, <1>9, <1>10, <1>11,
           <1>12, <1>13 DEF Next, CurrentSalt

(* The invariant that carries the salt's guarantees is inductive.           *)
THEOREM SaltInductive == Spec => []SaltInv
<1>1. Init => SaltInv BY SaltTypeInit, SaltPartsInit DEF SaltInv
<1>2. ASSUME SaltInv, [Next]_vars PROVE SaltInv'
  BY <1>2, SaltTypeStep, SaltPartsStep DEF SaltInv
<1> QED BY <1>1, <1>2, PTL DEF Spec

(* However handlers, prunes, midnights and restarts interleave, the         *)
(* visitors of a day are hashed with one salt.                              *)
THEOREM OneSaltTheorem == Spec => []OneSaltPerDay
<1>1. ASSUME SaltInv, NEW d \in Days PROVE Cardinality(used[d]) <= 1
  <2>1. CASE used[d] = {} BY <2>1, FS_EmptySet
  <2>2. CASE used[d] # {}
    <3>1. PICK s \in used[d] : TRUE BY <2>2
    <3>2. used[d] = {s} BY <1>1, <3>1 DEF SaltInv, UsedShape
    <3> QED BY <3>2, FS_Singleton
  <2> QED BY <2>1, <2>2
<1>2. SaltInv => OneSaltPerDay BY <1>1 DEF OneSaltPerDay
<1> QED BY <1>2, SaltInductive, PTL

(* No two days share a salt, so hashes cannot be linked across days.        *)
THEOREM RotationTheorem == Spec => []SaltsRotate
<1>1. SaltInv => SaltsRotate BY DEF SaltInv
<1> QED BY <1>1, SaltInductive, PTL

(* A cache hit returns what the table holds for today.                      *)
THEOREM CacheTheorem == Spec => []CacheAgreesWithTable
<1>1. ASSUME SaltInv, Hit PROVE today \in Stored /\ cache.salt = salts[today]
  BY <1>1, MaxDayNat DEF SaltInv, Hit, CacheShape, TypeOK, Days
<1>2. SaltInv => CacheAgreesWithTable BY <1>1 DEF CacheAgreesWithTable
<1> QED BY <1>2, SaltInductive, PTL

(* No prune, whenever its task began, deletes a salt of today or yesterday. *)
THEOREM RecentTheorem == Spec => RecentSaltsStay
<1>1. ASSUME SaltInv, Next, NEW e \in Stored, e >= today - 1
      PROVE  e \in DOMAIN salts'
  <2>1. ASSUME NEW d \in Days, d <= today, Prune(d) PROVE e \in DOMAIN salts'
    <3>1. Stored' = {x \in Stored : x >= d - 1} BY <1>1, <2>1, PruneShape DEF SaltInv
    <3>2. e \in Int /\ d \in Int /\ today \in Int
      BY <1>1, SaltsShape, MaxDayNat DEF SaltInv, TypeOK, Days
    <3>3. e >= d - 1 BY <1>1, <2>1, <3>2
    <3> QED BY <3>1, <3>3 DEF Stored
  <2>2. /\ today \in Days /\ \A c \in Tasks : at[c] \in Days
        /\ Collectors \subseteq Tasks /\ Pruner \in Tasks
    BY <1>1 DEF SaltInv, TypeOK, Tasks
  <2>3. ASSUME NEW c \in Collectors, CurrentSalt(c) PROVE e \in DOMAIN salts'
    <3>1. CASE PruneInline(c)
      <4>1. at[c] <= today
        <5>1. at[c] \in {today - 1, today} BY <1>1, <3>1 DEF PruneInline, SaltInv, TaskShape
        <5>2. today \in Int BY <2>2, MaxDayNat DEF Days
        <5> QED BY <5>1, <5>2
      <4> QED BY <2>1, <2>2, <3>1, <4>1 DEF PruneInline
    <3>2. CASE Insert(c) BY <3>2 DEF Insert, Stored
    <3>3. CASE HashFromCache(c) \/ Begin(c) \/ Select(c) \/ Store(c)
      BY <3>3 DEF HashFromCache, Begin, Select, Store, Stored
    <3> QED BY <2>3, <3>1, <3>2, <3>3 DEF CurrentSalt
  <2>4. CASE PruneHourly
    <3>1. at[Pruner] <= today BY <1>1, <2>4 DEF PruneHourly, SaltInv, TaskShape
    <3> QED BY <2>1, <2>2, <2>4, <3>1 DEF PruneHourly
  <2>5. CASE Start
    <3>1. today <= today BY <2>2, MaxDayNat DEF Days
    <3> QED BY <2>1, <2>2, <2>5, <3>1 DEF Start
  <2>6. CASE (\E c \in Tasks : Fail(c)) \/ PruneTick \/ NextDay \/ Stop
    BY <2>6 DEF Fail, PruneTick, NextDay, Stop, Stored
  <2> QED BY <1>1, <2>3, <2>4, <2>5, <2>6 DEF Next
<1>2. SaltInv /\ [Next]_vars => [\A d \in Stored : d >= today - 1 => d \in DOMAIN salts']_vars
  BY <1>1
<1> QED BY <1>2, SaltInductive, PTL DEF Spec, RecentSaltsStay

-----------------------------------------------------------------------------
(* Refinement of SaltContract: four statements and a cache, with midnights,  *)
(* prunes and failures between them, are one read of the table at the moment *)
(* of hashing.                                                               *)

Contract == INSTANCE SaltContract

\* Hashing a recent day with its winner is the contract's Visit.
LEMMA HashIsVisit ==
    ASSUME SaltInv, NEW d \in Stored, d \in {today - 1, today}, Hash(d, salts[d]),
           UNCHANGED <<today, salts>>
    PROVE  Contract!Next
<1>1. d \in Days BY SaltsShape DEF SaltInv
<1>2. Contract!Visit(d) BY DEF Contract!Visit, Contract!Recent, Hash, Stored
<1> QED BY <1>1, <1>2 DEF Contract!Next

\* A prune, whoever began it and on whichever day, forgets old salts only.
LEMMA PruneIsForget ==
    ASSUME SaltInv, NEW d \in Days, d <= today, Prune(d), UNCHANGED <<today, used>>
    PROVE  Contract!Next
<1> DEFINE D == {e \in DOMAIN salts : e < d - 1}
<1>1. \A e \in Stored : e \in Int BY SaltsShape, MaxDayNat DEF SaltInv, Days
<1>2. d \in Int /\ today \in Int BY MaxDayNat DEF SaltInv, TypeOK, Days
<1>3. D \in SUBSET {e \in DOMAIN salts : e < today - 1} BY <1>1, <1>2 DEF Stored
<1>4. Kept(d) = DOMAIN salts \ D BY <1>1, <1>2 DEF Kept, Stored
<1>5. salts' = [e \in DOMAIN salts \ D |-> salts[e]] BY <1>4 DEF Prune
<1>6. Contract!Forget BY <1>3, <1>5 DEF Contract!Forget
<1> QED BY <1>6 DEF Contract!Next

\* The winning INSERT gives a day its salt before anybody was hashed with another.
LEMMA InsertIsDraw ==
    ASSUME SaltInv, NEW c \in Collectors, Insert(c)
    PROVE  Contract!Next \/ UNCHANGED Contract!vars
<1> USE DEF SaltInv
<1>0. /\ at[c] \in Days /\ at[c] \in {today - 1, today} /\ at[c] >= today - 1
      /\ UNCHANGED <<today, used>>
  BY MaxDayNat DEF Insert, TaskShape, TypeOK, Tasks, Days
<1>1. CASE UNCHANGED salts BY <1>0, <1>1 DEF Contract!vars
<1>2. ASSUME NEW s \in Salts \ drawn, at[c] \notin Stored,
             salts' = [d \in Stored \cup {at[c]} |-> IF d = at[c] THEN s ELSE salts[d]]
      PROVE  Contract!Next
  <2>1. used[at[c]] = {} BY <1>0, <1>2 DEF UsedShape
  <2>2. s \notin Contract!Known BY <1>2 DEF DrawnShape, Contract!Known, Stored
  <2>3. Contract!Draw(at[c])
    BY <1>0, <1>2, <2>1, <2>2 DEF Contract!Draw, Contract!Recent, Stored
  <2> QED BY <1>0, <2>3 DEF Contract!Next
<1> QED BY <1>1, <1>2 DEF Insert

\* A step of the implementation is a step of the contract, or none.
LEMMA SaltContractStep ==
    ASSUME SaltInv, Next PROVE Contract!Next \/ UNCHANGED Contract!vars
<1> USE DEF SaltInv
<1>0. /\ today \in Days /\ today \in Int /\ Pruner \in Tasks /\ Collectors \subseteq Tasks
      /\ \A c \in Tasks : at[c] \in Days /\ at[c] \in Int
  BY MaxDayNat DEF TypeOK, Days, Tasks
<1>1. ASSUME NEW c \in Collectors, CurrentSalt(c)
      PROVE  Contract!Next \/ UNCHANGED Contract!vars
  <2>1. CASE HashFromCache(c)
    <3>1. today \in Stored /\ cache.salt = salts[today]
      BY <1>0, <2>1 DEF HashFromCache, Hit, CacheShape
    <3> QED BY <2>1, <3>1, HashIsVisit DEF HashFromCache
  <2>2. CASE Store(c)
    <3>1. at[c] \in Stored /\ got[c] = salts[at[c]] /\ at[c] \in {today - 1, today}
      BY <2>2 DEF Store, TaskShape
    <3> QED BY <2>2, <3>1, HashIsVisit DEF Store
  <2>3. CASE PruneInline(c)
    <3>1. at[c] <= today BY <1>0, <2>3 DEF PruneInline, TaskShape
    <3> QED BY <1>0, <2>3, <3>1, PruneIsForget DEF PruneInline
  <2>4. CASE Begin(c) \/ Select(c) BY <2>4 DEF Begin, Select, Contract!vars
  <2> QED BY <1>1, <2>1, <2>2, <2>3, <2>4, InsertIsDraw DEF CurrentSalt
<1>2. CASE PruneHourly
  <2>1. at[Pruner] <= today BY <1>2 DEF PruneHourly, TaskShape
  <2> QED BY <1>0, <1>2, <2>1, PruneIsForget DEF PruneHourly
<1>3. CASE Start
  <2>1. today <= today BY <1>0
  <2> QED BY <1>0, <1>3, <2>1, PruneIsForget DEF Start
<1>4. CASE NextDay
  <2>1. Contract!NextDay BY <1>4 DEF NextDay, Contract!NextDay
  <2> QED BY <2>1 DEF Contract!Next
<1>5. CASE (\E c \in Tasks : Fail(c)) \/ PruneTick \/ Stop
  BY <1>5 DEF Fail, PruneTick, Stop, Contract!vars
<1> QED BY <1>1, <1>2, <1>3, <1>4, <1>5 DEF Next

(* To its callers current_salt is atomic: every visitor is hashed with the   *)
(* salt that the table holds at that moment for the visitor's day.           *)
THEOREM SaltRefinement == Spec => Contract!Spec
<1>1. Init => Contract!Init
  <2>1. ASSUME Init PROVE salts = [d \in {} |-> d] BY <2>1 DEF Init
  <2> QED BY <2>1 DEF Init, Contract!Init
<1>2. ASSUME SaltInv, [Next]_vars PROVE [Contract!Next]_(Contract!vars)
  <2>1. CASE Next BY <1>2, <2>1, SaltContractStep
  <2>2. CASE UNCHANGED vars BY <2>2 DEF vars, Contract!vars
  <2> QED BY <1>2, <2>1, <2>2
<1> QED BY <1>1, <1>2, SaltInductive, PTL DEF Spec, Contract!Spec

-----------------------------------------------------------------------------
(* Liveness.  The provers cannot look into ENABLED, so what the theorem       *)
(* takes from outside is that the two fair steps are possible when their     *)
(* guards hold; everything else about fairness is proved.                    *)

Old(d)  == d \in Stored /\ d < today - 1
Gone(d) == d \notin Stored \/ ~up

Waiting == pc[Pruner] = "idle"
Pruning == pc[Pruner] = "prune"

\* The hourly task runs with a day that makes d old.
Sees(d) == Pruning /\ d < at[Pruner] - 1

\* An old salt stays old while it stays, and from a prune that sees it the hourly task
\* comes to none that does not.
LEMMA OldSaltSteps ==
    ASSUME SaltInv, NEW d \in Days, Old(d), ~Gone(d), [Next]_vars
    PROVE  /\ Old(d)' \/ Gone(d)'
           /\ Waiting \/ Pruning
           /\ (Waiting \/ Sees(d))' \/ (Pruning /\ ~Sees(d))
           /\ PruneTick => Pruning'
           /\ PruneHourly => Pruning /\ Waiting' /\ (Sees(d) => Gone(d)')
<1> USE DEF SaltInv
<1>0. /\ d \in Int /\ today \in Int /\ Pruner \in Tasks /\ at[Pruner] \in Int /\ up
      /\ Collectors \subseteq Tasks /\ \A c \in Collectors : c # Pruner
      /\ \A c \in Tasks : at[c] \in Days
  BY MaxDayNat, PrunerIsNoCollector DEF TypeOK, Days, Tasks, Gone
<1>1. Old(d)' \/ Gone(d)'
  <2>1. today' = today \/ today' = today + 1
    BY DEF Next, CurrentSalt, HashFromCache, Begin, Insert, Select, PruneInline, Store, Fail,
           PruneTick, PruneHourly, NextDay, Stop, Start, vars
  <2>2. d < today - 1 => d < today' - 1 BY <1>0, <2>1
  <2> QED BY <2>2 DEF Old, Gone
<1>2. Waiting \/ Pruning BY DEF Waiting, Pruning, TaskShape
<1>3. ASSUME Waiting \/ Sees(d) PROVE (Waiting \/ Sees(d))'
  <2>1. CASE PruneTick BY <1>0, <2>1 DEF PruneTick, Old, Waiting, Pruning, Sees, GoTo, TypeOK
  <2>2. CASE PruneHourly BY <1>0, <2>2 DEF PruneHourly, Finish, GoTo, Waiting, TypeOK
  <2>3. ASSUME NEW c \in Tasks, Fail(c) PROVE (Waiting \/ Sees(d))'
    BY <1>0, <1>3, <2>3 DEF Fail, Finish, GoTo, Waiting, Pruning, Sees, TypeOK
  <2>4. ASSUME NEW c \in Collectors, CurrentSalt(c) PROVE (Waiting \/ Sees(d))'
    <3>1. pc'[Pruner] = pc[Pruner] /\ at'[Pruner] = at[Pruner]
      BY <1>0, <2>4 DEF CurrentSalt, HashFromCache, Begin, Insert, Select, PruneInline, Store,
                        Finish, GoTo, TypeOK
    <3> QED BY <1>3, <3>1 DEF Waiting, Pruning, Sees
  <2>5. CASE NextDay \/ Stop \/ Start \/ UNCHANGED vars
    BY <1>0, <1>3, <2>5 DEF NextDay, Stop, Start, vars, Waiting, Pruning, Sees
  <2> QED BY <2>1, <2>2, <2>3, <2>4, <2>5 DEF Next
<1>4. PruneTick => Pruning' BY <1>0 DEF PruneTick, GoTo, Pruning, TypeOK
<1>5. ASSUME PruneHourly PROVE Pruning /\ Waiting' /\ (Sees(d) => Gone(d)')
  <2>1. Pruning /\ Waiting' BY <1>0, <1>5 DEF PruneHourly, Finish, GoTo, Pruning, Waiting, TypeOK
  <2>2. Stored' = {e \in Stored : e >= at[Pruner] - 1} BY <1>0, <1>5, PruneShape DEF PruneHourly
  <2>3. ASSUME Sees(d) PROVE d \notin Stored' BY <1>0, <2>2, <2>3 DEF Sees
  <2> QED BY <2>1, <2>3 DEF Gone
<1> QED BY <1>1, <1>2, <1>3, <1>4, <1>5 DEF Pruning, Waiting, TaskShape

(* A salt that is too old leaves the table of a running server, visited or   *)
(* not, although single prunes fail or began before it was old.              *)
THEOREM OldSaltsTheorem == FairSpec /\ []Ready => OldSaltsLeave
<1>1. ASSUME NEW d \in Days
      PROVE  FairSpec /\ []Ready => (Old(d) ~> Gone(d))
  <2> DEFINE O == Old(d)
             G == Gone(d)
             S == Sees(d)
  <2>1. SaltInv /\ O /\ ~G /\ [Next]_vars
          => /\ O' \/ G'
             /\ Waiting \/ Pruning
             /\ (Waiting \/ S)' \/ (Pruning /\ ~S)
    BY OldSaltSteps
  <2>2. SaltInv /\ O /\ ~G /\ [Next]_vars /\ <<PruneTick>>_vars => Pruning'
    BY OldSaltSteps
  <2>3. SaltInv /\ O /\ ~G /\ [Next]_vars /\ <<PruneHourly>>_vars
          => Pruning /\ Waiting' /\ (S => G')
    BY OldSaltSteps
  <2>4. O /\ ~G /\ Waiting /\ Ready => ENABLED <<PruneTick>>_vars
    BY DEF Old, Gone, Waiting, Ready
  <2>5. Pruning /\ Ready => ENABLED <<PruneHourly>>_vars BY DEF Pruning, Ready
  <2>6. S => Pruning BY DEF Sees
  <2>7. ~(Waiting /\ Pruning) BY DEF Waiting, Pruning
  <2> HIDE DEF O, G, S
  <2>8. FairSpec /\ []Ready => (O ~> G)
    BY <2>1, <2>2, <2>3, <2>4, <2>5, <2>6, <2>7, SaltInductive, PTL DEF FairSpec, Spec
  <2> QED BY <2>8 DEF O, G
<1>2. FairSpec /\ []Ready => \A d \in Days : (Old(d) ~> Gone(d)) BY <1>1
<1> QED BY <1>2 DEF OldSaltsLeave, Old, Gone
=============================================================================
