---------------------------- MODULE IngestProofs ----------------------------
(* Proofs about Ingest, for every set of requests, capacity and batch size.  *)
EXTENDS Ingest, SequenceTheorems, FiniteSetTheorems, TLAPS

\* A refusal has a status of its own, and its counter is named after the body's kind.
LEMMA RefusalStatus ==
    ASSUME NEW b \in DOMAIN Refusal
    PROVE  /\ Refusal[b] \in Answer
           /\ Refusal[b] \in {"422", "400"}
           /\ b \in Counter
BY DEF Refusal, Answer, Counter

\* The initial state is well typed.
LEMMA TypeInit == Init => TypeOK
BY DEF Init, TypeOK, Up, Answer, Counter

\* Queue, batch and statement hold requests only.
LEMMA StatementInBatch ==
    ASSUME TypeOK
    PROVE  /\ ToSet(batch) \subseteq Requests
           /\ ToSet(queue) \subseteq Requests
           /\ cursor # 0 => cursor \in 1..Len(batch) /\ batch[cursor] \in Requests
           /\ batch # <<>> => Len(batch) > 0
           /\ Unsettled \subseteq Requests
<1>1. batch \in Seq(Requests) /\ queue \in Seq(Requests) /\ cursor \in 0..Len(batch)
  BY DEF TypeOK
<1>2. cursor # 0 => cursor \in 1..Len(batch) BY <1>1
<1>3. \A i \in 1..Len(batch) : batch[i] \in Requests BY <1>1, ElementOfSeq
<1>4. ToSet(batch) \subseteq Requests /\ ToSet(queue) \subseteq Requests BY <1>1 DEF ToSet
<1> QED BY <1>1, <1>2, <1>3, <1>4, EmptySeq DEF Unsettled

\* Going on with the retry loop keeps batch, cursor and statement well typed.
LEMMA NextSingleType ==
    ASSUME TypeOK, NextSingle
    PROVE  /\ batch' \in Seq(Requests)
           /\ cursor' \in 0..Len(batch')
           /\ stmt' \in {"sent", "idle"}
<1>1. CASE cursor < Len(batch) BY <1>1 DEF TypeOK, NextSingle
<1>2. CASE ~(cursor < Len(batch)) BY <1>2 DEF TypeOK, NextSingle
<1> QED BY <1>1, <1>2

\* A counter that goes up is still a number.
LEMMA BumpType ==
    ASSUME cnt \in [Counter -> Nat], NEW c \in Counter, Bump(c)
    PROVE  cnt' \in [Counter -> Nat]
BY DEF Bump

\* Every step keeps the state well typed.
LEMMA TypeStep == ASSUME TypeOK, [Next]_vars PROVE TypeOK'
<1> USE BodyKnown, BoundsPositive DEF TypeOK, Up, Answer, Counter, history
<1>1. ASSUME NEW r \in Requests, Handler(r) PROVE TypeOK'
  <2>1. CASE Reject(r) BY <2>1, RefusalStatus DEF Reject, Arrives, Reply, Bump
  <2>3. CASE Forbid(r) BY <2>3 DEF Forbid, Arrives, Reply
  <2>4. ASSUME TrySend(r) PROVE TypeOK'
    <3>1. req' \in [Requests -> {"new", "hashing"} \cup Answer]
      BY <2>4 DEF TrySend, Reply
    <3>2. queue' \in Seq(Requests)
      <4>1. queue' = Append(queue, r) \/ queue' = queue BY <2>4 DEF TrySend
      <4>2. queue \in Seq(Requests) OBVIOUS
      <4>3. Append(queue, r) \in Seq(Requests) BY <4>2, AppendProperties
      <4> QED BY <4>1, <4>2, <4>3
    <3>3. cnt' \in [Counter -> Nat]
      <4>1. cnt' = cnt \/ Bump("full") \/ Bump("closed") BY <2>4 DEF TrySend
      <4>2. cnt \in [Counter -> Nat] /\ "full" \in Counter /\ "closed" \in Counter OBVIOUS
      <4> HIDE DEF TypeOK, Counter
      <4> QED BY <4>1, <4>2, BumpType
    <3> QED BY <2>4, <3>1, <3>2, <3>3 DEF TrySend
  <2>5. CASE AwaitSalt(r) BY <2>5 DEF AwaitSalt, Arrives, Reply
  <2>6. CASE Abandon(r) BY <2>6 DEF Abandon, Reply
  <2> QED BY <1>1, <2>1, <2>3, <2>4, <2>5, <2>6 DEF Handler, CollectNow, CollectAfterSalt
<1>2. CASE RecvMany
  BY <1>2 DEF RecvMany, RecvCount
<1>3. CASE DbCommit BY <1>3 DEF DbCommit, AddRows
<1>4. CASE DbReject BY <1>4 DEF DbReject
<1>5. CASE DbUnreachable BY <1>5, StatementInBatch DEF DbUnreachable, Statement
<1>6. CASE ReplyLost BY <1>6, StatementInBatch DEF ReplyLost, Statement
<1>7. CASE InsertOk
  <2>1. CASE cursor = 0 BY <1>7, <2>1 DEF InsertOk
  <2>2. CASE cursor # 0 BY <1>7, <2>2, NextSingleType DEF InsertOk
  <2> QED BY <2>1, <2>2
<1>8. CASE InsertErr
  <2>1. givenUp' \subseteq Requests /\ cnt' \in [Counter -> Nat]
    BY <1>8, StatementInBatch DEF InsertErr, Bump, Statement
  <2> QED BY <1>8, <2>1, NextSingleType DEF InsertErr
<1>9. CASE WriterStops BY <1>9 DEF WriterStops
<1>10. CASE ShutdownSignal BY <1>10 DEF ShutdownSignal
<1>11. CASE ServeReturns BY <1>11 DEF ServeReturns
<1>12. CASE ExitProcess BY <1>12 DEF ExitProcess
<1>13. CASE Crash
  <2>2. crashLost' \subseteq Requests BY <1>13, StatementInBatch DEF Crash
  <2>1. rows' \in [Requests -> Nat] BY <1>13, StatementInBatch DEF Crash, AddRows
  <2> QED BY <1>13, <2>1, <2>2 DEF Crash
<1>14. CASE Restart BY <1>14 DEF Restart
<1>15. CASE UNCHANGED vars BY <1>15 DEF vars
<1> QED BY <1>1, <1>2, <1>3, <1>4, <1>5, <1>6, <1>7, <1>8, <1>9, <1>10, <1>11,
           <1>12, <1>13, <1>14, <1>15 DEF Next, Database, Writer, Process

(* The type invariant: every variable keeps its shape through every         *)
(* interleaving of handlers, writer, database, crash and restart.           *)
THEOREM TypeCorrect == Spec => []TypeOK
BY TypeInit, TypeStep, PTL DEF Spec

-----------------------------------------------------------------------------
(* The inductive invariant.  Its parts other than TypeOK: *)
Parts == /\ ControlShape /\ StatementOutcome /\ RowsSoFar /\ NothingVanishes
         /\ OnePlaceEach /\ PoisonCostsOnlyItself /\ DuplicateNeedsLostReply

\* The conjuncts of IndInv other than TypeOK hold initially.
LEMMA PartsInit == Init => Parts
<1> SUFFICES ASSUME Init PROVE Parts OBVIOUS
<1> USE DEF Init
<1>1. ToSet(queue) = {} /\ ToSet(batch) = {} /\ Unsettled = {} /\ Stored = {}
  BY DEF ToSet, Unsettled, Stored
<1>2. ControlShape BY DEF ControlShape
<1>3. StatementOutcome BY DEF StatementOutcome
<1>4. RowsSoFar BY <1>1 DEF RowsSoFar
<1>5. NothingVanishes BY DEF NothingVanishes, Acked
<1>6. OnePlaceEach BY <1>1 DEF OnePlaceEach, IsInjective
<1>7. PoisonCostsOnlyItself BY DEF PoisonCostsOnlyItself
<1>8. DuplicateNeedsLostReply BY DEF DuplicateNeedsLostReply
<1> QED BY <1>2, <1>3, <1>4, <1>5, <1>6, <1>7, <1>8 DEF Parts

\* An answer other than 202 to a request that has none yet moves nothing else.
LEMMA RefusalKeepsParts ==
    ASSUME TypeOK, Parts, NEW r \in Requests, NEW s \in Answer \cup {"hashing"},
           req[r] \in {"new", "hashing"}, s # "202",
           s = "hashing" => phase \in {"serving", "draining"},
           Reply(r, s),
           UNCHANGED <<phase, queue, writer, batch, cursor, stmt, rows, history>>
    PROVE  Parts'
<1>1. Acked' = Acked BY DEF Acked, Reply, TypeOK
<1>2. Unsettled' = Unsettled /\ Stored' = Stored /\ Statement' = Statement
  BY DEF Unsettled, Stored, Statement, history
<1>3. phase \notin {"serving", "draining"} => InFlight' \subseteq InFlight
  BY DEF InFlight, Reply, TypeOK
<1>4. ControlShape' BY <1>3 DEF Parts, ControlShape
<1>5. StatementOutcome' BY <1>2 DEF Parts, StatementOutcome, history
<1>6. RowsSoFar' BY DEF Parts, RowsSoFar, history
<1>7. NothingVanishes' BY <1>1, <1>2 DEF Parts, NothingVanishes, history
<1>8. OnePlaceEach' BY <1>1, <1>2 DEF Parts, OnePlaceEach, history
<1>9. PoisonCostsOnlyItself' BY DEF Parts, PoisonCostsOnlyItself, history
<1>10. DuplicateNeedsLostReply' BY DEF Parts, DuplicateNeedsLostReply, history
<1> QED BY <1>4, <1>5, <1>6, <1>7, <1>8, <1>9, <1>10 DEF Parts

\* Starting, stopping and stuttering leave the events where they are.
LEMMA ControlKeepsParts ==
    ASSUME Parts, ControlShape',
           UNCHANGED <<req, queue, batch, cursor, stmt, rows,
                       givenUp, unreachable, ambiguous, crashLost>>
    PROVE  Parts'
<1>1. Unsettled' = Unsettled /\ Stored' = Stored /\ Statement' = Statement /\ Acked' = Acked
  BY DEF Unsettled, Stored, Statement, Acked
<1>2. StatementOutcome' BY <1>1 DEF Parts, StatementOutcome
<1>3. RowsSoFar' BY DEF Parts, RowsSoFar
<1>4. NothingVanishes' BY <1>1 DEF Parts, NothingVanishes
<1>5. OnePlaceEach' BY <1>1 DEF Parts, OnePlaceEach
<1>6. PoisonCostsOnlyItself' BY DEF Parts, PoisonCostsOnlyItself
<1>7. DuplicateNeedsLostReply' BY DEF Parts, DuplicateNeedsLostReply
<1> QED BY <1>2, <1>3, <1>4, <1>5, <1>6, <1>7 DEF Parts

\* What it is to be a member of a sequence.
LEMMA ToSetMember == \A s : \A x : x \in ToSet(s) <=> \E i \in DOMAIN s : s[i] = x
BY DEF ToSet

\* Basic facts about a sequence of requests: members, length and positions.
LEMMA SeqShape ==
    ASSUME NEW s \in Seq(Requests)
    PROVE  /\ Len(s) \in Nat
           /\ DOMAIN s = 1..Len(s)
           /\ \A i \in 1..Len(s) : s[i] \in Requests
           /\ s = <<>> <=> Len(s) = 0
BY LenProperties, EmptySeq, ElementOfSeq

\* An event answered 202 is new to every place, and joins the queue.
LEMMA EnqueueKeepsParts ==
    ASSUME TypeOK, Parts, NEW r \in Requests,
           req[r] \in {"new", "hashing"}, writer = "running",
           queue' = Append(queue, r), Reply(r, "202"),
           UNCHANGED <<phase, writer, batch, cursor, stmt, rows, history>>
    PROVE  Parts'
<1>1. queue \in Seq(Requests) /\ batch \in Seq(Requests) /\ cursor \in 0..Len(batch)
  BY DEF TypeOK
<1>2. /\ Len(queue') = Len(queue) + 1
      /\ \A i \in 1..Len(queue) : queue'[i] = queue[i]
      /\ queue'[Len(queue) + 1] = r
      /\ queue' \in Seq(Requests)
  BY <1>1, AppendProperties
<1>3. DOMAIN queue = 1..Len(queue) /\ DOMAIN queue' = 1..(Len(queue) + 1) /\ Len(queue) \in Nat
  BY <1>1, <1>2, SeqShape
<1>4. ToSet(queue') = ToSet(queue) \cup {r}
  <2>1. \A i \in DOMAIN queue : i \in DOMAIN queue' /\ queue'[i] = queue[i] BY <1>2, <1>3
  <2>2. Len(queue) + 1 \in DOMAIN queue' BY <1>3
  <2>3. \A i \in DOMAIN queue' : i \in DOMAIN queue \/ i = Len(queue) + 1 BY <1>3
  <2>4. \A x : x \in ToSet(queue') <=> \E i \in DOMAIN queue' : queue'[i] = x
    BY ToSetMember
  <2>5. \A x : x \in ToSet(queue) <=> \E i \in DOMAIN queue : queue[i] = x
    BY ToSetMember
  <2> QED BY <1>2, <2>1, <2>2, <2>3, <2>4, <2>5
<1>5. Acked' = Acked \cup {r} /\ r \notin Acked
  BY DEF Acked, Reply, TypeOK
<1>6. /\ Unsettled' = Unsettled \cup {r} /\ Stored' = Stored /\ Statement' = Statement
      /\ ToSet(batch') = ToSet(batch)
  BY <1>4 DEF Unsettled, Stored, Statement, history
<1>7. /\ r \notin ToSet(queue) /\ r \notin ToSet(batch) /\ r \notin Stored
      /\ r \notin givenUp /\ r \notin crashLost
  BY <1>5 DEF Parts, OnePlaceEach
<1>8. rows[r] = 0 BY <1>7 DEF Stored, TypeOK
<1>9. InFlight' \subseteq InFlight BY DEF InFlight, Reply, TypeOK
<1>10. ControlShape' BY <1>9 DEF Parts, ControlShape
<1>11. StatementOutcome' BY <1>6 DEF Parts, StatementOutcome, history
<1>12. RowsSoFar' BY <1>4, <1>8 DEF Parts, RowsSoFar, history
<1>13. NothingVanishes' BY <1>5, <1>6 DEF Parts, NothingVanishes, history
<1>14. OnePlaceEach'
  <2>1. IsInjective(queue')
    <3>1. \A i \in 1..Len(queue) : queue[i] # r BY <1>3, <1>7, ToSetMember
    <3> QED BY <1>2, <1>3, <3>1 DEF Parts, OnePlaceEach, IsInjective
  <2> QED BY <2>1, <1>4, <1>5, <1>6, <1>7 DEF Parts, OnePlaceEach, history
<1>15. PoisonCostsOnlyItself' BY DEF Parts, PoisonCostsOnlyItself, history
<1>16. DuplicateNeedsLostReply' BY DEF Parts, DuplicateNeedsLostReply, history
<1> QED BY <1>10, <1>11, <1>12, <1>13, <1>14, <1>15, <1>16 DEF Parts

\* recv_many moves a prefix of the queue into the batch.
LEMMA RecvKeepsParts == ASSUME TypeOK, Parts, RecvMany PROVE Parts'
<1> DEFINE n == RecvCount
<1>1. queue \in Seq(Requests) /\ Len(queue) \in Nat /\ DOMAIN queue = 1..Len(queue)
  BY SeqShape DEF TypeOK
<1>2. Len(queue) > 0 BY <1>1, SeqShape DEF RecvMany
<1>3. n \in 1..Len(queue) BY <1>1, <1>2, BoundsPositive DEF RecvCount
<1>4. /\ batch' \in Seq(Requests) /\ Len(batch') = n
      /\ \A i \in 1..n : batch'[i] = queue[i]
  <2>1. \A i \in 1..n : queue[i] \in Requests BY <1>1, <1>3, ElementOfSeq
  <2>2. batch' = SubSeq(queue, 1, n) BY DEF RecvMany
  <2> HIDE DEF n
  <2> QED BY <1>1, <1>3, <2>1, <2>2, SubSeqProperties
<1>5. /\ queue' \in Seq(Requests) /\ Len(queue') = Len(queue) - n
      /\ \A i \in 1..(Len(queue) - n) : queue'[i] = queue[n + i]
  <2>1. \A i \in n+1..Len(queue) : queue[i] \in Requests BY <1>1, <1>3, ElementOfSeq
  <2>2. queue' = SubSeq(queue, n + 1, Len(queue)) BY DEF RecvMany
  <2> HIDE DEF n
  <2>3. /\ queue' \in Seq(Requests)
        /\ Len(queue') = IF n+1 <= Len(queue) THEN Len(queue) - (n+1) + 1 ELSE 0
        /\ \A i \in 1..(Len(queue) - (n+1) + 1) : queue'[i] = queue[n+1+i-1]
    <3>1. n + 1 \in Int /\ Len(queue) \in Int BY <1>1, <1>3
    <3> QED BY <2>1, <2>2, <3>1, SubSeqProperties
  <2>4. Len(queue) - (n+1) + 1 = Len(queue) - n BY <1>1, <1>3
  <2>5. Len(queue') = Len(queue) - n
    <3>1. CASE n + 1 <= Len(queue) BY <2>3, <2>4, <3>1
    <3>2. CASE ~(n + 1 <= Len(queue))
      <4>1. Len(queue) - n = 0
        <5>1. n \in Int /\ Len(queue) \in Int /\ n <= Len(queue) /\ ~(n + 1 <= Len(queue)) BY <1>1, <1>3, <3>2
        <5> QED BY <5>1
      <4> QED BY <2>3, <3>2, <4>1
    <3> QED BY <3>1, <3>2
  <2>6. ASSUME NEW i \in 1..(Len(queue) - n) PROVE queue'[i] = queue[n + i]
    <3>1. n+1+i-1 = n + i BY <1>1, <1>3
    <3> QED BY <2>3, <2>4, <3>1
  <2> QED BY <2>3, <2>5, <2>6
<1>6. /\ DOMAIN batch' = 1..n /\ DOMAIN queue' = 1..(Len(queue) - n) /\ batch' # <<>>
  BY <1>1, <1>3, <1>4, <1>5, SeqShape
<1> HIDE DEF n
<1>7. ToSet(queue) = ToSet(queue') \cup ToSet(batch')
  <2>1. ASSUME NEW x \in ToSet(queue) PROVE x \in ToSet(queue') \cup ToSet(batch')
    <3>1. PICK i \in 1..Len(queue) : queue[i] = x BY <1>1, <2>1, ToSetMember
    <3>2. CASE i <= n BY <1>3, <1>4, <1>6, <3>1, <3>2, ToSetMember
    <3>3. CASE i > n
      <4>1. i - n \in 1..(Len(queue) - n) /\ n + (i - n) = i BY <1>1, <1>3, <3>1, <3>3
      <4>2. queue'[i - n] = x BY <1>5, <3>1, <4>1
      <4> QED BY <1>6, <4>1, <4>2, ToSetMember
    <3> QED BY <1>3, <3>1, <3>2, <3>3
  <2>2. ASSUME NEW x \in ToSet(batch') PROVE x \in ToSet(queue)
    <3>1. PICK i \in 1..n : batch'[i] = x BY <1>6, <2>2, ToSetMember
    <3> QED BY <1>1, <1>3, <1>4, <3>1, ToSetMember
  <2>3. ASSUME NEW x \in ToSet(queue') PROVE x \in ToSet(queue)
    <3>1. PICK i \in 1..(Len(queue) - n) : queue'[i] = x BY <1>6, <2>3, ToSetMember
    <3>2. n + i \in 1..Len(queue) BY <1>1, <1>3, <3>1
    <3> QED BY <1>1, <1>5, <3>1, <3>2, ToSetMember
  <2> QED BY <2>1, <2>2, <2>3
<1>8. batch = <<>> /\ Len(batch) = 0 /\ ToSet(batch) = {}
  <2>1. batch = <<>> BY DEF RecvMany, Parts, ControlShape
  <2> QED BY <2>1, ToSetMember
<1>9. cursor' = 0 /\ stmt' = "sent" /\ UNCHANGED <<req, rows, history>> BY DEF RecvMany
<1>10. {batch'[i] : i \in {j \in 1..Len(batch') : j >= cursor'}} = ToSet(batch')
  BY <1>3, <1>4, <1>6, <1>9 DEF ToSet
<1>11. Unsettled = ToSet(queue) /\ Unsettled' = Unsettled
  BY <1>7, <1>8, <1>10 DEF Unsettled
<1>12. Stored' = Stored /\ Acked' = Acked BY <1>9 DEF Stored, Acked
<1>13. ControlShape'
  BY <1>6, <1>9 DEF Parts, ControlShape, RecvMany, InFlight
<1>14. StatementOutcome' BY <1>9 DEF StatementOutcome
<1>15. RowsSoFar'
  <2>1. \A x \in ToSet(queue) : rows'[x] = 0 BY <1>9 DEF Parts, RowsSoFar
  <2>2. \A i \in 1..Len(batch') : rows'[batch'[i]] = 0
    BY <2>1, <1>4, <1>6, <1>7, ToSetMember
  <2> QED BY <1>3, <1>4, <1>7, <1>9, <2>1, <2>2 DEF RowsSoFar
<1>16. NothingVanishes' BY <1>9, <1>11, <1>12 DEF Parts, NothingVanishes, history
<1>17. OnePlaceEach'
  <2>1. \A i, j \in 1..Len(queue) : queue[i] = queue[j] => i = j
    BY <1>1 DEF Parts, OnePlaceEach, IsInjective
  <2>2. IsInjective(batch') BY <1>1, <1>3, <1>4, <1>6, <2>1 DEF IsInjective
  <2>3. IsInjective(queue')
    <3>1. ASSUME NEW i \in DOMAIN queue', NEW j \in DOMAIN queue', queue'[i] = queue'[j]
          PROVE i = j
      <4>1. n + i \in 1..Len(queue) /\ n + j \in 1..Len(queue) BY <1>1, <1>3, <1>6
      <4>2. queue[n + i] = queue[n + j] BY <1>5, <1>6, <3>1
      <4> QED BY <2>1, <4>1, <4>2, <1>1, <1>3, <1>6
    <3> QED BY <3>1 DEF IsInjective
  <2>4. ToSet(queue') \cap ToSet(batch') = {}
    <3> SUFFICES ASSUME NEW x \in ToSet(queue'), x \in ToSet(batch') PROVE FALSE OBVIOUS
    <3>1. PICK i \in 1..n : batch'[i] = x BY <1>6, ToSetMember
    <3>2. PICK j \in 1..(Len(queue) - n) : queue'[j] = x BY <1>6, ToSetMember
    <3>3. queue[i] = queue[n + j] /\ n + j \in 1..Len(queue) /\ i \in 1..Len(queue)
      BY <1>1, <1>3, <1>4, <1>5, <3>1, <3>2
    <3> QED BY <2>1, <3>3, <1>3, <3>1, <3>2
  <2> QED BY <2>2, <2>3, <2>4, <1>7, <1>9, <1>11, <1>12 DEF Parts, OnePlaceEach, history
<1>18. PoisonCostsOnlyItself' BY <1>9 DEF Parts, PoisonCostsOnlyItself, history
<1>19. DuplicateNeedsLostReply' BY <1>9 DEF Parts, DuplicateNeedsLostReply, history
<1> QED BY <1>13, <1>14, <1>15, <1>16, <1>17, <1>18, <1>19 DEF Parts

\* The statement is the batch itself or one element of it.
LEMMA StatementShape ==
    ASSUME TypeOK, Parts
    PROVE  /\ batch \in Seq(Requests) /\ Len(batch) \in Nat /\ DOMAIN batch = 1..Len(batch)
           /\ cursor \in 0..Len(batch)
           /\ stmt # "idle" => Len(batch) > 0
           /\ cursor # 0 => Statement = {batch[cursor]} /\ cursor \in 1..Len(batch)
           /\ cursor = 0 => Statement = ToSet(batch)
           /\ stmt # "idle" => Statement \subseteq Unsettled
           /\ Statement \subseteq Requests
           /\ \A x : x \in Unsettled <=>
                 \/ x \in ToSet(queue)
                 \/ \E i \in 1..Len(batch) : i >= cursor /\ batch[i] = x
<1>1. /\ batch \in Seq(Requests) /\ Len(batch) \in Nat /\ DOMAIN batch = 1..Len(batch)
      /\ cursor \in 0..Len(batch) /\ (batch = <<>> <=> Len(batch) = 0)
  BY SeqShape DEF TypeOK
<1>2. stmt # "idle" => Len(batch) > 0 BY <1>1 DEF Parts, ControlShape
<1>3. cursor # 0 => Statement = {batch[cursor]} /\ cursor \in 1..Len(batch)
  BY <1>1 DEF Statement
<1>4. cursor = 0 => Statement = ToSet(batch) BY DEF Statement
<1>5. \A x : x \in Unsettled <=>
         \/ x \in ToSet(queue)
         \/ \E i \in 1..Len(batch) : i >= cursor /\ batch[i] = x
  BY DEF Unsettled
<1>6. Statement \subseteq Unsettled
  <2>1. CASE cursor = 0
    <3>1. \A i \in 1..Len(batch) : i >= cursor BY <1>1, <2>1
    <3> QED BY <1>1, <1>4, <1>5, <2>1, <3>1, ToSetMember
  <2>2. CASE cursor # 0
    <3>1. cursor >= cursor BY <1>1
    <3> QED BY <1>3, <1>5, <2>2, <3>1
  <2> QED BY <2>1, <2>2
<1>7. Statement \subseteq Requests BY <1>3, <1>4, StatementInBatch
<1> QED BY <1>1, <1>2, <1>3, <1>4, <1>5, <1>6, <1>7

\* A committed statement adds one row for each of its events and for no other.
LEMMA CommitRows ==
    ASSUME TypeOK, Parts, stmt = "sent", rows' = AddRows(Statement)
    PROVE  /\ \A r \in Requests : rows'[r] = IF r \in Statement THEN rows[r] + 1 ELSE rows[r]
           /\ \A r \in Requests : rows'[r] <= 2 /\ (rows'[r] = 2 => r \in ambiguous)
           /\ \A r \in Requests : rows'[r] > 0 <=> r \in Stored \/ r \in Statement
<1>1. \A r \in Requests : rows'[r] = IF r \in Statement THEN rows[r] + 1 ELSE rows[r]
  BY DEF AddRows
<1>2. \A r \in Requests : rows[r] \in Nat BY DEF TypeOK
<1>3. \A r \in Statement : rows[r] <= 1 /\ (rows[r] = 1 => r \in ambiguous)
  <2>1. CASE cursor = 0
    <3>1. \A i \in 1..Len(batch) : i > cursor BY <2>1, StatementShape
    <3>2. \A i \in 1..Len(batch) : rows[batch[i]] = 0
      BY <2>1, <3>1 DEF Parts, RowsSoFar
    <3>3. \A r \in Statement : \E i \in 1..Len(batch) : batch[i] = r
      BY <2>1, StatementShape, ToSetMember
    <3> QED BY <3>2, <3>3
  <2>2. CASE cursor # 0
    BY <2>2, StatementShape DEF Parts, RowsSoFar
  <2> QED BY <2>1, <2>2
<1>4. \A r \in Requests : rows[r] <= 2 /\ (rows[r] = 2 => r \in ambiguous)
  BY DEF Parts, DuplicateNeedsLostReply
<1> QED BY <1>1, <1>2, <1>3, <1>4, StatementShape DEF Stored

\* A committed INSERT keeps the invariant: its events were not stored before, or their
\* first reply was lost.
LEMMA CommitKeepsParts == ASSUME TypeOK, Parts, DbCommit PROVE Parts'
<1>1. /\ stmt = "sent" /\ stmt' = "committed" /\ rows' = AddRows(Statement)
      /\ UNCHANGED <<phase, req, queue, writer, batch, cursor, history>>
  BY DEF DbCommit
<1>2. /\ Unsettled' = Unsettled /\ Statement' = Statement /\ Acked' = Acked
  BY <1>1 DEF Unsettled, Statement, Acked
<1>3. Stored' = Stored \cup Statement
  BY <1>1, CommitRows, StatementShape DEF Stored
<1>4. ControlShape' BY <1>1 DEF Parts, ControlShape, InFlight
<1>5. StatementOutcome' BY <1>1, <1>2, <1>3 DEF StatementOutcome
<1>6. RowsSoFar'
  <2>1. \A r \in ToSet(queue) : rows'[r] = 0
    <3>1. Statement \subseteq ToSet(batch)
      BY <1>1, StatementShape, ToSetMember
    <3>2. ToSet(queue) \subseteq Requests BY StatementInBatch
    <3> QED BY <1>1, <3>1, <3>2, CommitRows DEF Parts, OnePlaceEach, RowsSoFar
  <2>2. ASSUME NEW i \in 1..Len(batch), i > cursor, cursor = 0
        PROVE  rows'[batch[i]] = 1
    <3>1. batch[i] \in Statement /\ batch[i] \in Requests
      BY <2>2, StatementShape, ToSetMember
    <3>2. rows[batch[i]] = 0 BY <1>1, <2>2 DEF Parts, RowsSoFar
    <3> QED BY <1>1, <3>1, <3>2, CommitRows
  <2>3. ASSUME NEW i \in 1..Len(batch), i > cursor, cursor # 0
        PROVE  rows'[batch[i]] = rows[batch[i]]
    <3>1. batch[i] # batch[cursor] /\ batch[i] \in Requests
      BY <2>3, StatementShape, ToSetMember, StatementInBatch DEF Parts, OnePlaceEach, IsInjective
    <3> QED BY <1>1, <2>3, <3>1, StatementShape, CommitRows
  <2> QED BY <1>1, <2>1, <2>2, <2>3, StatementShape DEF Parts, RowsSoFar, history
<1>7. NothingVanishes' BY <1>1, <1>2, <1>3 DEF Parts, NothingVanishes, history
<1>8. OnePlaceEach'
  <2>1. Statement \subseteq Unsettled BY <1>1, StatementShape
  <2>2. Statement \subseteq ToSet(batch)
    BY <1>1, StatementShape, ToSetMember
  <2> QED BY <1>1, <1>2, <1>3, <2>1, <2>2 DEF Parts, OnePlaceEach, history
<1>9. PoisonCostsOnlyItself' BY <1>1 DEF Parts, PoisonCostsOnlyItself, history
<1>10. DuplicateNeedsLostReply' BY <1>1, CommitRows DEF DuplicateNeedsLostReply, history
<1> QED BY <1>4, <1>5, <1>6, <1>7, <1>8, <1>9, <1>10 DEF Parts

\* A failure the writer can explain: the event itself, the network or a lost reply.
LEMMA FailureKeepsParts ==
    ASSUME TypeOK, Parts, stmt \in {"sent", "committed"}, stmt' = "failed",
           unreachable \subseteq unreachable', ambiguous \subseteq ambiguous',
           cursor # 0 => Statement \subseteq {r \in Requests : Body[r] = "poison"}
                                             \cup unreachable' \cup ambiguous',
           stmt = "committed" => Statement \subseteq ambiguous',
           UNCHANGED <<phase, req, queue, writer, batch, cursor, rows, givenUp, crashLost>>
    PROVE  Parts'
<1>1. Unsettled' = Unsettled /\ Statement' = Statement /\ Acked' = Acked /\ Stored' = Stored
  BY DEF Unsettled, Statement, Acked, Stored
<1>2. ControlShape' BY DEF Parts, ControlShape, InFlight
<1>3. StatementOutcome' BY <1>1 DEF StatementOutcome
<1>4. RowsSoFar'
  <2>1. \A i \in 1..Len(batch) : cursor = 0 => batch[i] \in Statement
    BY StatementShape, ToSetMember
  <2>2. ASSUME NEW i \in 1..Len(batch), i > cursor
        PROVE  rows[batch[i]] <= 1 /\ (rows[batch[i]] = 1 => batch[i] \in ambiguous')
    BY <2>1, <2>2 DEF Parts, RowsSoFar
  <2> QED BY <2>2 DEF Parts, RowsSoFar
<1>5. NothingVanishes' BY <1>1 DEF Parts, NothingVanishes
<1>6. OnePlaceEach' BY <1>1 DEF Parts, OnePlaceEach
<1>7. PoisonCostsOnlyItself' BY DEF Parts, PoisonCostsOnlyItself
<1>8. DuplicateNeedsLostReply' BY DEF Parts, DuplicateNeedsLostReply
<1> QED BY <1>2, <1>3, <1>4, <1>5, <1>6, <1>7, <1>8 DEF Parts

\* A whole batch stored: batch.clear().
LEMMA BatchDoneKeepsParts ==
    ASSUME TypeOK, Parts, stmt = "committed", cursor = 0,
           batch' = <<>>, stmt' = "idle",
           UNCHANGED <<phase, req, queue, writer, cursor, cnt, rows, history>>
    PROVE  Parts'
<1>1. Statement = ToSet(batch) /\ Statement \subseteq Stored
  BY DEF Statement, Parts, StatementOutcome
<1>2. Acked' = Acked /\ Stored' = Stored BY DEF Acked, Stored
<1>3. Len(batch') = 0 /\ DOMAIN batch' = {} /\ ToSet(batch') = {}
  BY DEF ToSet
<1>4. Unsettled' = ToSet(queue) BY <1>3 DEF Unsettled
<1>5. Unsettled \subseteq ToSet(queue) \cup Stored
  BY <1>1, StatementShape, ToSetMember
<1>6. ControlShape' BY DEF Parts, ControlShape, InFlight
<1>7. StatementOutcome' BY DEF StatementOutcome
<1>8. RowsSoFar' BY <1>3 DEF Parts, RowsSoFar
<1>9. NothingVanishes' BY <1>2, <1>4, <1>5 DEF Parts, NothingVanishes, history
<1>10. OnePlaceEach'
  <2>1. ToSet(queue) \subseteq Unsettled BY DEF Unsettled
  <2> QED BY <1>2, <1>3, <1>4, <2>1 DEF Parts, OnePlaceEach, IsInjective, history
<1>11. PoisonCostsOnlyItself' BY DEF Parts, PoisonCostsOnlyItself, history
<1>12. DuplicateNeedsLostReply' BY DEF Parts, DuplicateNeedsLostReply, history
<1> QED BY <1>6, <1>7, <1>8, <1>9, <1>10, <1>11, <1>12 DEF Parts

\* The loop over the batch goes on: what it leaves behind is stored or given up.
LEMMA NextSingleKeepsParts ==
    ASSUME TypeOK, Parts, NextSingle, stmt \in {"committed", "failed"},
           cursor = 0 => stmt = "failed" /\ givenUp' = givenUp,
           cursor # 0 => \/ stmt = "committed" /\ givenUp' = givenUp
                         \/ stmt = "failed" /\ givenUp' = givenUp \cup Statement,
           UNCHANGED <<phase, req, queue, writer, rows, unreachable, ambiguous, crashLost>>
    PROVE  Parts'
<1>1. Acked' = Acked /\ Stored' = Stored BY DEF Acked, Stored
<1>2. Len(batch) > 0 BY StatementShape
<1>3. CASE cursor < Len(batch)
  <2>1. cursor' = cursor + 1 /\ stmt' = "sent" /\ batch' = batch /\ cursor \in Nat
    BY <1>3, StatementShape DEF NextSingle
  <2>2. cursor' \in 1..Len(batch) /\ cursor' # 0 BY <1>3, <2>1, StatementShape
  <2>3. \A x : x \in Unsettled' <=> \/ x \in ToSet(queue)
                                    \/ \E i \in 1..Len(batch) : i >= cursor + 1 /\ batch[i] = x
    BY <2>1 DEF Unsettled
  <2>4. /\ Unsettled' \subseteq Unsettled
        /\ cursor = 0 => Unsettled' = Unsettled
        /\ cursor # 0 => Unsettled \subseteq Unsettled' \cup Statement
    <3>1. \A i \in 1..Len(batch) : /\ i >= cursor + 1 => i >= cursor
                                   /\ i >= cursor => i >= cursor + 1 \/ i = cursor
                                   /\ cursor = 0 => i >= cursor + 1
      BY <2>1
    <3> QED BY <2>3, <3>1, StatementShape
  <2>5. cursor # 0 => Statement \cap Unsettled' = {}
    <3> SUFFICES ASSUME cursor # 0, batch[cursor] \in Unsettled' PROVE FALSE
      BY StatementShape
    <3>1. cursor \in 1..Len(batch) /\ batch[cursor] \in ToSet(batch)
      BY StatementShape, ToSetMember
    <3>2. batch[cursor] \notin ToSet(queue) BY <3>1 DEF Parts, OnePlaceEach
    <3>3. PICK i \in 1..Len(batch) : i >= cursor + 1 /\ batch[i] = batch[cursor]
      BY <2>3, <3>2
    <3>4. i = cursor BY <3>1, <3>3, StatementShape DEF Parts, OnePlaceEach, IsInjective
    <3> QED BY <2>1, <3>3, <3>4
  <2>6. ControlShape' BY <1>2, <2>1 DEF Parts, ControlShape, InFlight
  <2>7. StatementOutcome' BY <2>1 DEF StatementOutcome
  <2>8. RowsSoFar'
    <3>1. ASSUME NEW i \in 1..Len(batch), i > cursor
          PROVE  rows[batch[i]] <= 1 /\ (rows[batch[i]] = 1 => batch[i] \in ambiguous)
      BY <3>1 DEF Parts, RowsSoFar
    <3>2. \A i \in 1..Len(batch) : i >= cursor' => i > cursor BY <2>1
    <3>3. \A i \in 1..Len(batch) : (i > cursor' \/ i = cursor') => i >= cursor'
      BY <2>1
    <3> QED BY <2>1, <2>2, <3>1, <3>2, <3>3 DEF Parts, RowsSoFar
  <2>9. NothingVanishes'
    BY <1>1, <2>4 DEF Parts, NothingVanishes, StatementOutcome
  <2>10. OnePlaceEach'
    <3>1. stmt # "idle" /\ Statement \subseteq Unsettled /\ Statement \subseteq ToSet(batch)
      BY StatementShape, ToSetMember
    <3> QED BY <1>1, <2>1, <2>4, <2>5, <3>1 DEF Parts, OnePlaceEach
  <2>11. PoisonCostsOnlyItself' BY DEF Parts, PoisonCostsOnlyItself, StatementOutcome
  <2>12. DuplicateNeedsLostReply' BY DEF Parts, DuplicateNeedsLostReply
  <2> QED BY <2>6, <2>7, <2>8, <2>9, <2>10, <2>11, <2>12 DEF Parts
<1>4. CASE ~(cursor < Len(batch))
  <2>1. cursor' = 0 /\ stmt' = "idle" /\ batch' = <<>> BY <1>4 DEF NextSingle
  <2>2. cursor = Len(batch) /\ cursor # 0 BY <1>2, <1>4, StatementShape
  <2>3. Len(batch') = 0 /\ DOMAIN batch' = {} /\ ToSet(batch') = {}
    BY <2>1 DEF ToSet
  <2>4. Unsettled' = ToSet(queue) BY <2>3 DEF Unsettled
  <2>5. Unsettled \subseteq ToSet(queue) \cup Statement
    <3>1. \A i \in 1..Len(batch) : i >= cursor => i = cursor
      BY <2>2, StatementShape
    <3> QED BY <2>2, <3>1, StatementShape
  <2>6. /\ Statement \subseteq Unsettled /\ Statement \subseteq ToSet(batch)
        /\ ToSet(queue) \subseteq Unsettled
    BY <2>2, StatementShape, ToSetMember
  <2>7. ControlShape' BY <2>1 DEF Parts, ControlShape, InFlight
  <2>8. StatementOutcome' BY <2>1 DEF StatementOutcome
  <2>9. RowsSoFar' BY <2>3 DEF Parts, RowsSoFar
  <2>10. NothingVanishes'
    BY <1>1, <2>2, <2>4, <2>5 DEF Parts, NothingVanishes, StatementOutcome
  <2>11. OnePlaceEach'
    BY <1>1, <2>3, <2>4, <2>6 DEF Parts, OnePlaceEach, IsInjective
  <2>12. PoisonCostsOnlyItself' BY DEF Parts, PoisonCostsOnlyItself, StatementOutcome
  <2>13. DuplicateNeedsLostReply' BY DEF Parts, DuplicateNeedsLostReply
  <2> QED BY <2>7, <2>8, <2>9, <2>10, <2>11, <2>12, <2>13 DEF Parts
<1> QED BY <1>3, <1>4

\* A crash keeps the invariant: what it discards becomes a crash victim or was stored.
LEMMA CrashKeepsParts == ASSUME TypeOK, Parts, Crash PROVE Parts'
<1>1. /\ phase' = "crashed" /\ writer' = "stopped" /\ queue' = <<>> /\ batch' = <<>>
      /\ cursor' = 0 /\ stmt' = "idle"
      /\ req' = [r \in Requests |-> IF req[r] = "hashing" THEN "dropped" ELSE req[r]]
      /\ crashLost' = crashLost \cup {r \in Unsettled : rows'[r] = 0}
      /\ UNCHANGED <<cnt, givenUp, unreachable, ambiguous, old>>
  BY DEF Crash
<1>2. Acked' = Acked BY <1>1 DEF Acked, TypeOK, Answer
<1>3. InFlight' = {} BY <1>1 DEF InFlight, TypeOK
<1>4. /\ Len(queue') = 0 /\ DOMAIN queue' = {} /\ ToSet(queue') = {}
      /\ Len(batch') = 0 /\ DOMAIN batch' = {} /\ ToSet(batch') = {}
      /\ Unsettled' = {}
  BY <1>1 DEF ToSet, Unsettled
<1>5. /\ Stored \subseteq Stored'
      /\ Stored' \subseteq Stored \cup Unsettled
      /\ \A r \in Requests : rows'[r] <= 2 /\ (rows'[r] = 2 => r \in ambiguous)
      /\ \A r \in Unsettled : rows'[r] = 0 \/ r \in Stored'
  <2>1. CASE rows' = rows
    <3>1. \A r \in Unsettled : r \in Requests /\ rows[r] \in Nat
      BY StatementInBatch DEF TypeOK
    <3> QED BY <2>1, <3>1 DEF Stored, Parts, DuplicateNeedsLostReply
  <2>2. CASE stmt = "sent" /\ rows' = AddRows(Statement)
    <3>1. Statement \subseteq Unsettled BY <2>2, StatementShape
    <3>2. \A r \in Unsettled : r \in Requests /\ rows[r] \in Nat
      BY StatementInBatch DEF TypeOK
    <3>3. Stored' = Stored \cup Statement BY <2>2, CommitRows, StatementShape DEF Stored
    <3>4. \A r \in Unsettled : rows'[r] = 0 \/ r \in Stored'
      <4>1. \A r \in Unsettled \ Statement : rows'[r] = rows[r] BY <2>2, <3>2, CommitRows
      <4> QED BY <3>2, <3>3, <4>1 DEF Stored
    <3> QED BY <2>2, <3>1, <3>3, <3>4, CommitRows
  <2> QED BY <2>1, <2>2 DEF Crash
<1>6. {r \in Unsettled : rows'[r] = 0} \cap Stored' = {} BY DEF Stored
<1>7. ControlShape' BY <1>1, <1>3 DEF ControlShape
<1>8. StatementOutcome' BY <1>1 DEF StatementOutcome
<1>9. RowsSoFar' BY <1>4 DEF RowsSoFar
<1>10. NothingVanishes' BY <1>1, <1>2, <1>5 DEF Parts, NothingVanishes
<1>11. Unsettled \subseteq Acked
  BY StatementShape, ToSetMember DEF Parts, OnePlaceEach
<1>12. OnePlaceEach'
  <2>1. IsInjective(queue') /\ IsInjective(batch') BY <1>4 DEF IsInjective
  <2>2. crashLost' \cap Stored' = {} BY <1>1, <1>5, <1>6 DEF Parts, OnePlaceEach
  <2>3. givenUp' \cap crashLost' = {} BY <1>1 DEF Parts, OnePlaceEach
  <2>4. Stored' \subseteq Acked' BY <1>2, <1>5, <1>11 DEF Parts, OnePlaceEach
  <2> QED BY <1>1, <1>2, <1>4, <1>11, <2>1, <2>2, <2>3, <2>4 DEF Parts, OnePlaceEach
<1>13. PoisonCostsOnlyItself' BY <1>1 DEF Parts, PoisonCostsOnlyItself
<1>14. DuplicateNeedsLostReply' BY <1>1, <1>5 DEF DuplicateNeedsLostReply
<1> QED BY <1>7, <1>8, <1>9, <1>10, <1>12, <1>13, <1>14 DEF Parts

\* Every step keeps the conjuncts of IndInv: one case per action.
LEMMA PartsStep == ASSUME TypeOK, Parts, [Next]_vars PROVE Parts'
<1>1. ASSUME NEW r \in Requests, Handler(r) PROVE Parts'
  <2>1. CASE Reject(r) BY <2>1, RefusalStatus, RefusalKeepsParts DEF Reject, Arrives, Answer
  <2>3. CASE Forbid(r) BY <2>3, RefusalKeepsParts DEF Forbid, Arrives, Answer
  <2>4. CASE AwaitSalt(r) BY <2>4, RefusalKeepsParts DEF AwaitSalt, Arrives, Answer
  <2>5. CASE Abandon(r) BY <2>5, RefusalKeepsParts DEF Abandon, Answer
  <2>6. ASSUME TrySend(r), req[r] \in {"new", "hashing"} PROVE Parts'
    <3>1. CASE writer = "running" /\ Len(queue) < Capacity
      BY <2>6, <3>1, EnqueueKeepsParts DEF TrySend
    <3>2. CASE ~(writer = "running" /\ Len(queue) < Capacity)
      BY <2>6, <3>2, RefusalKeepsParts DEF TrySend, Answer
    <3> QED BY <3>1, <3>2
  <2>7. CASE CollectNow(r) BY <2>6, <2>7 DEF CollectNow, Arrives
  <2>8. CASE CollectAfterSalt(r) BY <2>6, <2>8 DEF CollectAfterSalt
  <2> QED BY <1>1, <2>1, <2>3, <2>4, <2>5, <2>7, <2>8 DEF Handler
<1>2. CASE RecvMany BY <1>2, RecvKeepsParts
<1>3. CASE DbCommit BY <1>3, CommitKeepsParts
<1>4. CASE DbReject
  <2>1. cursor # 0 => Statement \subseteq {r \in Requests : Body[r] = "poison"}
    BY <1>4, StatementShape DEF DbReject, Poisoned
  <2> QED BY <1>4, <2>1, FailureKeepsParts DEF DbReject, history
<1>5. CASE DbUnreachable BY <1>5, FailureKeepsParts DEF DbUnreachable
<1>6. CASE ReplyLost BY <1>6, FailureKeepsParts DEF ReplyLost
<1>7. CASE InsertOk
  <2>1. CASE cursor = 0 BY <1>7, <2>1, BatchDoneKeepsParts DEF InsertOk
  <2>2. CASE cursor # 0 BY <1>7, <2>2, NextSingleKeepsParts DEF InsertOk, history
  <2> QED BY <2>1, <2>2
<1>8. CASE InsertErr BY <1>8, NextSingleKeepsParts DEF InsertErr
<1>9. CASE WriterStops
  <2>1. ControlShape' BY <1>9 DEF WriterStops, Parts, ControlShape, Senders, InFlight
  <2> QED BY <1>9, <2>1, ControlKeepsParts DEF WriterStops, history
<1>10. CASE ShutdownSignal
  <2>1. ControlShape' BY <1>10 DEF ShutdownSignal, Parts, ControlShape, InFlight
  <2> QED BY <1>10, <2>1, ControlKeepsParts DEF ShutdownSignal, history
<1>11. CASE ServeReturns
  <2>1. ControlShape' BY <1>11 DEF ServeReturns, Parts, ControlShape, InFlight
  <2> QED BY <1>11, <2>1, ControlKeepsParts DEF ServeReturns, history
<1>12. CASE ExitProcess
  <2>1. ControlShape' BY <1>12 DEF ExitProcess, Parts, ControlShape, InFlight
  <2> QED BY <1>12, <2>1, ControlKeepsParts DEF ExitProcess, history
<1>13. CASE Crash BY <1>13, CrashKeepsParts
<1>14. CASE Restart
  <2>1. ControlShape' BY <1>14 DEF Restart, Parts, ControlShape, InFlight
  <2> QED BY <1>14, <2>1, ControlKeepsParts DEF Restart
<1>15. CASE UNCHANGED vars
  <2>1. ControlShape' BY <1>15 DEF vars, Parts, ControlShape, InFlight
  <2> QED BY <1>15, <2>1, ControlKeepsParts DEF vars
<1> QED BY <1>1, <1>2, <1>3, <1>4, <1>5, <1>6, <1>7, <1>8, <1>9, <1>10, <1>11,
           <1>12, <1>13, <1>14, <1>15 DEF Next, Database, Writer, Process

(* The inductive invariant holds in every reachable state.                  *)
THEOREM Inductive == Spec => []IndInv
<1>1. Init => IndInv BY TypeInit, PartsInit DEF IndInv, Parts
<1>2. ASSUME IndInv, [Next]_vars PROVE IndInv'
  <2>1. TypeOK /\ Parts BY <1>2 DEF IndInv, Parts
  <2> QED BY <1>2, <2>1, TypeStep, PartsStep DEF IndInv, Parts
<1> QED BY <1>1, <1>2, PTL DEF Spec

(* No event answered 202 is ever forgotten by the queue, the retry loop or  *)
(* batch.clear(), whatever the batch size (ingest.rs, spawn_writer_on).     *)
THEOREM NoEventVanishes == Spec => []NothingVanishes
<1>1. IndInv => NothingVanishes BY DEF IndInv
<1> QED BY <1>1, Inductive, PTL

(* Queued, stored, counted and crashed exclude each other as OnePlaceEach   *)
(* says, and nothing but an event answered 202 is in any of these places.   *)
THEOREM PlacesExclude == Spec => []OnePlaceEach
<1>1. IndInv => OnePlaceEach BY DEF IndInv
<1> QED BY <1>1, Inductive, PTL

(* A poison event costs its batch nothing but itself.                       *)
THEOREM PoisonIsIsolated == Spec => []PoisonCostsOnlyItself
<1>1. IndInv => PoisonCostsOnlyItself BY DEF IndInv
<1> QED BY <1>1, Inductive, PTL

(* Without a lost reply every event is stored at most once, with one at     *)
(* most twice.                                                              *)
THEOREM AtMostTwice == Spec => []DuplicateNeedsLostReply
<1>1. IndInv => DuplicateNeedsLostReply BY DEF IndInv
<1> QED BY <1>1, Inductive, PTL

(* A clean exit leaves nothing acknowledged behind.                         *)
THEOREM ExitIsLossless == Spec => []ShutdownLossless
<1>1. ASSUME IndInv, phase = "exited"
      PROVE  Acked \ crashLost \subseteq Stored \cup givenUp /\ InFlight = {}
  <2>1. queue = <<>> /\ batch = <<>> /\ InFlight = {} BY <1>1 DEF IndInv, ControlShape
  <2>2. Unsettled = {} BY <2>1 DEF Unsettled, ToSet
  <2> QED BY <1>1, <2>1, <2>2 DEF IndInv, NothingVanishes
<1>2. IndInv => ShutdownLossless BY <1>1 DEF ShutdownLossless
<1> QED BY <1>2, Inductive, PTL

-----------------------------------------------------------------------------
(* CountersExact, relative to IndInv and with OldSettled beside it. *)

\* Which requests got an answer, and how much of a set belongs to this life.
Answered(s) == {r \in Requests : req[r] = s}
Now(S) == Cardinality(S \ old)

\* CountersExact in these terms.
LEMMA CountersRead ==
    CountersExact <=> /\ cnt["malformed"] = Now(Answered("422"))
                      /\ cnt["invalid"] = Now(Answered("400"))
                      /\ cnt["full"] = Now(Answered("503"))
                      /\ cnt["failed"] = Now(givenUp)
                      /\ cnt["closed"] = 0
BY DEF CountersExact, Now, Answered

\* One request more, of this life, counts one more.
LEMMA OneMore ==
    ASSUME NEW A \in SUBSET Requests, NEW r \in Requests, r \notin A, r \notin old
    PROVE  Now(A \cup {r}) = Now(A) + 1
<1>1. IsFiniteSet(A \ old)
  <2>1. A \ old \in SUBSET Requests OBVIOUS
  <2> QED BY <2>1, RequestsFinite, FS_Subset
<1>2. (A \cup {r}) \ old = (A \ old) \cup {r} OBVIOUS
<1>3. Cardinality((A \ old) \cup {r}) = Cardinality(A \ old) + 1 BY <1>1, FS_AddElement
<1> QED BY <1>2, <1>3 DEF Now

\* What an answer does to the sets the counters are compared with.
LEMMA AnswerMoves ==
    ASSUME TypeOK, NEW r \in Requests, NEW s, Reply(r, s),
           req[r] \in {"new", "hashing"}, NEW t \in Answer
    PROVE  /\ r \notin Answered(t)
           /\ Answered(t)' = IF t = s THEN Answered(t) \cup {r} ELSE Answered(t)
<1>1. req' = [req EXCEPT ![r] = s] /\ req \in [Requests -> {"new", "hashing"} \cup Answer]
  BY DEF Reply, TypeOK
<1>2. r \notin Answered(t) BY DEF Answered, Answer
<1>3. \A q \in Requests : req'[q] = t <=> IF q = r THEN t = s ELSE req[q] = t BY <1>1
<1>4. \A q : q \in Answered(t)' <=> q \in Requests /\ req'[q] = t BY DEF Answered
<1>5. \A q : q \in Answered(t) <=> q \in Requests /\ req[q] = t BY DEF Answered
<1> QED BY <1>2, <1>3, <1>4, <1>5

\* A step that moves neither the counters nor what they count.
LEMMA CountersUnmoved ==
    ASSUME CountersExact, UNCHANGED <<cnt, givenUp, old>>,
           Answered("422")' = Answered("422"), Answered("400")' = Answered("400"),
           Answered("503")' = Answered("503")
    PROVE  CountersExact'
<1>1. \A S : Now(S)' = Cardinality(S' \ old') BY DEF Now
<1> QED BY CountersRead DEF CountersExact, Now, Answered

\* No counter has moved and nothing is counted in the initial state.
LEMMA CountersInit == Init => CountersExact /\ OldSettled
<1> SUFFICES ASSUME Init PROVE CountersExact /\ OldSettled OBVIOUS
<1>1. \A t \in Answer : Answered(t) = {} BY DEF Init, Answered, Answer
<1>2. old = {} /\ givenUp = {} /\ \A c \in Counter : cnt[c] = 0 BY DEF Init
<1>3. Now({}) = 0 BY FS_EmptySet DEF Now
<1>4. CountersExact BY <1>1, <1>2, <1>3, CountersRead DEF Answer, Counter
<1> QED BY <1>2, <1>4 DEF OldSettled

\* A part of a sequence has no member of its own.
LEMMA SubSeqMembers ==
    ASSUME NEW s \in Seq(Requests), NEW m \in 1..Len(s)+1, NEW n \in 0..Len(s)
    PROVE  ToSet(SubSeq(s, m, n)) \subseteq ToSet(s)
<1>1. Len(s) \in Nat /\ DOMAIN s = 1..Len(s) BY SeqShape
<1>2. \A i \in m..n : s[i] \in Requests
  <2>1. \A i \in m..n : i \in 1..Len(s) BY <1>1
  <2> QED BY <2>1, SeqShape
<1>3. /\ SubSeq(s, m, n) \in Seq(Requests)
      /\ Len(SubSeq(s, m, n)) = IF m <= n THEN n-m+1 ELSE 0
      /\ \A i \in 1..n-m+1 : SubSeq(s, m, n)[i] = s[m+i-1]
  <2>1. m \in Int /\ n \in Int BY <1>1
  <2> QED BY <1>2, <2>1, SubSeqProperties
<1> SUFFICES ASSUME NEW x \in ToSet(SubSeq(s, m, n)) PROVE x \in ToSet(s)
  OBVIOUS
<1>4. PICK i \in 1..Len(SubSeq(s, m, n)) : SubSeq(s, m, n)[i] = x
  BY <1>3, SeqShape, ToSetMember
<1>5. i \in 1..n-m+1 /\ m+i-1 \in 1..Len(s)
  BY <1>1, <1>3, <1>4
<1> QED BY <1>1, <1>3, <1>4, <1>5, ToSetMember

\* An answer keeps the earlier lives apart: its request belongs to this one.
LEMMA AnswerKeepsOld ==
    ASSUME TypeOK, OldSettled, NEW r \in Requests, NEW s, Reply(r, s),
           req[r] \in {"new", "hashing"},
           queue' = queue \/ queue' = Append(queue, r),
           UNCHANGED <<batch, old>>
    PROVE  OldSettled' /\ r \notin old
<1>1. r \notin old BY DEF OldSettled
<1>2. \A q \in old : req'[q] = req[q] BY <1>1 DEF Reply, TypeOK
<1>3. ToSet(queue') \subseteq ToSet(queue) \cup {r}
  <2>1. CASE queue' = queue BY <2>1
  <2>2. CASE queue' = Append(queue, r)
    <3>1. queue \in Seq(Requests) BY DEF TypeOK
    <3>2. /\ queue' \in Seq(Requests) /\ Len(queue') = Len(queue) + 1
          /\ \A i \in 1..Len(queue) : queue'[i] = queue[i]
          /\ queue'[Len(queue) + 1] = r
      BY <2>2, <3>1, AppendProperties
    <3>3. DOMAIN queue' = 1..(Len(queue) + 1) /\ DOMAIN queue = 1..Len(queue) /\ Len(queue) \in Nat
      BY <3>1, <3>2, SeqShape
    <3>4. \A i \in DOMAIN queue' : i = Len(queue) + 1 \/ i \in DOMAIN queue BY <3>3
    <3> QED BY <3>2, <3>3, <3>4, ToSetMember
  <2> QED BY <2>1, <2>2
<1> QED BY <1>1, <1>2, <1>3 DEF OldSettled

\* Each answer of a handler is counted under its own reason, or is not counted.
LEMMA HandlerCounts ==
    ASSUME IndInv, CountersExact, OldSettled, NEW r \in Requests, Handler(r)
    PROVE  CountersExact' /\ OldSettled'
<1> USE DEF Answer
<1>0. TypeOK BY DEF IndInv
<1>1. cnt \in [Counter -> Nat] BY <1>0 DEF TypeOK
<1>2. ASSUME NEW s \in {"hashing", "202", "403", "dropped"}, Reply(r, s),
             req[r] \in {"new", "hashing"}, queue' = queue \/ queue' = Append(queue, r),
             UNCHANGED <<batch, cnt, history>>
      PROVE  CountersExact' /\ OldSettled'
  <2>1. OldSettled' BY <1>0, <1>2, AnswerKeepsOld DEF history
  <2>2. \A t \in {"422", "400", "503"} : Answered(t)' = Answered(t)
    BY <1>0, <1>2, AnswerMoves
  <2> QED BY <1>2, <2>1, <2>2, CountersUnmoved DEF history
<1>3. ASSUME NEW s \in {"422", "400", "503"}, NEW c \in Counter,
             <<s, c>> \in {<<"422", "malformed">>, <<"400", "invalid">>, <<"503", "full">>},
             Reply(r, s), Bump(c), req[r] \in {"new", "hashing"},
             UNCHANGED <<queue, batch, history>>
      PROVE  CountersExact' /\ OldSettled'
  <2>1. OldSettled' /\ r \notin old BY <1>0, <1>3, AnswerKeepsOld DEF history
  <2>2. \A t \in {"422", "400", "503"} :
            Answered(t)' = (IF t = s THEN Answered(t) \cup {r} ELSE Answered(t))
    BY <1>0, <1>3, AnswerMoves
  <2>3. Now(Answered(s) \cup {r}) = Now(Answered(s)) + 1
    <3>1. Answered(s) \in SUBSET Requests BY DEF Answered
    <3>2. r \notin Answered(s) BY <1>0, <1>3, AnswerMoves
    <3> QED BY <2>1, <3>1, <3>2, OneMore
  <2>4. \A t \in {"422", "400", "503"} :
            Now(Answered(t))' = (IF t = s THEN Now(Answered(t)) + 1 ELSE Now(Answered(t)))
    BY <1>3, <2>2, <2>3 DEF Now, history
  <2>5. Now(givenUp)' = Now(givenUp) BY <1>3 DEF Now, history
  <2>6. \A d \in Counter : cnt'[d] = IF d = c THEN cnt[d] + 1 ELSE cnt[d]
    BY <1>1, <1>3 DEF Bump
  <2>7. /\ cnt'["malformed"] = Now(Answered("422"))'
        /\ cnt'["invalid"] = Now(Answered("400"))'
        /\ cnt'["full"] = Now(Answered("503"))'
        /\ cnt'["failed"] = Now(givenUp)'
        /\ cnt'["closed"] = 0
    BY <1>3, <2>4, <2>5, <2>6, CountersRead DEF Counter
  <2>8. CountersExact' BY <2>7 DEF CountersExact, Now, Answered
  <2> QED BY <2>1, <2>8
<1>4. CASE Reject(r)
  <2>1. Body[r] \in {"malformed", "invalid"} BY <1>4 DEF Reject, Refusal
  <2>2. Body[r] \in Counter
        /\ <<Refusal[Body[r]], Body[r]>> \in {<<"422", "malformed">>, <<"400", "invalid">>}
    BY <2>1 DEF Refusal, Counter
  <2> QED BY <1>3, <1>4, <2>2 DEF Reject, Arrives, Refusal
<1>5. CASE Forbid(r) BY <1>2, <1>5 DEF Forbid, Arrives
<1>6. CASE AwaitSalt(r) BY <1>2, <1>6 DEF AwaitSalt, Arrives
<1>7. CASE Abandon(r) BY <1>2, <1>7 DEF Abandon
<1>8. ASSUME TrySend(r), req[r] \in {"new", "hashing"}, phase \in {"serving", "draining"}
      PROVE  CountersExact' /\ OldSettled'
  <2>1. writer = "running" BY <1>0, <1>8 DEF IndInv, ControlShape, TypeOK
  <2>2. CASE Len(queue) < Capacity BY <1>2, <1>8, <2>1, <2>2 DEF TrySend
  <2>3. CASE ~(Len(queue) < Capacity)
    BY <1>3, <1>8, <2>1, <2>3 DEF TrySend, Counter
  <2> QED BY <2>2, <2>3
<1>9. CASE CollectNow(r) BY <1>8, <1>9 DEF CollectNow, Arrives
<1>10. CASE CollectAfterSalt(r)
  <2>1. r \in InFlight BY <1>10 DEF CollectAfterSalt, InFlight
  <2>2. phase \in {"serving", "draining"} BY <2>1 DEF IndInv, ControlShape
  <2> QED BY <1>8, <1>10, <2>2 DEF CollectAfterSalt
<1> QED BY <1>4, <1>5, <1>6, <1>7, <1>9, <1>10 DEF Handler

\* An event the writer gives up is counted once: it was not given up before.
LEMMA GiveUpCounts ==
    ASSUME IndInv, CountersExact, OldSettled, InsertErr
    PROVE  CountersExact' /\ OldSettled'
<1>0. TypeOK /\ Parts BY DEF IndInv, Parts
<1>1. ToSet(batch') \subseteq ToSet(batch)
  <2>1. batch' = batch \/ batch' = <<>> BY DEF InsertErr, NextSingle
  <2> QED BY <2>1, ToSetMember
<1>2. OldSettled' BY <1>1 DEF InsertErr, OldSettled
<1>3. \A t \in Answer : Answered(t)' = Answered(t) BY DEF InsertErr, Answered
<1>4. CASE cursor = 0
  BY <1>2, <1>3, <1>4, CountersUnmoved DEF InsertErr, Answer
<1>5. CASE cursor # 0
  <2>1. Statement = {batch[cursor]} /\ cursor \in 1..Len(batch) BY <1>0, <1>5, StatementShape
  <2>2. batch[cursor] \in Requests /\ batch[cursor] \in ToSet(batch)
    BY <1>0, <2>1, StatementShape, StatementInBatch, ToSetMember
  <2>3. batch[cursor] \notin givenUp
    <3>1. Statement \subseteq Unsettled BY <1>0, StatementShape DEF InsertErr
    <3> QED BY <2>1, <3>1 DEF IndInv, OnePlaceEach
  <2>4. batch[cursor] \notin old BY <2>2 DEF OldSettled
  <2>5. givenUp \in SUBSET Requests BY <1>0 DEF TypeOK
  <2>6. Now(givenUp \cup {batch[cursor]}) = Now(givenUp) + 1 BY <2>2, <2>3, <2>4, <2>5, OneMore
  <2>7. Now(givenUp)' = Now(givenUp) + 1 BY <1>5, <2>1, <2>6 DEF InsertErr, Now
  <2>8. \A t \in Answer : Now(Answered(t))' = Now(Answered(t)) BY <1>3 DEF InsertErr, Now
  <2>9. \A d \in Counter : cnt'[d] = IF d = "failed" THEN cnt[d] + 1 ELSE cnt[d]
    BY <1>0, <1>5 DEF TypeOK, InsertErr, Bump
  <2>10. /\ cnt'["malformed"] = Now(Answered("422"))'
         /\ cnt'["invalid"] = Now(Answered("400"))'
         /\ cnt'["full"] = Now(Answered("503"))'
         /\ cnt'["failed"] = Now(givenUp)'
         /\ cnt'["closed"] = 0
    BY <2>7, <2>8, <2>9, CountersRead DEF Counter, Answer
  <2>11. CountersExact' BY <2>10 DEF CountersExact, Now, Answered
  <2> QED BY <1>2, <2>11
<1> QED BY <1>4, <1>5

\* A crash answers nobody and takes nobody to an earlier life.
LEMMA CrashCounts ==
    ASSUME IndInv, CountersExact, OldSettled, Crash
    PROVE  CountersExact' /\ OldSettled'
<1>0. TypeOK BY DEF IndInv
<1>1. \A r \in Requests : req'[r] = IF req[r] = "hashing" THEN "dropped" ELSE req[r]
  BY DEF Crash
<1>2. \A t \in {"422", "400", "503"} : Answered(t)' = Answered(t)
  <2> SUFFICES ASSUME NEW t \in {"422", "400", "503"} PROVE Answered(t)' = Answered(t)
    OBVIOUS
  <2>1. \A r \in Requests : req'[r] = t <=> req[r] = t BY <1>1
  <2> QED BY <2>1 DEF Answered
<1>3. CountersExact' BY <1>2, CountersUnmoved DEF Crash
<1>4. ToSet(queue') = {} /\ ToSet(batch') = {} BY DEF Crash, ToSet
<1>5. \A r \in old : req'[r] \notin {"new", "hashing"}
  BY <1>0, <1>1 DEF OldSettled, TypeOK
<1> QED BY <1>3, <1>4, <1>5 DEF OldSettled, Crash

\* A restart forgets the counters together with everything they counted.
LEMMA RestartCounts ==
    ASSUME IndInv, CountersExact, OldSettled, Restart
    PROVE  CountersExact' /\ OldSettled'
<1>0. TypeOK BY DEF IndInv
<1>1. InFlight = {} /\ queue = <<>> /\ batch = <<>>
  BY DEF Restart, IndInv, ControlShape
<1>2. \A r \in Requests : req[r] # "hashing" BY <1>1 DEF InFlight
<1>3. old' = {r \in Requests : req[r] # "new"} /\ req' = req /\ givenUp' = givenUp BY DEF Restart
<1>4. ToSet(queue') = {} /\ ToSet(batch') = {} BY <1>1 DEF Restart, ToSet
<1>5. OldSettled' BY <1>2, <1>3, <1>4 DEF OldSettled
<1>6. \A t \in Answer : Answered(t)' \ old' = {} BY <1>3 DEF Answered, Answer
<1>7. givenUp' \ old' = {}
  <2>1. givenUp \subseteq Acked BY DEF IndInv, OnePlaceEach
  <2> QED BY <1>3, <2>1 DEF Acked
<1>8. Cardinality({}) = 0 BY FS_EmptySet
<1>9. \A c \in Counter : cnt'[c] = 0 BY DEF Restart
<1>10. /\ cnt'["malformed"] = Now(Answered("422"))'
       /\ cnt'["invalid"] = Now(Answered("400"))'
       /\ cnt'["full"] = Now(Answered("503"))'
       /\ cnt'["failed"] = Now(givenUp)'
       /\ cnt'["closed"] = 0
  BY <1>6, <1>7, <1>8, <1>9 DEF Now, Counter, Answer
<1>11. CountersExact' BY <1>10 DEF CountersExact, Now, Answered
<1> QED BY <1>5, <1>11

\* Every step keeps the counters exact: one case per action.
LEMMA CountersStep ==
    ASSUME IndInv, CountersExact, OldSettled, [Next]_vars
    PROVE  CountersExact' /\ OldSettled'
<1>0. TypeOK BY DEF IndInv
<1>1. ASSUME UNCHANGED <<req, cnt, givenUp, old>>,
             ToSet(queue') \cup ToSet(batch') \subseteq ToSet(queue) \cup ToSet(batch)
      PROVE  CountersExact' /\ OldSettled'
  <2>1. CountersExact' BY <1>1, CountersUnmoved DEF Answered
  <2>2. OldSettled' BY <1>1 DEF OldSettled
  <2> QED BY <2>1, <2>2
<1>2. ASSUME NEW r \in Requests, Handler(r) PROVE CountersExact' /\ OldSettled'
  BY <1>2, HandlerCounts
<1>3. CASE RecvMany
  <2>1. queue \in Seq(Requests) /\ Len(queue) \in Nat BY <1>0, SeqShape DEF TypeOK
  <2>2. RecvCount \in 0..Len(queue) BY <2>1, BoundsPositive DEF RecvCount
  <2>3. ToSet(batch') \subseteq ToSet(queue)
    <3>1. 1 \in 1..Len(queue)+1 BY <2>1
    <3> QED BY <1>3, <2>1, <2>2, <3>1, SubSeqMembers DEF RecvMany
  <2>4. ToSet(queue') \subseteq ToSet(queue)
    <3>1. RecvCount + 1 \in 1..Len(queue)+1 /\ Len(queue) \in 0..Len(queue) BY <2>1, <2>2
    <3> QED BY <1>3, <2>1, <3>1, SubSeqMembers DEF RecvMany
  <2> QED BY <1>1, <1>3, <2>3, <2>4 DEF RecvMany, history
<1>4. CASE Database
  BY <1>1, <1>4 DEF Database, DbCommit, DbReject, DbUnreachable, ReplyLost, history
<1>5. CASE InsertOk
  <2>1. batch' = batch \/ batch' = <<>> BY <1>5 DEF InsertOk, NextSingle
  <2>2. ToSet(batch') \subseteq ToSet(batch) BY <2>1, ToSetMember
  <2> QED BY <1>1, <1>5, <2>2 DEF InsertOk, history
<1>6. CASE InsertErr BY <1>6, GiveUpCounts
<1>7. CASE WriterStops BY <1>1, <1>7 DEF WriterStops, history
<1>8. CASE ShutdownSignal \/ ServeReturns \/ ExitProcess
  BY <1>1, <1>8 DEF ShutdownSignal, ServeReturns, ExitProcess, history
<1>9. CASE Crash BY <1>9, CrashCounts
<1>10. CASE Restart BY <1>10, RestartCounts
<1>11. CASE UNCHANGED vars BY <1>1, <1>11 DEF vars
<1> QED BY <1>2, <1>3, <1>4, <1>5, <1>6, <1>7, <1>8, <1>9, <1>10, <1>11 DEF Next, Writer, Process

(* The counters say exactly what this life of the process refused and gave  *)
(* up, through any interleaving, shutdown, crash and restart.               *)
THEOREM CountersAreExact == Spec => []CountersExact
<1>1. Init => CountersExact /\ OldSettled BY CountersInit
<1>2. IndInv /\ CountersExact /\ OldSettled /\ [Next]_vars => CountersExact' /\ OldSettled'
  BY CountersStep
<1> QED BY <1>1, <1>2, Inductive, PTL DEF Spec

-----------------------------------------------------------------------------
(* Refinement of IngestContract *)

\* The fate the refinement mapping gives a request, case by case.
LEMMA FateValue ==
    ASSUME IndInv, NEW r \in Requests
    PROVE  /\ Fate[r] = FateOf(r)
           /\ FateOf(r) = "stored" <=> r \in Stored
           /\ FateOf(r) = "counted" <=> r \in givenUp \ Stored
           /\ FateOf(r) = "lost" <=> r \in crashLost
           /\ FateOf(r) = "acked" <=> r \in Acked \ (Stored \cup givenUp \cup crashLost)
           /\ FateOf(r) = "unsent" <=> req[r] \in {"new", "hashing"}
           /\ FateOf(r) = "refused" <=> req[r] \notin {"new", "hashing", "202"}
<1>1. /\ Stored \cup givenUp \cup crashLost \subseteq Acked
      /\ givenUp \cap crashLost = {} /\ crashLost \cap Stored = {}
  BY DEF IndInv, OnePlaceEach
<1>2. r \in Acked <=> req[r] = "202" BY DEF Acked
<1>3. Fate[r] = FateOf(r) BY DEF Fate
<1> QED BY <1>1, <1>2, <1>3 DEF FateOf

\* The process is up whenever a handler or a statement is in progress.
LEMMA UpWhenBusy ==
    ASSUME IndInv
    PROVE  /\ InFlight # {} => phase \in Up
           /\ stmt # "idle" => phase \in Up
           /\ writer = "running" => phase \in Up
BY DEF IndInv, TypeOK, ControlShape, Up

\* The initial state maps to the contract's initial state.
LEMMA ContractInit == Init => Contract!Init
<1> SUFFICES ASSUME Init PROVE Contract!Init OBVIOUS
<1>1. IndInv BY TypeInit, PartsInit DEF IndInv, Parts
<1>2. \A r \in Requests : Fate[r] = "unsent" BY <1>1, FateValue DEF Init
<1>3. Fate = [r \in Requests |-> "unsent"] BY <1>2 DEF Fate
<1>4. phase \in Up BY DEF Init, Up
<1> QED BY <1>3, <1>4 DEF Contract!Init

\* A step that leaves every event where it is, is invisible to the contract.
LEMMA Invisible ==
    ASSUME \A r \in Requests : FateOf(r)' = FateOf(r), (phase \in Up)' = (phase \in Up)
    PROVE  UNCHANGED Contract!vars
<1>1. Fate' = Fate BY DEF Fate
<1> QED BY <1>1 DEF Contract!vars

\* A request's fate depends on its answer, its rows, the counter and the crash victims only.
LEMMA SameFate ==
    ASSUME NEW r \in Requests,
           UNCHANGED <<rows, givenUp, crashLost>>, req'[r] = req[r]
    PROVE  FateOf(r)' = FateOf(r)
BY DEF FateOf, Stored, Acked

\* FateValue, of the state after a step.
LEMMA FateValueNext ==
    ASSUME IndInv', NEW r \in Requests
    PROVE  /\ FateOf(r)' = "stored" <=> r \in Stored'
           /\ FateOf(r)' = "counted" <=> r \in givenUp' \ Stored'
           /\ FateOf(r)' = "lost" <=> r \in crashLost'
           /\ FateOf(r)' = "acked" <=> r \in Acked' \ (Stored' \cup givenUp' \cup crashLost')
           /\ FateOf(r)' = "unsent" <=> req'[r] \in {"new", "hashing"}
           /\ FateOf(r)' = "refused" <=> req'[r] \notin {"new", "hashing", "202"}
           /\ FateOf(r)' \in {"stored", "counted", "lost", "acked", "unsent", "refused"}
<1>1. /\ Stored' \cup givenUp' \cup crashLost' \subseteq Acked'
      /\ givenUp' \cap crashLost' = {} /\ crashLost' \cap Stored' = {}
  BY DEF IndInv, OnePlaceEach
<1>2. r \in Acked' <=> req'[r] = "202" BY DEF Acked
<1> QED BY <1>1, <1>2 DEF FateOf

\* Two ways to read off Fate from FateOf.
LEMMA TurnShape ==
    ASSUME NEW S, NEW f,
           \A r \in Requests : FateOf(r)' = IF r \in S THEN f ELSE FateOf(r)
    PROVE  Contract!Turn(S, f)
<1>1. \A r \in Requests : Fate[r] = FateOf(r) BY DEF Fate
<1>2. Fate' = [r \in Requests |-> FateOf(r)'] BY DEF Fate
<1> QED BY <1>1, <1>2 DEF Contract!Turn

\* Which requests the mapping puts under each fate.
LEMMA WithShape ==
    ASSUME NEW f
    PROVE  Contract!With(f) = {r \in Requests : FateOf(r) = f}
BY DEF Contract!With, Fate

\* Any answer but 202 refuses the request.
LEMMA RefuseStep ==
    ASSUME IndInv, IndInv', NEW r \in Requests, NEW s \in Answer, s # "202",
           req[r] \in {"new", "hashing"}, phase \in Up, Reply(r, s),
           UNCHANGED <<phase, rows, givenUp, crashLost>>
    PROVE  Contract!Next
<1>1. req'[r] = s /\ \A x \in Requests : x # r => req'[x] = req[x]
  BY DEF Reply, IndInv, TypeOK
<1>2. FateOf(r)' = "refused" BY <1>1, FateValueNext DEF Answer
<1>3. \A x \in Requests : x # r => FateOf(x)' = FateOf(x) BY <1>1, SameFate
<1>4. Contract!Turn({r}, "refused") BY <1>2, <1>3, TurnShape
<1>5. Fate[r] = "unsent" BY FateValue
<1>6. Contract!Refuse(r) BY <1>4, <1>5 DEF Contract!Refuse
<1> QED BY <1>6 DEF Contract!Next

\* try_send maps to the contract's Ack or Refuse.
LEMMA TrySendStep ==
    ASSUME IndInv, IndInv', NEW r \in Requests, TrySend(r),
           req[r] \in {"new", "hashing"}, phase \in Up
    PROVE  Contract!Next
<1>1. CASE writer = "running" /\ Len(queue) < Capacity
  <2>1. Reply(r, "202") /\ UNCHANGED <<phase, rows, givenUp, crashLost>>
    BY <1>1 DEF TrySend, history
  <2>2. req'[r] = "202" /\ \A x \in Requests : x # r => req'[x] = req[x]
    BY <2>1 DEF Reply, IndInv, TypeOK
  <2>3. r \notin Acked BY DEF Acked
  <2>4. r \notin Stored \cup givenUp \cup crashLost BY <2>3 DEF IndInv, OnePlaceEach
  <2>5. r \in Acked' /\ Stored' = Stored BY <2>1, <2>2 DEF Acked, Stored
  <2>6. FateOf(r)' = "acked" BY <2>1, <2>4, <2>5, FateValueNext
  <2>7. \A x \in Requests : x # r => FateOf(x)' = FateOf(x) BY <2>1, <2>2, SameFate
  <2>8. Contract!Turn({r}, "acked") BY <2>6, <2>7, TurnShape
  <2>9. Fate[r] = "unsent" BY FateValue
  <2>10. Contract!Ack(r) BY <2>1, <2>8, <2>9 DEF Contract!Ack
  <2> QED BY <2>10 DEF Contract!Next
<1>2. CASE ~(writer = "running" /\ Len(queue) < Capacity)
  <2>1. Reply(r, "503") /\ UNCHANGED <<phase, rows, givenUp, crashLost>>
    BY <1>2 DEF TrySend, history
  <2> QED BY <2>1, RefuseStep DEF Answer
<1> QED BY <1>1, <1>2

\* A suspended handler leaves its request unsent.
LEMMA SuspendStep ==
    ASSUME IndInv, IndInv', NEW r \in Requests, AwaitSalt(r)
    PROVE  UNCHANGED Contract!vars
<1>1. /\ req[r] = "new" /\ Reply(r, "hashing")
      /\ UNCHANGED <<phase, rows, givenUp, crashLost>>
  BY DEF AwaitSalt, Arrives, history
<1>2. req'[r] = "hashing" /\ \A x \in Requests : x # r => req'[x] = req[x]
  BY <1>1 DEF Reply, IndInv, TypeOK
<1>3. FateOf(r)' = "unsent" /\ FateOf(r) = "unsent" BY <1>1, <1>2, FateValue, FateValueNext
<1>4. \A x \in Requests : x # r => FateOf(x)' = FateOf(x) BY <1>1, <1>2, SameFate
<1>5. \A x \in Requests : FateOf(x)' = FateOf(x) BY <1>3, <1>4
<1> QED BY <1>1, <1>5, Invisible

\* A statement that commits stores what was acknowledged of it.
LEMMA StoreStep ==
    ASSUME IndInv, IndInv', DbCommit
    PROVE  Contract!Next
<1> DEFINE S == {r \in Statement : FateOf(r) = "acked"}
<1>0. TypeOK /\ Parts BY DEF IndInv, Parts
<1>1. /\ stmt = "sent" /\ rows' = AddRows(Statement)
      /\ UNCHANGED <<phase, req, givenUp, crashLost>>
  BY DEF DbCommit, history
<1>2. Statement \subseteq Requests /\ Statement \subseteq Unsettled
  BY <1>0, <1>1, StatementShape, StatementInBatch
<1>3. Stored' = Stored \cup Statement
  BY <1>0, <1>1, <1>2, CommitRows, StatementShape DEF Stored
<1>4. \A r \in Statement : FateOf(r)' = "stored" BY <1>2, <1>3, FateValueNext
<1>5. \A r \in Statement : FateOf(r) = "acked" \/ FateOf(r) = "stored"
  BY <1>0, <1>2, FateValue, StatementShape, ToSetMember DEF IndInv, OnePlaceEach
<1>6. ASSUME NEW r \in Requests \ Statement PROVE FateOf(r)' = FateOf(r)
  <2>1. rows'[r] = rows[r] BY <1>0, <1>1, <1>2, CommitRows
  <2>2. r \in Stored' <=> r \in Stored BY <1>3
  <2>3. r \in Acked' <=> r \in Acked BY <1>1 DEF Acked
  <2> QED BY <1>1, <2>2, <2>3 DEF FateOf
<1>7. Contract!Turn(S, "stored") BY <1>2, <1>4, <1>5, <1>6, TurnShape
<1>8. S \subseteq Contract!With("acked") /\ S \in SUBSET Requests BY <1>2, WithShape
<1>9. phase \in Up BY <1>1, UpWhenBusy
<1> HIDE DEF S
<1>10. Contract!Store(S) BY <1>1, <1>7, <1>8, <1>9 DEF Contract!Store
<1> QED BY <1>8, <1>10 DEF Contract!Next

\* A failed single INSERT counts its event, unless the event is in the table.
LEMMA CountStep ==
    ASSUME IndInv, IndInv', InsertErr
    PROVE  Contract!Next \/ UNCHANGED Contract!vars
<1>0. TypeOK /\ Parts BY DEF IndInv, Parts
<1>1. /\ stmt = "failed"
      /\ givenUp' = IF cursor = 0 THEN givenUp ELSE givenUp \cup Statement
      /\ UNCHANGED <<phase, req, rows, crashLost>>
  BY DEF InsertErr
<1>2. phase \in Up BY <1>1, UpWhenBusy
<1>3. CASE cursor = 0
  <2>1. \A r \in Requests : FateOf(r)' = FateOf(r) BY <1>1, <1>3, SameFate
  <2> QED BY <1>1, <2>1, Invisible
<1>4. CASE cursor # 0
  <2>1. PICK x \in Requests : Statement = {x} /\ x \in Unsettled
    BY <1>0, <1>1, <1>4, StatementShape, StatementInBatch
  <2>2. Stored' = Stored /\ Acked' = Acked /\ givenUp' = givenUp \cup {x}
    BY <1>1, <1>4, <2>1 DEF Stored, Acked
  <2>3. \A r \in Requests : r # x => FateOf(r)' = FateOf(r)
    BY <1>1, <2>2 DEF FateOf
  <2>4. CASE x \in Stored
    <3>1. FateOf(x)' = "stored" /\ FateOf(x) = "stored"
      BY <2>2, <2>4, FateValue, FateValueNext
    <3>2. \A r \in Requests : FateOf(r)' = FateOf(r) BY <2>3, <3>1
    <3> QED BY <1>1, <3>2, Invisible
  <2>5. CASE x \notin Stored
    <3>1. FateOf(x)' = "counted" BY <2>2, <2>5, FateValueNext
    <3>2. x \in Acked BY <1>0, <2>1, StatementShape, ToSetMember DEF IndInv, OnePlaceEach
    <3>3. FateOf(x) = "acked" /\ Fate[x] = "acked"
      BY <2>1, <2>5, <3>2, FateValue DEF IndInv, OnePlaceEach
    <3>4. Contract!Turn({x}, "counted") BY <2>3, <3>1, TurnShape
    <3>5. Contract!Count(x) BY <1>1, <1>2, <3>3, <3>4 DEF Contract!Count
    <3> QED BY <3>5 DEF Contract!Next
  <2> QED BY <2>4, <2>5
<1> QED BY <1>3, <1>4

\* A crash loses what was acknowledged and is not in the table after it.
LEMMA CrashStep ==
    ASSUME IndInv, IndInv', Crash
    PROVE  Contract!Next
<1> DEFINE acked == {r \in Requests : FateOf(r) = "acked"}
           kept == {r \in acked : r \in Stored'}
<1>0. TypeOK /\ Parts BY DEF IndInv, Parts
<1>1. /\ phase \in Up /\ phase' = "crashed"
      /\ req' = [r \in Requests |-> IF req[r] = "hashing" THEN "dropped" ELSE req[r]]
      /\ crashLost' = crashLost \cup {r \in Unsettled : rows'[r] = 0}
      /\ UNCHANGED givenUp
  BY DEF Crash
<1>2. Stored \subseteq Stored' /\ Stored' \subseteq Stored \cup Unsettled
  <2>1. CASE rows' = rows BY <2>1 DEF Stored
  <2>2. CASE stmt = "sent" /\ rows' = AddRows(Statement)
    <3>1. Statement \subseteq Unsettled /\ Statement \subseteq Requests
      BY <1>0, <2>2, StatementShape, StatementInBatch
    <3>2. Stored' = Stored \cup Statement
      BY <1>0, <2>2, <3>1, CommitRows, StatementShape DEF Stored
    <3> QED BY <3>1, <3>2
  <2> QED BY <2>1, <2>2 DEF Crash
<1>3. \A r \in InFlight : FateOf(r) = "unsent" /\ FateOf(r)' = "refused"
  <2>1. \A r \in InFlight : r \in Requests /\ req[r] = "hashing" /\ req'[r] = "dropped"
    BY <1>1 DEF InFlight
  <2> QED BY <2>1, FateValue, FateValueNext
<1>4. \A r \in Requests \ InFlight : req'[r] = req[r] BY <1>1 DEF InFlight
<1>5. \A r \in kept : FateOf(r)' = "stored" BY FateValueNext
<1>6. ASSUME NEW r \in acked \ kept PROVE FateOf(r)' = "lost"
  <2>1. r \in Unsettled BY <1>6, FateValue DEF IndInv, NothingVanishes
  <2>2. rows'[r] = 0
    <3>1. r \in Requests /\ r \notin Stored' BY <1>6
    <3>2. rows' \in [Requests -> Nat] BY DEF IndInv, TypeOK
    <3> QED BY <3>1, <3>2 DEF Stored
  <2> QED BY <1>1, <1>6, <2>1, <2>2, FateValueNext
<1>7. ASSUME NEW r \in Requests, r \notin InFlight, r \notin acked
      PROVE  FateOf(r)' = FateOf(r)
  <2>1. r \in Acked' <=> r \in Acked BY <1>4, <1>7 DEF Acked
  <2>2. CASE r \in Stored BY <1>2, <2>2, FateValue, FateValueNext
  <2>3. CASE r \in givenUp \ Stored
    <3>1. r \notin Unsettled BY <2>3 DEF IndInv, OnePlaceEach
    <3>2. r \in givenUp' \ Stored' BY <1>1, <1>2, <2>3, <3>1
    <3> QED BY <2>3, <3>2, FateValue, FateValueNext
  <2>4. CASE r \in crashLost BY <1>1, <2>4, FateValue, FateValueNext
  <2>5. CASE r \notin Stored \cup givenUp \cup crashLost
    <3>1. r \notin Acked BY <1>7, <2>5, FateValue
    <3>2. req[r] # "202" /\ req'[r] = req[r] BY <1>4, <1>7, <3>1 DEF Acked
    <3> QED BY <3>2, FateValue, FateValueNext
  <2> QED BY <2>2, <2>3, <2>4, <2>5
<1>8. /\ Contract!With("unsent") = {r \in Requests : FateOf(r) = "unsent"}
      /\ Contract!With("acked") = acked
  BY WithShape
<1>9. InFlight \subseteq Contract!With("unsent") /\ kept \subseteq acked
      /\ InFlight \in SUBSET Requests /\ kept \in SUBSET Requests
  BY <1>3, <1>8 DEF InFlight
<1>10. \A r \in Requests : Fate[r] = FateOf(r) BY DEF Fate
<1>11. \A r \in InFlight : r \notin acked BY <1>3
<1> HIDE DEF acked, kept
<1>12. Fate' = [r \in Requests |-> CASE r \in InFlight -> "refused"
                                     [] r \in kept -> "stored"
                                     [] r \in acked \ kept -> "lost"
                                     [] OTHER -> Fate[r]]
  <2>1. Fate' = [r \in Requests |-> FateOf(r)'] BY DEF Fate
  <2>2. ASSUME NEW r \in Requests
        PROVE  FateOf(r)' = CASE r \in InFlight -> "refused"
                             [] r \in kept -> "stored"
                             [] r \in acked \ kept -> "lost"
                             [] OTHER -> Fate[r]
    <3>1. CASE r \in InFlight BY <1>3, <1>9, <1>11, <3>1
    <3>2. CASE r \in kept BY <1>5, <1>9, <1>11, <3>2
    <3>3. CASE r \in acked \ kept BY <1>6, <1>11, <3>3
    <3>4. CASE r \notin InFlight /\ r \notin acked BY <1>7, <1>9, <1>10, <3>4
    <3> QED BY <3>1, <3>2, <3>3, <3>4
  <2> QED BY <2>1, <2>2
<1>13. phase' \notin Up BY <1>1 DEF Up
<1>14. (phase \in Up)' = FALSE BY <1>13
<1>15. Contract!Crash(InFlight, kept)
  BY <1>1, <1>8, <1>9, <1>12, <1>14 DEF Contract!Crash
<1> QED BY <1>9, <1>15 DEF Contract!Next

\* Every step maps to a step of the contract or leaves its variables alone.
LEMMA ContractStep ==
    ASSUME IndInv, IndInv', [Next]_vars
    PROVE  Contract!Next \/ UNCHANGED Contract!vars
<1>1. ASSUME NEW r \in Requests, Handler(r)
      PROVE  Contract!Next \/ UNCHANGED Contract!vars
  <2>1. Arrives(r) => phase \in Up /\ req[r] \in {"new", "hashing"} BY DEF Arrives, Up
  <2>2. req[r] = "hashing" => phase \in Up BY UpWhenBusy DEF InFlight
  <2>3. CASE Reject(r) BY <2>1, <2>3, RefusalStatus, RefuseStep DEF Reject, Answer, history
  <2>5. CASE Forbid(r) BY <2>1, <2>5, RefuseStep DEF Forbid, Answer, history
  <2>6. CASE Abandon(r) BY <2>2, <2>6, RefuseStep DEF Abandon, Answer, history
  <2>7. CASE CollectNow(r) BY <2>1, <2>7, TrySendStep DEF CollectNow
  <2>8. CASE CollectAfterSalt(r) BY <2>2, <2>8, TrySendStep DEF CollectAfterSalt
  <2>9. CASE AwaitSalt(r) BY <2>9, SuspendStep
  <2> QED BY <1>1, <2>3, <2>5, <2>6, <2>7, <2>8, <2>9 DEF Handler
\* Steps that move no event in or out of the table, the counter or the answers.
<1>2. ASSUME UNCHANGED <<req, rows, givenUp, crashLost>>, (phase \in Up)' = (phase \in Up)
      PROVE  UNCHANGED Contract!vars
  <2>1. \A r \in Requests : FateOf(r)' = FateOf(r) BY <1>2, SameFate
  <2> QED BY <1>2, <2>1, Invisible
<1>3. CASE RecvMany \/ DbReject \/ DbUnreachable \/ ReplyLost \/ InsertOk \/ WriterStops
  <2>1. UNCHANGED <<phase, req, rows, givenUp, crashLost>>
    BY <1>3 DEF RecvMany, DbReject, DbUnreachable, ReplyLost, InsertOk, WriterStops, history
  <2> QED BY <1>2, <2>1
<1>4. CASE DbCommit BY <1>4, StoreStep
<1>5. CASE InsertErr BY <1>5, CountStep
<1>6. CASE ShutdownSignal \/ ServeReturns
  <2>1. UNCHANGED <<req, rows, givenUp, crashLost>>
    BY <1>6 DEF ShutdownSignal, ServeReturns, history
  <2>2. phase \in Up /\ phase' \in Up BY <1>6 DEF ShutdownSignal, ServeReturns, Up
  <2> QED BY <1>2, <2>1, <2>2
<1>7. CASE ExitProcess
  <2>1. UNCHANGED <<req, rows, givenUp, crashLost>> BY <1>7 DEF ExitProcess, history
  <2>2. phase \in Up /\ phase' \notin Up BY <1>7 DEF ExitProcess, Up
  <2>3. queue = <<>> /\ batch = <<>> BY <1>7 DEF ExitProcess, IndInv, ControlShape
  <2>4. Unsettled = {} BY <2>3 DEF Unsettled, ToSet
  <2>5. \A r \in Requests : FateOf(r) # "acked"
    BY <2>4, FateValue DEF IndInv, NothingVanishes
  <2>6. Contract!With("acked") = {} BY <2>5, WithShape
  <2>7. \A r \in Requests : FateOf(r)' = FateOf(r) BY <2>1, SameFate
  <2>8. Fate' = Fate BY <2>7 DEF Fate
  <2>9. Contract!Stop BY <2>2, <2>6, <2>8 DEF Contract!Stop
  <2> QED BY <2>9 DEF Contract!Next
<1>8. CASE Crash BY <1>8, CrashStep
<1>9. CASE Restart
  <2>1. UNCHANGED <<req, rows, givenUp, crashLost>> BY <1>9 DEF Restart
  <2>2. phase \notin Up /\ phase' \in Up BY <1>9 DEF Restart, Up
  <2>3. \A r \in Requests : FateOf(r)' = FateOf(r) BY <2>1, SameFate
  <2>4. Fate' = Fate BY <2>3 DEF Fate
  <2>5. Contract!Start BY <2>2, <2>4 DEF Contract!Start
  <2> QED BY <2>5 DEF Contract!Next
<1>10. CASE UNCHANGED vars
  <2>1. UNCHANGED <<phase, req, rows, givenUp, crashLost>> BY <1>10 DEF vars
  <2> QED BY <1>2, <2>1
<1> QED BY <1>1, <1>3, <1>4, <1>5, <1>6, <1>7, <1>8, <1>9, <1>10
        DEF Next, Database, Writer, Process

(* The queue, the batch, the statement and the shutdown together keep the   *)
(* promise IngestContract makes for each event (its safety part).           *)
THEOREM Refinement == Spec => RefinesContract
<1>1. Init => Contract!Init BY ContractInit
<1>2. IndInv /\ IndInv' /\ [Next]_vars => [Contract!Next]_(Contract!vars)
  BY ContractStep
<1> QED BY <1>1, <1>2, Inductive, PTL DEF Spec, RefinesContract, Contract!Spec

-----------------------------------------------------------------------------
(* Liveness.  The provers cannot look into ENABLED, so the theorems take     *)
(* from outside that the fair steps are possible when their guards hold      *)
(* (Ready).  Nor is there an induction over temporal formulas, so they stop  *)
(* one step short of AckedSettles and ShutdownCompletes: a number falls,     *)
(* again and again, until what is promised has happened.                     *)

\* How many steps the database and the writer still take, at most, for the statement.
StmtLeft == CASE stmt = "sent" -> 3 [] stmt = "committed" -> 2 [] stmt = "failed" -> 1
              [] OTHER -> 0

\* And for the batch.
BatchLeft == 3 * (Len(batch) - cursor) + StmtLeft

\* The writer or the channel holds r, and n bounds the steps until r is settled: those of
\* the retry up to r's own statement, and for an event in the channel the batches before
\* it, in which each event costs at most the batch's statement and its own.
Waits(r, n) ==
    \/ \E i \in 1..Len(batch) : i >= cursor /\ batch[i] = r /\ n = 3 * (i - cursor) + StmtLeft
    \/ \E i \in 1..Len(queue) : queue[i] = r /\ n = 7 * i + BatchLeft

Closer(r, n) == r \notin Unsettled \/ \E m \in 0..n-1 : Waits(r, m)

\* What n is counted from, before and after a step.
LeftShape ==
    /\ batch \in Seq(Requests) /\ Len(batch) \in Nat /\ cursor \in 0..Len(batch)
    /\ queue \in Seq(Requests) /\ Len(queue) \in Nat
    /\ StmtLeft \in 0..3 /\ BatchLeft \in Nat
    /\ stmt = "sent" => StmtLeft = 3
    /\ stmt = "committed" => StmtLeft = 2
    /\ stmt = "failed" => StmtLeft = 1
    /\ stmt = "idle" => batch = <<>> /\ Len(batch) = 0 /\ cursor = 0 /\ BatchLeft = 0
    /\ stmt # "idle" => Len(batch) > 0
    /\ stmt \in {"idle", "sent", "committed", "failed"}

LEMMA Lengths == IndInv => LeftShape
<1> SUFFICES ASSUME IndInv PROVE LeftShape OBVIOUS
<1>1. /\ batch \in Seq(Requests) /\ Len(batch) \in Nat /\ cursor \in 0..Len(batch)
      /\ queue \in Seq(Requests) /\ Len(queue) \in Nat
      /\ stmt \in {"idle", "sent", "committed", "failed"}
      /\ batch = <<>> <=> Len(batch) = 0
      /\ stmt = "idle" <=> batch = <<>>
  BY SeqShape DEF IndInv, TypeOK, ControlShape
<1>2. /\ StmtLeft \in 0..3
      /\ stmt = "sent" => StmtLeft = 3
      /\ stmt = "committed" => StmtLeft = 2
      /\ stmt = "failed" => StmtLeft = 1
      /\ stmt = "idle" => StmtLeft = 0
  BY <1>1 DEF StmtLeft
<1> QED BY <1>1, <1>2 DEF BatchLeft, LeftShape

LEMMA LengthsNext == IndInv' => LeftShape'
BY Lengths, PTL

\* An event answered 202 that is not settled waits for some number of steps.
LEMMA AckedWaits ==
    ASSUME IndInv, NEW r \in Unsettled
    PROVE  \E n \in Nat : Waits(r, n)
<1>1. CASE r \in ToSet(queue)
  <2>1. PICK i \in 1..Len(queue) : queue[i] = r BY <1>1, Lengths, SeqShape, ToSetMember DEF LeftShape
  <2>2. 7 * i + BatchLeft \in Nat BY <2>1, Lengths DEF LeftShape
  <2> QED BY <2>1, <2>2 DEF Waits
<1>2. CASE r \notin ToSet(queue)
  <2>1. PICK i \in 1..Len(batch) : i >= cursor /\ batch[i] = r
    BY <1>2, StatementShape DEF IndInv, Parts
  <2>2. 3 * (i - cursor) + StmtLeft \in Nat BY <2>1, Lengths DEF LeftShape
  <2> QED BY <2>1, <2>2 DEF Waits
<1> QED BY <1>1, <1>2

\* A handler that enqueues behind r, and whoever touches neither channel nor writer,
\* leaves r where it is.
LEMMA StillWaits ==
    ASSUME IndInv, NEW r \in Requests, NEW n \in Nat, Waits(r, n),
           UNCHANGED <<batch, cursor, stmt>>,
           queue' = queue \/ \E x \in Requests : queue' = Append(queue, x)
    PROVE  Waits(r, n)'
<1>1. StmtLeft' = StmtLeft /\ BatchLeft' = BatchLeft BY DEF StmtLeft, BatchLeft
<1>2. \A i \in 1..Len(queue) : i \in 1..Len(queue') /\ queue'[i] = queue[i]
  <2>1. ASSUME NEW x \in Requests, queue' = Append(queue, x)
        PROVE  \A i \in 1..Len(queue) : i \in 1..Len(queue') /\ queue'[i] = queue[i]
    BY <2>1, Lengths, AppendProperties DEF LeftShape
  <2> QED BY <2>1
<1> QED BY <1>1, <1>2 DEF Waits

\* A smaller rest after the same way is a smaller number.
LEMMA Steps ==
    ASSUME NEW way \in Nat, NEW rest \in Nat, NEW less \in Nat, less < rest
    PROVE  way + less \in 0..(way + rest) - 1
OBVIOUS

\* A statement that gets nearer to its end brings nearer every event that waits for it.
LEMMA StatementMoves ==
    ASSUME IndInv, IndInv', NEW r \in Requests, NEW n \in Nat, Waits(r, n),
           UNCHANGED <<batch, cursor, queue>>, StmtLeft' < StmtLeft
    PROVE  Closer(r, n)'
<1>1. StmtLeft \in 0..3 /\ StmtLeft' \in 0..3 /\ cursor \in Nat /\ Len(batch) \in Nat
      /\ cursor <= Len(batch)
  BY Lengths, LengthsNext DEF LeftShape
<1>2. CASE \E i \in 1..Len(batch) : i >= cursor /\ batch[i] = r /\ n = 3 * (i - cursor) + StmtLeft
  <2>1. PICK i \in 1..Len(batch) : i >= cursor /\ batch[i] = r /\ n = 3 * (i - cursor) + StmtLeft
    BY <1>2
  <2>2. i - cursor \in Nat BY <1>1, <2>1
  <2>3. 3 * (i - cursor) + StmtLeft' \in 0..n-1
    <3>1. 3 * (i - cursor) \in Nat BY <2>2
    <3>2. n = 3 * (i - cursor) + StmtLeft BY <2>1
    <3>3. StmtLeft' \in Nat /\ StmtLeft \in Nat /\ StmtLeft' < StmtLeft BY <1>1
    <3> QED BY <3>1, <3>2, <3>3, Steps
  <2> QED BY <2>1, <2>3 DEF Closer, Waits
<1>3. CASE \E i \in 1..Len(queue) : queue[i] = r /\ n = 7 * i + BatchLeft
  <2>1. PICK i \in 1..Len(queue) : queue[i] = r /\ n = 7 * i + BatchLeft BY <1>3
  <2>2. 7 * i + BatchLeft' \in 0..n-1 BY <1>1, <2>1, Lengths, LengthsNext DEF LeftShape, BatchLeft
  <2> QED BY <2>1, <2>2 DEF Closer, Waits
<1> QED BY <1>2, <1>3 DEF Waits

\* The retry goes on to the next event: whose turn it was is settled, the others come nearer.
LEMMA RetryMoves ==
    ASSUME IndInv, IndInv', NEW r \in Requests, NEW n \in Nat, Waits(r, n),
           stmt \in {"committed", "failed"},
           cursor' = cursor + 1, stmt' = "sent", UNCHANGED <<batch, queue>>
    PROVE  Closer(r, n)'
<1>1. /\ StmtLeft \in 1..3 /\ StmtLeft' = 3 /\ cursor \in Nat /\ Len(batch) \in Nat
      /\ cursor < Len(batch)
  BY Lengths, LengthsNext DEF LeftShape
<1>2. ASSUME NEW i \in 1..Len(batch), i >= cursor, batch[i] = r, n = 3 * (i - cursor) + StmtLeft
      PROVE  Closer(r, n)'
  <2>1. CASE i > cursor
    <3>1. 3 * (i - cursor') + StmtLeft' \in 0..n-1 /\ i >= cursor' BY <1>1, <1>2, <2>1
    <3> QED BY <1>2, <3>1 DEF Closer, Waits
  <2>2. CASE i = cursor
    <3> SUFFICES ASSUME r \in Unsettled' PROVE FALSE BY DEF Closer
    <3>1. r \in ToSet(batch) /\ r \notin ToSet(queue)
      BY <1>2, Lengths, SeqShape, ToSetMember DEF LeftShape, IndInv, OnePlaceEach
    <3>2. PICK j \in 1..Len(batch) : j >= cursor + 1 /\ batch[j] = r
      BY <3>1 DEF Unsettled
    <3>3. j = i
      BY <1>2, <3>2, Lengths, SeqShape DEF LeftShape, IndInv, OnePlaceEach, IsInjective
    <3> QED BY <1>1, <2>2, <3>2, <3>3
  <2> QED BY <1>1, <1>2, <2>1, <2>2
<1>3. ASSUME NEW i \in 1..Len(queue), queue[i] = r, n = 7 * i + BatchLeft
      PROVE  Closer(r, n)'
  <2>1. BatchLeft' < BatchLeft /\ BatchLeft' \in Nat /\ BatchLeft \in Nat
    <3>1. BatchLeft = 3 * (Len(batch) - cursor) + StmtLeft BY DEF BatchLeft
    <3>2. BatchLeft' = 3 * (Len(batch) - (cursor + 1)) + 3 BY <1>1 DEF BatchLeft
    <3> QED BY <1>1, <3>1, <3>2
  <2>2. 7 * i + BatchLeft' \in 0..n-1
    <3>1. 7 * i \in Nat BY Lengths DEF LeftShape
    <3>2. n = 7 * i + BatchLeft BY <1>3
    <3> QED BY <2>1, <3>1, <3>2, Steps
  <2> QED BY <1>3, <2>2 DEF Closer, Waits
<1> QED BY <1>2, <1>3 DEF Waits

\* The batch is done: its events are settled, those in the channel come nearer.
LEMMA BatchEnds ==
    ASSUME IndInv, IndInv', NEW r \in Requests, NEW n \in Nat, Waits(r, n),
           stmt # "idle", batch' = <<>>, cursor' = 0, stmt' = "idle", UNCHANGED queue
    PROVE  Closer(r, n)'
<1>1. ASSUME NEW i \in 1..Len(batch), batch[i] = r PROVE Closer(r, n)'
  <2>1. r \notin ToSet(queue)
    BY <1>1, Lengths, SeqShape, ToSetMember DEF LeftShape, IndInv, OnePlaceEach
  <2>2. Unsettled' = ToSet(queue) BY DEF Unsettled
  <2> QED BY <2>1, <2>2 DEF Closer
<1>2. ASSUME NEW i \in 1..Len(queue), queue[i] = r, n = 7 * i + BatchLeft
      PROVE  Closer(r, n)'
  <2>1. BatchLeft' = 0 /\ BatchLeft \in Nat /\ BatchLeft > 0
    BY Lengths, LengthsNext DEF LeftShape, BatchLeft
  <2>2. 7 * i + BatchLeft' \in 0..n-1 BY <1>2, <2>1
  <2> QED BY <1>2, <2>2 DEF Closer, Waits
<1> QED BY <1>1, <1>2 DEF Waits

\* What recv_many does to positions.
LEMMA RecvShape ==
    ASSUME IndInv, RecvMany
    PROVE  /\ RecvCount \in 1..Len(queue) /\ Len(queue) \in Nat
           /\ Len(batch') = RecvCount /\ \A i \in 1..RecvCount : batch'[i] = queue[i]
           /\ Len(queue') = Len(queue) - RecvCount
           /\ \A i \in 1..(Len(queue) - RecvCount) : queue'[i] = queue[RecvCount + i]
<1> DEFINE n == RecvCount
<1>1. queue \in Seq(Requests) /\ Len(queue) \in Nat /\ Len(queue) > 0
  BY Lengths, SeqShape DEF LeftShape, RecvMany
<1>2. n \in 1..Len(queue) BY <1>1, BoundsPositive DEF RecvCount
<1>3. \A i \in 1..Len(queue) : queue[i] \in Requests BY <1>1, ElementOfSeq
<1>4. batch' = SubSeq(queue, 1, n) /\ queue' = SubSeq(queue, n + 1, Len(queue)) BY DEF RecvMany
<1> HIDE DEF n
<1>5. Len(batch') = n /\ \A i \in 1..n : batch'[i] = queue[i]
  BY <1>1, <1>2, <1>3, <1>4, SubSeqProperties
<1>6. /\ Len(queue') = IF n+1 <= Len(queue) THEN Len(queue) - (n+1) + 1 ELSE 0
      /\ \A i \in 1..(Len(queue) - (n+1) + 1) : queue'[i] = queue[n+1+i-1]
  <2>1. n + 1 \in Int /\ Len(queue) \in Int /\ \A i \in n+1..Len(queue) : queue[i] \in Requests
    BY <1>1, <1>2, <1>3
  <2> QED BY <1>4, <2>1, SubSeqProperties
<1>7. Len(queue) - (n+1) + 1 = Len(queue) - n /\ (~(n+1 <= Len(queue)) => Len(queue) - n = 0)
  BY <1>1, <1>2
<1>8. ASSUME NEW i \in 1..(Len(queue) - n) PROVE queue'[i] = queue[n + i]
  <2>1. n+1+i-1 = n + i BY <1>1, <1>2
  <2> QED BY <1>6, <1>7, <2>1
<1> QED BY <1>1, <1>2, <1>5, <1>6, <1>7, <1>8 DEF n

\* A new batch: its events have fewer steps before them than they had in the channel, and
\* so has every event behind them.
LEMMA RecvMoves ==
    ASSUME IndInv, IndInv', NEW r \in Requests, NEW n \in Nat, Waits(r, n), RecvMany
    PROVE  Closer(r, n)'
<1> DEFINE k == RecvCount
<1>1. /\ BatchLeft = 0 /\ Len(batch) = 0 /\ cursor' = 0 /\ stmt' = "sent"
      /\ StmtLeft' = 3 /\ BatchLeft' = 3 * (Len(batch') - cursor') + 3
  BY Lengths, LengthsNext DEF LeftShape, RecvMany, BatchLeft
<1>2. /\ k \in 1..Len(queue) /\ Len(queue) \in Nat
      /\ Len(batch') = k /\ \A i \in 1..k : batch'[i] = queue[i]
      /\ Len(queue') = Len(queue) - k
      /\ \A i \in 1..(Len(queue) - k) : queue'[i] = queue[k + i]
  BY RecvShape
<1> HIDE DEF k
<1>3. PICK i \in 1..Len(queue) : queue[i] = r /\ n = 7 * i BY <1>1 DEF Waits
<1>4. CASE i <= k
  <2>1. i \in 1..Len(batch') /\ i >= cursor' /\ batch'[i] = r BY <1>1, <1>2, <1>3, <1>4
  <2>2. 3 * (i - cursor') + StmtLeft' \in 0..n-1 BY <1>1, <1>3
  <2> QED BY <2>1, <2>2 DEF Closer, Waits
<1>5. CASE i > k
  <2>1. i - k \in 1..Len(queue') /\ queue'[i - k] = r
    <3>1. i - k \in 1..(Len(queue) - k) /\ k + (i - k) = i BY <1>2, <1>3, <1>5
    <3> QED BY <1>2, <1>3, <3>1
  <2>2. 7 * (i - k) + BatchLeft' \in 0..n-1 BY <1>1, <1>2, <1>3, <1>5
  <2> QED BY <2>1, <2>2 DEF Closer, Waits
<1> QED BY <1>2, <1>3, <1>4, <1>5

\* A fair step of the database or the writer brings every waiting event nearer.
LEMMA FairStepMoves ==
    ASSUME IndInv, IndInv', NEW r \in Requests, NEW n \in Nat, Waits(r, n),
           Database \/ Writer
    PROVE  Closer(r, n)'
<1>1. CASE Database
  <2>1. UNCHANGED <<batch, cursor, queue>>
    BY <1>1 DEF Database, DbCommit, DbReject, DbUnreachable, ReplyLost
  <2>2. \/ stmt = "sent" /\ stmt' \in {"committed", "failed"}
        \/ stmt = "committed" /\ stmt' = "failed"
    BY <1>1 DEF Database, DbCommit, DbReject, DbUnreachable, ReplyLost
  <2>3. StmtLeft' < StmtLeft BY <2>2, Lengths, LengthsNext DEF LeftShape
  <2> QED BY <2>1, <2>3, StatementMoves
<1>2. CASE RecvMany BY <1>2, RecvMoves
<1>3. ASSUME NextSingle, stmt \in {"committed", "failed"}, UNCHANGED queue
      PROVE  Closer(r, n)'
  <2>1. CASE cursor < Len(batch) BY <1>3, <2>1, RetryMoves DEF NextSingle
  <2>2. CASE ~(cursor < Len(batch)) BY <1>3, <2>2, BatchEnds DEF NextSingle
  <2> QED BY <2>1, <2>2
<1>4. CASE InsertOk
  <2>1. CASE cursor = 0 BY <1>4, <2>1, BatchEnds DEF InsertOk
  <2>2. CASE cursor # 0 BY <1>3, <1>4, <2>2 DEF InsertOk
  <2> QED BY <2>1, <2>2
<1>5. CASE InsertErr BY <1>3, <1>5 DEF InsertErr
<1>6. CASE WriterStops
  <2>1. Len(batch) = 0 /\ Len(queue) = 0 BY <1>6, Lengths, SeqShape DEF LeftShape, WriterStops
  <2> QED BY <2>1 DEF Waits
<1> QED BY <1>1, <1>2, <1>4, <1>5, <1>6 DEF Writer

\* No other step pushes a waiting event back or gets between the writer and the database;
\* a crash settles it.
LEMMA OtherStepsWait ==
    ASSUME IndInv, IndInv', NEW r \in Requests, NEW n \in Nat, Waits(r, n), [Next]_vars
    PROVE  Closer(r, n)' \/ (Waits(r, n)' /\ UNCHANGED stmt)
<1>1. ASSUME UNCHANGED <<batch, cursor, stmt>>,
             queue' = queue \/ \E x \in Requests : queue' = Append(queue, x)
      PROVE  Waits(r, n)' /\ UNCHANGED stmt
  BY <1>1, StillWaits
<1>2. ASSUME NEW x \in Requests, Handler(x) PROVE Waits(r, n)' /\ UNCHANGED stmt
  <2>1. /\ UNCHANGED <<batch, cursor, stmt>>
        /\ queue' = queue \/ queue' = Append(queue, x)
    BY <1>2 DEF Handler, Reject, Forbid, CollectNow, AwaitSalt, CollectAfterSalt, Abandon, TrySend
  <2> QED BY <1>1, <2>1
<1>3. CASE Database \/ Writer BY <1>3, FairStepMoves
<1>4. CASE ShutdownSignal \/ ServeReturns \/ ExitProcess \/ Restart
  BY <1>1, <1>4 DEF ShutdownSignal, ServeReturns, ExitProcess, Restart
<1>5. CASE Crash
  <2>1. queue' = <<>> /\ batch' = <<>> BY <1>5 DEF Crash
  <2>2. Unsettled' = {} BY <2>1 DEF Unsettled, ToSet
  <2> QED BY <2>2 DEF Closer
<1>6. CASE UNCHANGED vars BY <1>1, <1>6 DEF vars
<1> QED BY <1>2, <1>3, <1>4, <1>5, <1>6 DEF Next, Process

\* While an event waits, a fair step is possible: the database's for a statement on the
\* wire, the writer's otherwise.
LEMMA WaitingIsWork ==
    ASSUME IndInv, NEW r \in Requests, NEW n \in Nat, Waits(r, n), stmt # "sent"
    PROVE  stmt \in {"committed", "failed"} \/ (stmt = "idle" /\ writer = "running" /\ queue # <<>>)
<1>1. CASE stmt = "idle"
  <2>1. PICK i \in 1..Len(queue) : queue[i] = r BY <1>1, Lengths DEF LeftShape, Waits
  <2>2. queue # <<>> BY <2>1, Lengths, SeqShape DEF LeftShape
  <2>3. writer = "running" BY <2>2 DEF IndInv, TypeOK, ControlShape
  <2> QED BY <1>1, <2>2, <2>3
<1> QED BY <1>1, Lengths DEF LeftShape

(* An event that is answered 202 comes nearer to being settled, again and    *)
(* again, whatever arrives behind it, whichever statements fail and whatever *)
(* replies are lost: the number of steps that it may still wait, which it    *)
(* always has (AckedWaits), falls until it is stored, counted or lost in a   *)
(* crash.                                                                    *)
THEOREM ProgressTheorem ==
    FairSpec /\ []Ready =>
        \A r \in Requests : \A n \in Nat :
            Waits(r, n) ~> (r \notin Unsettled \/ \E m \in 0..n-1 : Waits(r, m))
<1>1. ASSUME NEW r \in Requests, NEW n \in Nat
      PROVE  FairSpec /\ []Ready => (Waits(r, n) ~> Closer(r, n))
  <2> DEFINE W == Waits(r, n)
             C == Closer(r, n)
             S == stmt = "sent"
             D == DbCommit \/ DbReject \/ DbUnreachable
  <2>1. IndInv /\ IndInv' /\ W /\ [Next]_vars => C' \/ (W' /\ (S' <=> S))
    BY OtherStepsWait
  <2>2. IndInv /\ IndInv' /\ W /\ <<D>>_vars => C' BY FairStepMoves DEF Database
  <2>3. IndInv /\ IndInv' /\ W /\ <<Writer>>_vars => C' BY FairStepMoves
  <2>4. IndInv /\ Ready /\ W /\ S => ENABLED <<D>>_vars BY DEF Ready
  <2>5. IndInv /\ Ready /\ W /\ ~S => ENABLED <<Writer>>_vars BY WaitingIsWork DEF Ready
  <2>6. FairSpec => []IndInv /\ [][Next]_vars /\ WF_vars(D) /\ WF_vars(Writer)
    BY Inductive, PTL DEF FairSpec, Fairness, Spec
  <2> HIDE DEF W, C, S, D
  <2>7. FairSpec /\ []Ready => (W ~> C) BY <2>1, <2>2, <2>3, <2>4, <2>5, <2>6, PTL
  <2> QED BY <2>7 DEF W, C
<1>2. FairSpec /\ []Ready => \A r \in Requests : \A n \in Nat : (Waits(r, n) ~> Closer(r, n))
  BY <1>1
<1> QED BY <1>2 DEF Closer

\* What the time-out promises of one handler.
HandlerFair(r) == WF_vars(CollectAfterSalt(r) \/ Abandon(r))

(* Every handler that is suspended at the salt ends, and serve returns when  *)
(* none is under way.                                                        *)
THEOREM DrainTheorem ==
    FairSpec /\ []Ready =>
        /\ \A r \in Requests : r \in InFlight ~> r \notin InFlight
        /\ phase = "draining" /\ InFlight = {} ~> phase # "draining" \/ InFlight # {}
<1>1. FairSpec => \A r \in Requests : HandlerFair(r)
  BY PTL DEF FairSpec, Fairness, HandlerFair
<1>2. ASSUME NEW r \in Requests
      PROVE  FairSpec /\ []Ready /\ HandlerFair(r) => (r \in InFlight ~> r \notin InFlight)
  <2> DEFINE H == r \in InFlight
             N == r \notin InFlight
  <2>1. IndInv /\ <<CollectAfterSalt(r) \/ Abandon(r)>>_vars => N'
    BY DEF IndInv, TypeOK, InFlight, CollectAfterSalt, Abandon, TrySend, Reply
  <2>2. Ready /\ H => ENABLED <<CollectAfterSalt(r) \/ Abandon(r)>>_vars BY DEF Ready
  <2>3. H \/ N OBVIOUS
  <2>4. FairSpec => [][Next]_vars BY PTL DEF FairSpec, Spec
  <2> HIDE DEF H, N
  <2>5. FairSpec /\ []Ready /\ HandlerFair(r) => (H ~> N)
    BY <2>1, <2>2, <2>3, <2>4, Inductive, PTL DEF FairSpec, HandlerFair
  <2> QED BY <2>5 DEF H, N
<1>3. FairSpec /\ []Ready => \A r \in Requests : (r \in InFlight ~> r \notin InFlight)
  BY <1>1, <1>2
<1>4. FairSpec /\ []Ready
        => (phase = "draining" /\ InFlight = {} ~> phase # "draining" \/ InFlight # {})
  <2> DEFINE P == phase = "draining" /\ InFlight = {}
             Q == phase # "draining" \/ InFlight # {}
  <2>1. <<ServeReturns>>_vars => Q' BY DEF ServeReturns
  <2>2. Ready /\ P => ENABLED <<ServeReturns>>_vars BY DEF Ready
  <2>3. P \/ Q OBVIOUS
  <2>4. FairSpec => [][Next]_vars /\ WF_vars(ServeReturns)
    BY PTL DEF FairSpec, Fairness, Spec
  <2> HIDE DEF P, Q
  <2>5. FairSpec /\ []Ready => (P ~> Q) BY <2>1, <2>2, <2>3, <2>4, PTL
  <2> QED BY <2>5 DEF P, Q
<1> QED BY <1>3, <1>4

\* What the writer still has to do, in steps, once nobody sends any more.
FlushLeft == 7 * Len(queue) + BatchLeft + (IF writer = "running" THEN 1 ELSE 0)

Flushing(n) == phase = "flushing" /\ n = FlushLeft

Flushed(n) == phase # "flushing" \/ \E m \in 0..n-1 : Flushing(m)

\* Each step of the writer or the database leaves less to do.
LEMMA LessToFlush ==
    ASSUME IndInv, IndInv', Database \/ Writer
    PROVE  FlushLeft \in Nat /\ FlushLeft' \in Nat /\ FlushLeft' < FlushLeft
<1> DEFINE w == IF writer = "running" THEN 1 ELSE 0
<1>1. /\ w \in 0..1 /\ w' \in 0..1
      /\ Len(queue) \in Nat /\ Len(queue)' \in Nat
      /\ BatchLeft \in Nat /\ BatchLeft' \in Nat
  BY Lengths, LengthsNext DEF LeftShape
<1>2. FlushLeft = 7 * Len(queue) + BatchLeft + w /\ FlushLeft' = 7 * Len(queue)' + BatchLeft' + w'
  BY DEF FlushLeft
<1>3. FlushLeft \in Nat /\ FlushLeft' \in Nat
  <2> HIDE DEF w
  <2> QED BY <1>1, <1>2
<1>4. queue' = queue /\ writer' = writer /\ BatchLeft' < BatchLeft => FlushLeft' < FlushLeft
  <2> SUFFICES ASSUME queue' = queue, writer' = writer, BatchLeft' < BatchLeft
               PROVE  FlushLeft' < FlushLeft
    OBVIOUS
  <2>1. Len(queue)' = Len(queue) /\ w' = w OBVIOUS
  <2> HIDE DEF w
  <2> QED BY <1>1, <1>2, <2>1
<1>5. CASE Database
  <2>1. UNCHANGED <<batch, cursor, queue, writer>>
    BY <1>5 DEF Database, DbCommit, DbReject, DbUnreachable, ReplyLost
  <2>2. \/ stmt = "sent" /\ stmt' \in {"committed", "failed"}
        \/ stmt = "committed" /\ stmt' = "failed"
    BY <1>5 DEF Database, DbCommit, DbReject, DbUnreachable, ReplyLost
  <2>3. StmtLeft' < StmtLeft /\ StmtLeft \in Nat /\ StmtLeft' \in Nat
    BY <2>2, Lengths, LengthsNext DEF LeftShape
  <2>4. 3 * (Len(batch) - cursor) \in Nat BY Lengths DEF LeftShape
  <2>5. BatchLeft = 3 * (Len(batch) - cursor) + StmtLeft BY DEF BatchLeft
  <2>6. BatchLeft' = 3 * (Len(batch) - cursor) + StmtLeft' BY <2>1 DEF BatchLeft
  <2>7. BatchLeft' < BatchLeft BY <2>3, <2>4, <2>5, <2>6
  <2> QED BY <1>3, <1>4, <2>1, <2>7
<1>6. ASSUME NextSingle, stmt \in {"committed", "failed"} PROVE BatchLeft' < BatchLeft
  <2>1. BatchLeft = 3 * (Len(batch) - cursor) + StmtLeft /\ StmtLeft \in 1..2
        /\ Len(batch) \in Nat /\ cursor \in 0..Len(batch)
    BY <1>6, Lengths DEF LeftShape, BatchLeft
  <2>2. CASE cursor < Len(batch)
    <3>1. BatchLeft' = 3 * (Len(batch) - (cursor + 1)) + 3
      BY <1>6, <2>2, LengthsNext DEF NextSingle, LeftShape, BatchLeft
    <3> QED BY <2>1, <2>2, <3>1
  <2>3. CASE ~(cursor < Len(batch))
    <3>1. BatchLeft' = 0 BY <1>6, <2>3, LengthsNext DEF NextSingle, LeftShape
    <3> QED BY <2>1, <3>1
  <2> QED BY <2>2, <2>3
<1>7. CASE InsertOk
  <2>1. queue' = queue /\ writer' = writer BY <1>7 DEF InsertOk
  <2>2. CASE cursor = 0
    <3>1. stmt' = "idle" /\ stmt = "committed" BY <1>7, <2>2 DEF InsertOk
    <3>2. BatchLeft' = 0 BY <3>1, LengthsNext DEF LeftShape
    <3>3. 3 * (Len(batch) - cursor) \in Nat /\ StmtLeft = 2 BY <3>1, Lengths DEF LeftShape
    <3>4. BatchLeft' < BatchLeft BY <3>2, <3>3 DEF BatchLeft
    <3> QED BY <1>3, <1>4, <2>1, <3>4
  <2>3. CASE cursor # 0
    <3>1. BatchLeft' < BatchLeft BY <1>6, <1>7, <2>3 DEF InsertOk
    <3> QED BY <1>3, <1>4, <2>1, <3>1
  <2> QED BY <2>2, <2>3
<1>8. CASE InsertErr
  <2>1. queue' = queue /\ writer' = writer BY <1>8 DEF InsertErr
  <2>2. BatchLeft' < BatchLeft BY <1>6, <1>8 DEF InsertErr
  <2> QED BY <1>3, <1>4, <2>1, <2>2
<1>9. CASE RecvMany
  <2>1. BatchLeft = 0 /\ w' = w BY <1>9, Lengths DEF LeftShape, RecvMany
  <2>2. RecvCount \in 1..Len(queue) /\ Len(queue)' = Len(queue) - RecvCount
    BY <1>9, RecvShape
  <2>3. BatchLeft' = 3 * RecvCount + 3
    <3>1. Len(batch)' = RecvCount /\ cursor' = 0 /\ stmt' = "sent" BY <1>9, RecvShape DEF RecvMany
    <3>2. StmtLeft' = 3 BY <3>1, LengthsNext DEF LeftShape
    <3> QED BY <2>2, <3>1, <3>2 DEF BatchLeft
  <2> HIDE DEF w
  <2> QED BY <1>1, <1>2, <1>3, <2>1, <2>2, <2>3
<1>10. CASE WriterStops
  <2>1. w = 1 /\ w' = 0 /\ Len(queue)' = Len(queue) BY <1>10 DEF WriterStops
  <2>2. BatchLeft' = BatchLeft
    <3>1. StmtLeft' = StmtLeft BY <1>10 DEF WriterStops, StmtLeft
    <3> QED BY <1>10, <3>1 DEF WriterStops, BatchLeft
  <2> HIDE DEF w
  <2> QED BY <1>1, <1>2, <1>3, <2>1, <2>2
<1> QED BY <1>5, <1>7, <1>8, <1>9, <1>10 DEF Writer

\* While the process flushes, nobody adds to what the writer has to do.
LEMMA FlushStep ==
    ASSUME IndInv, IndInv', NEW n \in Nat, Flushing(n), [Next]_vars
    PROVE  /\ Flushed(n)' \/ (Flushing(n)' /\ UNCHANGED <<stmt, writer>>)
           /\ Database \/ Writer \/ ExitProcess => Flushed(n)'
<1>1. phase = "flushing" /\ n = FlushLeft /\ InFlight = {}
  BY DEF Flushing, IndInv, ControlShape
<1>2. CASE Database \/ Writer
  <2>1. FlushLeft' \in 0..n-1 BY <1>1, <1>2, LessToFlush
  <2> QED BY <2>1 DEF Flushed, Flushing
<1>3. ASSUME NEW r \in Requests, Handler(r) PROVE FALSE
  BY <1>1, <1>3 DEF Handler, Reject, Forbid, CollectNow, AwaitSalt, CollectAfterSalt, Abandon,
                    Arrives, InFlight
<1>4. CASE Process
  <2>1. phase' # "flushing"
    BY <1>1, <1>4 DEF Process, ShutdownSignal, ServeReturns, ExitProcess, Crash, Restart
  <2> QED BY <2>1 DEF Flushed
<1>5. CASE UNCHANGED vars
  <2>1. UNCHANGED <<phase, queue, writer, batch, cursor, stmt>> BY <1>5 DEF vars
  <2>2. FlushLeft' = FlushLeft BY <2>1 DEF FlushLeft, BatchLeft, StmtLeft
  <2> QED BY <1>1, <2>1, <2>2 DEF Flushing, Database, Writer, DbCommit, DbReject, DbUnreachable,
       ReplyLost, RecvMany, InsertOk, InsertErr, WriterStops, ExitProcess, NextSingle
<1> QED BY <1>2, <1>3, <1>4, <1>5 DEF Next, Process

(* Once serve has returned the exit comes nearer, again and again: the       *)
(* number of steps that the writer still has to take falls until the process *)
(* has ended.                                                                *)
THEOREM FlushTheorem ==
    FairSpec /\ []Ready =>
        \A n \in Nat :
            Flushing(n) ~> (phase # "flushing" \/ \E m \in 0..n-1 : Flushing(m))
<1>1. ASSUME NEW n \in Nat
      PROVE  FairSpec /\ []Ready => (Flushing(n) ~> Flushed(n))
  <2> DEFINE P == Flushing(n)
             Q == Flushed(n)
             S == stmt = "sent"
             R == writer = "running"
             D == DbCommit \/ DbReject \/ DbUnreachable
  <2>1. IndInv /\ IndInv' /\ P /\ [Next]_vars => Q' \/ (P' /\ (S' <=> S) /\ (R' <=> R))
    BY FlushStep
  <2>2. IndInv /\ IndInv' /\ P /\ [Next]_vars /\ <<D>>_vars => Q' BY FlushStep DEF Database
  <2>3. IndInv /\ IndInv' /\ P /\ [Next]_vars /\ <<Writer>>_vars => Q' BY FlushStep
  <2>4. IndInv /\ IndInv' /\ P /\ [Next]_vars /\ <<ExitProcess>>_vars => Q' BY FlushStep
  <2>5. Ready /\ P /\ S => ENABLED <<D>>_vars BY DEF Ready
  <2>6. IndInv /\ Ready /\ P /\ ~S /\ R => ENABLED <<Writer>>_vars
    <3>1. IndInv /\ P => Senders = {} /\ stmt \in {"idle", "sent", "committed", "failed"}
      BY DEF Flushing, Senders, IndInv, ControlShape, TypeOK
    <3> QED BY <3>1 DEF Ready
  <2>7. IndInv /\ Ready /\ P /\ ~R => ENABLED <<ExitProcess>>_vars
    BY DEF Ready, Flushing, IndInv, TypeOK
  <2>8. FairSpec => []IndInv /\ [][Next]_vars /\ WF_vars(D) /\ WF_vars(Writer)
                    /\ WF_vars(ExitProcess)
    BY Inductive, PTL DEF FairSpec, Fairness, Spec
  <2> HIDE DEF P, Q, S, R, D
  <2>9. FairSpec /\ []Ready => (P ~> Q)
    BY <2>1, <2>2, <2>3, <2>4, <2>5, <2>6, <2>7, <2>8, PTL
  <2> QED BY <2>9 DEF P, Q
<1>2. FairSpec /\ []Ready => \A n \in Nat : (Flushing(n) ~> Flushed(n)) BY <1>1
<1> QED BY <1>2 DEF Flushed
=============================================================================
