------------------------------- MODULE Ingest -------------------------------
(***************************************************************************)
(* The write path of the analytics server: the /collect handler            *)
(* (server/src/ingest.rs, collect), the bounded channel and its single     *)
(* writer task (spawn_writer_on), the INSERT it issues (db.rs,             *)
(* insert_events), the graceful shutdown of main.rs, and the crash and     *)
(* restart of the process.                                                 *)
(*                                                                         *)
(* A request stands for one POST; its body is abstracted to how far it     *)
(* gets.  The admission verdict of the tenant snapshot is a free choice    *)
(* here (SiteRegistry models it), and so is whether the handler suspends   *)
(* for the daily salt (DailySalt models that).                             *)
(***************************************************************************)
EXTENDS Integers, Sequences, FiniteSets, SequencesExt

CONSTANTS Requests,   \* the POSTs to /collect
          Body,       \* what each body is: see BodyKind
          Capacity,   \* QUEUE_CAPACITY, 10 000 in the code
          BatchMax    \* BATCH_MAX, 128 in the code

\* "poison" passes RawPayload::validate and is refused by Postgres, e.g. a
\* string with a NUL character.
BodyKind == {"malformed", "invalid", "good", "poison"}

ASSUME RequestsFinite == IsFiniteSet(Requests)
ASSUME BodyKnown == Body \in [Requests -> BodyKind]
ASSUME BoundsPositive == Capacity \in Nat \ {0} /\ BatchMax \in Nat \ {0}

VARIABLES
    \* the process
    phase,      \* "serving", "draining", "flushing", "exited" or "crashed"
    req,        \* req[r]: "new", "hashing" (suspended at the salt), or the answer
    queue,      \* the mpsc channel
    writer,     \* "running", or "stopped" once the receiver is gone
    batch,      \* the writer's Vec of events, <<>> while it waits in recv_many
    cursor,     \* 0: the statement is the whole batch; i: only batch[i], the retry
    stmt,       \* the writer's statement: "idle", "sent", "committed" or "failed"
    cnt,        \* the in-memory Prometheus counters
    \* the database
    rows,       \* rows[r]: rows of analytics_events that hold request r
    \* history, read by the properties only
    givenUp,    \* events whose own single INSERT was reported failed
    unreachable, \* events whose single INSERT never reached the database
    ambiguous,  \* events of a statement that committed, whose reply was lost
    crashLost,  \* acknowledged events a crash discarded
    old         \* requests that earlier lives of the process took

proc    == <<phase, req, queue, writer, batch, cursor, stmt, cnt>>
history == <<givenUp, unreachable, ambiguous, crashLost, old>>
vars    == <<phase, req, queue, writer, batch, cursor, stmt, cnt, rows,
             givenUp, unreachable, ambiguous, crashLost, old>>

Counter == {"malformed", "invalid", "full", "closed", "failed"}
Up      == {"serving", "draining", "flushing"}
Answer  == {"202", "400", "403", "422", "503", "dropped"}

TypeOK ==
    /\ phase \in Up \cup {"exited", "crashed"}
    /\ req \in [Requests -> {"new", "hashing"} \cup Answer]
    /\ queue \in Seq(Requests)
    /\ writer \in {"running", "stopped"}
    /\ batch \in Seq(Requests)
    /\ cursor \in 0..Len(batch)
    /\ stmt \in {"idle", "sent", "committed", "failed"}
    /\ cnt \in [Counter -> Nat]
    /\ rows \in [Requests -> Nat]
    /\ givenUp \subseteq Requests
    /\ unreachable \subseteq Requests
    /\ ambiguous \subseteq Requests
    /\ crashLost \subseteq Requests
    /\ old \subseteq Requests

-----------------------------------------------------------------------------
Init ==
    /\ phase = "serving"
    /\ req = [r \in Requests |-> "new"]
    /\ queue = <<>>
    /\ writer = "running"
    /\ batch = <<>>
    /\ cursor = 0
    /\ stmt = "idle"
    /\ cnt = [c \in Counter |-> 0]
    /\ rows = [r \in Requests |-> 0]
    /\ givenUp = {}
    /\ unreachable = {}
    /\ ambiguous = {}
    /\ crashLost = {}
    /\ old = {}

-----------------------------------------------------------------------------
(* The handler *)

InFlight == {r \in Requests : req[r] = "hashing"}

Reply(r, status) == req' = [req EXCEPT ![r] = status]
Bump(c) == cnt' = [cnt EXCEPT ![c] = @ + 1]

\* A body has been read.  While draining no connection is accepted, but a request that
\* was already being read still reaches the handler.
Arrives(r) == phase \in {"serving", "draining"} /\ req[r] = "new"

\* How a body that never becomes an event is refused; each refusal has its counter.
Refusal == [malformed |-> "422", invalid |-> "400"]

Reject(r) ==
    /\ Arrives(r)
    /\ Body[r] \in DOMAIN Refusal
    /\ Reply(r, Refusal[Body[r]])
    /\ Bump(Body[r])
    /\ UNCHANGED <<phase, queue, writer, batch, cursor, stmt, rows, history>>

Forbid(r) ==
    /\ Arrives(r)
    /\ Body[r] \in {"good", "poison"}
    /\ Reply(r, "403")
    /\ UNCHANGED <<phase, queue, writer, batch, cursor, stmt, cnt, rows, history>>

\* Variants, not the code: definitions named X_Y are slips in X that the checks
\* must notice (PROJECT.json, "mutants").
TrySend_KeepsShedEvent(r) ==
    LET full == Len(queue) >= Capacity
    IN  /\ queue' = Append(queue, r)
        /\ Reply(r, IF full THEN "503" ELSE "202")
        /\ IF full THEN Bump("full") ELSE UNCHANGED cnt
        /\ UNCHANGED <<phase, writer, batch, cursor, stmt, rows, history>>

\* try_send never waits: it enqueues, or answers 503 and counts why.
TrySend(r) ==
    /\ IF writer = "running" /\ Len(queue) < Capacity
       THEN /\ queue' = Append(queue, r)
            /\ Reply(r, "202")
            /\ UNCHANGED cnt
       ELSE /\ UNCHANGED queue
            /\ Reply(r, "503")
            /\ Bump(IF writer = "running" THEN "full" ELSE "closed")
    /\ UNCHANGED <<phase, writer, batch, cursor, stmt, rows, history>>

\* Sessions off, no client address, or the salt is cached: no await on the way.
CollectNow(r) ==
    /\ Arrives(r)
    /\ Body[r] \in {"good", "poison"}
    /\ TrySend(r)

\* The salt must be fetched: the handler is suspended, and holds a sender.
AwaitSalt(r) ==
    /\ Arrives(r)
    /\ Body[r] \in {"good", "poison"}
    /\ Reply(r, "hashing")
    /\ UNCHANGED <<phase, queue, writer, batch, cursor, stmt, cnt, rows, history>>

\* The salt lookup answered; an error only costs the visitor hash.
CollectAfterSalt(r) ==
    /\ req[r] = "hashing"
    /\ TrySend(r)

\* The 15 s TimeoutLayer or the client's disconnect drops the suspended handler.
Abandon(r) ==
    /\ req[r] = "hashing"
    /\ Reply(r, "dropped")
    /\ UNCHANGED <<phase, queue, writer, batch, cursor, stmt, cnt, rows, history>>

-----------------------------------------------------------------------------
(* The writer task and its statement *)

Statement == IF cursor = 0 THEN ToSet(batch) ELSE {batch[cursor]}
Poisoned(S) == \E r \in S : Body[r] = "poison"
AddRows(S) == [r \in Requests |-> IF r \in S THEN rows[r] + 1 ELSE rows[r]]

RecvCount == IF Len(queue) <= BatchMax THEN Len(queue) ELSE BatchMax

RecvMany_DropsRest ==
    /\ writer = "running"
    /\ stmt = "idle"
    /\ queue # <<>>
    /\ batch' = SubSeq(queue, 1, RecvCount)
    /\ queue' = <<>>
    /\ cursor' = 0
    /\ stmt' = "sent"
    /\ UNCHANGED <<phase, req, writer, cnt, rows, history>>

RecvMany ==
    /\ writer = "running"
    /\ stmt = "idle"
    /\ queue # <<>>
    /\ batch' = SubSeq(queue, 1, RecvCount)
    /\ queue' = SubSeq(queue, RecvCount + 1, Len(queue))
    /\ cursor' = 0
    /\ stmt' = "sent"
    /\ UNCHANGED <<phase, req, writer, cnt, rows, history>>

\* One multi-row INSERT: it stores every row of the statement, or none.
DbCommit ==
    /\ stmt = "sent"
    /\ ~Poisoned(Statement)
    /\ rows' = AddRows(Statement)
    /\ stmt' = "committed"
    /\ UNCHANGED <<phase, req, queue, writer, batch, cursor, cnt, history>>

DbReject ==
    /\ stmt = "sent"
    /\ Poisoned(Statement)
    /\ stmt' = "failed"
    /\ UNCHANGED <<phase, req, queue, writer, batch, cursor, cnt, rows, history>>

\* No pooled connection within acquire_timeout, or it broke before the commit.
DbUnreachable ==
    /\ stmt = "sent"
    /\ stmt' = "failed"
    /\ unreachable' = IF cursor = 0 THEN unreachable ELSE unreachable \cup Statement
    /\ UNCHANGED <<phase, req, queue, writer, batch, cursor, cnt, rows,
                   givenUp, ambiguous, crashLost, old>>

\* The INSERT committed and the connection broke before the reply arrived.
ReplyLost ==
    /\ stmt = "committed"
    /\ stmt' = "failed"
    /\ ambiguous' = ambiguous \cup Statement
    /\ UNCHANGED <<phase, req, queue, writer, batch, cursor, cnt, rows,
                   givenUp, unreachable, crashLost, old>>

\* The for loop over the batch goes on, or batch.clear() ends it.
NextSingle ==
    IF cursor < Len(batch)
    THEN /\ cursor' = cursor + 1
         /\ stmt' = "sent"
         /\ UNCHANGED batch
    ELSE /\ cursor' = 0
         /\ stmt' = "idle"
         /\ batch' = <<>>

InsertOk_RetriesAnyway ==
    /\ stmt = "committed"
    /\ NextSingle
    /\ UNCHANGED <<phase, req, queue, writer, cnt, rows, history>>

InsertOk ==
    /\ stmt = "committed"
    /\ IF cursor = 0
       THEN /\ batch' = <<>>
            /\ stmt' = "idle"
            /\ UNCHANGED cursor
       ELSE NextSingle
    /\ UNCHANGED <<phase, req, queue, writer, cnt, rows, history>>

InsertErr_NoRetry ==
    /\ stmt = "failed"
    /\ batch' = <<>>
    /\ cursor' = 0
    /\ stmt' = "idle"
    /\ UNCHANGED <<phase, req, queue, writer, cnt, rows, history>>

InsertErr_GivesUpBatch ==
    /\ stmt = "failed"
    /\ batch' = <<>>
    /\ cursor' = 0
    /\ stmt' = "idle"
    /\ Bump("failed")
    /\ givenUp' = givenUp \cup Statement
    /\ UNCHANGED <<phase, req, queue, writer, rows,
                   unreachable, ambiguous, crashLost, old>>

InsertErr_CountsBatchToo ==
    /\ stmt = "failed"
    /\ NextSingle
    /\ Bump("failed")
    /\ givenUp' = IF cursor = 0 THEN givenUp ELSE givenUp \cup Statement
    /\ UNCHANGED <<phase, req, queue, writer, rows,
                   unreachable, ambiguous, crashLost, old>>

\* A failed batch is retried one event at a time; a failed single is counted.
InsertErr ==
    /\ stmt = "failed"
    /\ NextSingle
    /\ IF cursor = 0
       THEN UNCHANGED <<cnt, givenUp>>
       ELSE Bump("failed") /\ givenUp' = givenUp \cup Statement
    /\ UNCHANGED <<phase, req, queue, writer, rows,
                   unreachable, ambiguous, crashLost, old>>

-----------------------------------------------------------------------------
(* Shutdown, crash, restart *)

Senders_BackgroundTask == {"router"} \cup InFlight

\* The router and every running handler own a clone of the sender.
Senders == (IF phase \in {"serving", "draining"} THEN {"router"} ELSE {}) \cup InFlight

ShutdownSignal ==
    /\ phase = "serving"
    /\ phase' = "draining"
    /\ UNCHANGED <<req, queue, writer, batch, cursor, stmt, cnt, rows, history>>

\* with_graceful_shutdown: serve returns when the last connection is done, and
\* the router is dropped with it.
ServeReturns ==
    /\ phase = "draining"
    /\ InFlight = {}
    /\ phase' = "flushing"
    /\ UNCHANGED <<req, queue, writer, batch, cursor, stmt, cnt, rows, history>>

WriterStops_QueueNotDrained ==
    /\ writer = "running"
    /\ stmt = "idle"
    /\ Senders = {}
    /\ writer' = "stopped"
    /\ UNCHANGED <<phase, req, queue, batch, cursor, stmt, cnt, rows, history>>

\* recv_many returns 0: no sender is left and the queue is empty.
WriterStops ==
    /\ writer = "running"
    /\ stmt = "idle"
    /\ queue = <<>>
    /\ Senders = {}
    /\ writer' = "stopped"
    /\ UNCHANGED <<phase, req, queue, batch, cursor, stmt, cnt, rows, history>>

ExitProcess_NoAwait ==
    /\ phase = "flushing"
    /\ phase' = "exited"
    /\ UNCHANGED <<req, queue, writer, batch, cursor, stmt, cnt, rows, history>>

\* main awaits the writer's handle and returns.
ExitProcess ==
    /\ phase = "flushing"
    /\ writer = "stopped"
    /\ phase' = "exited"
    /\ UNCHANGED <<req, queue, writer, batch, cursor, stmt, cnt, rows, history>>

\* What the process has acknowledged and not yet settled.
Unsettled == ToSet(queue) \cup {batch[i] : i \in {j \in 1..Len(batch) : j >= cursor}}

\* SIGKILL, OOM or power loss.  A statement on the wire may still be committed.
Crash ==
    /\ phase \in Up
    /\ \/ rows' = rows
       \/ /\ stmt = "sent"
          /\ ~Poisoned(Statement)
          /\ rows' = AddRows(Statement)
    /\ crashLost' = crashLost \cup {r \in Unsettled : rows'[r] = 0}
    /\ req' = [r \in Requests |-> IF req[r] = "hashing" THEN "dropped" ELSE req[r]]
    /\ phase' = "crashed"
    /\ writer' = "stopped"
    /\ queue' = <<>>
    /\ batch' = <<>>
    /\ cursor' = 0
    /\ stmt' = "idle"
    /\ UNCHANGED <<cnt, givenUp, unreachable, ambiguous, old>>

Restart ==
    /\ phase \in {"exited", "crashed"}
    /\ phase' = "serving"
    /\ writer' = "running"
    /\ cnt' = [c \in Counter |-> 0]
    /\ old' = {r \in Requests : req[r] # "new"}
    /\ UNCHANGED <<req, queue, batch, cursor, stmt, rows,
                   givenUp, unreachable, ambiguous, crashLost>>

-----------------------------------------------------------------------------
Handler(r) == \/ Reject(r) \/ Forbid(r)
              \/ CollectNow(r) \/ AwaitSalt(r) \/ CollectAfterSalt(r) \/ Abandon(r)
Database == DbCommit \/ DbReject \/ DbUnreachable \/ ReplyLost
Writer   == RecvMany \/ InsertOk \/ InsertErr \/ WriterStops
Process  == ShutdownSignal \/ ServeReturns \/ ExitProcess \/ Crash \/ Restart

Next == (\E r \in Requests : Handler(r)) \/ Database \/ Writer \/ Process

Spec == Init /\ [][Next]_vars

\* tokio keeps polling ready tasks; the TimeoutLayer bounds a suspended handler;
\* acquire_timeout and TCP bound a statement.  Nothing is assumed of clients, of
\* signals, of crashes or of the supervisor that restarts the process.
Fairness ==
    /\ \A r \in Requests : WF_vars(CollectAfterSalt(r) \/ Abandon(r))
    /\ WF_vars(DbCommit \/ DbReject \/ DbUnreachable)
    /\ WF_vars(Writer)
    /\ WF_vars(ServeReturns)
    /\ WF_vars(ExitProcess)

FairSpec == Spec /\ Fairness

\* The fair steps are possible whenever their guards hold.  True of every reachable state
\* (it can be added to the INVARIANTS of a run); the provers take it as a hypothesis, since
\* they cannot look into ENABLED.
Ready ==
    /\ \A r \in InFlight : ENABLED <<CollectAfterSalt(r) \/ Abandon(r)>>_vars
    /\ stmt = "sent" => ENABLED <<DbCommit \/ DbReject \/ DbUnreachable>>_vars
    /\ \/ stmt \in {"committed", "failed"}
       \/ stmt = "idle" /\ writer = "running" /\ (queue # <<>> \/ Senders = {})
       => ENABLED <<Writer>>_vars
    /\ phase = "draining" /\ InFlight = {} => ENABLED <<ServeReturns>>_vars
    /\ phase = "flushing" /\ writer = "stopped" => ENABLED <<ExitProcess>>_vars

-----------------------------------------------------------------------------
(* Properties *)

Acked  == {r \in Requests : req[r] = "202"}
Stored == {r \in Requests : rows[r] > 0}

\* Every event answered 202 is where something will account for it: in the
\* channel, in the part of the batch the writer has not settled, in the table, in
\* the failure counter, or among the victims of a crash (ingest.rs:58-80: the
\* retry loop and batch.clear() together must not skip an event).
NothingVanishes ==
    Acked \subseteq Unsettled \cup Stored \cup givenUp \cup crashLost

\* The places exclude each other: what the writer still holds has not been counted
\* or written off, what is counted was not also a crash victim, no event waits
\* twice, and only an event answered 202 is ever stored, counted or written off
\* (a 503 or a dropped request leaves no row behind that a retry would double).
OnePlaceEach ==
    /\ Unsettled \cap (givenUp \cup crashLost) = {}
    /\ givenUp \cap crashLost = {}
    /\ crashLost \cap Stored = {}
    /\ IsInjective(queue) /\ IsInjective(batch) /\ ToSet(queue) \cap ToSet(batch) = {}
    /\ ToSet(queue) \cup ToSet(batch) \cup Stored \cup givenUp \cup crashLost \subseteq Acked

\* One bad row costs one event (ingest.rs:65-67): an event is given up only if
\* Postgres refuses that very event, or its own single INSERT met a database that
\* was unreachable or whose reply was lost.  Sharing a batch with it costs nothing.
PoisonCostsOnlyItself ==
    givenUp \subseteq {r \in Requests : Body[r] = "poison"} \cup unreachable \cup ambiguous

\* The retry after a failed batch can store an event twice only if the batch had
\* in fact committed; and never more than twice (ingest.rs:64-80).
DuplicateNeedsLostReply ==
    \A r \in Requests : /\ rows[r] <= 2
                        /\ rows[r] = 2 => r \in ambiguous

\* The counters say exactly what this life of the process dropped: each refusal and
\* each abandoned event is counted once, under its own reason (ingest.rs:25, 77,
\* 132, 146, 206, 213), and the closed-channel counter never moves: no handler
\* meets a stopped writer, not even during shutdown.
CountersExact ==
    LET now(S) == Cardinality(S \ old)
        answered(s) == {r \in Requests : req[r] = s}
    IN  /\ cnt["malformed"] = now(answered("422"))
        /\ cnt["invalid"] = now(answered("400"))
        /\ cnt["full"] = now(answered("503"))
        /\ cnt["failed"] = now(givenUp)
        /\ cnt["closed"] = 0

\* "Awaiting it is what makes a restart lossless" (main.rs:178-181): after a clean
\* exit every acknowledged event is stored or counted, unless an earlier crash had
\* already taken it, and no handler was cut off.
ShutdownLossless ==
    phase = "exited" => /\ Acked \ crashLost \subseteq Stored \cup givenUp
                        /\ InFlight = {}

\* A termination signal ends in an exit: the last sender is dropped, the writer
\* drains the queue and the process returns (main.rs:170-185).
ShutdownCompletes == phase = "draining" ~> phase \in {"exited", "crashed"}

-----------------------------------------------------------------------------
(* The inductive invariant behind the properties (proved in IngestProofs) *)

\* Where the process, the writer and its statement can be relative to each other.
\* A stopped writer means that no sender is left, so no handler meets it.
ControlShape ==
    /\ stmt = "idle" <=> batch = <<>>
    /\ phase \notin {"serving", "draining"} => InFlight = {}
    /\ phase \in {"exited", "crashed"} => writer = "stopped"
    /\ writer = "stopped" => /\ phase \notin {"serving", "draining"}
                             /\ queue = <<>>
                             /\ batch = <<>>

\* What a statement's state says about its events.
StatementOutcome ==
    /\ stmt = "committed" => Statement \subseteq Stored
    /\ stmt = "failed" /\ cursor # 0 =>
           Statement \subseteq {r \in Requests : Body[r] = "poison"} \cup unreachable \cup ambiguous

\* How often an event still in memory can be in the table already: never before its
\* batch's statement, and after that only if the statement's reply was lost.
RowsSoFar ==
    /\ \A r \in ToSet(queue) : rows[r] = 0
    /\ \A i \in 1..Len(batch) :
          LET r == batch[i]
              tried == cursor # 0   \* the batch statement has failed
          IN  /\ i > cursor /\ (tried \/ stmt = "failed") =>
                     rows[r] <= 1 /\ (rows[r] = 1 => r \in ambiguous)
              /\ i > cursor /\ ~tried /\ stmt = "sent" => rows[r] = 0
              /\ i > cursor /\ ~tried /\ stmt = "committed" => rows[r] = 1
              /\ i = cursor /\ stmt = "sent" =>
                     rows[r] <= 1 /\ (rows[r] = 1 => r \in ambiguous)

IndInv ==
    /\ TypeOK
    /\ ControlShape
    /\ StatementOutcome
    /\ RowsSoFar
    /\ NothingVanishes
    /\ OnePlaceEach
    /\ PoisonCostsOnlyItself
    /\ DuplicateNeedsLostReply

\* What keeps CountersExact: a request an earlier life took has its answer, and nothing
\* of it is left in memory for this life's writer to give up and count.
OldSettled ==
    /\ \A r \in old : req[r] \notin {"new", "hashing"}
    /\ old \cap (ToSet(queue) \cup ToSet(batch)) = {}

-----------------------------------------------------------------------------
(* Refinement: the queue, the batch and the statement implement the contract *)

FateOf(r) ==
    CASE r \in Stored -> "stored"
      [] r \in givenUp \ Stored -> "counted"
      [] r \in crashLost \ (Stored \cup givenUp) -> "lost"
      [] r \in Acked \ (Stored \cup givenUp \cup crashLost) -> "acked"
      [] req[r] \in {"new", "hashing"} -> "unsent"
      [] OTHER -> "refused"

Fate == [r \in Requests |-> FateOf(r)]

Contract == INSTANCE IngestContract WITH fate <- Fate, up <- phase \in Up

\* What the handler, the writer and the shutdown do to an event is a step of the
\* contract, and every acknowledged event settles (see IngestContract).
RefinesContract == Contract!Spec
AckedSettles == Contract!AckedSettles
=============================================================================
