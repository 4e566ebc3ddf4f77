------------------------------- MODULE Backup -------------------------------
(***************************************************************************)
(* The nightly backup (deploy/dullahan-backup.sh) as systemd runs it, with    *)
(* the local directories that it prunes and the copies that it ships to the   *)
(* object store, and what tells the operator that it does not work: the       *)
(* state of its unit, which the self-check reads, and the off-box check       *)
(* (deploy/dullahan-backup-freshness.sh).  The restore drill                  *)
(* (deploy/dullahan-restore-drill.sh) is what a copy must pass.              *)
(*                                                                         *)
(* A run is named by the tick at which it began; a file is there whole or is  *)
(* no dump.  RCLONE_REMOTE is set.                                          *)
(***************************************************************************)
EXTENDS Integers, FiniteSetsExt, Functions

CONSTANTS Dbs,     \* BACKUP_DATABASES
          KeepDaily, KeepWeekly, KeepMonthly,
          Week, Month, \* in ticks; they need not nest
          MaxAge,  \* MAX_AGE_HOURS, in ticks
          Expiry,  \* the lifecycle rule of the bucket, in ticks
          MaxNow,  \* bound: the clock
          MaxCuts  \* bound: runs that a kill or a reboot cuts off

ASSUME CalendarPositive == {Week, Month} \subseteq Nat \ {0}
ASSUME KeepsTheLast == KeepDaily \in Nat \ {0} /\ {KeepWeekly, KeepMonthly} \subseteq Nat
ASSUME AgesNat == MaxAge \in Nat /\ Expiry \in Nat /\ MaxAge <= Expiry
ASSUME BackupBounds == MaxNow \in Nat \ {0} /\ MaxCuts \in Nat

VARIABLES
    now,
    local,    \* local[r]: the directory of run r on the host
    remote,   \* remote[r]: what the bucket holds of run r
    pc,       \* where the run of this tick is
    todo,     \* the databases it has still to dump
    failed,   \* FAILED_DBS
    unit,     \* the state of the unit: a failed oneshot stays failed
    cuts,
    \* history
    good,     \* the runs that ended with 0
    left,     \* the runs whose directories have stayed behind
    last,     \* the newest run that has begun
    forgotten \* a reboot has cleared the unit of a run that failed or was going on

run     == <<todo, failed>>
history == <<good, left, last, forgotten>>
vars    == <<now, local, remote, pc, run, unit, cuts, history>>

Copy    == [dumps : SUBSET Dbs, manifest : BOOLEAN]
Stamps  == 1 .. MaxNow
Phases  == {"idle", "dump", "upload", "prune", "report"}

TypeOK ==
    /\ now \in 1 .. MaxNow
    /\ DOMAIN local \subseteq Stamps /\ DOMAIN remote \subseteq Stamps
    /\ \A r \in DOMAIN local : local[r] \in Copy
    /\ \A r \in DOMAIN remote : remote[r] \in Copy
    /\ pc \in Phases
    /\ todo \subseteq Dbs /\ failed \subseteq Dbs
    /\ unit \in {"ok", "failed"}
    /\ cuts \in 0 .. MaxCuts
    /\ good \subseteq Stamps /\ left \subseteq Stamps /\ last \in 0 .. MaxNow
    /\ forgotten \in BOOLEAN

NoRuns == [r \in {} |-> [dumps |-> {}, manifest |-> FALSE]]

Init ==
    /\ now = 1
    /\ local = NoRuns /\ remote = NoRuns
    /\ pc = "idle" /\ todo = {} /\ failed = {}
    /\ unit = "ok"
    /\ cuts = 0
    /\ good = {} /\ left = {} /\ last = 0
    /\ forgotten = FALSE

Without(runs, gone) == Restrict(runs, DOMAIN runs \ gone)

Set(runs, r, copy) == [q \in DOMAIN runs \cup {r} |-> IF q = r THEN copy ELSE runs[q]]

\* The oneshot ends; a run that ends is remembered by its unit.
Ends(result) ==
    /\ pc' = "idle" /\ todo' = {} /\ failed' = {}
    /\ unit' = result
    /\ forgotten' = FALSE

-----------------------------------------------------------------------------
(* The run *)

\* age, its recipients, rclone or Postgres are not there: nothing is made.
Refuse ==
    /\ pc = "idle" /\ last < now
    /\ Ends("failed")
    /\ last' = now
    /\ UNCHANGED <<now, local, remote, cuts, good, left>>

Begin ==
    /\ pc = "idle" /\ last < now
    /\ local' = Set(local, now, [dumps |-> {}, manifest |-> FALSE])
    /\ pc' = "dump" /\ todo' = Dbs /\ failed' = {}
    /\ last' = now
    /\ UNCHANGED <<now, remote, unit, cuts, good, left, forgotten>>

DumpOk(db) ==
    /\ pc = "dump" /\ db \in todo
    /\ local' = [local EXCEPT ![now].dumps = @ \cup {db}]
    /\ todo' = todo \ {db}
    /\ UNCHANGED <<now, remote, pc, failed, unit, cuts, history>>

\* No such database, pg_dump fails, or its output is too small: the file goes, and the
\* run goes on.
DumpErr(db) ==
    /\ pc = "dump" /\ db \in todo
    /\ todo' = todo \ {db}
    /\ failed' = failed \cup {db}
    /\ UNCHANGED <<now, local, remote, pc, unit, cuts, history>>

\* The EXIT trap: the globals or every dump have failed, the manifest cannot be written, or
\* systemd's TimeoutStartSec is over.
Trap ==
    /\ pc = "dump"
    /\ local' = Without(local, {now})
    /\ Ends("failed")
    /\ UNCHANGED <<now, remote, cuts, good, left, last>>

\* From here the directory stays.
Manifest ==
    /\ pc = "dump" /\ todo = {} /\ local[now].dumps # {}
    /\ local' = [local EXCEPT ![now].manifest = TRUE]
    /\ left' = left \cup {now}
    /\ pc' = "upload"
    /\ UNCHANGED <<now, remote, run, unit, cuts, good, last, forgotten>>

UploadOk ==
    /\ pc = "upload"
    /\ remote' = Set(remote, now, local[now])
    /\ pc' = "prune"
    /\ UNCHANGED <<now, local, run, unit, cuts, history>>

UploadErr_Ignored ==
    /\ pc = "upload"
    /\ pc' = "prune"
    /\ UNCHANGED <<now, local, remote, run, unit, cuts, history>>

\* What rclone has shipped when it stops: some of the files, or none.
Shipped ==
    \/ UNCHANGED remote
    \/ \E dumps \in SUBSET local[now].dumps, manifest \in BOOLEAN :
        remote' = Set(remote, now, [dumps |-> dumps, manifest |-> manifest])

\* The local copy stays, and nothing is pruned.
UploadErr ==
    /\ pc = "upload"
    /\ Shipped
    /\ Ends("failed")
    /\ UNCHANGED <<now, local, cuts, good, left, last>>

\* The newest n of a set of numbers.
Newest(n, S) == {x \in S : Cardinality({y \in S : y > x}) < n}

SlotOf_ByAge(runs, period, n) ==
    LET recent == {p \in {r \div period : r \in runs} : p > now \div period - n}
    IN  {Max({r \in runs : r \div period = p}) : p \in recent}

\* The newest run of each of the newest n periods that have one.
SlotOf(runs, period, n) ==
    {Max({r \in runs : r \div period = p}) : p \in Newest(n, {r \div period : r \in runs})}

\* Every directory with a stamp counts, whatever it holds.
Kept(runs) == Newest(KeepDaily, runs) \cup SlotOf(runs, Week, KeepWeekly) \cup SlotOf(runs, Month, KeepMonthly)

Prune ==
    /\ pc = "prune"
    /\ local' = Restrict(local, Kept(DOMAIN local))
    /\ pc' = "report"
    /\ UNCHANGED <<now, remote, run, unit, cuts, history>>

Report_IgnoresFailedDbs ==
    /\ pc = "report"
    /\ Ends("ok")
    /\ good' = good \cup {now}
    /\ UNCHANGED <<now, local, remote, cuts, left, last>>

Report ==
    /\ pc = "report"
    /\ IF failed = {}
       THEN Ends("ok") /\ good' = good \cup {now}
       ELSE Ends("failed") /\ UNCHANGED good
    /\ UNCHANGED <<now, local, remote, cuts, left, last>>

-----------------------------------------------------------------------------
(* The host, the bucket, the clock *)

\* What a run leaves when it is cut off without its trap, whatever it was doing.
Interrupted ==
    /\ pc = "idle" \/ cuts < MaxCuts
    /\ cuts' = IF pc = "idle" THEN cuts ELSE cuts + 1
    /\ left' = IF pc = "dump" THEN left \cup {now} ELSE left
    /\ IF pc = "upload" THEN Shipped ELSE UNCHANGED remote
    /\ IF pc = "prune"
       THEN \E gone \in SUBSET (DOMAIN local \ Kept(DOMAIN local)) : local' = Without(local, gone)
       ELSE UNCHANGED local
    /\ pc' = "idle" /\ todo' = {} /\ failed' = {}
    /\ UNCHANGED <<now, good, last>>

\* SIGKILL; once the trap is disarmed SIGTERM, or a command that fails under `set -e`.
Kill ==
    /\ pc # "idle"
    /\ Interrupted
    /\ unit' = "failed"
    /\ forgotten' = FALSE

\* systemd forgets what has failed.
Reboot ==
    /\ Interrupted
    /\ unit' = "ok"
    /\ forgotten' = (forgotten \/ unit = "failed" \/ pc # "idle")

\* The bucket deletes by its own rule.
Tick ==
    /\ pc = "idle" /\ now < MaxNow
    /\ now' = now + 1
    /\ remote' = Without(remote, {r \in DOMAIN remote : now' - r > Expiry})
    /\ UNCHANGED <<local, pc, run, unit, cuts, history>>

Next ==
    \/ Refuse \/ Begin
    \/ \E db \in Dbs : DumpOk(db) \/ DumpErr(db)
    \/ Trap \/ Manifest \/ UploadOk \/ UploadErr \/ Prune \/ Report
    \/ Kill \/ Reboot \/ Tick

Spec == Init /\ [][Next]_vars

-----------------------------------------------------------------------------
(* The checks *)

\* dullahan-backup-freshness.sh: it lists the names in the bucket.
Fresh == \E r \in DOMAIN remote : now - r <= MaxAge

\* dullahan-restore-drill.sh: the newest name in the bucket must have the dump of its
\* DRILL_SOURCE_DB.
DrillPasses(db) == DOMAIN remote # {} /\ db \in remote[Max(DOMAIN remote)].dumps

-----------------------------------------------------------------------------
(* Properties *)

Complete(copy) == copy.dumps = Dbs /\ copy.manifest

\* selfcheck.rs:362, freshness.sh:2: when neither the unit nor the off-box check alarms,
\* and no reboot has wiped the unit, the bucket holds a complete copy that is no older than
\* the limit, and the drill passes, whatever database it is set to.
QuietMeansRestorable ==
    pc = "idle" /\ unit = "ok" /\ Fresh /\ ~forgotten =>
        /\ \E r \in DOMAIN remote : Complete(remote[r]) /\ now - r <= MaxAge
        /\ \A db \in Dbs : DrillPasses(db)

Holds(runs, db) == \E r \in DOMAIN runs \cap left : db \in runs[r].dumps

\* backup.sh:181, "stops a long gap in runs from silently expiring every copy you have":
\* the last local dump of a database goes only when KEEP_DAILY newer runs are there that
\* have all failed, the one that removes it included.
LastCopyGoesLoudly ==
    [][\A db \in Dbs : Holds(local, db) /\ ~Holds(local', db) =>
          /\ Cardinality(DOMAIN local') >= KeepDaily
          /\ DOMAIN local' \cap good = {} /\ (pc = "prune" => db \in failed)]_vars

\* backup.sh:179: the newest KEEP_DAILY directories that ever stayed behind are there, and
\* one of each of the newest KEEP_WEEKLY weeks and KEEP_MONTHLY months that have any,
\* however often runs were pruned, failed or were cut off in between.
SlotsHold ==
    LET periods(S, p) == {r \div p : r \in S}
    IN  /\ Newest(KeepDaily, left) \subseteq DOMAIN local
        /\ Newest(KeepWeekly, periods(left, Week)) \subseteq periods(DOMAIN local, Week)
        /\ Newest(KeepMonthly, periods(left, Month)) \subseteq periods(DOMAIN local, Month)
=============================================================================
