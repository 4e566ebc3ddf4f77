----------------------------- MODULE Selfcheck -----------------------------
(***************************************************************************)
(* `dullahan --selfcheck` (server/src/selfcheck.rs): a process of its own   *)
(* that a timer starts, reads the state file, probes server and host, mails *)
(* what is due, writes the state file and pings the watchdog.  Around it    *)
(* the server loses events and restarts, faults come and go, mails fail,    *)
(* and the run can be killed between any two steps.                         *)
(*                                                                         *)
(* Time is counted in ticks that pass between two runs: a run takes seconds,*)
(* the repeat window hours.  A stamp is kept as its age, and ages stop at   *)
(* Repeat, from where should_notify tells nothing apart.                    *)
(***************************************************************************)
EXTENDS Integers, FiniteSets

CONSTANTS Counters,  \* WATCHED_COUNTERS
          ServerFaults,  \* the keys of check_health and check_database
          HostFaults,    \* the keys of check_disk, check_backup_freshness and check_units
          None,      \* nothing
          Repeat,    \* ALERT_REPEAT_HOURS, in ticks
          MaxCount   \* bound: losses one server process counts

ASSUME KeysDiffer == Counters \cap (ServerFaults \cup HostFaults) = {}
ASSUME RepeatNat == Repeat \in Nat
ASSUME MaxCountNat == MaxCount \in Nat
ASSUME NoneIsNoNumber == None \notin Nat

Faults == ServerFaults \cup HostFaults
Keys   == Faults \cup Counters
Ages   == 0..Repeat
Counts == 0..MaxCount

\* selfcheck.rs, State: a missing baseline counts as zero.
State == [counters : [Counters -> Counts],
          last_notified : [Keys -> Ages \cup {None}]]
Default == [counters |-> [c \in Counters |-> 0],
            last_notified |-> [k \in Keys |-> None]]

VARIABLES
    count,     \* count[c]: the counter in the server; 0 is a counter not yet published
    bad,       \* the faults the probes would find now
    file,      \* the state file
    pc,        \* the step the run takes next, or how the last one ended
    pages,     \* the run mails; otherwise it is a dry run or has nobody to mail to
    state,     \* the run's copy of the state file
    findings,  \* the keys the run has found failing
    signal,    \* what the run has posted to the watchdog
    \* history, read by the properties only
    told,      \* told[k]: ticks since somebody was told of k
    gone,      \* the keys the last saved run did not find failing
    mailed,    \* the keys the run has told of and not yet saved
    unsaved,   \* keys told of by a run that did not save it
    reading,   \* reading[c]: what the run read, None if nothing from this server process
    readAt     \* readAt[c]: the counter at the last saved reading of this server process

env     == <<count, bad>>
history == <<told, gone, mailed, unsaved, reading, readAt>>
vars    == <<env, file, pc, pages, state, findings, signal, history>>

Ended   == {"done", "mail_error", "aborted"}
Running == {"server", "counters", "host", "alert", "save", "ping"}

TypeOK ==
    /\ count \in [Counters -> Counts]
    /\ bad \subseteq Faults
    /\ file \in State
    /\ pc \in Ended \cup Running
    /\ pages \in BOOLEAN
    /\ state \in State
    /\ findings \subseteq Keys
    /\ signal \in {"none", "ok", "fail"}
    /\ told \in [Keys -> Ages \cup {None}]
    /\ gone \subseteq Keys
    /\ mailed \subseteq Keys
    /\ unsaved \subseteq Keys
    /\ reading \in [Counters -> Counts \cup {None}]
    /\ readAt \in [Counters -> Counts]

Unread == [c \in Counters |-> None]

Init ==
    /\ count = [c \in Counters |-> 0]
    /\ bad = {}
    /\ file = Default
    /\ pc = "done"
    /\ pages = TRUE
    /\ state = Default
    /\ findings = {}
    /\ signal = "none"
    /\ told = [k \in Keys |-> None]
    /\ gone = Keys
    /\ mailed = {}
    /\ unsaved = {}
    /\ reading = Unread
    /\ readAt = [c \in Counters |-> 0]

-----------------------------------------------------------------------------
(* The run *)

\* The memory of the process goes with it.
Exit(how) ==
    /\ pc' = how
    /\ state' = Default
    /\ findings' = {}
    /\ mailed' = {}
    /\ reading' = Unread

Load(p) ==
    /\ pc \in Ended
    /\ state' = file
    /\ pc' = "server"
    /\ pages' = p
    /\ signal' = "none"
    /\ UNCHANGED <<env, file, findings, told, gone, mailed, unsaved, reading, readAt>>

\* A server or a database that does not answer.  The database is asked whatever the
\* server answered.
CheckServer ==
    /\ pc = "server"
    /\ findings' = bad \cap ServerFaults
    /\ pc' = "counters"
    /\ UNCHANGED <<env, file, pages, state, signal, history>>

\* parse_counter finds a counter only once it is published.
Published == {c \in Counters : count[c] > 0}

Rose_OrStands(c) == count[c] >= state.counters[c]

\* counter_finding: compared with the baseline, zero if there is none.
Rose(c) == count[c] > state.counters[c]

\* The baselines after a reading: those of unpublished counters stay.
Rebaselined == [c \in Counters |-> IF c \in Published THEN count[c] ELSE state.counters[c]]

CheckCounters ==
    /\ pc = "counters"
    /\ findings' = findings \cup {c \in Published : Rose(c)}
    /\ state' = [state EXCEPT !.counters = Rebaselined]
    /\ reading' = count
    /\ pc' = "host"
    /\ UNCHANGED <<env, file, pages, signal, told, gone, mailed, unsaved, readAt>>

\* The server is down, or its answer is too late: no finding, that is check_health's.
CountersUnreachable ==
    /\ pc = "counters"
    /\ pc' = "host"
    /\ UNCHANGED <<env, file, pages, state, findings, signal, history>>

\* A full disk, no fresh backup, a failed unit.  A df, read_dir or systemctl that cannot
\* answer finds nothing, like a fault that is away.
CheckHost ==
    /\ pc = "host"
    /\ findings' = findings \cup (bad \cap HostFaults)
    /\ pc' = "alert"
    /\ UNCHANGED <<env, file, pages, state, signal, history>>

\* should_notify: never mailed about, or not within the repeat window.
Due(k) == state.last_notified[k] = None \/ state.last_notified[k] >= Repeat
DueNow == {k \in findings : Due(k)}

\* Variants, not the code: definitions named X_Y are slips in X that the checks must
\* notice (PROJECT.json, "mutants").
Stamped_NoRetain == [k \in Keys |-> IF k \in DueNow THEN 0 ELSE state.last_notified[k]]

Stamped_AllFindings == [k \in Keys |-> IF k \in findings THEN 0 ELSE None]

Stamped_OnlyDue == [k \in Keys |-> IF k \in DueNow THEN 0 ELSE None]

\* What is due is stamped, what recovered is cleared.
Stamped == [k \in Keys |-> CASE k \in DueNow   -> 0
                             [] k \in findings \ DueNow -> state.last_notified[k]
                             [] OTHER          -> None]

Tell(ks) == told' = [k \in Keys |-> IF k \in ks THEN 0 ELSE told[k]]

\* The mail is accepted, or nothing is due; a dry run prints, and one without ALERT_TO or
\* a mailer logs.
Alert ==
    /\ pc = "alert"
    /\ Tell(DueNow)
    /\ state' = [state EXCEPT !.last_notified = Stamped]
    /\ mailed' = DueNow
    /\ pc' = "save"
    /\ UNCHANGED <<env, file, pages, findings, signal, gone, unsaved, reading, readAt>>

\* The mail is refused, or times out, perhaps after it was accepted: the run ends here.
MailError ==
    /\ pc = "alert" /\ pages /\ DueNow # {}
    /\ \/ UNCHANGED <<told, unsaved>>
       \/ Tell(DueNow) /\ unsaved' = unsaved \cup DueNow
    /\ Exit("mail_error")
    /\ UNCHANGED <<env, file, pages, signal, gone, readAt>>

\* Written to a file of its own, then renamed.
Save ==
    /\ pc = "save"
    /\ file' = state
    /\ gone' = Keys \ findings
    /\ mailed' = {}
    /\ unsaved' = {}
    /\ readAt' = [c \in Counters |-> IF reading[c] # None THEN reading[c] ELSE readAt[c]]
    /\ pc' = "ping"
    /\ UNCHANGED <<env, pages, state, findings, signal, told, reading>>

SaveError ==
    /\ pc = "save"
    /\ unsaved' = unsaved \cup mailed
    /\ Exit("aborted")
    /\ UNCHANGED <<env, file, pages, signal, told, gone, readAt>>

\* A watchdog that is out of reach is only logged.
Ping ==
    /\ pc = "ping"
    /\ signal' = IF findings = {} THEN "ok" ELSE "fail"
    /\ Exit("done")
    /\ UNCHANGED <<env, file, pages, told, gone, unsaved, readAt>>

Kill ==
    /\ pc \in Running
    /\ unsaved' = unsaved \cup mailed
    /\ Exit("aborted")
    /\ UNCHANGED <<env, file, pages, signal, told, gone, readAt>>

-----------------------------------------------------------------------------
(* The server, the host, the clock *)

Lose(c) ==
    /\ count[c] < MaxCount
    /\ count' = [count EXCEPT ![c] = @ + 1]
    /\ UNCHANGED <<bad, file, pc, pages, state, findings, signal, history>>

\* Counters live in the process and restart at zero with it.
Restart ==
    /\ count' = [c \in Counters |-> 0]
    /\ reading' = Unread
    /\ readAt' = [c \in Counters |-> 0]
    /\ UNCHANGED <<bad, file, pc, pages, state, findings, signal, told, gone, mailed, unsaved>>

Break(f) == /\ bad' = bad \cup {f}
            /\ UNCHANGED <<count, file, pc, pages, state, findings, signal, history>>

Repair(f) == /\ bad' = bad \ {f}
             /\ UNCHANGED <<count, file, pc, pages, state, findings, signal, history>>

\* A state file that is missing or does not parse is read as the default one.
LoseFile ==
    /\ pc \in Ended
    /\ file' = Default
    /\ gone' = Keys
    /\ readAt' = [c \in Counters |-> 0]
    /\ UNCHANGED <<env, pc, pages, state, findings, signal, told, mailed, unsaved, reading>>

Older(ages) == [k \in Keys |-> IF ages[k] \in 0..Repeat - 1 THEN ages[k] + 1 ELSE ages[k]]

Tick ==
    /\ pc \in Ended
    /\ file' = [file EXCEPT !.last_notified = Older(@)]
    /\ told' = Older(told)
    /\ UNCHANGED <<env, pc, pages, state, findings, signal, gone, mailed, unsaved, reading,
                   readAt>>

Run == \/ \E p \in BOOLEAN : Load(p)
       \/ CheckServer \/ CheckCounters \/ CountersUnreachable \/ CheckHost
       \/ Alert \/ MailError \/ Save \/ SaveError \/ Ping \/ Kill

World == \/ \E c \in Counters : Lose(c)
         \/ \E f \in Faults : Break(f) \/ Repair(f)
         \/ Restart \/ LoseFile \/ Tick

Next == Run \/ World

Spec == Init /\ [][Next]_vars

\* What the timer and the timeouts of the probes bring about.
RunGoesOn == \/ Load(TRUE)
             \/ CheckServer \/ CheckCounters \/ CountersUnreachable \/ CheckHost
             \/ Alert \/ Save \/ Ping

\* The timer starts run after run, every probe has a timeout, time passes, and no fault's
\* mail is refused for ever.
FairSpec ==
    /\ Spec
    /\ WF_vars(RunGoesOn)
    /\ SF_vars(Tick)
    /\ \A f \in Faults : SF_vars(Alert /\ f \in DueNow)

\* The fair steps are possible whenever their guards hold.  True of every reachable state
\* (it can be added to the INVARIANTS of a run); the provers take it as a hypothesis, since
\* they cannot look into ENABLED.
Ready ==
    /\ ENABLED <<RunGoesOn>>_vars
    /\ pc \in Ended /\ (\E k \in Keys : file.last_notified[k] \in 0..Repeat - 1)
          => ENABLED <<Tick>>_vars
    /\ \A f \in Faults :
          pc = "alert" /\ f \in DueNow => ENABLED <<Alert /\ f \in DueNow>>_vars

-----------------------------------------------------------------------------
(* Properties *)

\* Nobody is told of a problem again before the repeat window has passed, unless a saved
\* run has found it gone since, or the run that told could not save, or the file was lost
\* (run: "a condition that persists for a week does not send a message every ten minutes").
Throttled ==
    [][\A k \in Keys : pc = "alert" /\ k \in mailed' =>
          \/ told[k] = None \/ told[k] >= Repeat
          \/ k \in gone \/ k \in unsaved]_vars

\* A run that saves, and so moves baselines and stamps, has told of everything it found, or
\* somebody was told within the window and the problem has not been gone since: a refused
\* mail, a crash or a failed write never makes a problem count as reported, and the next
\* occurrence of one that recovered is reported at once (run, the `?` of send_html before
\* state.save, and the retain).
NothingSwallowed ==
    [][pc = "save" /\ pc' = "ping" =>
          \A k \in findings :
              k \in mailed \/ (k \notin gone /\ told[k] # None /\ told[k] < Repeat)]_vars

\* A counter that an earlier saved run saw above zero in this server process is reported
\* exactly when it has risen since, however many runs were killed or not saved in between
\* (check_counters, counter_finding).
RisesAreFound ==
    [][pc = "counters" /\ reading' # reading =>
          \A c \in Counters :
              /\ c \in findings' => count[c] > readAt[c]
              /\ readAt[c] > 0 /\ count[c] > readAt[c] => c \in findings']_vars

\* A fault that stays is mailed about again and again, while runs mail and are not killed
\* and although single mails fail and the state file gets lost.
StandingFaultsAreMailed ==
    \A f \in Faults :
        <>[](f \in bad /\ pages /\ pc # "aborted") => []<>(told[f] = 0)

\* ping_healthcheck: /fail "matters when the reason for the failure is also why email is
\* down": a run whose mail was refused has told the watchdog.
MailDownReachesWatchdog == pc = "mail_error" => signal = "fail"

-----------------------------------------------------------------------------
(* The inductive invariant behind the properties (proved in SelfcheckProofs) *)

\* A run's memory is empty once it has ended.
RunShape ==
    /\ pc \in Ended => findings = {} /\ state = Default
    /\ pc \in Ended \cup {"server", "counters"} => reading = Unread
    /\ pc = "counters" => findings \subseteq Faults
    /\ pc # "save" => mailed = {}

\* The baseline covers what was read, exactly so if the counter was published.
Covers(base, c) == base[c] >= readAt[c] /\ (readAt[c] > 0 => base[c] = readAt[c])

BaselineShape ==
    \A c \in Counters :
        /\ readAt[c] <= count[c]
        /\ Covers(file.counters, c)
        /\ pc \in Running /\ reading[c] = None => Covers(state.counters, c)
        /\ reading[c] # None =>
              /\ reading[c] <= count[c]
              /\ state.counters[c] >= reading[c]
              /\ reading[c] > 0 => state.counters[c] = reading[c]

\* A stamp never claims more than somebody was told.
Backed(ages) == \A k \in Keys : ages[k] # None => told[k] # None /\ told[k] <= ages[k]

\* What somebody was told of has left its stamp.
Remembers(ages, ks) ==
    \A k \in ks : told[k] # None => ages[k] # None /\ ages[k] <= told[k]

StampShape ==
    /\ \A k \in gone : file.last_notified[k] = None
    /\ \A k \in mailed \cup unsaved : \/ file.last_notified[k] = None
                                     \/ file.last_notified[k] >= Repeat
    /\ Backed(file.last_notified)
    /\ Backed(state.last_notified)
    /\ Remembers(file.last_notified, Keys \ (gone \cup mailed \cup unsaved))
    /\ pc \in {"server", "counters", "host", "alert"} =>
          state.last_notified = file.last_notified
    /\ pc = "save" =>
          /\ mailed \subseteq findings
          /\ \A k \in Keys \ findings : state.last_notified[k] = None
          /\ \A k \in mailed : state.last_notified[k] = 0 /\ told[k] = 0
          /\ \A k \in findings \ mailed :
                /\ state.last_notified[k] = file.last_notified[k]
                /\ state.last_notified[k] \in Ages /\ state.last_notified[k] < Repeat

SelfcheckInv == TypeOK /\ RunShape /\ BaselineShape /\ StampShape
=============================================================================
