------------------------------ MODULE Mailing ------------------------------
(***************************************************************************)
(* The two senders of mail to tenants: POST /contact (server/src/contact.rs) *)
(* and the weekly `dullahan --digest` (server/src/digest.rs), beside an       *)
(* operator who edits the table `sites` (SiteRegistry has the details) and    *)
(* the mail API behind server/src/email.rs, which may refuse a mail, or       *)
(* accept it and never say so.                                               *)
(***************************************************************************)
EXTENDS Integers, FiniteSets

CONSTANTS Sites,     \* the ids, which the digest takes in ascending order
          Requests,  \* submissions of the contact form
          Rows,      \* what a row of `sites` may hold: active, contact_to, email_from
          Tables,    \* the contents of `sites` at the start
          Measured,  \* the sites that analytics_events has rows of
          EmailFrom, \* EMAIL_FROM, the server's own sender
          None,      \* NULL, or no row
          Digest,    \* the author of the weekly reports, beside Requests
          MaxEdits,  \* bound: edits of the table
          MaxKills   \* bound: runs of the digest that are killed

ASSUME SitesAreOrdered == Sites \subseteq Nat
ASSUME RowsTyped == \A row \in Rows : row.active \in BOOLEAN
ASSUME TablesTyped == Tables \subseteq [Sites -> Rows \cup {None}]
ASSUME MeasuredAreSites == Measured \subseteq Sites
ASSUME NamesDiffer == None \notin Rows /\ Digest \notin Requests
ASSUME BoundsNat == {MaxEdits, MaxKills} \subseteq Nat

VARIABLES
    sites,    \* the table `sites`
    past,     \* history: every content that the table has had
    cache,    \* the server's snapshot of it
    mailOn,   \* RESEND_API_KEY and EMAIL_FROM are set
    ctx,      \* what submission r holds, and its answer
    run,      \* the digest process
    loaded,   \* the active rows that the run has read, None for the other sites
    inbox,    \* the mails of the submissions and of the last run that were accepted
    struck,   \* history: the sites whose own computation or mail failed in the last run
    edits,
    kills

world   == <<sites, past, cache, mailOn, edits>>
process == <<run, loaded, struck, kills>>
vars    == <<world, ctx, process, inbox>>

Registries == [Sites -> Rows \cup {None}]

Active(table, s) == table[s] # None /\ table[s].active

\* email.rs, build_from_header: the tenant's address where it has one.
Sender(row) == IF row.email_from = None THEN EmailFrom ELSE row.email_from

Answered == {"none", "sending", "accepted", "201", "400", "500", "503", "dropped"}

TypeOK ==
    /\ {sites, cache, loaded} \cup past \subseteq Registries
    /\ mailOn \in BOOLEAN
    /\ ctx \in [Requests -> [answer : Answered, site : Sites \cup {None}, row : Rows \cup {None}]]
    /\ run \in [pc : {"idle", "loop", "sending", "accepted"}, todo : SUBSET Sites,
                dry : BOOLEAN, exit : {"none", "done", "failed", "killed"}]
    /\ \A m \in inbox : m.by \in Requests \cup {Digest} /\ m.site \in Sites \cup {None}
    /\ struck \subseteq Sites
    /\ edits \in 0 .. MaxEdits /\ kills \in 0 .. MaxKills

Init ==
    /\ sites \in Tables
    /\ past = {sites}
    /\ cache = sites
    /\ mailOn \in BOOLEAN
    /\ ctx = [r \in Requests |-> [answer |-> "none", site |-> None, row |-> None]]
    /\ run = [pc |-> "idle", todo |-> {}, dry |-> FALSE, exit |-> "none"]
    /\ loaded = [s \in Sites |-> None]
    /\ inbox = {}
    /\ struck = {}
    /\ edits = 0
    /\ kills = 0

-----------------------------------------------------------------------------
(* The operator and the server's snapshot *)

Edit(s, row) ==
    /\ edits < MaxEdits
    /\ sites' = [sites EXCEPT ![s] = row]
    /\ past' = past \cup {sites'}
    /\ edits' = edits + 1
    /\ UNCHANGED <<cache, mailOn, ctx, process, inbox>>

\* A reload installs what its SELECT has read, however long ago that was.
Refresh ==
    /\ \E table \in past : cache' = table
    /\ UNCHANGED <<sites, past, mailOn, edits, ctx, process, inbox>>

-----------------------------------------------------------------------------
(* email.rs *)

MailsOf(by, s) == {m \in inbox : m.by = by /\ m.site = s}

\* dispatch: the API has taken the mail; whether the sender hears of it is another step.
Accepted(by, s, to, from) ==
    inbox' = inbox \cup {[by |-> by, site |-> s, to |-> to, from |-> from,
                          nth |-> Cardinality(MailsOf(by, s)) + 1]}

-----------------------------------------------------------------------------
(* POST /contact *)

Answer(r, code) == ctx' = [ctx EXCEPT ![r].answer = code]

Admitted(row) == row # None /\ row.active

Recipient_OrDefault(row) == IF row.contact_to = None THEN EmailFrom ELSE row.contact_to

Recipient(row) == row.contact_to

\* submit up to its only await: the checks of the body, the snapshot, the transport.
Submit(r, s, valid) ==
    LET row  == cache[s]
        code == IF ~valid THEN "400"
                ELSE IF ~Admitted(row) \/ Recipient(row) = None \/ ~mailOn THEN "503"
                ELSE "sending"
    IN  /\ ctx[r].answer = "none"
        /\ ctx' = [ctx EXCEPT ![r] = [answer |-> code, site |-> s, row |-> row]]
        /\ UNCHANGED <<world, process, inbox>>

ContactAccepted(r) ==
    /\ ctx[r].answer = "sending"
    /\ Accepted(r, ctx[r].site, Recipient(ctx[r].row), Sender(ctx[r].row))
    /\ Answer(r, "accepted")
    /\ UNCHANGED <<world, process>>

ContactOk(r) ==
    /\ ctx[r].answer = "accepted"
    /\ Answer(r, "201")
    /\ UNCHANGED <<world, process, inbox>>

ContactErr_Ignored(r) ==
    /\ ctx[r].answer \in {"sending", "accepted"}
    /\ Answer(r, "201")
    /\ UNCHANGED <<world, process, inbox>>

\* Refused, unreachable, or accepted and not heard of within the ten seconds.
ContactErr(r) ==
    /\ ctx[r].answer \in {"sending", "accepted"}
    /\ Answer(r, "500")
    /\ UNCHANGED <<world, process, inbox>>

\* The client hangs up, the router's fifteen seconds are over, or the process ends.
ContactDropped(r) ==
    /\ ctx[r].answer \in {"sending", "accepted"}
    /\ Answer(r, "dropped")
    /\ UNCHANGED <<world, process, inbox>>

-----------------------------------------------------------------------------
(* dullahan --digest *)

\* Of the columns of analytics_events, those that name a site.
SiteColumns == {"site_id"}

\* ever_measured: a statement that selects by another column is an error.
EverMeasured(s) ==
    IF "site" \notin SiteColumns THEN "error"
    ELSE IF s \in Measured THEN "true" ELSE "false"

\* The loop takes the sites by their ids.
IsNext(s) == s \in run.todo /\ \A other \in run.todo : s <= other

RunEnds(exit) == run' = [run EXCEPT !.pc = "idle", !.todo = {}, !.exit = exit]

Leave(s) == run' = [run EXCEPT !.pc = "loop", !.todo = @ \ {s}]

\* The table cannot be read, has nobody to write to, or there is nothing to send with.
RunFails(dry) ==
    /\ run.pc = "idle"
    /\ run' = [pc |-> "idle", todo |-> {}, dry |-> dry, exit |-> "failed"]
    /\ loaded' = [s \in Sites |-> None]
    /\ struck' = {}
    /\ inbox' = {m \in inbox : m.by # Digest}
    /\ UNCHANGED <<world, ctx, kills>>

RunStarts(dry) ==
    /\ run.pc = "idle"
    /\ \E s \in Sites : Active(sites, s)
    /\ dry \/ mailOn
    /\ loaded' = [s \in Sites |-> IF Active(sites, s) THEN sites[s] ELSE None]
    /\ run' = [pc |-> "loop", todo |-> {s \in Sites : loaded'[s] # None}, dry |-> dry, exit |-> "none"]
    /\ struck' = {}
    /\ inbox' = {m \in inbox : m.by # Digest}
    /\ UNCHANGED <<world, ctx, kills>>

Skips_OnError(s) == Recipient(loaded[s]) = None \/ EverMeasured(s) # "true"

Skips(s) == Recipient(loaded[s]) = None \/ EverMeasured(s) = "false"

Skip(s) ==
    /\ run.pc = "loop" /\ IsNext(s)
    /\ Skips(s)
    /\ Leave(s)
    /\ UNCHANGED <<world, ctx, loaded, struck, kills, inbox>>

\* compute and rendering: a dry run prints the report and goes on.
ComputeOk(s) ==
    /\ run.pc = "loop" /\ IsNext(s)
    /\ ~Skips(s)
    /\ IF run.dry THEN Leave(s) ELSE run' = [run EXCEPT !.pc = "sending"]
    /\ UNCHANGED <<world, ctx, loaded, struck, kills, inbox>>

ComputeErr_Aborts(s) ==
    /\ run.pc = "loop" /\ IsNext(s)
    /\ ~Skips(s)
    /\ struck' = struck \cup {s}
    /\ RunEnds("failed")
    /\ UNCHANGED <<world, ctx, loaded, kills, inbox>>

ComputeErr(s) ==
    /\ run.pc = "loop" /\ IsNext(s)
    /\ ~Skips(s)
    /\ struck' = struck \cup {s}
    /\ Leave(s)
    /\ UNCHANGED <<world, ctx, loaded, kills, inbox>>

SendAccepted(s) ==
    /\ run.pc = "sending" /\ IsNext(s)
    /\ Accepted(Digest, s, Recipient(loaded[s]), Sender(loaded[s]))
    /\ run' = [run EXCEPT !.pc = "accepted"]
    /\ UNCHANGED <<world, ctx, loaded, struck, kills>>

SendOk(s) ==
    /\ run.pc = "accepted" /\ IsNext(s)
    /\ Leave(s)
    /\ UNCHANGED <<world, ctx, loaded, struck, kills, inbox>>

SendErr(s) ==
    /\ run.pc \in {"sending", "accepted"} /\ IsNext(s)
    /\ struck' = struck \cup {s}
    /\ Leave(s)
    /\ UNCHANGED <<world, ctx, loaded, kills, inbox>>

RunDone ==
    /\ run.pc = "loop" /\ run.todo = {}
    /\ RunEnds("done")
    /\ UNCHANGED <<world, ctx, loaded, struck, kills, inbox>>

RunKilled ==
    /\ run.pc # "idle"
    /\ kills < MaxKills
    /\ kills' = kills + 1
    /\ RunEnds("killed")
    /\ UNCHANGED <<world, ctx, loaded, struck, inbox>>

-----------------------------------------------------------------------------

Contact(r) ==
    \/ \E s \in Sites, valid \in BOOLEAN : Submit(r, s, valid)
    \/ ContactAccepted(r)
    \/ ContactOk(r)
    \/ ContactErr(r)
    \/ ContactDropped(r)

DigestStep ==
    \/ \E dry \in BOOLEAN : RunFails(dry) \/ RunStarts(dry)
    \/ \E s \in Sites : \/ Skip(s)
                        \/ ComputeOk(s)
                        \/ ComputeErr(s)
                        \/ SendAccepted(s)
                        \/ SendOk(s)
                        \/ SendErr(s)
    \/ RunDone
    \/ RunKilled

Next ==
    \/ \E s \in Sites, row \in Rows \cup {None} : Edit(s, row)
    \/ Refresh
    \/ \E r \in Requests : Contact(r)
    \/ DigestStep

Spec == Init /\ [][Next]_vars

\* What a run that is going on does with its next site, or after the last one.
Computes == \E s \in Sites : ComputeOk(s) \/ ComputeErr(s)
GoesOn   == RunDone \/ \E s \in Sites : Skip(s) \/ SendOk(s) \/ SendErr(s)

\* The timer fires, and of its runs, computations and mails not every one fails.
FairSpec ==
    /\ Spec
    /\ SF_vars(RunStarts(FALSE))
    /\ WF_vars(GoesOn)
    /\ WF_vars(Computes)
    /\ \A s \in Sites : SF_vars(ComputeOk(s) /\ ~run.dry) /\ SF_vars(SendAccepted(s))

\* The fair steps are possible whenever their guards hold.  True of every reachable state
\* (it can be added to the INVARIANTS of a run); the provers take it as a hypothesis, since
\* they cannot look into ENABLED.
Ready ==
    /\ run.pc = "idle" /\ mailOn /\ (\E s \in Sites : Active(sites, s))
          => ENABLED <<RunStarts(FALSE)>>_vars
    /\ \/ run.pc \in {"sending", "accepted"}
       \/ run.pc = "loop" /\ \A s \in Sites : IsNext(s) => Skips(s)
       => ENABLED <<GoesOn>>_vars
    /\ run.pc = "loop" /\ (\E s \in Sites : IsNext(s) /\ ~Skips(s)) => ENABLED <<Computes>>_vars
    /\ \A s \in Sites :
          /\ run.pc = "loop" /\ IsNext(s) /\ ~Skips(s) /\ ~run.dry
                => ENABLED <<ComputeOk(s) /\ ~run.dry>>_vars
          /\ run.pc = "sending" /\ IsNext(s) => ENABLED <<SendAccepted(s)>>_vars

-----------------------------------------------------------------------------
(* Properties *)

\* contact.rs:15, "one tenant's enquiries can never land in another's inbox", and
\* digest.rs:83, "never delivered elsewhere": a mail about a site goes to the address, and
\* from the sender, of one row under which that site was active, however stale the
\* snapshot and however the operator exchanges addresses while the mail is under way.
MailStaysHome ==
    \A m \in inbox : \E table \in past :
        /\ Active(table, m.site)
        /\ table[m.site].contact_to # None
        /\ m.to = table[m.site].contact_to
        /\ m.from = Sender(table[m.site])

\* contact.rs:63: who is told 201 has been mailed to that site's owner, once; who is told
\* that there is no recipient, no transport or a bad field has not been mailed; nobody is
\* mailed twice.
AnsweredMeansMailed ==
    \A r \in Requests :
        LET mails == {m \in inbox : m.by = r}
        IN  /\ \A m \in mails : m.site = ctx[r].site /\ m.nth = 1
            /\ ctx[r].answer = "201" => mails # {}
            /\ ctx[r].answer \in {"none", "400", "503"} => mails = {}

\* digest.rs:84, "Errors on a single site are logged and do not abort the rest": a run
\* that was not killed and had somebody to write to has mailed every site of its table
\* once, except those with no address or an error of their own; a dry run mails nobody.
EachSiteForItself ==
    /\ \A m \in inbox : m.by = Digest => m.nth = 1 /\ ~run.dry
    /\ run.exit = "failed" => struck = {} /\ \A m \in inbox : m.by # Digest
    /\ run.exit = "done" /\ ~run.dry =>
        \A s \in Sites : loaded[s] # None /\ loaded[s].contact_to # None /\ s \in Measured \ struck
                            => MailsOf(Digest, s) # {}

\* digest.rs:112, "a transient database hiccup must not silently stop a paying tenant's
\* weekly report": a site that is measured, active and has an address gets one report
\* after the other, although single runs fail or are killed.
Due(s) == mailOn /\ Active(sites, s) /\ sites[s].contact_to # None /\ s \in Measured

WeeklyReportsGoOn ==
    \A s \in Sites : <>[]Due(s) => []<><<SendAccepted(s)>>_vars
=============================================================================
