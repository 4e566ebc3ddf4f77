--------------------------- MODULE MailingProofs ---------------------------
(* What is proved of Mailing, for every set of sites, submissions, rows and  *)
(* tables, and every number of edits and kills.                              *)
EXTENDS Mailing, FiniteSetTheorems, TLAPS

-----------------------------------------------------------------------------
(* The inductive invariant *)

\* A row that the table has had, under which the site was active.
Genuine(s, row) == \E table \in past : Active(table, s) /\ table[s] = row

TablesInv ==
    /\ sites \in past
    /\ cache \in past

\* What a submission holds, and what its answer says about its mail.
ContactInv ==
    \A r \in Requests :
        /\ ctx[r].answer \in {"sending", "accepted"} => /\ ctx[r].site \in Sites
                                                        /\ Genuine(ctx[r].site, ctx[r].row)
                                                        /\ ctx[r].row.contact_to # None
        /\ \A m \in inbox : m.by = r => m.site = ctx[r].site /\ m.nth = 1
        /\ ctx[r].answer \in {"none", "400", "503", "sending"} => \A m \in inbox : m.by # r
        /\ ctx[r].answer \in {"accepted", "201"} => \E m \in inbox : m.by = r

\* What a run holds, and which of its sites it has mailed.
RunInv ==
    /\ run.todo \subseteq Sites
    /\ \A s \in Sites : loaded[s] # None => Genuine(s, loaded[s])
    /\ \A s \in run.todo : loaded[s] # None
    /\ run.pc \in {"sending", "accepted"} =>
        /\ ~run.dry
        /\ \A s \in Sites : IsNext(s) => loaded[s].contact_to # None
    /\ \A m \in inbox : m.by = Digest => m.nth = 1 /\ ~run.dry
    /\ \A s \in run.todo : (run.pc = "accepted" /\ IsNext(s)) \/ MailsOf(Digest, s) = {}
    /\ run.pc = "accepted" => \A s \in Sites : IsNext(s) => MailsOf(Digest, s) # {}
    /\ run.pc # "idle" => run.exit = "none"
    /\ run.exit = "failed" => struck = {} /\ \A m \in inbox : m.by # Digest
    /\ run.exit \in {"none", "done"} /\ ~run.dry =>
        \A s \in Sites : loaded[s] # None /\ loaded[s].contact_to # None /\ s \in Measured \ struck
                            => s \in run.todo \/ MailsOf(Digest, s) # {}
    /\ run.exit = "done" => run.todo = {}

MailInv == TypeOK /\ TablesInv /\ ContactInv /\ RunInv /\ MailStaysHome

-----------------------------------------------------------------------------
(* Types *)

LEMMA InitTyped == Init => TypeOK
<1> SUFFICES ASSUME Init PROVE TypeOK OBVIOUS
<1>1. sites \in Registries BY TablesTyped DEF Init, Registries
<1>2. {sites, cache, loaded} \cup past \subseteq Registries BY <1>1 DEF Init, Registries
<1>3. MaxEdits \in Nat /\ MaxKills \in Nat BY BoundsNat
<1> QED BY <1>2, <1>3 DEF Init, TypeOK, Answered

\* A submission's answer is one of the codes, at every step.
LEMMA ContactTyped ==
  ASSUME TypeOK, NEW r \in Requests, Contact(r)
  PROVE  TypeOK'
<1> USE DEF Answered
<1>1. ASSUME NEW s \in Sites, NEW valid \in BOOLEAN, Submit(r, s, valid) PROVE TypeOK'
  <2>1. cache[s] \in Rows \cup {None} BY DEF TypeOK, Registries
  <2>2. PICK code \in {"400", "503", "sending"} :
             ctx' = [ctx EXCEPT ![r] = [answer |-> code, site |-> s, row |-> cache[s]]]
    BY <1>1 DEF Submit
  <2> QED BY <1>1, <2>1, <2>2 DEF Submit, TypeOK, world, process
<1>2. ASSUME NEW code \in Answered, Answer(r, code), UNCHANGED <<world, process>>,
             \A m \in inbox' : m.by \in Requests \cup {Digest} /\ m.site \in Sites \cup {None}
      PROVE  TypeOK'
  BY <1>2 DEF Answer, TypeOK, world, process
<1>3. CASE ContactAccepted(r)
  <2>1. ctx[r].answer = "sending" /\ Answer(r, "accepted") /\ UNCHANGED <<world, process>>
    BY <1>3 DEF ContactAccepted
  <2>2. ASSUME NEW m \in inbox' PROVE m.by \in Requests \cup {Digest} /\ m.site \in Sites \cup {None}
    BY <1>3, <2>2 DEF ContactAccepted, Accepted, TypeOK
  <2> QED BY <1>2, <2>1, <2>2
<1>4. CASE ContactOk(r) BY <1>2, <1>4 DEF ContactOk, TypeOK
<1>5. CASE ContactErr(r) BY <1>2, <1>5 DEF ContactErr, TypeOK
<1>6. CASE ContactDropped(r) BY <1>2, <1>6 DEF ContactDropped, TypeOK
<1> QED BY <1>1, <1>3, <1>4, <1>5, <1>6 DEF Contact

LEMMA InitMail == Init => MailInv
<1> SUFFICES ASSUME Init PROVE MailInv OBVIOUS
<1>1. TablesInv BY DEF Init, TablesInv
<1>2. ContactInv BY DEF Init, ContactInv
<1>3. RunInv BY DEF Init, RunInv, MailsOf
<1>4. MailStaysHome BY DEF Init, MailStaysHome
<1>5. TypeOK BY InitTyped
<1> QED BY <1>1, <1>2, <1>3, <1>4, <1>5 DEF MailInv

-----------------------------------------------------------------------------
(* Steps *)

\* The operator and the snapshot: what was genuine stays so.
LEMMA EditMail ==
  ASSUME MailInv, NEW s \in Sites, NEW row \in Rows \cup {None}, Edit(s, row)
  PROVE  MailInv'
<1>1. past \subseteq past' BY DEF Edit
<1>2. sites' \in Registries BY DEF Edit, MailInv, TypeOK, Registries
<1>3. edits' \in 0 .. MaxEdits BY BoundsNat DEF Edit, MailInv, TypeOK
<1>4. TypeOK' BY <1>2, <1>3 DEF Edit, MailInv, TypeOK, process
<1>5. TablesInv' BY DEF Edit, MailInv, TablesInv
<1>6. \A t, g : Genuine(t, g) => Genuine(t, g)' BY <1>1 DEF Genuine, Active
<1>7. ContactInv' BY <1>6 DEF Edit, MailInv, ContactInv
<1>8. RunInv' BY <1>6 DEF Edit, MailInv, RunInv, process, IsNext, MailsOf
<1>9. MailStaysHome' BY <1>1 DEF Edit, MailInv, MailStaysHome, Active, Sender
<1> QED BY <1>4, <1>5, <1>7, <1>8, <1>9 DEF MailInv

LEMMA RefreshMail == ASSUME MailInv, Refresh PROVE MailInv'
<1>1. TypeOK' BY DEF Refresh, MailInv, TypeOK, process
<1>2. TablesInv' BY DEF Refresh, MailInv, TablesInv
<1>3. ContactInv' BY DEF Refresh, MailInv, ContactInv, Genuine, Active
<1>4. RunInv' BY DEF Refresh, MailInv, RunInv, process, IsNext, MailsOf, Genuine, Active
<1>5. MailStaysHome' BY DEF Refresh, MailInv, MailStaysHome, Active, Sender
<1> QED BY <1>1, <1>2, <1>3, <1>4, <1>5 DEF MailInv

\* A submission's step leaves the tables alone, and the run if no mail is the digest's.
LEMMA WorldStays ==
  ASSUME MailInv, UNCHANGED <<world, process>>,
         inbox' = inbox \/ \E m : m.by # Digest /\ inbox' = inbox \cup {m}
  PROVE  TablesInv' /\ RunInv'
<1>1. TablesInv' BY DEF MailInv, TablesInv, world
<1>2. \A m : m.by = Digest => (m \in inbox <=> m \in inbox') OBVIOUS
<1>3. \A s : MailsOf(Digest, s)' = MailsOf(Digest, s) BY <1>2 DEF MailsOf
<1>4. RunInv' BY <1>2, <1>3 DEF MailInv, RunInv, process, world, IsNext, Genuine, Active
<1> QED BY <1>1, <1>4

\* The submissions that do not move keep what they hold, if no mail is theirs.
LEMMA SubmitMail ==
  ASSUME MailInv, NEW r \in Requests, NEW s \in Sites, NEW valid \in BOOLEAN, Submit(r, s, valid)
  PROVE  MailInv'
<1>1. TypeOK' BY ContactTyped DEF MailInv, Contact
<1>2. TablesInv' /\ RunInv' BY WorldStays DEF Submit
<1>3. MailStaysHome' BY DEF Submit, MailInv, MailStaysHome, world, Active, Sender
<1>4. \A t, g : Genuine(t, g)' = Genuine(t, g) BY DEF Submit, world, Genuine, Active
<1>5. ASSUME NEW q \in Requests, q # r PROVE ctx'[q] = ctx[q] BY <1>5 DEF Submit, MailInv, TypeOK
<1>6. \A m \in inbox : m.by # r BY DEF Submit, MailInv, ContactInv
<1>7. /\ ctx'[r].answer \in {"400", "503", "sending"}
      /\ ctx'[r].site = s
      /\ ctx'[r].answer = "sending" => /\ ctx'[r].row = cache[s]
                                        /\ Admitted(cache[s]) /\ cache[s].contact_to # None
  BY DEF Submit, MailInv, TypeOK, Recipient
<1>8. ctx'[r].answer = "sending" => Genuine(s, ctx'[r].row)
  BY <1>7 DEF MailInv, TablesInv, Genuine, Active, Admitted
<1>9. ContactInv'
  <2> SUFFICES ASSUME NEW q \in Requests
               PROVE  (/\ ctx[q].answer \in {"sending", "accepted"} => /\ ctx[q].site \in Sites
                                                        /\ Genuine(ctx[q].site, ctx[q].row)
                                                        /\ ctx[q].row.contact_to # None
                       /\ \A m \in inbox : m.by = q => m.site = ctx[q].site /\ m.nth = 1
                       /\ ctx[q].answer \in {"none", "400", "503", "sending"} => \A m \in inbox : m.by # q
                       /\ ctx[q].answer \in {"accepted", "201"} => \E m \in inbox : m.by = q)'
    BY DEF ContactInv
  <2>1. inbox' = inbox BY DEF Submit
  <2>2. CASE q = r BY <1>4, <1>6, <1>7, <1>8, <2>1, <2>2
  <2>3. CASE q # r BY <1>4, <1>5, <2>1, <2>3 DEF MailInv, ContactInv
  <2> QED BY <2>2, <2>3
<1> QED BY <1>1, <1>2, <1>3, <1>9 DEF MailInv

\* What an answer changes of a submission, and of no other.
LEMMA AnswerKeeps ==
  ASSUME TypeOK, NEW r \in Requests, NEW code, Answer(r, code)
  PROVE  /\ ctx'[r].answer = code /\ ctx'[r].site = ctx[r].site /\ ctx'[r].row = ctx[r].row
         /\ \A q \in Requests \ {r} : ctx'[q] = ctx[q]
  BY DEF Answer, TypeOK

LEMMA AnswerMail ==
  ASSUME MailInv, NEW r \in Requests, NEW code \in {"201", "500", "dropped"},
         ctx[r].answer \in {"sending", "accepted"}, code = "201" => ctx[r].answer = "accepted",
         Answer(r, code), UNCHANGED <<world, process, inbox>>, Contact(r)
  PROVE  MailInv'
<1>1. TypeOK' BY ContactTyped DEF MailInv
<1>2. TablesInv' /\ RunInv' BY WorldStays
<1>3. MailStaysHome' BY DEF MailInv, MailStaysHome, world, Active, Sender
<1>4. \A t, g : Genuine(t, g)' = Genuine(t, g) BY DEF world, Genuine, Active
<1>5. /\ ctx'[r].answer = code /\ ctx'[r].site = ctx[r].site /\ ctx'[r].row = ctx[r].row
      /\ \A q \in Requests \ {r} : ctx'[q] = ctx[q]
  BY AnswerKeeps DEF MailInv
<1>6. ContactInv' BY <1>4, <1>5 DEF MailInv, ContactInv
<1> QED BY <1>1, <1>2, <1>3, <1>6 DEF MailInv

\* The API takes a submission's mail: its first, to the address of a genuine row.
LEMMA ContactAcceptedMail ==
  ASSUME MailInv, NEW r \in Requests, ContactAccepted(r)
  PROVE  MailInv'
<1> DEFINE row  == ctx[r].row
<1> DEFINE mail == [by |-> r, site |-> ctx[r].site, to |-> Recipient(row), from |-> Sender(row),
                    nth |-> Cardinality(MailsOf(r, ctx[r].site)) + 1]
<1>1. TypeOK' BY ContactTyped DEF MailInv, Contact
<1>2. inbox' = inbox \cup {mail} BY DEF ContactAccepted, Accepted
<1>3. mail.by # Digest BY NamesDiffer
<1>4. TablesInv' /\ RunInv' BY <1>2, <1>3, WorldStays DEF ContactAccepted
<1>5. /\ ctx[r].answer = "sending"
      /\ ctx[r].site \in Sites /\ Genuine(ctx[r].site, row) /\ row.contact_to # None
      /\ \A m \in inbox : m.by # r
  BY DEF ContactAccepted, MailInv, ContactInv
<1>6. mail.nth = 1
  <2>1. MailsOf(r, ctx[r].site) = {} BY <1>5 DEF MailsOf
  <2> QED BY <2>1, FS_EmptySet
<1>7. past' = past BY DEF ContactAccepted, world
<1>8. MailStaysHome'
  <2> SUFFICES ASSUME NEW m \in inbox'
               PROVE  \E table \in past : /\ Active(table, m.site)
                                         /\ table[m.site].contact_to # None
                                         /\ m.to = table[m.site].contact_to
                                         /\ m.from = Sender(table[m.site])
    BY <1>7 DEF MailStaysHome, Active, Sender
  <2>1. CASE m \in inbox BY <2>1 DEF MailInv, MailStaysHome
  <2>2. CASE m = mail BY <1>5, <2>2 DEF Genuine, Recipient
  <2> QED BY <1>2, <2>1, <2>2
<1>9. /\ ctx'[r].answer = "accepted" /\ ctx'[r].site = ctx[r].site /\ ctx'[r].row = ctx[r].row
      /\ \A q \in Requests \ {r} : ctx'[q] = ctx[q]
  BY AnswerKeeps DEF MailInv, ContactAccepted
<1>10. \A t, g : Genuine(t, g)' = Genuine(t, g) BY <1>7 DEF Genuine, Active
<1>11. mail.by = r /\ mail.site = ctx[r].site OBVIOUS
<1> HIDE DEF mail
<1>12. ContactInv'
  <2> SUFFICES ASSUME NEW q \in Requests
               PROVE  (/\ ctx[q].answer \in {"sending", "accepted"} => /\ ctx[q].site \in Sites
                                                        /\ Genuine(ctx[q].site, ctx[q].row)
                                                        /\ ctx[q].row.contact_to # None
                       /\ \A m \in inbox : m.by = q => m.site = ctx[q].site /\ m.nth = 1
                       /\ ctx[q].answer \in {"none", "400", "503", "sending"} => \A m \in inbox : m.by # q
                       /\ ctx[q].answer \in {"accepted", "201"} => \E m \in inbox : m.by = q)'
    BY DEF ContactInv
  <2>1. CASE q = r BY <1>2, <1>5, <1>6, <1>9, <1>10, <1>11, <2>1
  <2>2. CASE q # r BY <1>2, <1>9, <1>10, <1>11, <2>2 DEF MailInv, ContactInv
  <2> QED BY <2>1, <2>2
<1> QED BY <1>1, <1>4, <1>8, <1>12 DEF MailInv

LEMMA ContactMail == ASSUME MailInv, NEW r \in Requests, Contact(r) PROVE MailInv'
<1>1. ASSUME NEW s \in Sites, NEW valid \in BOOLEAN, Submit(r, s, valid) PROVE MailInv'
  BY <1>1, SubmitMail
<1>2. CASE ContactAccepted(r) BY <1>2, ContactAcceptedMail
<1>3. CASE ContactOk(r) BY <1>3, AnswerMail DEF ContactOk
<1>4. CASE ContactErr(r) BY <1>4, AnswerMail DEF ContactErr
<1>5. CASE ContactDropped(r) BY <1>5, AnswerMail DEF ContactDropped
<1> QED BY <1>1, <1>2, <1>3, <1>4, <1>5 DEF Contact

-----------------------------------------------------------------------------
(* The digest *)

\* A run's step leaves the tables and the submissions alone.
LEMMA RunLeavesContact ==
  ASSUME MailInv, UNCHANGED <<world, ctx>>,
         \A m : m.by # Digest => (m \in inbox <=> m \in inbox')
  PROVE  TablesInv' /\ ContactInv'
<1>1. TablesInv' BY DEF MailInv, TablesInv, world
<1>2. \A r \in Requests : r # Digest BY NamesDiffer
<1>3. ContactInv' BY <1>2 DEF MailInv, ContactInv, world, Genuine, Active
<1> QED BY <1>1, <1>3

LEMMA OneIsNext ==
  ASSUME MailInv, NEW s \in Sites, NEW t \in Sites, IsNext(s), IsNext(t) PROVE s = t
<1>1. s \in Nat /\ t \in Nat /\ s <= t /\ t <= s BY SitesAreOrdered DEF IsNext
<1> QED BY <1>1

\* Going on to the next site: the one that is left has been mailed, or has a reason.
LEMMA LeaveMail ==
  ASSUME MailInv, NEW s \in Sites, IsNext(s), run.pc # "idle", Leave(s),
         UNCHANGED <<world, ctx, loaded, kills, inbox>>, struck' \in {struck, struck \cup {s}},
         ~run.dry /\ loaded[s].contact_to # None /\ s \in Measured \ struck' => MailsOf(Digest, s) # {}
  PROVE  MailInv'
<1>1. /\ run'.pc = "loop" /\ run'.todo = run.todo \ {s}
      /\ run'.dry = run.dry /\ run'.exit = run.exit
      /\ run' \in [pc : {"idle", "loop", "sending", "accepted"}, todo : SUBSET Sites,
                   dry : BOOLEAN, exit : {"none", "done", "failed", "killed"}]
  BY DEF Leave, MailInv, TypeOK
<1>2. TypeOK' BY <1>1 DEF MailInv, TypeOK, world
<1>3. TablesInv' /\ ContactInv' BY RunLeavesContact
<1>4. MailStaysHome' BY DEF MailInv, MailStaysHome, world, Active, Sender
<1>5. run.exit = "none" BY DEF MailInv, RunInv
<1>6. \A t : MailsOf(Digest, t)' = MailsOf(Digest, t) BY DEF MailsOf
<1>7. ASSUME NEW t \in run'.todo PROVE MailsOf(Digest, t) = {}
  <2>1. t \in Sites /\ t \in run.todo /\ t # s BY <1>1, <1>7 DEF MailInv, TypeOK
  <2>2. ~IsNext(t) BY <2>1, OneIsNext
  <2> QED BY <2>1, <2>2 DEF MailInv, RunInv
<1>8. \A t, g : Genuine(t, g)' = Genuine(t, g) BY DEF world, Genuine, Active
<1>9. ASSUME NEW t \in Sites, ~run.dry, loaded[t] # None, loaded[t].contact_to # None, t \in Measured \ struck'
      PROVE  t \in run'.todo \/ MailsOf(Digest, t) # {}
  <2>1. CASE t = s BY <1>9, <2>1
  <2>2. CASE t # s
    <3>1. t \notin struck BY <1>9
    <3>2. t \in run.todo \/ MailsOf(Digest, t) # {} BY <1>5, <1>9, <3>1 DEF MailInv, RunInv
    <3> QED BY <1>1, <2>2, <3>2
  <2> QED BY <2>1, <2>2
<1>10. RunInv'
  BY <1>1, <1>5, <1>6, <1>7, <1>8, <1>9 DEF MailInv, RunInv
<1> QED BY <1>2, <1>3, <1>4, <1>10 DEF MailInv

LEMMA SiteMail ==
  ASSUME MailInv, NEW s \in Sites, Skip(s) \/ ComputeErr(s) \/ SendOk(s) \/ SendErr(s)
  PROVE  MailInv'
<1>1. CASE Skip(s)
  <2>1. loaded[s].contact_to = None \/ s \notin Measured
    BY <1>1 DEF Skip, Skips, Recipient, EverMeasured, SiteColumns
  <2> QED BY <1>1, <2>1, LeaveMail DEF Skip
<1>2. CASE ComputeErr(s) BY <1>2, LeaveMail DEF ComputeErr
<1>3. CASE SendOk(s)
  <2>1. MailsOf(Digest, s) # {} BY <1>3 DEF SendOk, MailInv, RunInv
  <2> QED BY <1>3, <2>1, LeaveMail DEF SendOk
<1>4. CASE SendErr(s) BY <1>4, LeaveMail DEF SendErr
<1> QED BY <1>1, <1>2, <1>3, <1>4

\* A report that is computed is printed, or about to be sent to an address.
LEMMA ComputeMail == ASSUME MailInv, NEW s \in Sites, ComputeOk(s) PROVE MailInv'
<1>1. IsNext(s) /\ run.pc = "loop" /\ ~Skips(s) BY DEF ComputeOk
<1>2. CASE run.dry BY <1>1, <1>2, LeaveMail DEF ComputeOk
<1>3. CASE ~run.dry
  <2>1. /\ run' = [run EXCEPT !.pc = "sending"]
        /\ UNCHANGED <<world, ctx, loaded, struck, kills, inbox>>
    BY <1>3 DEF ComputeOk
  <2>2. /\ run'.pc = "sending" /\ run'.todo = run.todo
        /\ run'.dry = run.dry /\ run'.exit = run.exit
        /\ run' \in [pc : {"idle", "loop", "sending", "accepted"}, todo : SUBSET Sites,
                     dry : BOOLEAN, exit : {"none", "done", "failed", "killed"}]
    BY <2>1 DEF MailInv, TypeOK
  <2>3. TypeOK' BY <2>1, <2>2 DEF MailInv, TypeOK, world
  <2>4. TablesInv' /\ ContactInv' BY <2>1, RunLeavesContact
  <2>5. MailStaysHome' BY <2>1 DEF MailInv, MailStaysHome, world, Active, Sender
  <2>6. /\ \A t : MailsOf(Digest, t)' = MailsOf(Digest, t)
        /\ \A t, g : Genuine(t, g)' = Genuine(t, g)
        /\ \A t : IsNext(t)' <=> IsNext(t)
    BY <2>1, <2>2 DEF MailsOf, world, Genuine, Active, IsNext
  <2>7. \A t \in Sites : IsNext(t) => loaded[t].contact_to # None
    BY <1>1, OneIsNext DEF Skips, Recipient
  <2>8. \A t \in run.todo : MailsOf(Digest, t) = {} BY <1>1 DEF MailInv, RunInv
  <2>9. RunInv' BY <1>1, <1>3, <2>1, <2>2, <2>6, <2>7, <2>8 DEF MailInv, RunInv
  <2> QED BY <2>3, <2>4, <2>5, <2>9 DEF MailInv
<1> QED BY <1>2, <1>3

\* The API takes the mail of the site that is next, its first in this run.
LEMMA SendAcceptedMail == ASSUME MailInv, NEW s \in Sites, SendAccepted(s) PROVE MailInv'
<1> DEFINE mail == [by |-> Digest, site |-> s, to |-> Recipient(loaded[s]), from |-> Sender(loaded[s]),
                    nth |-> Cardinality(MailsOf(Digest, s)) + 1]
<1>1. /\ run.pc = "sending" /\ IsNext(s) /\ run' = [run EXCEPT !.pc = "accepted"]
      /\ inbox' = inbox \cup {mail}
      /\ UNCHANGED <<world, ctx, loaded, struck, kills>>
  BY DEF SendAccepted, Accepted
<1>2. /\ run'.pc = "accepted" /\ run'.todo = run.todo
      /\ run'.dry = run.dry /\ run'.exit = run.exit
      /\ run' \in [pc : {"idle", "loop", "sending", "accepted"}, todo : SUBSET Sites,
                   dry : BOOLEAN, exit : {"none", "done", "failed", "killed"}]
  BY <1>1 DEF MailInv, TypeOK
<1>3. TypeOK' BY <1>1, <1>2 DEF MailInv, TypeOK, world
<1>4. TablesInv' /\ ContactInv' BY <1>1, RunLeavesContact
<1>5. /\ s \in run.todo /\ loaded[s] # None /\ loaded[s].contact_to # None /\ ~run.dry
      /\ Genuine(s, loaded[s]) /\ MailsOf(Digest, s) = {}
  BY <1>1 DEF MailInv, RunInv, IsNext
<1>6. mail.nth = 1 BY <1>5, FS_EmptySet
<1>7. past' = past BY <1>1 DEF world
<1>8. MailStaysHome'
  <2> SUFFICES ASSUME NEW m \in inbox'
               PROVE  \E table \in past : /\ Active(table, m.site)
                                         /\ table[m.site].contact_to # None
                                         /\ m.to = table[m.site].contact_to
                                         /\ m.from = Sender(table[m.site])
    BY <1>7 DEF MailStaysHome, Active, Sender
  <2>1. CASE m \in inbox BY <2>1 DEF MailInv, MailStaysHome
  <2>2. CASE m = mail BY <1>5, <2>2 DEF Genuine, Recipient
  <2> QED BY <1>1, <2>1, <2>2
<1>9. /\ \A t, g : Genuine(t, g)' = Genuine(t, g)
      /\ \A t : IsNext(t)' <=> IsNext(t)
  BY <1>2, <1>7 DEF Genuine, Active, IsNext
<1>10. mail.by = Digest /\ mail.site = s OBVIOUS
<1> HIDE DEF mail
<1>11. \A t : MailsOf(Digest, t)' = IF t = s THEN {mail} ELSE MailsOf(Digest, t)
  BY <1>1, <1>5, <1>10 DEF MailsOf
<1>12. \A t \in Sites : IsNext(t) => t = s BY <1>1, OneIsNext
<1>13. run.exit = "none" BY <1>1 DEF MailInv, RunInv
<1>14. \A t \in run.todo : t # s => MailsOf(Digest, t) = {} BY <1>1 DEF MailInv, RunInv
<1>15. RunInv'
  BY <1>1, <1>2, <1>5, <1>6, <1>9, <1>10, <1>11, <1>12, <1>13, <1>14 DEF MailInv, RunInv
<1> QED BY <1>3, <1>4, <1>8, <1>15 DEF MailInv

\* A run begins, or fails at once, with no mails of its own.
LEMMA BeginMail ==
  ASSUME MailInv, NEW dry \in BOOLEAN, RunFails(dry) \/ RunStarts(dry)
  PROVE  MailInv'
<1>1. /\ inbox' = {m \in inbox : m.by # Digest} /\ struck' = {}
      /\ UNCHANGED <<world, ctx, kills>>
  BY DEF RunFails, RunStarts
<1>2. TablesInv' /\ ContactInv' BY <1>1, RunLeavesContact
<1>3. MailStaysHome' BY <1>1 DEF MailInv, MailStaysHome, world, Active, Sender
<1>4. \A t : MailsOf(Digest, t)' = {} BY <1>1 DEF MailsOf
<1>5. CASE RunFails(dry)
  <2>1. /\ run' = [pc |-> "idle", todo |-> {}, dry |-> dry, exit |-> "failed"]
        /\ loaded' = [s \in Sites |-> None]
    BY <1>5 DEF RunFails
  <2>2. TypeOK' BY <1>1, <2>1 DEF MailInv, TypeOK, Registries, world
  <2>3. RunInv' BY <1>1, <1>4, <2>1 DEF RunInv
  <2> QED BY <1>2, <1>3, <2>2, <2>3 DEF MailInv
<1>6. CASE RunStarts(dry)
  <2>1. /\ loaded' = [s \in Sites |-> IF Active(sites, s) THEN sites[s] ELSE None]
        /\ run' = [pc |-> "loop", todo |-> {s \in Sites : loaded'[s] # None}, dry |-> dry, exit |-> "none"]
    BY <1>6 DEF RunStarts
  <2>2. loaded' \in Registries BY <2>1 DEF MailInv, TypeOK, Registries
  <2>3. TypeOK' BY <1>1, <2>1, <2>2 DEF MailInv, TypeOK, world
  <2>4. sites \in past /\ past' = past BY <1>1 DEF MailInv, TablesInv, world
  <2>5. (\A s \in Sites : loaded[s] # None => Genuine(s, loaded[s]))'
    BY <2>1, <2>4 DEF Genuine, Active
  <2>6. RunInv' BY <1>1, <1>4, <2>1, <2>5 DEF RunInv
  <2> QED BY <1>2, <1>3, <2>3, <2>6 DEF MailInv
<1> QED BY <1>5, <1>6

\* A run ends with every site behind it, or is killed.
LEMMA EndMail == ASSUME MailInv, RunDone \/ RunKilled PROVE MailInv'
<1>1. PICK exit \in {"done", "killed"} :
           /\ RunEnds(exit) /\ run.pc # "idle" /\ (exit = "done" => run.todo = {})
  BY DEF RunDone, RunKilled
<1>2. /\ UNCHANGED <<world, ctx, loaded, struck, inbox>> /\ kills' \in 0 .. MaxKills
  BY BoundsNat DEF RunDone, RunKilled, MailInv, TypeOK
<1>3. /\ run'.pc = "idle" /\ run'.todo = {} /\ run'.dry = run.dry /\ run'.exit = exit
      /\ run' \in [pc : {"idle", "loop", "sending", "accepted"}, todo : SUBSET Sites,
                   dry : BOOLEAN, exit : {"none", "done", "failed", "killed"}]
  BY <1>1 DEF RunEnds, MailInv, TypeOK
<1>4. TypeOK' BY <1>2, <1>3 DEF MailInv, TypeOK, world
<1>5. TablesInv' /\ ContactInv' BY <1>2, RunLeavesContact
<1>6. MailStaysHome' BY <1>2 DEF MailInv, MailStaysHome, world, Active, Sender
<1>7. /\ \A t : MailsOf(Digest, t)' = MailsOf(Digest, t)
      /\ \A t, g : Genuine(t, g)' = Genuine(t, g)
  BY <1>2 DEF MailsOf, world, Genuine, Active
<1>8. run.exit = "none" BY <1>1 DEF MailInv, RunInv
<1>9. RunInv' BY <1>1, <1>2, <1>3, <1>7, <1>8 DEF MailInv, RunInv
<1> QED BY <1>4, <1>5, <1>6, <1>9 DEF MailInv

LEMMA StepMail == MailInv /\ [Next]_vars => MailInv'
<1> SUFFICES ASSUME MailInv, [Next]_vars PROVE MailInv' OBVIOUS
<1>1. ASSUME NEW s \in Sites, NEW row \in Rows \cup {None}, Edit(s, row) PROVE MailInv'
  BY <1>1, EditMail
<1>2. CASE Refresh BY <1>2, RefreshMail
<1>3. ASSUME NEW r \in Requests, Contact(r) PROVE MailInv' BY <1>3, ContactMail
<1>4. CASE DigestStep
  <2>1. ASSUME NEW dry \in BOOLEAN, RunFails(dry) \/ RunStarts(dry) PROVE MailInv' BY <2>1, BeginMail
  <2>2. ASSUME NEW s \in Sites, Skip(s) \/ ComputeErr(s) \/ SendOk(s) \/ SendErr(s) PROVE MailInv'
    BY <2>2, SiteMail
  <2>3. ASSUME NEW s \in Sites, ComputeOk(s) PROVE MailInv' BY <2>3, ComputeMail
  <2>4. ASSUME NEW s \in Sites, SendAccepted(s) PROVE MailInv' BY <2>4, SendAcceptedMail
  <2>5. CASE RunDone \/ RunKilled BY <2>5, EndMail
  <2> QED BY <1>4, <2>1, <2>2, <2>3, <2>4, <2>5 DEF DigestStep
<1>5. CASE UNCHANGED vars
  <2>1. TypeOK' BY <1>5 DEF vars, world, process, MailInv, TypeOK
  <2>2. TablesInv' BY <1>5 DEF vars, world, MailInv, TablesInv
  <2>3. ContactInv' BY <1>5 DEF vars, world, process, MailInv, ContactInv, Genuine, Active
  <2>4. RunInv' BY <1>5 DEF vars, world, process, MailInv, RunInv, Genuine, Active, IsNext, MailsOf
  <2>5. MailStaysHome' BY <1>5 DEF vars, world, process, MailInv, MailStaysHome, Active, Sender
  <2> QED BY <2>1, <2>2, <2>3, <2>4, <2>5 DEF MailInv
<1> QED BY <1>1, <1>2, <1>3, <1>4, <1>5 DEF Next

-----------------------------------------------------------------------------
(* Theorems *)

\* What a submission and a run hold is genuine at every moment, and the sites that a run
\* has left behind are mailed or have a reason.
THEOREM MailInductive == Spec => []MailInv
<1> QED BY InitMail, StepMail, PTL DEF Spec

\* Every mail goes to the address, and from the sender, of a row of its own site, for
\* every number of sites, submissions and edits, and every stale snapshot.
THEOREM MailStaysHomeTheorem == Spec => []MailStaysHome
<1>1. MailInv => MailStaysHome BY DEF MailInv
<1> QED BY <1>1, MailInductive, PTL

\* A 201 stands for one mail to the site's owner, a 400 or 503 for none.
THEOREM AnswerTheorem == Spec => []AnsweredMeansMailed
<1>1. MailInv => AnsweredMeansMailed BY DEF MailInv, ContactInv, AnsweredMeansMailed
<1> QED BY <1>1, MailInductive, PTL

\* The failure of one site's report changes nothing for the others.
THEOREM EachSiteTheorem == Spec => []EachSiteForItself
<1>1. MailInv => EachSiteForItself BY DEF MailInv, RunInv, EachSiteForItself
<1> QED BY <1>1, MailInductive, PTL

-----------------------------------------------------------------------------
(* Liveness: runs end, and come to every site that is due                    *)

Idle == run.pc = "idle"

\* A run ends, or turns from one place to the next.
Ends == run'.pc = "idle" /\ (run'.exit = "killed" \/ run.todo = {})

Turns(t) ==
    /\ IsNext(t)
    /\ UNCHANGED loaded
    /\ \/ run' = [run EXCEPT !.pc = "loop", !.todo = @ \ {t}]
       \/ run.pc = "loop" /\ run' = [run EXCEPT !.pc = "sending"]
       \/ run.pc = "sending" /\ run' = [run EXCEPT !.pc = "accepted"]

\* Nothing but these moves a run that is going on.
LEMMA RunMoves ==
    ASSUME TypeOK, ~Idle, [Next]_vars
    PROVE  /\ Ends \/ (\E t \in Sites : Turns(t)) \/ UNCHANGED <<run, loaded>>
           /\ GoesOn \/ Computes => Ends \/ \E t \in Sites : Turns(t)
<1>1. ASSUME NEW t \in Sites,
             Skip(t) \/ ComputeOk(t) \/ ComputeErr(t) \/ SendAccepted(t) \/ SendOk(t) \/ SendErr(t)
      PROVE  Turns(t)
  BY <1>1 DEF Skip, ComputeOk, ComputeErr, SendAccepted, SendOk, SendErr, Leave, Turns
<1>2. RunDone \/ RunKilled => Ends BY DEF RunDone, RunKilled, RunEnds, Ends, TypeOK
<1>3. CASE DigestStep
  <2>1. \A dry : ~RunFails(dry) /\ ~RunStarts(dry) BY DEF RunFails, RunStarts, Idle
  <2> QED BY <1>1, <1>2, <1>3, <2>1 DEF DigestStep
<1>4. ASSUME ~DigestStep PROVE UNCHANGED <<run, loaded>>
  BY <1>4 DEF Next, Edit, Refresh, Contact, Submit, ContactAccepted, ContactOk, ContactErr,
     ContactDropped, process, vars
<1>5. GoesOn \/ Computes => Ends \/ \E t \in Sites : Turns(t) BY <1>1, <1>2 DEF GoesOn, Computes
<1> QED BY <1>3, <1>4, <1>5

\* The steps that a run may still take: three for each site.
StepsLeft == 3 * Cardinality(run.todo)
             + (IF run.pc = "loop" THEN 2 ELSE IF run.pc = "sending" THEN 1 ELSE 0)

Going(n) == ~Idle /\ n = StepsLeft

Shorter(n) == Idle \/ \E m \in 0..n-1 : Going(m)

LEMMA StepsAreNat == ASSUME IsFiniteSet(Sites), TypeOK PROVE StepsLeft \in Nat
<1>1. IsFiniteSet(run.todo) BY FS_Subset DEF TypeOK
<1>2. Cardinality(run.todo) \in Nat BY <1>1, FS_CardinalityType
<1> QED BY <1>2 DEF StepsLeft

LEMMA StepsAreNatNext == ASSUME IsFiniteSet(Sites) PROVE TypeOK' => (StepsLeft \in Nat)'
<1>1. TypeOK => StepsLeft \in Nat BY StepsAreNat
<1> QED BY <1>1, PTL

\* A turn leaves fewer steps.
LEMMA TurnShortens ==
    ASSUME IsFiniteSet(Sites), TypeOK, ~Idle, NEW t \in Sites, Turns(t)
    PROVE  ~Idle' /\ StepsLeft' \in 0..StepsLeft - 1
<1>1. IsFiniteSet(run.todo) /\ t \in run.todo BY FS_Subset DEF TypeOK, Turns, IsNext
<1>2. /\ Cardinality(run.todo) \in Nat /\ Cardinality(run.todo \ {t}) \in Nat
      /\ Cardinality(run.todo \ {t}) = Cardinality(run.todo) - 1
  BY <1>1, FS_CardinalityType, FS_RemoveElement
<1>3. run.pc \in {"loop", "sending", "accepted"} BY DEF TypeOK, Idle
<1>4. CASE run' = [run EXCEPT !.pc = "loop", !.todo = @ \ {t}]
  <2>1. run'.pc = "loop" /\ run'.todo = run.todo \ {t} BY <1>4 DEF TypeOK
  <2>2. StepsLeft' = 3 * Cardinality(run.todo \ {t}) + 2 BY <2>1 DEF StepsLeft
  <2>3. StepsLeft >= 3 * Cardinality(run.todo) BY <1>2, <1>3 DEF StepsLeft
  <2>4. StepsLeft \in Nat BY <1>2 DEF StepsLeft
  <2> QED BY <1>2, <2>1, <2>2, <2>3, <2>4 DEF Idle
<1>5. CASE run.pc = "loop" /\ run' = [run EXCEPT !.pc = "sending"]
  <2>1. run'.pc = "sending" /\ run'.todo = run.todo BY <1>5 DEF TypeOK
  <2> QED BY <1>2, <1>5, <2>1 DEF StepsLeft, Idle
<1>6. CASE run.pc = "sending" /\ run' = [run EXCEPT !.pc = "accepted"]
  <2>1. run'.pc = "accepted" /\ run'.todo = run.todo BY <1>6 DEF TypeOK
  <2> QED BY <1>2, <1>6, <2>1 DEF StepsLeft, Idle
<1> QED BY <1>4, <1>5, <1>6 DEF Turns

\* One of the two fair steps is next, and stays so until it is taken.
CanGoOn == \/ run.pc \in {"sending", "accepted"}
           \/ run.pc = "loop" /\ \A s \in Sites : IsNext(s) => Skips(s)

CanCompute == run.pc = "loop" /\ \E s \in Sites : IsNext(s) /\ ~Skips(s)

LEMMA GoingSteps ==
    ASSUME IsFiniteSet(Sites), MailInv, NEW n \in Nat, Going(n), [Next]_vars
    PROVE  /\ CanGoOn \/ CanCompute
           /\ \/ Going(n)' /\ (CanGoOn => CanGoOn') /\ (CanCompute => CanCompute')
              \/ Shorter(n)'
           /\ GoesOn \/ Computes => Shorter(n)'
<1>1. TypeOK /\ ~Idle /\ n = StepsLeft BY DEF MailInv, Going
<1>2. CanGoOn \/ CanCompute BY <1>1 DEF CanGoOn, CanCompute, Idle, TypeOK
<1>3. ASSUME NEW t \in Sites, Turns(t) PROVE Shorter(n)'
  BY <1>1, <1>3, TurnShortens DEF Shorter, Going
<1>4. Ends => Shorter(n)' BY DEF Ends, Shorter, Idle
<1>5. UNCHANGED <<run, loaded>>
        => Going(n)' /\ (CanGoOn => CanGoOn') /\ (CanCompute => CanCompute')
  BY <1>1 DEF Going, StepsLeft, Idle, CanGoOn, CanCompute, IsNext, Skips, Recipient, EverMeasured
<1> QED BY <1>1, <1>2, <1>3, <1>4, <1>5, RunMoves

(* A run of the digest comes nearer to its end, again and again, whatever    *)
(* fails: the number of steps that it may still take falls until it is over. *)
THEOREM DigestProgress ==
    ASSUME IsFiniteSet(Sites)
    PROVE  FairSpec /\ []Ready =>
               \A n \in Nat : Going(n) ~> (run.pc = "idle" \/ \E m \in 0..n-1 : Going(m))
<1>1. ASSUME NEW n \in Nat PROVE FairSpec /\ []Ready => (Going(n) ~> Shorter(n))
  <2> DEFINE G == Going(n)
             Q == Shorter(n)
  <2>1. MailInv /\ [Next]_vars /\ G
          => /\ CanGoOn \/ CanCompute
             /\ (G' /\ (CanGoOn => CanGoOn') /\ (CanCompute => CanCompute')) \/ Q'
    BY GoingSteps
  <2>2. MailInv /\ [Next]_vars /\ <<GoesOn>>_vars /\ G => Q' BY GoingSteps
  <2>3. MailInv /\ [Next]_vars /\ <<Computes>>_vars /\ G => Q' BY GoingSteps
  <2>4. Ready /\ CanGoOn => ENABLED <<GoesOn>>_vars BY DEF Ready, CanGoOn
  <2>5. Ready /\ CanCompute => ENABLED <<Computes>>_vars BY DEF Ready, CanCompute
  <2> HIDE DEF G, Q
  <2>6. FairSpec /\ []Ready => (G ~> Q)
    BY <2>1, <2>2, <2>3, <2>4, <2>5, MailInductive, PTL DEF FairSpec, Spec
  <2> QED BY <2>6 DEF G, Q
<1>2. FairSpec /\ []Ready => \A n \in Nat : (Going(n) ~> Shorter(n)) BY <1>1
<1> QED BY <1>2 DEF Shorter, Idle

\* A run that mails is about to compute the report of s.
AtHand(s) == run.pc = "loop" /\ IsNext(s) /\ ~Skips(s) /\ ~run.dry

\* A run that mails will come to s, in n steps at most.
Coming(s, n) ==
    /\ Going(n)
    /\ s \in run.todo /\ ~Skips(s) /\ ~run.dry
    /\ IsNext(s) => run.pc = "loop"

Reached(s, n) == AtHand(s) \/ run.exit = "killed" \/ \E m \in 0..n-1 : Coming(s, m)

LEMMA ComingSteps ==
    ASSUME IsFiniteSet(Sites), MailInv, NEW s \in Sites, NEW n \in Nat, Coming(s, n), ~AtHand(s),
           [Next]_vars
    PROVE  /\ CanGoOn \/ CanCompute
           /\ \/ Coming(s, n)' /\ (CanGoOn => CanGoOn') /\ (CanCompute => CanCompute')
              \/ Reached(s, n)'
           /\ GoesOn \/ Computes => Reached(s, n)'
<1>1. /\ TypeOK /\ ~Idle /\ Going(n) /\ n = StepsLeft /\ s \in run.todo /\ ~Skips(s) /\ ~run.dry
      /\ ~IsNext(s)
  BY DEF MailInv, Going, Coming, AtHand
<1>2. CanGoOn \/ CanCompute BY <1>1, GoingSteps
<1>3. ASSUME NEW t \in Sites, Turns(t) PROVE Reached(s, n)'
  <2>1. t # s /\ loaded' = loaded BY <1>1, <1>3 DEF Turns
  <2>2. PICK m \in 0..n-1 : ~Idle' /\ m = StepsLeft' BY <1>1, <1>3, TurnShortens
  <2>3. Going(m)' BY <2>2 DEF Going
  <2>4. ~Skips(s)' BY <1>1, <2>1 DEF Skips, Recipient, EverMeasured
  <2>5. s \in run'.todo /\ ~run'.dry BY <1>1, <1>3, <2>1 DEF Turns, TypeOK
  <2>6. run'.pc = "loop" \/ run'.todo = run.todo BY <1>1, <1>3 DEF Turns, TypeOK
  <2>7. IsNext(s)' => run'.pc = "loop" BY <1>1, <2>6 DEF IsNext
  <2>8. Coming(s, m)' BY <2>3, <2>4, <2>5, <2>7 DEF Coming
  <2> QED BY <2>8 DEF Reached
<1>4. Ends => Reached(s, n)' BY <1>1 DEF Ends, Reached
<1>5. UNCHANGED <<run, loaded>>
        => Coming(s, n)' /\ (CanGoOn => CanGoOn') /\ (CanCompute => CanCompute')
  BY <1>1 DEF Coming, Going, StepsLeft, Idle, CanGoOn, CanCompute, IsNext, Skips, Recipient,
     EverMeasured
<1> QED BY <1>1, <1>2, <1>3, <1>4, <1>5, RunMoves

\* What the fairness of computations and of the mailer promises of one site.
SiteFair(s) == SF_vars(ComputeOk(s) /\ ~run.dry) /\ SF_vars(SendAccepted(s))

(* A site that is due gets its report, whatever happens to the others: runs  *)
(* that end again and again start again with the site before them; a run     *)
(* that mails comes nearer to each of its sites until it is killed; and a    *)
(* site that runs come to again and again is mailed again and again.         *)
THEOREM SiteProgress ==
    ASSUME IsFiniteSet(Sites)
    PROVE  FairSpec /\ []Ready =>
               \A s \in Sites :
                   /\ []([]Due(s) /\ []<>(run.pc = "idle") => <>(\E n \in Nat : Coming(s, n)))
                   /\ \A n \in Nat :
                        Coming(s, n) ~>
                            (AtHand(s) \/ run.exit = "killed" \/ \E m \in 0..n-1 : Coming(s, m))
                   /\ []<>AtHand(s) => []<><<SendAccepted(s)>>_vars
<1>1. ASSUME NEW s \in Sites
      PROVE  FairSpec /\ []Ready
               => []([]Due(s) /\ []<>Idle => <>(\E n \in Nat : Coming(s, n)))
  <2> DEFINE D == Due(s)
             C == \E n \in Nat : Coming(s, n)
  <2>1. MailInv /\ MailInv' /\ D /\ <<RunStarts(FALSE)>>_vars => C'
    <3> SUFFICES ASSUME MailInv, MailInv', D, RunStarts(FALSE) PROVE C' OBVIOUS
    <3>1. /\ loaded' = [t \in Sites |-> IF Active(sites, t) THEN sites[t] ELSE None]
          /\ run' = [pc |-> "loop", todo |-> {t \in Sites : loaded'[t] # None}, dry |-> FALSE,
                     exit |-> "none"]
      BY DEF RunStarts
    <3>2. loaded'[s] = sites[s] /\ sites[s] # None /\ sites[s].contact_to # None
      BY <3>1 DEF Due, Active
    <3>3. s \in run'.todo /\ ~run'.dry /\ run'.pc = "loop" BY <3>1, <3>2
    <3>4. ~Skips(s)' BY <3>2 DEF Skips, Recipient, EverMeasured, SiteColumns
    <3>5. PICK n \in Nat : n = StepsLeft'
      BY StepsAreNatNext DEF MailInv
    <3>6. Coming(s, n)' BY <3>3, <3>4, <3>5 DEF Coming, Going, Idle
    <3> QED BY <3>6
  <2>2. D /\ Idle /\ Ready => ENABLED <<RunStarts(FALSE)>>_vars BY DEF Due, Idle, Ready
  <2> HIDE DEF D, C
  <2>3. FairSpec /\ []Ready => []([]D /\ []<>Idle => <>C)
    BY <2>1, <2>2, MailInductive, PTL DEF FairSpec, Spec
  <2> QED BY <2>3 DEF D, C
<1>2. ASSUME NEW s \in Sites, NEW n \in Nat
      PROVE  FairSpec /\ []Ready => (Coming(s, n) ~> Reached(s, n))
  <2> DEFINE G == Coming(s, n)
             H == AtHand(s)
             Q == Reached(s, n)
  <2>1. MailInv /\ [Next]_vars /\ G /\ ~H
          => /\ CanGoOn \/ CanCompute
             /\ (G' /\ (CanGoOn => CanGoOn') /\ (CanCompute => CanCompute')) \/ Q'
    BY ComingSteps
  <2>2. MailInv /\ [Next]_vars /\ <<GoesOn>>_vars /\ G /\ ~H => Q' BY ComingSteps
  <2>3. MailInv /\ [Next]_vars /\ <<Computes>>_vars /\ G /\ ~H => Q' BY ComingSteps
  <2>4. Ready /\ CanGoOn => ENABLED <<GoesOn>>_vars BY DEF Ready, CanGoOn
  <2>5. Ready /\ CanCompute => ENABLED <<Computes>>_vars BY DEF Ready, CanCompute
  <2>6. H => Q BY DEF Reached
  <2> HIDE DEF G, H, Q
  <2>7. FairSpec /\ []Ready => (G ~> Q)
    BY <2>1, <2>2, <2>3, <2>4, <2>5, <2>6, MailInductive, PTL DEF FairSpec, Spec
  <2> QED BY <2>7 DEF G, Q
<1>3. FairSpec => \A s \in Sites : SiteFair(s) BY PTL DEF FairSpec, SiteFair
<1>4. ASSUME NEW s \in Sites
      PROVE  FairSpec /\ []Ready /\ SiteFair(s)
               => ([]<>AtHand(s) => []<><<SendAccepted(s)>>_vars)
  <2> DEFINE H == AtHand(s)
             S == run.pc = "sending" /\ IsNext(s)
             C == ComputeOk(s) /\ ~run.dry
             M == SendAccepted(s)
  <2>1. MailInv /\ <<C>>_vars => S' BY DEF ComputeOk, IsNext, MailInv, TypeOK
  <2>2. H /\ Ready => ENABLED <<C>>_vars BY DEF AtHand, Ready
  <2>3. S /\ Ready => ENABLED <<M>>_vars BY DEF Ready
  <2>4. SiteFair(s) => SF_vars(C) /\ SF_vars(M) BY PTL DEF SiteFair
  <2> HIDE DEF H, S, C, M
  <2>5. FairSpec /\ []Ready /\ SiteFair(s) => ([]<>H => []<><<M>>_vars)
    BY <2>1, <2>2, <2>3, <2>4, MailInductive, PTL DEF FairSpec, Spec
  <2> QED BY <2>5 DEF H, M
<1>5. FairSpec /\ []Ready
        => \A s \in Sites :
              /\ []([]Due(s) /\ []<>Idle => <>(\E n \in Nat : Coming(s, n)))
              /\ \A n \in Nat : (Coming(s, n) ~> Reached(s, n))
              /\ []<>AtHand(s) => []<><<SendAccepted(s)>>_vars
  BY <1>1, <1>2, <1>3, <1>4
<1> QED BY <1>5 DEF Reached, Idle
=============================================================================
