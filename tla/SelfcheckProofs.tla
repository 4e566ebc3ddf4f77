-------------------------- MODULE SelfcheckProofs --------------------------
(* Proofs about Selfcheck, for every set of checks and every repeat window.   *)
EXTENDS Selfcheck, TLAPS

\* The state file of a first run, and what Older leaves, are well typed.
LEMMA DefaultTyped == Default \in State /\ Unread \in [Counters -> Counts \cup {None}]
BY MaxCountNat DEF Default, State, Counts, Unread

\* Older leaves ages, and those with None alone; a new age is 0.
LEMMA OlderTyped ==
    ASSUME NEW a \in [Keys -> Ages \cup {None}]
    PROVE  /\ Older(a) \in [Keys -> Ages \cup {None}]
           /\ \A k \in Keys : /\ Older(a)[k] = None <=> a[k] = None
                              /\ a[k] \in Ages => /\ Older(a)[k] \in Ages
                                                  /\ a[k] <= Older(a)[k]
BY RepeatNat, NoneIsNoNumber DEF Older, Ages

\* Older keeps the order of two ages.
LEMMA OlderMonotone ==
    ASSUME NEW a \in [Keys -> Ages \cup {None}], NEW b \in [Keys -> Ages \cup {None}],
           NEW k \in Keys, a[k] \in Ages, b[k] \in Ages, a[k] <= b[k]
    PROVE  Older(a)[k] <= Older(b)[k]
BY RepeatNat, NoneIsNoNumber DEF Older, Ages

\* What the stamps of an alert are.
LEMMA StampedIs ==
    ASSUME TypeOK
    PROVE  /\ Stamped \in [Keys -> Ages \cup {None}]
           /\ \A k \in Keys : /\ k \in DueNow => Stamped[k] = 0
                              /\ k \in findings \ DueNow => Stamped[k] = state.last_notified[k]
                              /\ k \notin findings => Stamped[k] = None
           /\ DueNow \subseteq findings
           /\ 0 \in Ages
<1>1. 0 \in Ages BY RepeatNat DEF Ages
<1>2. state.last_notified \in [Keys -> Ages \cup {None}] BY DEF TypeOK, State
<1>3. DueNow \subseteq findings BY DEF DueNow
<1>4. Stamped = [k \in Keys |-> IF k \in DueNow THEN 0
                                ELSE IF k \in findings THEN state.last_notified[k] ELSE None]
  BY <1>3 DEF Stamped
<1> QED BY <1>1, <1>2, <1>3, <1>4

\* An ended run leaves nothing behind that is not well typed.
LEMMA ExitTyped ==
    ASSUME NEW how \in Ended, Exit(how)
    PROVE  /\ pc' \in Ended \cup Running /\ state' \in State /\ findings' \subseteq Keys
           /\ mailed' \subseteq Keys /\ reading' \in [Counters -> Counts \cup {None}]
BY DefaultTyped DEF Exit

\* Telling restarts the time since somebody was told.
LEMMA TellTyped ==
    ASSUME TypeOK, NEW ks, Tell(ks)
    PROVE  /\ told' \in [Keys -> Ages \cup {None}]
           /\ \A k \in Keys : told'[k] = IF k \in ks THEN 0 ELSE told[k]
BY RepeatNat DEF TypeOK, Tell, Ages

\* The initial state satisfies the invariant.
LEMMA SelfcheckInit == Init => SelfcheckInv
<1> SUFFICES ASSUME Init PROVE SelfcheckInv OBVIOUS
<1> USE DefaultTyped, MaxCountNat, RepeatNat, NoneIsNoNumber DEF Init
<1>1. TypeOK
  <2>1. readAt \in [Counters -> Counts] /\ count \in [Counters -> Counts] BY DEF Counts
  <2>2. told \in [Keys -> Ages \cup {None}] OBVIOUS
  <2> QED BY <2>1, <2>2 DEF TypeOK, Ended
<1>2. RunShape BY DEF RunShape, Ended
<1>3. BaselineShape BY DEF BaselineShape, Covers, Running, Unread, Default
<1>4. StampShape BY DEF StampShape, Backed, Remembers, Default
<1> QED BY <1>1, <1>2, <1>3, <1>4 DEF SelfcheckInv

\* Every step keeps the state well typed.
LEMMA SelfcheckTypeStep == ASSUME TypeOK, [Next]_vars PROVE TypeOK'
<1> USE DefaultTyped DEF env, history
<1>1. CASE \E p \in BOOLEAN : Load(p) BY <1>1 DEF Load, TypeOK, Running
<1>2. CASE CheckServer BY <1>2 DEF CheckServer, TypeOK, Running, Keys
<1>3. CASE CheckCounters
  <2>1. Rebaselined \in [Counters -> Counts] BY DEF Rebaselined, TypeOK, State
  <2>2. state' \in State BY <1>3, <2>1 DEF CheckCounters, TypeOK, State
  <2>3. findings' \subseteq Keys BY <1>3 DEF CheckCounters, TypeOK, Published, Keys
  <2> QED BY <1>3, <2>2, <2>3 DEF CheckCounters, TypeOK, Running
<1>4. CASE CountersUnreachable BY <1>4 DEF CountersUnreachable, TypeOK, Running
<1>5. CASE Alert
  <2>1. state' \in State BY <1>5, StampedIs DEF Alert, TypeOK, State
  <2>2. told' \in [Keys -> Ages \cup {None}] BY <1>5, TellTyped DEF Alert
  <2>3. mailed' \subseteq Keys BY <1>5, StampedIs DEF Alert, TypeOK
  <2> QED BY <1>5, <2>1, <2>2, <2>3 DEF Alert, TypeOK, Running
<1>6. CASE MailError
  <2>1. told' \in [Keys -> Ages \cup {None}] BY <1>6, TellTyped DEF MailError, TypeOK
  <2>2. unsaved' \subseteq Keys BY <1>6, StampedIs DEF MailError, TypeOK
  <2> QED BY <1>6, <2>1, <2>2, ExitTyped DEF MailError, TypeOK, Ended
<1>7. CASE Save
  <2>1. readAt' \in [Counters -> Counts] BY <1>7 DEF Save, TypeOK
  <2>2. gone' \subseteq Keys /\ file' \in State
    BY <1>7 DEF Save, TypeOK
  <2> QED BY <1>7, <2>1, <2>2 DEF Save, TypeOK, Running
<1>8. CASE SaveError BY <1>8, ExitTyped DEF SaveError, TypeOK, Ended
<1>9. CASE Ping BY <1>9, ExitTyped DEF Ping, TypeOK, Ended
<1>10. CASE Kill BY <1>10, ExitTyped DEF Kill, TypeOK, Ended
<1>11. ASSUME NEW c \in Counters, Lose(c) PROVE TypeOK'
  <2>1. count' \in [Counters -> Counts] BY <1>11, MaxCountNat DEF Lose, TypeOK, Counts
  <2> QED BY <1>11, <2>1 DEF Lose, TypeOK
<1>12. ASSUME NEW f \in Faults, Break(f) \/ Repair(f) PROVE TypeOK'
  BY <1>12 DEF Break, Repair, TypeOK
<1>13. CASE Restart
  <2>1. [c \in Counters |-> 0] \in [Counters -> Counts] BY MaxCountNat DEF Counts
  <2> QED BY <1>13, <2>1 DEF Restart, TypeOK
<1>14. CASE LoseFile BY <1>14, MaxCountNat DEF LoseFile, TypeOK, Counts
<1>15. CASE Tick
  <2>1. file' \in State BY <1>15, OlderTyped DEF Tick, TypeOK, State
  <2>2. told' \in [Keys -> Ages \cup {None}] BY <1>15, OlderTyped DEF Tick, TypeOK
  <2> QED BY <1>15, <2>1, <2>2 DEF Tick, TypeOK
<1>16. CASE UNCHANGED vars BY <1>16 DEF vars, TypeOK
<1>17. CASE CheckHost BY <1>17 DEF CheckHost, TypeOK, Running, Keys
<1> QED BY <1>1, <1>2, <1>3, <1>4, <1>5, <1>6, <1>7, <1>8, <1>9, <1>10, <1>11, <1>12, <1>13,
           <1>14, <1>15, <1>16, <1>17 DEF Next, Run, World

\* Every step keeps the shape of a run's memory.
LEMMA RunShapeStep == ASSUME TypeOK, RunShape, [Next]_vars PROVE RunShape'
<1> USE DEF env, history, RunShape, Ended, Running
<1>1. CASE Run
  <2>1. CASE \E p \in BOOLEAN : Load(p) BY <2>1 DEF Load
  <2>2. CASE CheckServer BY <2>2 DEF CheckServer, TypeOK
  <2>3. CASE CheckCounters BY <2>3 DEF CheckCounters
  <2>4. CASE CountersUnreachable BY <2>4 DEF CountersUnreachable
  <2>5. CASE Alert BY <2>5 DEF Alert
  <2>6. CASE MailError BY <2>6 DEF MailError, Exit
  <2>7. CASE Save BY <2>7 DEF Save
  <2>8. CASE SaveError BY <2>8 DEF SaveError, Exit
  <2>9. CASE Ping BY <2>9 DEF Ping, Exit
  <2>10. CASE Kill BY <2>10 DEF Kill, Exit
  <2>11. CASE CheckHost BY <2>11 DEF CheckHost
  <2> QED BY <1>1, <2>1, <2>2, <2>3, <2>4, <2>5, <2>6, <2>7, <2>8, <2>9, <2>10, <2>11 DEF Run
<1>2. CASE World
  BY <1>2 DEF World, Lose, Break, Repair, Restart, LoseFile, Tick
<1>3. CASE UNCHANGED vars BY <1>3 DEF vars
<1> QED BY <1>1, <1>2, <1>3 DEF Next

\* Every step keeps what is known of the baselines.
LEMMA BaselineStep ==
    ASSUME TypeOK, TypeOK', RunShape, BaselineShape, [Next]_vars
    PROVE  BaselineShape'
<1> SUFFICES ASSUME NEW c \in Counters
             PROVE  /\ readAt'[c] <= count'[c]
                    /\ Covers(file.counters, c)'
                    /\ pc' \in Running /\ reading'[c] = None => Covers(state.counters, c)'
                    /\ reading'[c] # None =>
                          /\ reading'[c] <= count'[c]
                          /\ state'.counters[c] >= reading'[c]
                          /\ reading'[c] > 0 => state'.counters[c] = reading'[c]
  BY DEF BaselineShape
<1> DEFINE At == /\ readAt[c] <= count[c]
                 /\ Covers(file.counters, c)
                 /\ pc \in Running /\ reading[c] = None => Covers(state.counters, c)
                 /\ reading[c] # None =>
                       /\ reading[c] <= count[c]
                       /\ state.counters[c] >= reading[c]
                       /\ reading[c] > 0 => state.counters[c] = reading[c]
<1>1. At BY DEF BaselineShape
<1>2. /\ count[c] \in Nat /\ readAt[c] \in Nat /\ readAt'[c] \in Nat /\ count'[c] \in Nat
      /\ file.counters[c] \in Nat /\ state.counters[c] \in Nat
      /\ reading[c] \in Nat \cup {None}
  BY MaxCountNat DEF TypeOK, State, Counts
<1>3. pc \in Ended => reading[c] = None BY DEF RunShape, Unread
<1>4. Unread[c] = None /\ Default.counters[c] = 0 BY DEF Unread, Default
<1> USE DEF Covers, env, history
<1>5. ASSUME NEW how \in Ended, Exit(how), UNCHANGED <<count, readAt, file>>
      PROVE  At'
  BY <1>1, <1>4, <1>5 DEF Exit, Ended, Running
<1>6. ASSUME UNCHANGED <<count, readAt, reading, file, state>>, pc \in Running \/ pc' = pc
      PROVE  At'
  BY <1>1, <1>6
<1>7. CASE Run
  <2>1. CASE \E p \in BOOLEAN : Load(p) BY <1>1, <1>3, <2>1 DEF Load
  <2>2. CASE CheckServer BY <1>6, <2>2 DEF CheckServer, Running
  <2>3. CASE CheckCounters
    <3>1. state' = [state EXCEPT !.counters = Rebaselined] /\ reading' = count
          /\ UNCHANGED <<count, readAt, file>>
      BY <2>3 DEF CheckCounters
    <3>2. state'.counters = Rebaselined BY <3>1 DEF TypeOK, State
    <3>3. count[c] > 0 => state'.counters[c] = count[c]
      BY <3>2 DEF Rebaselined, Published
    <3>4. state'.counters[c] \in Nat BY MaxCountNat DEF TypeOK, State, Counts
    <3>5. reading'[c] # None BY <1>2, <3>1, NoneIsNoNumber
    <3> QED BY <1>1, <1>2, <3>1, <3>3, <3>4, <3>5
  <2>4. CASE CountersUnreachable BY <1>6, <2>4 DEF CountersUnreachable, Running
  <2>5. CASE Alert
    <3>1. state'.counters = state.counters BY <2>5 DEF Alert, TypeOK, State
    <3> QED BY <1>1, <2>5, <3>1 DEF Alert, Running
  <2>6. CASE MailError BY <1>5, <2>6 DEF MailError, Ended
  <2>7. CASE Save
    <3>1. readAt'[c] = IF reading[c] # None THEN reading[c] ELSE readAt[c]
      BY <2>7 DEF Save
    <3>2. UNCHANGED <<count, state, reading>> /\ file' = state /\ pc \in Running
      BY <2>7 DEF Save, Running
    <3> QED BY <1>1, <1>2, <3>1, <3>2
  <2>8. CASE SaveError BY <1>5, <2>8 DEF SaveError, Ended
  <2>9. CASE Ping BY <1>5, <2>9 DEF Ping, Ended
  <2>10. CASE Kill BY <1>5, <2>10 DEF Kill, Ended
  <2>11. CASE CheckHost BY <1>6, <2>11 DEF CheckHost, Running
  <2> QED BY <1>7, <2>1, <2>2, <2>3, <2>4, <2>5, <2>6, <2>7, <2>8, <2>9, <2>10, <2>11 DEF Run
<1>8. ASSUME NEW d \in Counters, Lose(d) PROVE At'
  <2>1. count[c] <= count'[c] BY <1>2, <1>8 DEF Lose, TypeOK
  <2> QED BY <1>1, <1>2, <1>8, <2>1 DEF Lose
<1>9. ASSUME NEW f \in Faults, Break(f) \/ Repair(f) PROVE At'
  BY <1>6, <1>9 DEF Break, Repair
<1>10. CASE Restart BY <1>1, <1>2, <1>4, <1>10 DEF Restart
<1>11. CASE LoseFile
  <2>1. readAt'[c] = 0 /\ file'.counters[c] = 0 BY <1>4, <1>11 DEF LoseFile
  <2>2. pc \in Ended /\ pc \notin Running BY <1>11 DEF LoseFile, Ended, Running
  <2> QED BY <1>1, <1>2, <1>3, <1>11, <2>1, <2>2 DEF LoseFile
<1>12. CASE Tick
  <2>1. file'.counters = file.counters BY <1>12 DEF Tick, TypeOK, State
  <2> QED BY <1>1, <1>12, <2>1 DEF Tick
<1>13. CASE UNCHANGED vars BY <1>6, <1>13 DEF vars
<1> QED BY <1>7, <1>8, <1>9, <1>10, <1>11, <1>12, <1>13 DEF Next, World

\* The stamps of a key, told and untold, as numbers or None.
LEMMA StampTypes ==
    ASSUME TypeOK
    PROVE  \A k \in Keys : /\ file.last_notified[k] \in Nat \cup {None}
                          /\ state.last_notified[k] \in Nat \cup {None}
                          /\ told[k] \in Nat \cup {None}
BY RepeatNat DEF TypeOK, State, Ages

\* Every step keeps what is known of the stamps.
LEMMA StampStep ==
    ASSUME TypeOK, TypeOK', RunShape, StampShape, [Next]_vars
    PROVE  StampShape'
<1> USE DEF env, history
<1>1. Default.last_notified = [k \in Keys |-> None] BY DEF Default
<1>2. mailed \subseteq Keys /\ unsaved \subseteq Keys /\ gone \subseteq Keys
      /\ findings \subseteq Keys
  BY DEF TypeOK
<1>3. ASSUME UNCHANGED <<file, state, told, gone, mailed, unsaved>>,
             pc' \in {"server", "counters", "host", "alert"}
                => pc \in {"server", "counters", "host", "alert"},
             pc' = "save" => pc = "save" /\ UNCHANGED findings
      PROVE  StampShape'
  BY <1>3 DEF StampShape, Backed, Remembers
\* A run that ends without having told, or having noted that its telling is not saved.
<1>4. ASSUME NEW how \in Ended, Exit(how), UNCHANGED <<file, told, gone>>,
             unsaved' = unsaved \cup mailed
      PROVE  StampShape'
  BY <1>1, <1>2, <1>4 DEF StampShape, Backed, Remembers, Exit, Ended
<1>5. ASSUME NEW p \in BOOLEAN, Load(p) PROVE StampShape'
  BY <1>5 DEF Load, StampShape, Backed, Remembers
<1>6. CASE CheckServer BY <1>3, <1>6 DEF CheckServer
<1>7. CASE CheckCounters
  <2>1. state'.last_notified = state.last_notified BY <1>7 DEF CheckCounters, TypeOK, State
  <2>2. pc = "counters" /\ pc' = "host" /\ UNCHANGED <<file, told, gone, mailed, unsaved>>
    BY <1>7 DEF CheckCounters
  <2> QED BY <2>1, <2>2 DEF StampShape, Backed, Remembers
<1>8. CASE CountersUnreachable BY <1>3, <1>8 DEF CountersUnreachable
\* At the alert the run's stamps are those of the file.
<1>9. pc = "alert" => \A k \in DueNow : \/ file.last_notified[k] = None
                                        \/ file.last_notified[k] >= Repeat
  BY DEF StampShape, DueNow, Due
<1>10. CASE Alert
  <2>1. /\ pc = "alert" /\ pc' = "save" /\ mailed' = DueNow
        /\ UNCHANGED <<file, gone, unsaved, findings>>
    BY <1>10 DEF Alert
  <2>2. state'.last_notified = Stamped BY <1>10 DEF Alert, TypeOK, State
  <2>3. \A k \in Keys : told'[k] = IF k \in DueNow THEN 0 ELSE told[k]
    BY <1>10, TellTyped DEF Alert
  <2>4. state.last_notified = file.last_notified BY <2>1 DEF StampShape
  <2>5. Backed(file.last_notified)'
    BY <2>1, <2>3, StampTypes, NoneIsNoNumber DEF StampShape, Backed
  <2>6. Backed(state.last_notified)'
    BY <2>2, <2>3, <2>4, StampedIs, NoneIsNoNumber DEF StampShape, Backed
  <2>7. Remembers(file.last_notified, Keys \ (gone \cup mailed \cup unsaved))'
    BY <2>1, <2>3 DEF StampShape, Remembers, RunShape
  <2>8. \A k \in mailed' \cup unsaved' : \/ file'.last_notified[k] = None
                                         \/ file'.last_notified[k] >= Repeat
    BY <1>9, <2>1 DEF StampShape
  <2>9. \A k \in findings \ DueNow : /\ state.last_notified[k] \in Ages
                                     /\ state.last_notified[k] < Repeat
    BY <1>2, RepeatNat DEF DueNow, Due, TypeOK, State, Ages
  <2>10. /\ DueNow \subseteq findings
         /\ \A k \in Keys \ findings : state'.last_notified[k] = None
         /\ \A k \in DueNow : state'.last_notified[k] = 0 /\ told'[k] = 0
         /\ \A k \in findings \ DueNow : state'.last_notified[k] = state.last_notified[k]
    BY <1>2, <2>2, <2>3, StampedIs
  <2>11. \A k \in gone' : file'.last_notified[k] = None BY <2>1 DEF StampShape
  <2> QED BY <2>1, <2>4, <2>5, <2>6, <2>7, <2>8, <2>9, <2>10, <2>11 DEF StampShape
<1>11. CASE MailError
  <2>1. pc = "alert" /\ Exit("mail_error") /\ UNCHANGED <<file, gone>>
    BY <1>11 DEF MailError
  <2>2. mailed = {} BY <2>1 DEF RunShape
  <2>3. CASE UNCHANGED <<told, unsaved>> BY <1>4, <2>1, <2>2, <2>3 DEF Ended
  <2>4. CASE Tell(DueNow) /\ unsaved' = unsaved \cup DueNow
    <3>1. \A k \in Keys : told'[k] = IF k \in DueNow THEN 0 ELSE told[k] BY <2>4, TellTyped
    <3>2. Backed(file.last_notified)'
      BY <2>1, <3>1, StampTypes, NoneIsNoNumber DEF StampShape, Backed
    <3>3. Remembers(file.last_notified, Keys \ (gone \cup mailed \cup unsaved))'
      BY <2>1, <2>2, <2>4, <3>1 DEF StampShape, Remembers, Exit
    <3>4. state' = Default /\ mailed' = {} /\ pc' = "mail_error" BY <2>1 DEF Exit
    <3>5. Backed(state.last_notified)' BY <1>1, <3>4 DEF Backed
    <3>6. \A k \in mailed' \cup unsaved' : \/ file'.last_notified[k] = None
                                           \/ file'.last_notified[k] >= Repeat
      BY <1>9, <2>1, <2>4, <3>4 DEF StampShape
    <3>7. \A k \in gone' : file'.last_notified[k] = None BY <2>1 DEF StampShape
    <3> QED BY <3>2, <3>3, <3>4, <3>5, <3>6, <3>7 DEF StampShape
  <2> QED BY <1>11, <2>3, <2>4 DEF MailError
<1>12. CASE Save
  <2>1. /\ pc = "save" /\ pc' = "ping" /\ file' = state /\ gone' = Keys \ findings
        /\ mailed' = {} /\ unsaved' = {} /\ UNCHANGED <<state, findings, told>>
    BY <1>12 DEF Save
  <2>2. \A k \in gone' : file'.last_notified[k] = None BY <2>1 DEF StampShape
  <2>3. ASSUME NEW k \in findings, told[k] # None
        PROVE  state.last_notified[k] # None /\ state.last_notified[k] <= told[k]
    <3>1. CASE k \in mailed BY <1>2, <2>1, <3>1, RepeatNat, NoneIsNoNumber DEF StampShape
    <3>2. CASE k \notin mailed
      <4>1. /\ file.last_notified[k] = state.last_notified[k]
            /\ file.last_notified[k] \in Ages /\ file.last_notified[k] < Repeat
        BY <2>1, <3>2 DEF StampShape
      <4>2. file.last_notified[k] # None /\ ~(file.last_notified[k] >= Repeat)
        BY <4>1, RepeatNat, NoneIsNoNumber DEF Ages
      <4>3. k \in Keys \ (gone \cup mailed \cup unsaved)
        BY <1>2, <3>2, <4>2 DEF StampShape
      <4> QED BY <2>3, <4>1, <4>3 DEF StampShape, Remembers
    <3> QED BY <3>1, <3>2
  <2>4. Remembers(file.last_notified, Keys \ (gone \cup mailed \cup unsaved))'
    BY <2>1, <2>3 DEF Remembers
  <2>5. Backed(file.last_notified)' /\ Backed(state.last_notified)'
    BY <2>1 DEF StampShape, Backed
  <2> QED BY <2>1, <2>2, <2>4, <2>5 DEF StampShape
<1>13. CASE SaveError BY <1>4, <1>13 DEF SaveError, Ended
<1>14. CASE Ping
  <2>1. mailed = {} BY <1>14 DEF Ping, RunShape
  <2> QED BY <1>4, <1>14, <2>1 DEF Ping, Ended
<1>15. CASE Kill BY <1>4, <1>15 DEF Kill, Ended
<1>16. CASE \/ \E c \in Counters : Lose(c)
            \/ \E f \in Faults : Break(f) \/ Repair(f)
            \/ Restart
            \/ UNCHANGED vars
  BY <1>3, <1>16 DEF Lose, Break, Repair, Restart, vars
\* Between two runs only the file and the time that has passed matter.
<1>17. ASSUME pc \in Ended, UNCHANGED <<pc, state, mailed, unsaved>>
       PROVE  /\ mailed' = {} /\ state' = Default /\ Backed(state.last_notified)'
              /\ pc' \notin {"server", "counters", "host", "alert", "save"}
  BY <1>1, <1>17 DEF RunShape, Ended, Backed
<1>18. CASE LoseFile
  <2>1. /\ pc \in Ended /\ file' = Default /\ gone' = Keys
        /\ UNCHANGED <<pc, state, mailed, unsaved>>
    BY <1>18 DEF LoseFile
  <2> QED BY <1>1, <1>2, <1>17, <2>1 DEF StampShape, Backed, Remembers
<1>19. CASE Tick
  <2>1. pc \in Ended /\ told' = Older(told) /\ UNCHANGED <<pc, state, gone, mailed, unsaved>>
    BY <1>19 DEF Tick
  <2>2. file'.last_notified = Older(file.last_notified) BY <1>19 DEF Tick, TypeOK, State
  <2>3. /\ told \in [Keys -> Ages \cup {None}]
        /\ file.last_notified \in [Keys -> Ages \cup {None}]
    BY DEF TypeOK, State
  <2>4. \A k \in gone' : file'.last_notified[k] = None
    BY <1>2, <2>1, <2>2, <2>3, OlderTyped DEF StampShape
  <2>5. ASSUME NEW k \in mailed' \cup unsaved'
        PROVE  file'.last_notified[k] = None \/ file'.last_notified[k] >= Repeat
    <3>1. k \in Keys /\ (file.last_notified[k] = None \/ file.last_notified[k] >= Repeat)
      BY <1>2, <2>1 DEF StampShape
    <3>2. CASE file.last_notified[k] = None BY <2>2, <2>3, <3>1, <3>2, OlderTyped
    <3>3. CASE file.last_notified[k] # None
      <4>1. file.last_notified[k] \in Ages BY <2>3, <3>1, <3>3
      <4>2. /\ file'.last_notified[k] \in Ages
            /\ file.last_notified[k] <= file'.last_notified[k]
        BY <2>2, <2>3, <3>1, <4>1, OlderTyped
      <4> QED BY <3>1, <3>3, <4>1, <4>2, RepeatNat DEF Ages
    <3> QED BY <3>2, <3>3
  <2>6. ASSUME NEW k \in Keys, file'.last_notified[k] # None,
               file.last_notified[k] # None => told[k] # None /\ told[k] <= file.last_notified[k]
        PROVE  told'[k] # None /\ told'[k] <= file'.last_notified[k]
    <3>1. file.last_notified[k] \in Ages BY <2>2, <2>3, <2>6, OlderTyped
    <3>2. told[k] \in Ages /\ told[k] <= file.last_notified[k]
      BY <2>3, <2>6, <3>1, NoneIsNoNumber DEF Ages
    <3>3. told'[k] # None BY <2>1, <2>3, <3>2, OlderTyped, NoneIsNoNumber DEF Ages
    <3> QED BY <2>1, <2>2, <2>3, <3>1, <3>2, <3>3, OlderMonotone
  <2>7. ASSUME NEW k \in Keys, told'[k] # None,
               told[k] # None => file.last_notified[k] # None /\ file.last_notified[k] <= told[k]
        PROVE  file'.last_notified[k] # None /\ file'.last_notified[k] <= told'[k]
    <3>1. told[k] \in Ages BY <2>1, <2>3, <2>7, OlderTyped
    <3>2. file.last_notified[k] \in Ages /\ file.last_notified[k] <= told[k]
      BY <2>3, <2>7, <3>1, NoneIsNoNumber DEF Ages
    <3>3. file'.last_notified[k] # None BY <2>2, <2>3, <3>2, OlderTyped, NoneIsNoNumber DEF Ages
    <3> QED BY <2>1, <2>2, <2>3, <3>1, <3>2, <3>3, OlderMonotone
  <2>8. Backed(file.last_notified)' BY <2>6 DEF StampShape, Backed
  <2>9. Remembers(file.last_notified, Keys \ (gone \cup mailed \cup unsaved))'
    BY <2>1, <2>7 DEF StampShape, Remembers
  <2> QED BY <1>17, <2>1, <2>4, <2>5, <2>8, <2>9 DEF StampShape
<1>20. CASE CheckHost BY <1>3, <1>20 DEF CheckHost
<1>21. CASE Run
  BY <1>5, <1>6, <1>7, <1>8, <1>10, <1>11, <1>12, <1>13, <1>14, <1>15, <1>20,
     <1>21 DEF Run
<1>22. CASE World BY <1>16, <1>18, <1>19, <1>22 DEF World
<1> QED BY <1>16, <1>21, <1>22 DEF Next

\* Every reachable state satisfies the invariant behind the properties: memory of a run,
\* baselines and stamps agree with what happened.
THEOREM SelfcheckInductive == Spec => []SelfcheckInv
<1>1. SelfcheckInv /\ [Next]_vars => SelfcheckInv'
  BY SelfcheckTypeStep, RunShapeStep, BaselineStep, StampStep DEF SelfcheckInv
<1> QED BY SelfcheckInit, <1>1, PTL DEF Spec

\* No problem is told of again inside the repeat window without a reason
\* (selfcheck.rs, should_notify).
THEOREM ThrottleTheorem == Spec => Throttled
<1>1. ASSUME SelfcheckInv, [Next]_vars, NEW k \in Keys, pc = "alert", k \in mailed'
      PROVE  told[k] = None \/ told[k] >= Repeat \/ k \in gone \/ k \in unsaved
  <2>1. mailed = {} BY <1>1 DEF SelfcheckInv, RunShape
  <2>2. Alert
    BY <1>1, <2>1 DEF Next, Run, World, vars, history, env, Ended, Load, CheckServer,
       CheckCounters, CountersUnreachable, CheckHost, MailError, Exit, Save, SaveError, Ping,
       Kill, Lose, Break, Repair, Restart, LoseFile, Tick
  <2>3. Due(k) BY <1>1, <2>2 DEF Alert, DueNow
  <2>4. SUFFICES ASSUME told[k] # None, k \notin gone, k \notin unsaved
                 PROVE  told[k] >= Repeat
    OBVIOUS
  <2>5. file.last_notified[k] # None /\ file.last_notified[k] <= told[k]
    BY <1>1, <2>1, <2>4 DEF SelfcheckInv, StampShape, Remembers
  <2>6. file.last_notified[k] >= Repeat
    BY <1>1, <2>3, <2>5 DEF Due, SelfcheckInv, StampShape
  <2>7. TypeOK BY <1>1 DEF SelfcheckInv
  <2> QED BY <2>4, <2>5, <2>6, <2>7, StampTypes, RepeatNat
<1>2. SelfcheckInv /\ [Next]_vars =>
        [\A k \in Keys : pc = "alert" /\ k \in mailed' =>
            \/ told[k] = None \/ told[k] >= Repeat
            \/ k \in gone \/ k \in unsaved]_vars
  BY <1>1
<1> QED BY <1>2, SelfcheckInductive, PTL DEF Spec, Throttled

\* A run that saves its state leaves nothing it found untold (selfcheck.rs, run).
THEOREM SwallowTheorem == Spec => NothingSwallowed
<1>1. ASSUME SelfcheckInv, pc = "save", NEW k \in findings, k \notin mailed
      PROVE  k \notin gone /\ told[k] # None /\ told[k] < Repeat
  <2>1. TypeOK /\ k \in Keys BY <1>1 DEF SelfcheckInv, TypeOK
  <2>2. /\ file.last_notified[k] = state.last_notified[k]
        /\ file.last_notified[k] \in Ages /\ file.last_notified[k] < Repeat
    BY <1>1 DEF SelfcheckInv, StampShape
  <2>3. file.last_notified[k] # None BY <2>2, NoneIsNoNumber DEF Ages
  <2>4. k \notin gone BY <1>1, <2>3 DEF SelfcheckInv, StampShape
  <2>5. told[k] # None /\ told[k] <= file.last_notified[k]
    BY <1>1, <2>1, <2>3 DEF SelfcheckInv, StampShape, Backed
  <2> QED BY <2>1, <2>2, <2>4, <2>5, StampTypes, RepeatNat DEF Ages
<1>2. SelfcheckInv =>
        [pc = "save" /\ pc' = "ping" =>
          \A k \in findings :
              k \in mailed \/ (k \notin gone /\ told[k] # None /\ told[k] < Repeat)]_vars
  BY <1>1
<1> QED BY <1>2, SelfcheckInductive, PTL DEF NothingSwallowed

\* A counter seen above zero before is found exactly when it has risen
\* (selfcheck.rs, check_counters).
THEOREM RiseTheorem == Spec => RisesAreFound
<1>1. ASSUME SelfcheckInv, [Next]_vars, pc = "counters", reading' # reading,
             NEW c \in Counters
      PROVE  /\ c \in findings' => count[c] > readAt[c]
             /\ readAt[c] > 0 /\ count[c] > readAt[c] => c \in findings'
  <2>1. reading = Unread /\ findings \subseteq Faults BY <1>1 DEF SelfcheckInv, RunShape
  <2>2. CheckCounters
    BY <1>1, <2>1 DEF Next, Run, World, vars, history, env, Ended, Load, CheckServer,
       CountersUnreachable, CheckHost, Alert, MailError, Exit, Save, SaveError, Ping,
       Kill, Lose, Break, Repair, Restart, LoseFile, Tick
  <2>3. c \notin findings BY <2>1, KeysDiffer DEF Faults
  <2>4. Covers(state.counters, c)
    BY <1>1, <2>1 DEF SelfcheckInv, BaselineShape, Running, Unread
  <2>5. count[c] \in Nat /\ readAt[c] \in Nat /\ state.counters[c] \in Nat
    BY <1>1, MaxCountNat DEF SelfcheckInv, TypeOK, State, Counts
  <2>6. c \in findings' <=> count[c] > 0 /\ count[c] > state.counters[c]
    BY <2>2, <2>3 DEF CheckCounters, Published, Rose
  <2> QED BY <2>4, <2>5, <2>6 DEF Covers
<1>2. SelfcheckInv /\ [Next]_vars =>
        [pc = "counters" /\ reading' # reading =>
          \A c \in Counters :
              /\ c \in findings' => count[c] > readAt[c]
              /\ readAt[c] > 0 /\ count[c] > readAt[c] => c \in findings']_vars
  BY <1>1
<1> QED BY <1>2, SelfcheckInductive, PTL DEF Spec, RisesAreFound

-----------------------------------------------------------------------------
(* Liveness: a fault that stays is mailed again                              *)

Alive == pc # "aborted"

AtEnd     == pc \in Ended
AtServer  == pc = "server"
AtCounts  == pc = "counters"
AtHost    == pc = "host"
AtAlert   == pc = "alert"
AtSave    == pc = "save"
AtPing    == pc = "ping"

\* A run that is neither killed nor fails to write goes from place to place.
LEMMA Places ==
    ASSUME TypeOK, [Next]_vars, Alive'
    PROVE  /\ AtEnd \/ AtServer \/ AtCounts \/ AtHost \/ AtAlert \/ AtSave \/ AtPing
           /\ AtEnd => AtEnd' \/ AtServer'
           /\ AtServer => AtServer' \/ AtCounts'
           /\ AtCounts => AtCounts' \/ AtHost'
           /\ AtHost => AtHost' \/ AtAlert'
           /\ AtAlert => AtAlert' \/ AtSave' \/ AtEnd'
           /\ AtSave => AtSave' \/ AtPing'
           /\ AtPing => AtPing' \/ AtEnd'
<1> USE DEF Ended, Running, AtEnd, AtServer, AtCounts, AtHost, AtAlert, AtSave, AtPing, Alive
<1>1. AtEnd \/ AtServer \/ AtCounts \/ AtHost \/ AtAlert \/ AtSave \/ AtPing BY DEF TypeOK
<1>2. CASE Run
  BY <1>1, <1>2 DEF Run, Load, CheckServer, CheckCounters, CountersUnreachable, CheckHost, Alert,
     MailError, Save, SaveError, Ping, Kill, Exit
<1>3. CASE World \/ UNCHANGED vars
  <2>1. pc' = pc
    BY <1>3 DEF World, Lose, Break, Repair, Restart, LoseFile, Tick, vars
  <2> QED BY <1>1, <2>1
<1> QED BY <1>2, <1>3 DEF Next

\* What the timer and the timeouts bring about is such a move.
LEMMA Moves ==
    ASSUME RunGoesOn
    PROVE  /\ AtEnd => AtServer'
           /\ AtServer => AtCounts'
           /\ AtCounts => AtHost'
           /\ AtHost => AtAlert'
           /\ AtAlert => AtSave'
           /\ AtSave => AtPing'
           /\ AtPing => AtEnd'
BY DEF RunGoesOn, Ended, AtEnd, AtServer, AtCounts, AtHost, AtAlert, AtSave, AtPing, Load,
   CheckServer, CheckCounters, CountersUnreachable, CheckHost, Alert, Save, Ping, Exit

\* Runs end and come to their alert again and again while none is killed or fails to write.
LEMMA RunsGoOn == FairSpec /\ []Ready => []([]Alive => []<>AtEnd /\ []<>AtAlert)
<1>1. SelfcheckInv /\ [Next]_vars /\ Alive'
        => /\ AtEnd \/ AtServer \/ AtCounts \/ AtHost \/ AtAlert \/ AtSave \/ AtPing
           /\ AtEnd => AtEnd' \/ AtServer'
           /\ AtServer => AtServer' \/ AtCounts'
           /\ AtCounts => AtCounts' \/ AtHost'
           /\ AtHost => AtHost' \/ AtAlert'
           /\ AtAlert => AtAlert' \/ AtSave' \/ AtEnd'
           /\ AtSave => AtSave' \/ AtPing'
           /\ AtPing => AtPing' \/ AtEnd'
  BY Places DEF SelfcheckInv
<1>2. <<RunGoesOn>>_vars
        => /\ AtEnd => AtServer'
           /\ AtServer => AtCounts'
           /\ AtCounts => AtHost'
           /\ AtHost => AtAlert'
           /\ AtAlert => AtSave'
           /\ AtSave => AtPing'
           /\ AtPing => AtEnd'
  BY Moves
<1>3. Ready => ENABLED <<RunGoesOn>>_vars BY DEF Ready
<1> QED BY <1>1, <1>2, <1>3, SelfcheckInductive, PTL DEF FairSpec, Spec

\* What StandingFaultsAreMailed is about.
Standing(f) == f \in bad /\ pages /\ pc # "aborted"

Told(f) == told[f] = 0

\* n ticks have to pass until f is due.
DueIn(f, n) == n = IF file.last_notified[f] = None THEN 0 ELSE Repeat - file.last_notified[f]

Sooner(f, n) == \E m \in 0..n-1 : DueIn(f, m)

\* The run has found f by the time it alerts.
OnTrack(f) ==
    /\ pc \in {"counters", "host"} /\ f \in ServerFaults => f \in findings
    /\ pc = "alert" => f \in findings

\* Only telling of f makes it due later, and a tick makes it due sooner.
LEMMA DueSooner ==
    ASSUME SelfcheckInv, NEW f \in Faults, NEW n \in Nat, DueIn(f, n), ~Told(f), [Next]_vars
    PROVE  /\ DueIn(f, n)' \/ Sooner(f, n)'
           /\ Tick /\ n > 0 => Sooner(f, n)'
<1> DEFINE ages == file.last_notified
<1>0. /\ f \in Keys /\ ages \in [Keys -> Ages \cup {None}] /\ None \notin Ages
      /\ Repeat \in Nat /\ Ages = 0..Repeat
  BY RepeatNat, NoneIsNoNumber DEF SelfcheckInv, TypeOK, State, Keys, Ages
<1>1. ASSUME ages'[f] = ages[f] PROVE DueIn(f, n)' BY <1>1 DEF DueIn
<1>2. ASSUME ages'[f] = None PROVE DueIn(f, n)' \/ Sooner(f, n)'
  <2>1. DueIn(f, 0)' BY <1>2 DEF DueIn
  <2> QED BY <2>1 DEF Sooner
<1>3. CASE Tick
  <2>1. ages' = Older(ages) BY <1>3 DEF Tick, SelfcheckInv, TypeOK, State
  <2>2. ages'[f] = IF ages[f] \in 0..Repeat - 1 THEN ages[f] + 1 ELSE ages[f]
    BY <1>0, <2>1 DEF Older
  <2>3. CASE ages[f] \in 0..Repeat - 1
    <3>1. ages'[f] = ages[f] + 1 /\ ages'[f] # None /\ ages[f] # None
      BY <1>0, <2>2, <2>3
    <3>2. n = Repeat - ages[f] BY <3>1 DEF DueIn
    <3>3. DueIn(f, n - 1)' /\ n - 1 \in 0..n-1
      <4>1. Repeat - (ages[f] + 1) = n - 1 /\ n - 1 \in 0..n-1 BY <1>0, <2>3, <3>2
      <4> QED BY <3>1, <4>1 DEF DueIn
    <3> QED BY <3>3 DEF Sooner
  <2>4. CASE ages[f] \notin 0..Repeat - 1
    <3>1. n = 0 BY <1>0, <2>4 DEF DueIn
    <3> QED BY <1>1, <2>2, <2>4, <3>1
  <2> QED BY <2>3, <2>4
<1>4. CASE Save
  <2>1. ages' = state.last_notified BY <1>4 DEF Save
  <2>2. state.last_notified[f] \in {None, ages[f]}
    BY <1>0, <1>4 DEF Save, SelfcheckInv, StampShape, Told
  <2> QED BY <1>1, <1>2, <1>4, <2>1, <2>2 DEF Save, Tick, Ended
<1>5. CASE LoseFile
  <2>1. ages'[f] = None BY <1>0, <1>5 DEF LoseFile, Default
  <2>2. Tick => ages'[f] = None BY <2>1
  <2> QED BY <1>2, <1>3, <2>1
<1>6. CASE UNCHANGED file BY <1>1, <1>3, <1>6
<1>7. Tick \/ Save \/ LoseFile \/ UNCHANGED file
  BY DEF Next, Run, World, vars, env, history, Load, CheckServer, CheckCounters,
     CountersUnreachable, CheckHost, Alert, MailError, SaveError, Ping, Kill, Lose, Break,
     Repair, Restart
<1> QED BY <1>3, <1>4, <1>5, <1>6, <1>7

\* Each run that begins while the fault stands finds it.
LEMMA TrackStep ==
    ASSUME NEW f \in Faults, f \in bad, OnTrack(f), [Next]_vars
    PROVE  OnTrack(f)'
<1> USE DEF OnTrack, Faults, Ended
<1>1. CASE Run
  BY <1>1 DEF Run, Load, CheckServer, CheckCounters, CountersUnreachable, CheckHost, Alert,
     MailError, Save, SaveError, Ping, Kill, Exit
<1>2. CASE World \/ UNCHANGED vars
  <2>1. pc' = pc /\ findings' = findings
    BY <1>2 DEF World, Lose, Break, Repair, Restart, LoseFile, Tick, vars
  <2> QED BY <2>1
<1> QED BY <1>1, <1>2 DEF Next

\* What the mailer's fairness promises of one fault.
MailFair(f) == SF_vars(Alert /\ f \in DueNow)

(* A fault that stays comes nearer to its next mail, again and again, while  *)
(* runs mail and are neither killed nor unable to write: the number of ticks *)
(* until it is due falls, whatever else is found, refused, lost or           *)
(* restarted, until it is 0; and a fault that is due is mailed.              *)
THEOREM StandingProgress ==
    FairSpec /\ []Ready =>
        \A f \in Faults : \A n \in Nat :
            [](DueIn(f, n) /\ []Standing(f)
                 => <>(told[f] = 0 \/ \E m \in 0..n-1 : DueIn(f, m)))
<1>1. FairSpec => \A f \in Faults : MailFair(f) BY PTL DEF FairSpec, MailFair
<1>2. ASSUME NEW f \in Faults, NEW n \in Nat
      PROVE  FairSpec /\ []Ready /\ MailFair(f)
               => [](DueIn(f, n) /\ []Standing(f) => <>(Told(f) \/ Sooner(f, n)))
  <2> DEFINE S == Standing(f)
             D == DueIn(f, n)
             N == Sooner(f, n)
             T == Told(f)
             O == OnTrack(f)
             M == Alert /\ f \in DueNow
  <2>1. SelfcheckInv /\ [Next]_vars /\ D /\ ~T => D' \/ N' BY DueSooner
  <2>2. [Next]_vars /\ S /\ O => O' BY TrackStep DEF Standing
  <2>3. AtEnd => O BY DEF AtEnd, OnTrack, Ended
  <2>4. S => Alive BY DEF Standing, Alive
  <2>5. CASE n > 0
    <3>1. SelfcheckInv /\ [Next]_vars /\ D /\ ~T /\ <<Tick>>_vars => N' BY <2>5, DueSooner
    <3>2. SelfcheckInv /\ AtEnd /\ D /\ Ready => ENABLED <<Tick>>_vars
      <4> SUFFICES ASSUME SelfcheckInv, AtEnd, D, Ready PROVE ENABLED <<Tick>>_vars OBVIOUS
      <4>1. f \in Keys /\ file.last_notified[f] \in Ages \cup {None}
        BY DEF SelfcheckInv, TypeOK, State, Keys
      <4>2. file.last_notified[f] \in 0..Repeat - 1
        BY <2>5, <4>1, RepeatNat, NoneIsNoNumber DEF DueIn, Ages
      <4> QED BY <4>1, <4>2 DEF AtEnd, Ready
    <3> HIDE DEF S, D, N, T, O
    <3>3. FairSpec /\ []Ready => [](D /\ []S => <>(T \/ N))
      BY <2>1, <2>4, <3>1, <3>2, RunsGoOn, SelfcheckInductive, PTL DEF FairSpec, Spec
    <3> QED BY <3>3 DEF S, D, N, T
  <2>6. CASE n = 0
    <3>1. [Next]_vars /\ <<M>>_vars => T'
      BY DEF Alert, Tell, Told, Keys
    <3>2. SelfcheckInv /\ AtAlert /\ O /\ D /\ Ready => ENABLED <<M>>_vars
      <4> SUFFICES ASSUME SelfcheckInv, AtAlert, O, D, Ready PROVE ENABLED <<M>>_vars OBVIOUS
      <4>1. f \in Keys /\ file.last_notified[f] \in Ages \cup {None}
        BY DEF SelfcheckInv, TypeOK, State, Keys
      <4>2. file.last_notified[f] = None \/ file.last_notified[f] >= Repeat
        BY <2>6, <4>1, RepeatNat, NoneIsNoNumber DEF DueIn, Ages
      <4>3. f \in DueNow
        BY <4>2 DEF AtAlert, OnTrack, DueNow, Due, SelfcheckInv, StampShape
      <4> QED BY <4>3 DEF AtAlert, Ready
    <3>3. ~N BY <2>6 DEF Sooner
    <3>4. MailFair(f) => SF_vars(M) BY PTL DEF MailFair
    <3> HIDE DEF S, D, N, T, O, M
    <3>5. FairSpec /\ []Ready /\ MailFair(f) => [](D /\ []S => <>(T \/ N))
      BY <2>1, <2>2, <2>3, <2>4, <3>1, <3>2, <3>3, <3>4, RunsGoOn, SelfcheckInductive, PTL
         DEF FairSpec, Spec
    <3> QED BY <3>5 DEF S, D, N, T
  <2> QED BY <2>5, <2>6
<1>3. FairSpec /\ []Ready
        => \A f \in Faults : \A n \in Nat :
              [](DueIn(f, n) /\ []Standing(f) => <>(Told(f) \/ Sooner(f, n)))
  BY <1>1, <1>2
<1> QED BY <1>3 DEF Told, Sooner
=============================================================================
