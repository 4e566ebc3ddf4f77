---------------------------- MODULE SaltContract ----------------------------
(***************************************************************************)
(* What current_salt (server/src/salt.rs) is to the handlers that call it: *)
(* one read of a table that gets one salt for a day, before the first      *)
(* visitor of that day, and keeps it through the next.  No cache, no       *)
(* statements that overlap, no failures: DailySalt has those, and          *)
(* implements this.                                                        *)
(***************************************************************************)
EXTENDS Integers

CONSTANTS Salts,    \* the salts that can be drawn
          Days      \* the days of the clock

VARIABLES
    today,   \* the UTC day
    salts,   \* daily_salts: a function from its days to their salts
    used     \* used[d]: the salts visitors of day d were hashed with

vars == <<today, salts, used>>

Recent == {today - 1, today}

\* The salts that somebody may still know.
Known == {salts[d] : d \in DOMAIN salts} \cup UNION {used[d] : d \in Days}

Init ==
    /\ today = 0
    /\ salts = [d \in {} |-> d]
    /\ used = [d \in Days |-> {}]

\* A recent day without visitors gets its salt, a new one.
Draw(d) ==
    /\ d \in Recent \ DOMAIN salts
    /\ used[d] = {}
    /\ \E s \in Salts \ Known :
           salts' = [e \in DOMAIN salts \cup {d} |-> IF e = d THEN s ELSE salts[e]]
    /\ UNCHANGED <<today, used>>

\* A visitor is hashed with the salt that the table has now.
Visit(d) ==
    /\ d \in Recent \cap DOMAIN salts
    /\ used' = [used EXCEPT ![d] = @ \cup {salts[d]}]
    /\ UNCHANGED <<today, salts>>

\* Salts of days that are not recent go, and no others.
Forget ==
    /\ \E D \in SUBSET {d \in DOMAIN salts : d < today - 1} :
           salts' = [e \in DOMAIN salts \ D |-> salts[e]]
    /\ UNCHANGED <<today, used>>

NextDay ==
    /\ today' = today + 1
    /\ UNCHANGED <<salts, used>>

Next == (\E d \in Days : Draw(d) \/ Visit(d)) \/ Forget \/ NextDay

Spec == Init /\ [][Next]_vars
=============================================================================
