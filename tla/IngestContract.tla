--------------------------- MODULE IngestContract ---------------------------
(***************************************************************************)
(* What POST /collect promises about one event, without queue, writer or   *)
(* database: once it is answered 202 an event ends in exactly one of three *)
(* ways.  It is stored, or its loss is counted in                          *)
(* dullahan_ingest_insert_failures_total, or the process died while it     *)
(* held the event.  A clean stop leaves no acknowledged event open.        *)
(* Ingest refines this module.                                             *)
(***************************************************************************)
CONSTANT Requests   \* the POSTs to /collect

VARIABLES fate,     \* fate[r]: what became of request r
          up        \* TRUE while the server process runs

vars == <<fate, up>>

Fates   == {"unsent", "refused", "acked", "stored", "counted", "lost"}
Settled == {"stored", "counted", "lost"}

TypeOK == /\ fate \in [Requests -> Fates]
          /\ up \in BOOLEAN

With(f) == {r \in Requests : fate[r] = f}
Turn(S, f) == fate' = [r \in Requests |-> IF r \in S THEN f ELSE fate[r]]

Init == /\ fate = [r \in Requests |-> "unsent"]
        /\ up = TRUE

Refuse(r) == up /\ fate[r] = "unsent" /\ Turn({r}, "refused") /\ UNCHANGED up
Ack(r)    == up /\ fate[r] = "unsent" /\ Turn({r}, "acked") /\ UNCHANGED up

\* One INSERT may settle a whole batch; what is already stored may be part of it.
Store(S) == up /\ S \subseteq With("acked") /\ Turn(S, "stored") /\ UNCHANGED up
Count(r) == up /\ fate[r] = "acked" /\ Turn({r}, "counted") /\ UNCHANGED up

\* Only a crash loses an acknowledged event silently.  It also cuts off requests
\* that were not answered yet, and its last INSERT may still commit.
Crash(cut, kept) ==
    /\ up
    /\ cut \subseteq With("unsent")
    /\ kept \subseteq With("acked")
    /\ fate' = [r \in Requests |-> CASE r \in cut -> "refused"
                                     [] r \in kept -> "stored"
                                     [] r \in With("acked") \ kept -> "lost"
                                     [] OTHER -> fate[r]]
    /\ up' = FALSE

Stop  == up /\ With("acked") = {} /\ up' = FALSE /\ UNCHANGED fate
Start == ~up /\ up' = TRUE /\ UNCHANGED fate

Next == \/ \E r \in Requests : Refuse(r) \/ Ack(r) \/ Count(r)
        \/ \E S \in SUBSET Requests : Store(S)
        \/ \E cut, kept \in SUBSET Requests : Crash(cut, kept)
        \/ Stop
        \/ Start

Spec == Init /\ [][Next]_vars

\* Every event answered 202 is eventually stored, counted or cut off by a crash.
AckedSettles == \A r \in Requests : fate[r] = "acked" ~> fate[r] \in Settled
=============================================================================
