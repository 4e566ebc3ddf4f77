----------------------------- MODULE MCMailing -----------------------------
(* Two sites that exchange two addresses, and lose and regain them.          *)
EXTENDS Mailing

CONSTANTS a, b, f, r1

Own   == [active |-> TRUE, contact_to |-> a, email_from |-> f]
Other == [active |-> TRUE, contact_to |-> b, email_from |-> None]
Mute  == [active |-> TRUE, contact_to |-> None, email_from |-> None]
Off   == [active |-> FALSE, contact_to |-> b, email_from |-> None]

MCRows   == {Own, Other, Mute, Off}
MCTables == {<<Own, Other>>, <<Mute, Own>>, <<None, Off>>}
=============================================================================
