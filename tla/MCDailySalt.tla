---------------------------- MODULE MCDailySalt ----------------------------
(* Instance of DailySalt for TLC.                                            *)
EXTENDS DailySalt

\* Days 0..3: a salt of day 0 is today's, yesterday's, due for the prune, and overdue.
Horizon == 3
=============================================================================
