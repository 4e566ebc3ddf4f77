---------------------------- MODULE MCSelfcheck ----------------------------
(* Instance of Selfcheck for TLC.                                            *)
EXTENDS Selfcheck

\* Two ticks: a stamp is new, older but within the window, or past it.
Window == 2
\* A counter is unpublished, published, and risen.
Losses == 2
=============================================================================
