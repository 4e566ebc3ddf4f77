--------------------------- MODULE MCSiteRegistry ---------------------------
(* Instance of SiteRegistry for TLC.  Sites, tokens and handler slots are    *)
(* interchangeable, but a run with a liveness property may not use that.     *)
EXTENDS SiteRegistry
=============================================================================
