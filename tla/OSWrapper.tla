----------------------------- MODULE OSWrapper ------------------------------
(***************************************************************************)
(* What the modules of the OSWrapper's classes share.                      *)
(***************************************************************************)
CONSTANTS
    Callers,    \* the threads that call an object
    Nobody

ASSUME OSWrapperAssumption == Nobody \notin Callers
=============================================================================
