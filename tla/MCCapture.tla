----------------------------- MODULE MCCapture ------------------------------
(***************************************************************************)
(* Small instances of Capture.                                             *)
(***************************************************************************)
EXTENDS Capture

\* detach itself succeeds.
AllButDetach == Calls \ {"detach"}
=============================================================================
