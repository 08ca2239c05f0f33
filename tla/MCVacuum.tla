------------------------------ MODULE MCVacuum ------------------------------
(***************************************************************************)
(* Small instances of Vacuum.  A record is well sized (64 bytes) or        *)
(* truncated, and its frame carries one of the timestamps below.           *)
(***************************************************************************)
EXTENDS Vacuum

CONSTANT Timestamps

MCRecords ==
    [len : {SIGNAL_FRAME_SIZE}, frame : [timestamp_ns : Timestamps]]
        \cup [len : {SIGNAL_FRAME_SIZE - 1}, frame : [timestamp_ns : {0}]]
=============================================================================
