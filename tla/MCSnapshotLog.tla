---------------------------- MODULE MCSnapshotLog ----------------------------
(* Two rows a tick and a buffer of three: back-pressure cuts a tick.        *)
EXTENDS SnapshotLog

=============================================================================
