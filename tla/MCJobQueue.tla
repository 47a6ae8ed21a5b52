----------------------------- MODULE MCJobQueue -----------------------------
(* Instance of JobQueue for TLC: the runs give the constants their values. *)
EXTENDS JobQueue

=============================================================================
