---------------------------- MODULE MCJobFiles ----------------------------
(* Small instances of JobFiles: a job, and one that may be its rerun.     *)
EXTENDS JobFiles
===========================================================================
