---------------------------------- MODULE MCJobs ----------------------------------
(***************************************************************************)
(* A job's files on the server (a job, and one that may be its rerun) and  *)
(* the client's list of workloads (a new one and an old one, two list      *)
(* requests under way at once) in one run.  They share no variable: a      *)
(* behaviour is of the side it starts with, and the other stays as it was. *)
(***************************************************************************)
EXTENDS JobFiles, Workloads

CONSTANTS j1, j2

VARIABLE side  \* which of them the behaviour is of

jobsVars == <<vars, workloadsVars, side>>

MCJob == {j1, j2}
MCOld == {j2}

\* The variables of the side keep their types.
JobsTypeOK ==
  /\ side \in {"server", "client"}
  /\ side = "server" => TypeOK
  /\ side = "client" => WorkloadsTypeOK

JobsInit ==
  /\ side \in {"server", "client"}
  /\ Init /\ WorkloadsInit
  \* Of the side that is not followed one initial state is enough.
  /\ side = "client" => oci = FALSE

OnServer(A) == side = "server" /\ A /\ UNCHANGED <<workloadsVars, side>>
OnClient(A) == side = "client" /\ A /\ UNCHANGED <<vars, side>>

JobsNext ==
  \/ side = "server" /\ Next /\ UNCHANGED <<workloadsVars, side>>
  \/ side = "client" /\ WorkloadsNext /\ UNCHANGED <<vars, side>>

JobsSpec == JobsInit /\ [][JobsNext]_jobsVars

\* The fairness of each side.
JobsFair ==
  /\ JobsSpec
  /\ WF_jobsVars(OnServer(Cleanup))
  /\ WF_jobsVars(OnClient(Load)) /\ WF_jobsVars(OnClient(Read))
  /\ WF_jobsVars(OnClient(Deliver(1)))

\* On the client's side: whatever crossed or failed, the page comes to show what
\* the server says.
PageCatchesUp == side = "client" => ServerIsShown
=============================================================================
