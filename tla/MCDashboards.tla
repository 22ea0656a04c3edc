----------------------------- MODULE MCDashboards -----------------------------
(***************************************************************************)
(* The client's dashboard, the limits its submissions meet, the provider's *)
(* dashboard, and the agent that executes the jobs of a GPU, in one run.   *)
(* They share no variable: a behaviour is of the one it starts with, and   *)
(* the others stay as they were.                                           *)
(***************************************************************************)
EXTENDS Workspace, Quotas, ProviderView, Execution, TLC

CONSTANTS t1, t2, p1, p2, a1, a2, r1, r2

VARIABLE part  \* which of them the behaviour is of

dashboardsVars == <<vars, quotaVars, providerVars, executionVars, part>>

MCTemplate == {t1, t2}
MCPress == {p1, p2}

\* Two members of each set are interchangeable.  A behaviour is of one part, so
\* they are exchanged together.
Like(p, x, y) == IF p[p1] = p1 THEN x :> x @@ y :> y ELSE x :> y @@ y :> x
PartsSymmetry ==
  {p @@ Like(p, a1, a2) @@ Like(p, r1, r2) : p \in Permutations({p1, p2})}

\* The variables of the part keep their types.
DashboardsTypeOK ==
  /\ part \in {"client", "limits", "provider", "agent"}
  /\ part = "client" => TypeOK
  /\ part = "limits" => QuotaTypeOK
  /\ part = "provider" => ProviderTypeOK
  /\ part = "agent" => ExecutionTypeOK

DashboardsInit ==
  /\ part \in {"client", "limits", "provider", "agent"}
  /\ Init /\ QuotaInit /\ ProviderInit /\ ExecutionInit
  \* Of the part that is not followed one initial state is enough.
  /\ part # "provider" => gpuStatus = "online"

DashboardsNext ==
  \/ part = "client" /\ Next /\ UNCHANGED <<quotaVars, providerVars, executionVars, part>>
  \/ part = "limits" /\ QuotaNext /\ UNCHANGED <<vars, providerVars, executionVars, part>>
  \/ part = "provider" /\ ProviderNext /\ UNCHANGED <<vars, quotaVars, executionVars, part>>
  \/ part = "agent" /\ ExecutionNext /\ UNCHANGED <<vars, quotaVars, providerVars, part>>

DashboardsSpec == DashboardsInit /\ [][DashboardsNext]_dashboardsVars
=============================================================================
