------------------------------- MODULE MCTabs -------------------------------
(* Two tabs, a client with two-factor sign-in and a provider without.      *)
EXTENDS Tabs

CONSTANTS cleo, paul

MCRoleOf == [a \in Account |-> IF a = cleo THEN "client" ELSE "provider"]
MCTwoFactor == {cleo}
=============================================================================
