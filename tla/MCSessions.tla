---------------------------- MODULE MCSessions ----------------------------
(* Small instances of Sessions.                                           *)
EXTENDS Sessions, TLC

\* Connections are interchangeable, and so are dashboards.
ConnSymmetry == Permutations(Conn) \cup Permutations(Dash)
===========================================================================
