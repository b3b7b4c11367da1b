------------------------------ MODULE MCControl ------------------------------
(* ControlPlane for TLC.  Clients are interchangeable, and so are settings; *)
(* the symmetry is used by the runs that check safety only.                 *)
EXTENDS ControlPlane

Symmetry == Permutations(Client) \cup Permutations(Setting)
==============================================================================
