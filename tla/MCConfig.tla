------------------------------ MODULE MCConfig ------------------------------
(***************************************************************************)
(* ConfigStore for TLC: the default configuration and two others, so that  *)
(* an old and a new configuration are distinct from the fallback, and two  *)
(* temporary names, so that they run out.  The two others are alike.       *)
(***************************************************************************)
EXTENDS ConfigStore, TLC

CONSTANTS default, c1, c2

MCConfigs == {default, c1, c2}
Symmetry == Permutations({c1, c2})
=============================================================================
