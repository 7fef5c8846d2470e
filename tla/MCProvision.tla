---------------------------- MODULE MCProvision -----------------------------
(* Two machines that share the cache and happen to use one pid.             *)
EXTENDS Provision, TLC
CONSTANTS M1, M2, D1, D2, F1, F2
MCMachines == {M1, M2}
MCPids == {7}
MCDigests == {D1, D2}
MCMembers == {F1, F2}
Symmetry ==
  Permutations(MCMachines) \cup Permutations(MCDigests) \cup Permutations(MCMembers)
=============================================================================
