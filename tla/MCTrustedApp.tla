--------------------------- MODULE MCTrustedApp ---------------------------
(* Two client sessions; keys, ids, servers and secrets are model values.   *)
EXTENDS TrustedApp, TLC

Symmetry == Permutations(Sessions)
              \cup Permutations(IdKeys) \cup Permutations(EphKeys)
              \cup Permutations(Challenges) \cup Permutations(Servers)
              \cup Permutations(Secrets)
=============================================================================
