----------------------------- MODULE MCGroupKey -----------------------------
(* GroupKey on a small set of peers. *)
EXTENDS GroupKey, TLC

Symmetry == {f \in Permutations(Peer) : {f[p] : p \in Kickable} = Kickable}
=============================================================================
