--------------------------- MODULE MCApcIterator ---------------------------
(* Instances of ApcIterator for TLC. *)
EXTENDS ApcIterator, TLC

CONSTANTS self, other, others, k1, k2, k3, a1, a2, a3

\* k1 and k2 collide.
TwoSlots == k1 :> 0 @@ k2 :> 0 @@ k3 :> 1
Sizes == k1 :> 1 @@ k2 :> 2 @@ k3 :> 3
Ttls == k1 :> 1 @@ k2 :> 0 @@ k3 :> 0
\* The user code of self deletes k3; other adds k1, stores the others and clears.
Workload == self :> {<<"delete", k3>>} @@ other :> {<<"add", k1>>, <<"store", k2>>, <<"store", k3>>, <<"clear", k1>>}
AllAndRemoved == {<<"active", Key>>, <<"deleted", {k1, k3}>>}

Blocks == Permutations(Addr)
============================================================================
