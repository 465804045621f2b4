----------------------------- MODULE MCApcSma -----------------------------
(* Instances of ApcSma for TLC. *)
EXTENDS ApcSma, TLC

\* All clients but the cache header are alike.
Entries == Permutations(Id \ {CacheHeader})
===========================================================================
