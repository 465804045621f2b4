---------------------------- MODULE MCApcCache ----------------------------
(* Instances of ApcCache for TLC: the workloads of the runs. *)
EXTENDS ApcCacheKV, TLC

CONSTANTS p1, p2, k1, k2

\* All keys collide.
OneSlot == [k \in Key |-> 0]

Processes == Permutations(Proc)

Each(ops) == [p \in Proc |-> ops]

StoreFetchDelete == Each({"store", "fetch", "delete"})
StoresClear == Each({"store", "clear"})
AllOps == Each(OpNames)
EntryAndDelete == [p \in Proc |-> IF p = p1 THEN {"entry", "fetch"} ELSE {"entry", "delete"}]
StoreInc == [p \in Proc |-> IF p = p1 THEN {"store", "delete"} ELSE {"inc", "fetch"}]
Adders == Each({"add"})
StoreAgainstFetch == [p \in Proc |-> IF p = p1 THEN {"store"} ELSE {"fetch", "delete"}]
EntryStore == [p \in Proc |-> IF p = p1 THEN {"entry", "inc"} ELSE {"store", "delete"}]
===========================================================================
