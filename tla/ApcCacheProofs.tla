--------------------------- MODULE ApcCacheProofs ---------------------------
(***************************************************************************)
(* Theorems about ApcCache for every number of processes, keys and blocks. *)
(*                                                                         *)
(* Control: what a process is doing, and its locks.                        *)
(* Memory: blocks, lists and references are in order, and what running     *)
(* code holds stays where it is, as long as it is given back within        *)
(* gc_ttl.                                                                 *)
(* Index: one entry per key, a counter that is the number of entries, and  *)
(* every allocated block accounted for, under the same condition.          *)
(* Expunges: one that waits for the lock while another one completes does  *)
(* nothing, as long as nobody clears the cache; one that is done has made  *)
(* what room there is.                                                     *)
(* Reference counts: no holder's reference is forgotten, as long as no     *)
(* request ends inside a callback, either.  MemoryInv has it that a count  *)
(* is never below the number of holders; what is left is that it is never  *)
(* above.                                                                  *)
(***************************************************************************)
EXTENDS ApcCache, FiniteSetTheorems, SequenceTheorems, FunctionTheorems, TLAPS

-----------------------------------------------------------------------------
(* The processes' own state *)

ControlInv == ControlTypeOK /\ ControlOK

\* The constants an idle process starts from are well-typed.
LEMMA NoArgsType == NoArgs \in Args
BY KeyAssumption, ValueAssumption DEF NoArgs, Args, AnyKey, Val

LEMMA InitControl == Init => ControlInv
BY NoArgsType, BoundAssumption
DEF Init, ControlInv, ControlTypeOK, ControlOK, PCs, Addr, Null

\* A frame of the stack of p.
LEMMA TopType ==
  ASSUME ControlTypeOK, NEW p \in Proc, stack[p] # <<>>
  PROVE  /\ Top(p) \in Frame
         /\ Len(stack[p]) \in Nat \ {0}
         /\ SubSeq(stack[p], 1, Len(stack[p]) - 1) \in Seq(Frame)
         /\ Len(SubSeq(stack[p], 1, Len(stack[p]) - 1)) = Len(stack[p]) - 1
<1>1. stack[p] \in Seq(Frame)
  BY DEF ControlTypeOK
<1>2. Len(stack[p]) \in Nat \ {0}
  BY <1>1, EmptySeq
<1>3. \A i \in 1..Len(stack[p]): stack[p][i] \in Frame
  BY <1>1, ElementOfSeq
<1>4. Top(p) \in Frame
  BY <1>2, <1>3 DEF Top
<1>5. Len(stack[p]) - 1 \in Int /\ \A i \in 1..(Len(stack[p]) - 1): stack[p][i] \in Frame
  BY <1>2, <1>3
<1>6. /\ SubSeq(stack[p], 1, Len(stack[p]) - 1) \in Seq(Frame)
      /\ Len(SubSeq(stack[p], 1, Len(stack[p]) - 1))
           = IF 1 <= Len(stack[p]) - 1 THEN Len(stack[p]) - 1 - 1 + 1 ELSE 0
  BY <1>5, SubSeqProperties
<1> QED
  BY <1>2, <1>4, <1>6

LEMMA GenType ==
  ASSUME NEW f \in Frame, f.kind = "gen"
  PROVE  f.key \in Key /\ f.ttl \in Nat
BY DEF Frame

\* What a step of p that starts an operation does to the control state.
LEMMA CallControl ==
  ASSUME ControlInv, NEW p \in Proc, Call(p)
  PROVE  ControlInv'
<1> USE DEF ControlInv, ControlTypeOK, ControlOK, vars, shared, history, Goto
<1>1. ASSUME NEW k \in Key, CallLookup(p, k)
      PROVE  ControlInv'
  <2>1. PICK op \in {"fetch", "exists", "delete"}:
          /\ Calls(p, op)
          /\ op = "fetch" => Len(stack[p]) < MaxDepth
          /\ pc' = [pc EXCEPT ![p] = op]
          /\ args' = [args EXCEPT ![p] = [NoArgs EXCEPT !.key = k, !.t = now]]
          /\ UNCHANGED <<shared, wlock, now, ptr, stack, level, history>>
    BY <1>1 DEF CallLookup
  <2>2. [NoArgs EXCEPT !.key = k, !.t = now] \in Args
    BY NoArgsType DEF Args
  <2>3. ControlTypeOK'
    BY <2>1, <2>2 DEF PCs
  <2>4. ControlOK'
    BY <2>1 DEF Calls
  <2> QED
    BY <2>3, <2>4
<1>2. ASSUME NEW k \in Key, NEW ttl \in Ttls, NEW v \in Values, CallStore(p, k, v, ttl)
      PROVE  ControlInv'
  <2>1. PICK op \in {"store", "add"}:
          /\ Calls(p, op)
          /\ pc' = [pc EXCEPT ![p] = "malloc"]
          /\ args' = [args EXCEPT ![p] = [NoArgs EXCEPT !.key = k, !.val = v, !.ttl = ttl,
                                                        !.ct = now, !.excl = (op = "add")]]
          /\ UNCHANGED <<shared, wlock, now, ptr, stack, level, history>>
    BY <1>2 DEF CallStore
  <2>2. v \in Val /\ ttl \in Nat /\ now \in Nat /\ (op = "add") \in BOOLEAN
    BY TtlAssumption, ValueAssumption DEF Val
  <2>3. [NoArgs EXCEPT !.key = k, !.val = v, !.ttl = ttl, !.ct = now, !.excl = (op = "add")]
          \in Args
    BY <2>2, NoArgsType DEF Args
  <2>4. ControlTypeOK'
    BY <2>1, <2>3 DEF PCs
  <2>5. ControlOK'
    BY <2>1 DEF Calls
  <2> QED
    BY <2>4, <2>5
<1>3. ASSUME NEW k \in Key, NEW ttl \in Ttls, CallUpdate(p, k, ttl)
      PROVE  ControlInv'
  BY <1>3, NoArgsType, TtlAssumption, ValueAssumption
  DEF CallUpdate, Calls, NoArgs, Args, PCs, Val
<1>4. ASSUME NEW k \in Key, NEW ttl \in Ttls, CallEntry(p, k, ttl)
      PROVE  ControlInv'
  BY <1>4, NoArgsType, TtlAssumption, ValueAssumption
  DEF CallEntry, Calls, NoArgs, Args, PCs, Val
<1>5. ASSUME CallClear(p)
      PROVE  ControlInv'
  BY <1>5 DEF CallClear, Calls, PCs
<1> QED
  BY <1>1, <1>2, <1>3, <1>4, <1>5 DEF Call

\* What a step that ends a callback of p does to its stack.
LEMMA PopStack ==
  ASSUME ControlTypeOK, NEW p \in Proc, Pop(p)
  PROVE  /\ stack' \in [Proc -> Seq(Frame)]
         /\ \A q \in Proc: q # p => stack'[q] = stack[q]
         /\ Len(stack[p]) \in Nat /\ Len(stack'[p]) \in Nat
         /\ Len(stack'[p]) <= Len(stack[p])
         /\ stack[p] # <<>> => Len(stack'[p]) = Len(stack[p]) - 1
         /\ \A i \in 1..Len(stack'[p]): i \in 1..Len(stack[p]) /\ stack'[p][i] = stack[p][i]
<1> DEFINE s == stack[p]
           n == Len(s) - 1
           r == SubSeq(s, 1, n)
<1>1. s \in Seq(Frame)
  BY DEF ControlTypeOK
<1>2. Len(s) \in Nat /\ (s # <<>> => Len(s) # 0)
  BY <1>1, EmptySeq, LenProperties
<1>3. \A i \in 1..n: s[i] \in Frame
  BY <1>1, <1>2, ElementOfSeq
<1>4. /\ r \in Seq(Frame)
      /\ Len(r) = IF 1 <= n THEN n - 1 + 1 ELSE 0
      /\ \A i \in 1..(n - 1 + 1): r[i] = s[1 + i - 1]
  <2>1. n \in Int
    BY <1>2
  <2> HIDE DEF s, n
  <2> QED
    BY <1>3, <2>1, SubSeqProperties
<1>5. stack' = [stack EXCEPT ![p] = r]
  BY DEF Pop
<1>6. stack'[p] = r /\ stack' \in [Proc -> Seq(Frame)] /\ \A q \in Proc: q # p => stack'[q] = stack[q]
  BY <1>4, <1>5 DEF ControlTypeOK
<1>7. \A i \in 1..Len(r): i \in 1..Len(s) /\ r[i] = s[i]
  <2> HIDE DEF s, r
  <2> QED
    BY <1>2, <1>4
<1>8. Len(r) \in Nat /\ Len(r) <= Len(s) /\ (Len(s) # 0 => Len(r) = Len(s) - 1)
  <2>1. Len(s) \in Nat /\ Len(r) = IF 1 <= n THEN n - 1 + 1 ELSE 0
    BY <1>2, <1>4
  <2> HIDE DEF s, r
  <2> QED
    BY <2>1
<1> HIDE DEF s, n, r
<1>9. Len(stack[p]) = Len(s) /\ (stack[p] = <<>> <=> s = <<>>) /\ stack'[p] = r
      /\ \A i: stack[p][i] = s[i]
  BY <1>6 DEF s
<1> QED
  BY <1>2, <1>6, <1>7, <1>8, <1>9

\* What a step that starts a callback of p does to its stack.
LEMMA PushStack ==
  ASSUME ControlTypeOK, NEW p \in Proc, NEW f \in Frame, Push(p, f)
  PROVE  /\ stack' \in [Proc -> Seq(Frame)]
         /\ \A q \in Proc: q # p => stack'[q] = stack[q]
         /\ Len(stack[p]) \in Nat
         /\ Len(stack'[p]) = Len(stack[p]) + 1
         /\ stack'[p][Len(stack[p]) + 1] = f
         /\ \A i \in 1..Len(stack[p]): stack'[p][i] = stack[p][i]
<1>1. stack[p] \in Seq(Frame)
  BY DEF ControlTypeOK
<1>2. stack' = [stack EXCEPT ![p] = Append(stack[p], f)]
  BY DEF Push
<1>3. Append(stack[p], f) \in Seq(Frame)
  BY <1>1, AppendProperties
<1>4. stack'[p] = Append(stack[p], f) /\ stack' \in [Proc -> Seq(Frame)]
      /\ \A q \in Proc: q # p => stack'[q] = stack[q]
  BY <1>2, <1>3 DEF ControlTypeOK
<1> QED
  BY <1>1, <1>4, AppendProperties, LenProperties

\* Steps that leave the callbacks alone and give p no block and take none from it.
LEMMA PlainStep ==
  ASSUME ControlInv, NEW p \in Proc, NEW l \in PCs,
         pc' = [pc EXCEPT ![p] = l], args' \in [Proc -> Args],
         UNCHANGED <<ptr, stack>>,
         l \in {"insert", "release", "drop"} <=> pc[p] \in {"insert", "release", "drop"},
         l \notin {"fetch", "entry"},
         linked' \in SUBSET Addr, ncleanups' \in Nat, now' \in Nat, failures' \in Nat,
         wlock' \in Proc \cup {NoProc}, level' \in [Proc -> Int]
  PROVE  ControlInv'
<1>1. ControlTypeOK'
  BY DEF ControlInv, ControlTypeOK
<1>2. ControlOK'
  BY DEF ControlInv, ControlTypeOK, ControlOK
<1> QED
  BY <1>1, <1>2 DEF ControlInv

\* The types of what the lock helpers and the ends of operations assign.
LEMMA HelperTypes ==
  ASSUME ControlTypeOK, NEW p \in Proc
  PROVE  /\ WLock(p) \in Proc \cup {NoProc} /\ WUnlock(p) \in Proc \cup {NoProc}
         /\ args[p] \in Args /\ [args EXCEPT ![p] = NoArgs] \in [Proc -> Args]
         /\ args[p].then \in {"user", "update", "exit"}
         /\ \A a \in Args: [a EXCEPT !.nuked = TRUE] \in Args
         /\ \A a \in Args: [a EXCEPT !.missed = TRUE] \in Args
         /\ \A a \in Args: [a EXCEPT !.nuked = FALSE, !.then = "user"] \in Args
<1>1. args[p] \in Args
  BY DEF ControlTypeOK
<1>2. /\ \A a \in Args: [a EXCEPT !.nuked = TRUE] \in Args
      /\ \A a \in Args: [a EXCEPT !.missed = TRUE] \in Args
      /\ \A a \in Args: [a EXCEPT !.nuked = FALSE, !.then = "user"] \in Args
      /\ args[p].then \in {"user", "update", "exit"}
  BY <1>1 DEF Args
<1> QED
  BY <1>1, <1>2, NoArgsType DEF ControlTypeOK, WLock, WUnlock

\* The end of a store, by p or its expunge.
LEMMA ResumeType ==
  ASSUME ControlTypeOK, NEW p \in Proc, Resume(p)
  PROVE  /\ \E l \in {"user", "update", "exit"}: pc' = [pc EXCEPT ![p] = l]
         /\ args' \in [Proc -> Args]
<1>1. args[p] \in Args /\ args[p].then \in {"user", "update", "exit"}
  BY HelperTypes
<1>2. [args[p] EXCEPT !.nuked = FALSE, !.then = "user"] \in Args
  BY <1>1, HelperTypes
<1>3. args' \in [Proc -> Args]
  BY <1>2, NoArgsType DEF Resume, ControlTypeOK
<1> QED
  BY <1>1, <1>3 DEF Resume, Goto

LEMMA ExpungeEndControl ==
  ASSUME ControlInv, NEW p \in Proc, ExpungeEnd(p), linked' \in SUBSET Addr,
         pc[p] \in {"expunge", "avail", "contig"}
  PROVE  ControlInv'
<1>1. args' \in [Proc -> Args]
  BY HelperTypes DEF ExpungeEnd, ControlInv, ControlTypeOK
<1>2. wlock' \in Proc \cup {NoProc}
  BY HelperTypes DEF ExpungeEnd, ControlInv
<1>3. /\ pc' = [pc EXCEPT ![p] = "malloc"] /\ ncleanups' = ncleanups + 1
      /\ UNCHANGED <<now, ptr, stack, level, failures>>
  BY DEF ExpungeEnd, Goto, history
<1>4. ncleanups' \in Nat /\ now' \in Nat /\ failures' \in Nat /\ level' \in [Proc -> Int]
  BY <1>3 DEF ControlInv, ControlTypeOK
<1>5. "malloc" \in PCs
  BY DEF PCs
<1> QED
  BY <1>1, <1>2, <1>3, <1>4, <1>5, PlainStep

\* Steps of p that start or end a callback.
LEMMA PushStep ==
  ASSUME ControlInv, NEW p \in Proc, NEW f \in Frame, Push(p, f),
         pc[p] \in {"fetch", "entry"}, pc' = [pc EXCEPT ![p] = "user"],
         args' \in [Proc -> Args],
         UNCHANGED <<linked, ncleanups, now, failures, ptr>>,
         wlock' \in Proc \cup {NoProc}, level' \in [Proc -> Int]
  PROVE  ControlInv'
<1>1. ControlTypeOK'
  BY PushStack DEF ControlInv, ControlTypeOK, PCs
<1>2. ASSUME NEW q \in Proc
      PROVE  ControlOK!(q)'
  <2>1. CASE q = p
    <3>1. Len(stack[p]) \in Nat /\ Len(stack'[p]) = Len(stack[p]) + 1 /\ Len(stack[p]) < MaxDepth
      BY PushStack DEF ControlInv, ControlOK
    <3>2. pc'[p] = "user" /\ ptr'[p] = ptr[p]
      BY DEF ControlInv, ControlTypeOK
    <3> QED
      BY <2>1, <3>1, <3>2, BoundAssumption DEF ControlInv, ControlOK
  <2>2. CASE q # p
    <3>1. stack'[q] = stack[q] /\ pc'[q] = pc[q] /\ ptr'[q] = ptr[q]
      BY <2>2, PushStack DEF ControlInv, ControlTypeOK
    <3> QED
      BY <3>1 DEF ControlInv, ControlOK
  <2> QED
    BY <2>1, <2>2
<1>3. ControlOK'
  BY <1>2 DEF ControlOK
<1> QED
  BY <1>1, <1>3 DEF ControlInv

LEMMA PopStep ==
  ASSUME ControlInv, NEW p \in Proc, Pop(p),
         pc[p] \in {"user", "bail", "exit"},
         NEW l \in {"user", "bail"}, pc' = [pc EXCEPT ![p] = l],
         UNCHANGED <<args, linked, ncleanups, now, failures, ptr>>,
         wlock' \in Proc \cup {NoProc}, level' \in [Proc -> Int]
  PROVE  ControlInv'
<1>1. ControlTypeOK'
  BY PopStack DEF ControlInv, ControlTypeOK, PCs
<1>2. ASSUME NEW q \in Proc
      PROVE  ControlOK!(q)'
  <2>1. CASE q = p
    <3>1. /\ Len(stack[p]) \in Nat /\ Len(stack'[p]) \in Nat
          /\ Len(stack'[p]) <= Len(stack[p]) /\ Len(stack[p]) <= MaxDepth
      BY PopStack DEF ControlInv, ControlOK
    <3>2. pc'[p] = l /\ ptr'[p] = ptr[p]
      BY DEF ControlInv, ControlTypeOK
    <3> QED
      BY <2>1, <3>1, <3>2, BoundAssumption DEF ControlInv, ControlOK
  <2>2. CASE q # p
    <3>1. stack'[q] = stack[q] /\ pc'[q] = pc[q] /\ ptr'[q] = ptr[q]
      BY <2>2, PopStack DEF ControlInv, ControlTypeOK
    <3> QED
      BY <3>1 DEF ControlInv, ControlOK
  <2> QED
    BY <2>1, <2>2
<1>3. ControlOK'
  BY <1>2 DEF ControlOK
<1> QED
  BY <1>1, <1>3 DEF ControlInv

\* What an entry frame for the current operation of p looks like.
LEMMA FrameTypes ==
  ASSUME ControlTypeOK, NEW p \in Proc
  PROVE  /\ \A a \in linked, kind \in {"fetch", "hit"}:
              [kind |-> kind, addr |-> a, key |-> args[p].key] \in Frame
         /\ [kind |-> "gen", key |-> args[p].key, ttl |-> args[p].ttl] \in Frame
<1>1. args[p].key \in Key /\ args[p].ttl \in Nat /\ linked \subseteq Addr
  BY DEF ControlTypeOK, Args
<1> QED
  BY <1>1 DEF Frame

\* apcu_entry() enters and leaves.
LEMMA LevelTypes ==
  ASSUME ControlTypeOK, NEW p \in Proc, Enter(p) \/ Leave(p)
  PROVE  wlock' \in Proc \cup {NoProc} /\ level' \in [Proc -> Int]
<1>1. WLock(p) \in Proc \cup {NoProc}
  BY HelperTypes
<1> QED
  BY <1>1 DEF Enter, Leave, ControlTypeOK

LEMMA LockingControl ==
  ASSUME ControlInv, NEW p \in Proc, Locking(p)
  PROVE  ControlInv'
<1> DEFINE Lift(l) == pc' = [pc EXCEPT ![p] = l]
<1> USE DEF Goto, shared, history
<1>1. ASSUME NEW l \in PCs \ {"fetch", "entry", "insert", "release", "drop"}, Lift(l),
             pc[p] \notin {"insert", "release", "drop"},
             linked' \in SUBSET Addr, ncleanups' \in Nat, UNCHANGED <<now, failures, ptr, stack, level>>,
             wlock' \in Proc \cup {NoProc}, args' \in [Proc -> Args]
      PROVE  ControlInv'
  <2>1. now' \in Nat /\ failures' \in Nat /\ level' \in [Proc -> Int]
    BY <1>1 DEF ControlInv, ControlTypeOK
  <2> QED
    BY <1>1, <2>1, PlainStep
<1>2. /\ args \in [Proc -> Args] /\ [args EXCEPT ![p] = NoArgs] \in [Proc -> Args]
      /\ linked \in SUBSET Addr /\ ncleanups \in Nat /\ now \in Nat
      /\ wlock \in Proc \cup {NoProc}
      /\ args[p] \in Args /\ args[p].key \in Key
  BY HelperTypes DEF ControlInv, ControlTypeOK, Args
<1>3. CASE ExpungeSkip(p)
  BY <1>1, <1>2, <1>3 DEF ExpungeSkip, PCs
<1>4. CASE ExpungeAll(p)
  BY <1>4, ExpungeEndControl DEF ExpungeAll, RealExpungeGc
<1>5. CASE ExpungeExpired(p)
  <2>1. linked' \in SUBSET Addr /\ wlock' \in Proc \cup {NoProc}
    BY <1>2, <1>5, HelperTypes DEF ExpungeExpired, ControlInv
  <2> QED
    BY <1>1, <1>2, <1>5, <2>1 DEF ExpungeExpired, PCs
<1>6. CASE InsertRefused(p)
  <2>1. linked' \in SUBSET Addr
    BY <1>2, <1>6 DEF InsertRefused
  <2>2. "drop" \in PCs
    BY DEF PCs
  <2>3. now' \in Nat /\ failures' \in Nat /\ level' \in [Proc -> Int]
    BY <1>6 DEF InsertRefused, ControlInv, ControlTypeOK
  <2> QED
    BY <1>2, <1>6, <2>1, <2>2, <2>3, PlainStep DEF InsertRefused
<1>7. CASE Insert(p)
  <2>1. ptr[p] \in Addr
    BY <1>7 DEF Insert, ControlInv, ControlTypeOK, ControlOK
  <2>2. linked' \in SUBSET Addr
    BY <1>2, <1>7, <2>1 DEF Insert
  <2>3. "release" \in PCs
    BY DEF PCs
  <2>4. now' \in Nat /\ failures' \in Nat /\ level' \in [Proc -> Int]
    BY <1>7 DEF Insert, ControlInv, ControlTypeOK
  <2> QED
    BY <1>2, <1>7, <2>2, <2>3, <2>4, PlainStep DEF Insert
<1>8. CASE FetchHit(p)
  <2>1. PICK a \in Found(args[p].key, args[p].t):
          Push(p, [kind |-> "fetch", addr |-> a, key |-> args[p].key])
    BY <1>8 DEF FetchHit
  <2>2. [kind |-> "fetch", addr |-> a, key |-> args[p].key] \in Frame
    BY <2>1, FrameTypes DEF ControlInv, Found, Matches
  <2>3. level' \in [Proc -> Int]
    BY <1>8 DEF FetchHit, ControlInv, ControlTypeOK
  <2> QED
    BY <1>2, <1>8, <2>1, <2>2, <2>3, PushStep DEF FetchHit, Return
<1>9. CASE ExistsHit(p)
  BY <1>1, <1>2, <1>9 DEF ExistsHit, Return, PCs
<1>10. CASE LookupMiss(p)
  BY <1>1, <1>2, <1>10 DEF LookupMiss, Return, PCs
<1>11. CASE UpdateHit(p)
  BY <1>1, <1>2, <1>11 DEF UpdateHit, Return, PCs
<1>12. CASE UpdateInsert(p)
  <2> DEFINE r == [args[p] EXCEPT !.val = 0, !.ct = now, !.excl = TRUE, !.insert = FALSE,
                                  !.then = "update"]
  <2>1. 0 \in Val
    BY ValueAssumption DEF Val
  <2>2. r \in Args
    BY <1>2, <2>1 DEF Args
  <2>3. args' \in [Proc -> Args]
    <3>1. args' = [args EXCEPT ![p] = r]
      BY <1>2, <1>12 DEF UpdateInsert
    <3> HIDE DEF r
    <3> QED
      BY <1>2, <2>2, <3>1
  <2> QED
    BY <1>1, <1>2, <1>12, <2>3 DEF UpdateInsert, PCs
<1>13. CASE UpdateMiss(p)
  BY <1>1, <1>2, <1>13 DEF UpdateMiss, Return, PCs
<1>14. CASE Delete(p)
  <2>1. linked' \in SUBSET Addr
    BY <1>2, <1>14 DEF Delete
  <2> QED
    BY <1>1, <1>2, <1>14, <2>1 DEF Delete, Return, PCs
<1>15. CASE Clear(p)
  <2>1. linked' \in SUBSET Addr /\ ncleanups' \in Nat
    BY <1>15 DEF Clear, RealExpungeGc
  <2> QED
    BY <1>1, <1>2, <1>15, <2>1 DEF Clear, PCs
<1>16. CASE EntryHit(p)
  <2>1. PICK a \in Found(args[p].key, args[p].t):
          Push(p, [kind |-> "hit", addr |-> a, key |-> args[p].key])
    BY <1>16 DEF EntryHit
  <2>2. [kind |-> "hit", addr |-> a, key |-> args[p].key] \in Frame
    BY <2>1, FrameTypes DEF ControlInv, Found, Matches
  <2>3. wlock' \in Proc \cup {NoProc} /\ level' \in [Proc -> Int]
    BY <1>16, LevelTypes DEF EntryHit, ControlInv
  <2> QED
    BY <1>2, <1>16, <2>1, <2>2, <2>3, PushStep DEF EntryHit, Return
<1>17. CASE EntryMiss(p)
  <2>1. [kind |-> "gen", key |-> args[p].key, ttl |-> args[p].ttl] \in Frame
    BY FrameTypes DEF ControlInv
  <2>2. wlock' \in Proc \cup {NoProc} /\ level' \in [Proc -> Int]
    BY <1>17, LevelTypes DEF EntryMiss, ControlInv
  <2> QED
    BY <1>2, <1>17, <2>1, <2>2, PushStep DEF EntryMiss, Return
<1> QED
  BY <1>3, <1>4, <1>5, <1>6, <1>7, <1>8, <1>9, <1>10, <1>11, <1>12, <1>13, <1>14, <1>15,
     <1>16, <1>17 DEF Locking

LEMMA RunningControl ==
  ASSUME ControlInv, NEW p \in Proc, Running(p)
  PROVE  ControlInv'
<1> USE DEF Goto, shared, history
<1>1. /\ args \in [Proc -> Args] /\ linked \in SUBSET Addr /\ ncleanups \in Nat /\ now \in Nat
      /\ failures \in Nat /\ wlock \in Proc \cup {NoProc} /\ level \in [Proc -> Int]
      /\ pc \in [Proc -> PCs] /\ ptr \in [Proc -> Addr \cup {Null}] /\ stack \in [Proc -> Seq(Frame)]
      /\ args[p] \in Args
  BY DEF ControlInv, ControlTypeOK
<1>2. CASE Malloc(p)
  <2>1. PICK a \in FreeAddrs: ptr' = [ptr EXCEPT ![p] = a]
    BY <1>2 DEF Malloc
  <2>2. /\ pc' = [pc EXCEPT ![p] = "insert"]
        /\ UNCHANGED <<linked, ncleanups, now, failures, wlock, args, stack, level>>
    BY <1>2 DEF Malloc
  <2>3. a \in Addr /\ a # Null
    BY <2>1 DEF FreeAddrs, Addr, Null
  <2>4. ControlTypeOK'
    BY <1>1, <2>1, <2>2, <2>3 DEF ControlTypeOK, PCs
  <2>5. ControlOK'
    BY <1>1, <2>1, <2>2, <2>3 DEF ControlOK, ControlInv
  <2> QED
    BY <2>4, <2>5 DEF ControlInv
<1>3. CASE MallocFail(p)
  <2>1. CASE args[p].nuked
    <3>1. PICK l \in {"user", "update", "exit"}: pc' = [pc EXCEPT ![p] = l]
      BY <1>3, <2>1, ResumeType DEF MallocFail, ControlInv
    <3>2. args' \in [Proc -> Args]
      BY <1>3, <2>1, ResumeType DEF MallocFail, ControlInv
    <3>3. l \in PCs
      BY DEF PCs
    <3> QED
      BY <1>1, <1>3, <3>1, <3>2, <3>3, PlainStep DEF MallocFail
  <2>2. CASE ~args[p].nuked
    <3>1. "nomem" \in PCs
      BY DEF PCs
    <3> QED
      BY <1>1, <1>3, <2>2, <3>1, PlainStep DEF MallocFail
  <2> QED
    BY <2>1, <2>2
<1>4. CASE ReadCleanups(p)
  <2> DEFINE r == [args[p] EXCEPT !.ncl = ncleanups, !.xt = now, !.missed = FALSE]
  <2>1. r \in Args
    BY <1>1 DEF Args
  <2>2. args' \in [Proc -> Args]
    <3>1. args' = [args EXCEPT ![p] = r]
      BY <1>1, <1>4 DEF ReadCleanups
    <3> HIDE DEF r
    <3> QED
      BY <1>1, <2>1, <3>1
  <2>3. "expunge" \in PCs
    BY DEF PCs
  <2> QED
    BY <1>1, <1>4, <2>2, <2>3, PlainStep DEF ReadCleanups
<1>5. CASE ExpungeShort(p)
  BY <1>5, ExpungeEndControl DEF ExpungeShort, RealExpunge
<1>6. CASE ExpungeAvail(p)
  <2>1. "defrag" \in PCs
    BY DEF PCs
  <2> QED
    BY <1>1, <1>6, <2>1, PlainStep DEF ExpungeAvail
<1>7. CASE ExpungeDefrag(p)
  <2>1. PICK f \in [Used -> Addr]: linked' = {Follow(f, a): a \in linked}
    BY <1>7 DEF ExpungeDefrag
  <2>2. linked' \in SUBSET Addr
    BY <1>1, <2>1 DEF Follow
  <2>3. "contig" \in PCs
    BY DEF PCs
  <2> QED
    BY <1>1, <1>7, <2>2, <2>3, PlainStep DEF ExpungeDefrag
<1>8. CASE ExpungeFragmented(p)
  BY <1>8, ExpungeEndControl DEF ExpungeFragmented, RealExpunge
<1>9. CASE ExpungeDone(p)
  BY <1>1, <1>9, ExpungeEndControl DEF ExpungeDone
<1>10. CASE Release(p) \/ Drop(p)
  <2>1. PICK l \in {"user", "update", "exit"}: pc' = [pc EXCEPT ![p] = l]
    BY <1>10, ResumeType DEF Release, Drop, ControlInv
  <2>2. args' \in [Proc -> Args]
    BY <1>10, ResumeType DEF Release, Drop, ControlInv
  <2>3. /\ ptr' = [ptr EXCEPT ![p] = Null]
        /\ UNCHANGED <<linked, ncleanups, now, failures, wlock, stack, level>>
    BY <1>10 DEF Release, Drop
  <2>4. ControlTypeOK'
    BY <1>1, <2>1, <2>2, <2>3 DEF ControlTypeOK, PCs
  <2>5. ControlOK'
    BY <1>1, <2>1, <2>3 DEF ControlOK, ControlInv
  <2> QED
    BY <2>4, <2>5 DEF ControlInv
<1>11. CASE EntryExit(p)
  <2>1. wlock' \in Proc \cup {NoProc} /\ level' \in [Proc -> Int]
    BY <1>11, LevelTypes DEF EntryExit, ControlInv
  <2> QED
    BY <1>11, <2>1, PopStep DEF EntryExit
<1>12. CASE UnwindFetch(p)
  <2>1. pc' = [pc EXCEPT ![p] = "bail"] /\ pc[p] = "bail"
    BY <1>1, <1>12 DEF UnwindFetch
  <2> QED
    BY <1>1, <1>12, <2>1, PopStep DEF UnwindFetch
<1>13. CASE UnwindEntry(p)
  <2>1. pc' = [pc EXCEPT ![p] = "bail"] /\ pc[p] = "bail"
    BY <1>1, <1>13 DEF UnwindEntry
  <2>2. wlock' \in Proc \cup {NoProc} /\ level' \in [Proc -> Int]
    BY <1>13, LevelTypes DEF UnwindEntry, ControlInv
  <2> QED
    BY <1>13, <2>1, <2>2, PopStep DEF UnwindEntry
<1>14. CASE Unwound(p)
  <2>1. "user" \in PCs
    BY DEF PCs
  <2> QED
    BY <1>1, <1>14, <2>1, PlainStep DEF Unwound
<1> QED
  BY <1>2, <1>3, <1>4, <1>5, <1>6, <1>7, <1>8, <1>9, <1>10, <1>11, <1>12, <1>13, <1>14
  DEF Running

LEMMA CallbackControl ==
  ASSUME ControlInv, NEW p \in Proc, CallbackReturn(p)
  PROVE  ControlInv'
<1> USE DEF Goto, shared, history
<1>1. /\ args \in [Proc -> Args] /\ linked \in SUBSET Addr /\ ncleanups \in Nat /\ now \in Nat
      /\ failures \in Nat /\ wlock \in Proc \cup {NoProc} /\ level \in [Proc -> Int]
      /\ pc \in [Proc -> PCs]
  BY DEF ControlInv, ControlTypeOK
<1>2. CASE FetchReturn(p)
  <2>1. pc' = [pc EXCEPT ![p] = "user"] /\ pc[p] = "user"
    BY <1>1, <1>2 DEF FetchReturn, InCallback
  <2> QED
    BY <1>1, <1>2, <2>1, PopStep DEF FetchReturn
<1>3. CASE EntryHitReturn(p)
  <2>1. pc' = [pc EXCEPT ![p] = "user"] /\ pc[p] = "user"
    BY <1>1, <1>3 DEF EntryHitReturn, InCallback
  <2>2. wlock' \in Proc \cup {NoProc} /\ level' \in [Proc -> Int]
    BY <1>3, LevelTypes DEF EntryHitReturn, ControlInv
  <2> QED
    BY <1>1, <1>3, <2>1, <2>2, PopStep DEF EntryHitReturn
<1>4. ASSUME NEW v \in Values, GeneratorReturn(p, v)
      PROVE  ControlInv'
  <2>1. Top(p).key \in Key /\ Top(p).ttl \in Nat
    BY <1>4, TopType, GenType DEF GeneratorReturn, InCallback, ControlInv
  <2> DEFINE r == [NoArgs EXCEPT !.key = Top(p).key, !.val = v, !.ttl = Top(p).ttl,
                                 !.ct = now, !.excl = TRUE, !.then = "exit"]
  <2>2. v \in Val
    BY ValueAssumption DEF Val
  <2>3. r \in Args
    BY <1>1, <2>1, <2>2, NoArgsType DEF Args
  <2>4. args' \in [Proc -> Args]
    <3>1. args' = [args EXCEPT ![p] = r]
      BY <1>4 DEF GeneratorReturn
    <3> HIDE DEF r
    <3> QED
      BY <1>1, <2>3, <3>1
  <2>5. "malloc" \in PCs
    BY DEF PCs
  <2> QED
    BY <1>1, <1>4, <2>4, <2>5, PlainStep DEF GeneratorReturn, InCallback
<1> QED
  BY <1>2, <1>3, <1>4 DEF CallbackReturn

LEMMA FailControl ==
  ASSUME ControlInv, NEW p \in Proc, Fail(p)
  PROVE  ControlInv'
<1> USE DEF Goto, shared, history
<1>1. /\ args \in [Proc -> Args] /\ linked \in SUBSET Addr /\ ncleanups \in Nat /\ now \in Nat
      /\ failures \in Nat /\ wlock \in Proc \cup {NoProc} /\ level \in [Proc -> Int]
      /\ pc \in [Proc -> PCs] /\ ptr \in [Proc -> Addr \cup {Null}] /\ stack \in [Proc -> Seq(Frame)]
      /\ [args EXCEPT ![p] = NoArgs] \in [Proc -> Args]
  BY HelperTypes DEF ControlInv, ControlTypeOK
<1>2. CASE PersistBailout(p)
  <2>1. /\ pc' = [pc EXCEPT ![p] = "bail"] /\ ptr' = [ptr EXCEPT ![p] = Null]
        /\ failures' = failures + 1
        /\ UNCHANGED <<linked, ncleanups, now, wlock, stack, level>>
    BY <1>2 DEF PersistBailout, FailureOf
  <2>2. ControlTypeOK'
    BY <1>1, <1>2, <2>1 DEF ControlTypeOK, PCs, PersistBailout
  <2>3. ControlOK'
    BY <1>1, <2>1 DEF ControlOK, ControlInv
  <2> QED
    BY <2>2, <2>3 DEF ControlInv
<1>3. CASE GeneratorThrow(p)
  <2>1. "exit" \in PCs
    BY DEF PCs
  <2> QED
    BY <1>1, <1>3, <2>1, PlainStep DEF GeneratorThrow, InCallback
<1>4. CASE Bailout(p)
  <2>1. "bail" \in PCs /\ failures' \in Nat
    BY <1>1, <1>4 DEF PCs, Bailout, FailureOf
  <2> QED
    BY <1>1, <1>4, <2>1, PlainStep DEF Bailout
<1>5. CASE Crash(p)
  <2>1. /\ pc' = [pc EXCEPT ![p] = "dead"] /\ ptr' = [ptr EXCEPT ![p] = Null]
        /\ stack' = [stack EXCEPT ![p] = <<>>] /\ failures' = failures + 1
        /\ UNCHANGED <<linked, ncleanups, now, wlock, level>>
    BY <1>5 DEF Crash, FailureOf
  <2>2. <<>> \in Seq(Frame) /\ Len(<<>>) = 0
    BY EmptySeq
  <2>3. ControlTypeOK'
    BY <1>1, <1>5, <2>1, <2>2 DEF ControlTypeOK, PCs, Crash
  <2>4. ControlOK'
    BY <1>1, <2>1, <2>2, BoundAssumption DEF ControlOK, ControlInv
  <2> QED
    BY <2>3, <2>4 DEF ControlInv
<1> QED
  BY <1>2, <1>3, <1>4, <1>5 DEF Fail

LEMMA NextControl == ControlInv /\ [Next]_vars => ControlInv'
<1> SUFFICES ASSUME ControlInv, [Next]_vars
             PROVE  ControlInv'
  OBVIOUS
<1>1. ASSUME NEW p \in Proc,
             Call(p) \/ Locking(p) \/ Running(p) \/ CallbackReturn(p) \/ Fail(p)
      PROVE  ControlInv'
  BY <1>1, CallControl, LockingControl, RunningControl, CallbackControl, FailControl
<1>2. CASE Tick
  BY <1>2 DEF Tick, shared, history, ControlInv, ControlTypeOK, ControlOK
<1>3. CASE UNCHANGED vars
  BY <1>3 DEF vars, shared, history, ControlInv, ControlTypeOK, ControlOK
<1> QED
  BY <1>1, <1>2, <1>3 DEF Next

\* Every process is at one of the named places with well-typed locals, has a block of its
\* own exactly during a store, and nests callbacks within the bound: without any
\* hypothesis on what happens in the heap.
THEOREM ControlIsInvariant == Spec => []ControlInv
BY InitControl, NextControl, PTL DEF Spec

-----------------------------------------------------------------------------
(* The cache lock and entry_level *)

Expunging == {"avail", "defrag", "contig"}
Storing == {"malloc", "nomem", "expunge", "avail", "defrag", "contig", "insert", "release", "drop"}

\* What apcu_entry() resumes is a generator.
ExitOK == \A p \in Proc:
  /\ args[p].then = "exit" => pc[p] \in Storing
  /\ pc[p] = "exit" \/ args[p].then = "exit" => stack[p] # <<>> /\ Top(p).kind = "gen"

LockInv == ControlInv /\ ExitOK /\ LockMatchesLevel

LEMMA InitLock == Init => ExitOK /\ LockMatchesLevel
<1> SUFFICES ASSUME Init PROVE ExitOK /\ LockMatchesLevel
  OBVIOUS
<1>1. ExitOK
  BY DEF Init, ExitOK, NoArgs
<1>2. ASSUME NEW p \in Proc PROVE EntryFrames(p) = {}
  BY EmptySeq DEF Init, EntryFrames
<1>3. Cardinality({}) = 0
  BY FS_EmptySet
<1>4. ASSUME NEW p \in Proc PROVE level[p] = 0 /\ pc[p] = "user" /\ wlock # p
  BY ProcAssumption DEF Init
<1>5. LockMatchesLevel
  BY <1>2, <1>3, <1>4 DEF LockMatchesLevel
<1> QED
  BY <1>1, <1>5

\* How many apcu_entry() calls of p are in progress.
LEMMA FramesSize ==
  ASSUME ControlTypeOK, NEW p \in Proc
  PROVE  /\ IsFiniteSet(EntryFrames(p)) /\ Cardinality(EntryFrames(p)) \in Nat
         /\ EntryFrames(p) # {} => Cardinality(EntryFrames(p)) > 0
<1>1. Len(stack[p]) \in Nat
  BY LenProperties DEF ControlTypeOK
<1>2. IsFiniteSet(1..Len(stack[p]))
  BY <1>1, FS_Interval
<1>3. EntryFrames(p) \subseteq 1..Len(stack[p])
  BY DEF EntryFrames
<1>4. IsFiniteSet(EntryFrames(p))
  BY <1>2, <1>3, FS_Subset
<1>5. Cardinality(EntryFrames(p)) \in Nat /\ (Cardinality(EntryFrames(p)) = 0 <=> EntryFrames(p) = {})
  BY <1>4, FS_CardinalityType, FS_EmptySet
<1> QED
  BY <1>4, <1>5

LEMMA FramesPush ==
  ASSUME ControlTypeOK, NEW p \in Proc, NEW f \in Frame, Push(p, f)
  PROVE  Cardinality(EntryFrames(p))' =
           Cardinality(EntryFrames(p)) + (IF f.kind \in {"hit", "gen"} THEN 1 ELSE 0)
<1> DEFINE n == Len(stack[p])
<1>1. /\ n \in Nat /\ Len(stack'[p]) = n + 1 /\ stack'[p][n + 1] = f
      /\ \A i \in 1..n: stack'[p][i] = stack[p][i]
  BY PushStack
<1>2. EntryFrames(p)' = {i \in 1..(n + 1): stack'[p][i].kind \in {"hit", "gen"}}
  BY <1>1 DEF EntryFrames
<1>3. EntryFrames(p)' = EntryFrames(p) \cup (IF f.kind \in {"hit", "gen"} THEN {n + 1} ELSE {})
  BY <1>1, <1>2 DEF EntryFrames
<1>4. n + 1 \notin EntryFrames(p)
  BY <1>1 DEF EntryFrames
<1>5. Cardinality(EntryFrames(p) \cup {n + 1}) = Cardinality(EntryFrames(p)) + 1
  BY <1>4, FramesSize, FS_AddElement
<1>6. CASE f.kind \in {"hit", "gen"}
  BY <1>3, <1>5, <1>6
<1>7. CASE f.kind \notin {"hit", "gen"}
  <2>1. EntryFrames(p)' = EntryFrames(p)
    BY <1>3, <1>7
  <2> QED
    BY <1>7, <2>1, FramesSize
<1> QED
  BY <1>6, <1>7

LEMMA FramesPop ==
  ASSUME ControlTypeOK, NEW p \in Proc, Pop(p), stack[p] # <<>>
  PROVE  Cardinality(EntryFrames(p))' =
           Cardinality(EntryFrames(p)) - (IF Top(p).kind \in {"hit", "gen"} THEN 1 ELSE 0)
<1> DEFINE n == Len(stack[p])
<1>1. /\ n \in Nat /\ n > 0 /\ Len(stack'[p]) = n - 1
      /\ \A i \in 1..(n - 1): stack'[p][i] = stack[p][i]
  BY PopStack, TopType
<1>2. EntryFrames(p)' = {i \in 1..(n - 1): stack'[p][i].kind \in {"hit", "gen"}}
  BY <1>1 DEF EntryFrames
<1>3. EntryFrames(p)' = EntryFrames(p) \ {n}
  BY <1>1, <1>2 DEF EntryFrames
<1>4. n \in EntryFrames(p) <=> Top(p).kind \in {"hit", "gen"}
  BY <1>1 DEF EntryFrames, Top
<1>5. CASE n \in EntryFrames(p)
  <2>1. Cardinality(EntryFrames(p) \ {n}) = Cardinality(EntryFrames(p)) - 1
    BY <1>5, FramesSize, FS_RemoveElement
  <2> QED
    BY <1>3, <1>4, <1>5, <2>1
<1>6. CASE n \notin EntryFrames(p)
  <2>1. EntryFrames(p)' = EntryFrames(p)
    BY <1>3, <1>6
  <2> QED
    BY <1>4, <1>6, <2>1, FramesSize
<1> QED
  BY <1>5, <1>6

\* A step of p takes the lock, gives it back or leaves it alone; the claim about the other
\* processes follows.
LEMMA LockStep ==
  ASSUME LockMatchesLevel, NEW p \in Proc,
         \A q \in Proc: q # p => pc'[q] = pc[q] /\ stack'[q] = stack[q] /\ level'[q] = level[q],
         wlock' = wlock \/ (wlock' \in {p, NoProc} /\ wlock \in {p, NoProc}),
         pc'[p] # "dead" =>
           /\ level'[p] = Cardinality(EntryFrames(p))'
           /\ wlock' = p <=> level'[p] > 0 \/ pc'[p] \in Expunging
  PROVE  LockMatchesLevel'
<1>1. ASSUME NEW q \in Proc, q # p
      PROVE  /\ EntryFrames(q)' = EntryFrames(q)
             /\ wlock' = q <=> wlock = q
  <2>1. EntryFrames(q)' = EntryFrames(q)
    BY <1>1 DEF EntryFrames
  <2>2. wlock' = q <=> wlock = q
    BY <1>1, ProcAssumption
  <2> QED
    BY <2>1, <2>2
<1>2. ASSUME NEW q \in Proc, q # p, pc'[q] # "dead"
      PROVE  /\ level'[q] = Cardinality(EntryFrames(q))'
             /\ wlock' = q <=> level'[q] > 0 \/ pc'[q] \in {"avail", "defrag", "contig"}
  <2>1. level[q] = Cardinality(EntryFrames(q))
        /\ (wlock = q <=> level[q] > 0 \/ pc[q] \in {"avail", "defrag", "contig"})
    BY <1>2 DEF LockMatchesLevel
  <2> QED
    BY <1>1, <1>2, <2>1
<1> QED
  BY <1>2 DEF LockMatchesLevel, Expunging

\* Steps that neither lock nor unlock nor nest.
LEMMA LockSame ==
  ASSUME LockInv, NEW p \in Proc, NEW l, pc' = [pc EXCEPT ![p] = l],
         UNCHANGED <<stack, level, wlock>>, pc[p] # "dead", pc[p] \in Expunging <=> l \in Expunging
  PROVE  LockMatchesLevel'
<1>1. pc'[p] = l /\ \A q \in Proc: q # p => pc'[q] = pc[q]
  BY DEF LockInv, ControlInv, ControlTypeOK
<1>2. EntryFrames(p)' = EntryFrames(p)
  BY DEF EntryFrames
<1>3. level[p] = Cardinality(EntryFrames(p)) /\ (wlock = p <=> level[p] > 0 \/ pc[p] \in Expunging)
  BY DEF LockInv, LockMatchesLevel, Expunging
<1> QED
  BY <1>1, <1>2, <1>3, LockStep DEF LockInv

LEMMA LockExpungeEnd ==
  ASSUME LockInv, NEW p \in Proc, ExpungeEnd(p),
         pc[p] \in Expunging \/ (pc[p] = "expunge" /\ CanLock(p))
  PROVE  LockMatchesLevel'
<1>1. pc'[p] = "malloc" /\ UNCHANGED <<stack, level>> /\ \A q \in Proc: q # p => pc'[q] = pc[q]
  BY DEF ExpungeEnd, Goto, LockInv, ControlInv, ControlTypeOK
<1>2. EntryFrames(p)' = EntryFrames(p)
  BY <1>1 DEF EntryFrames
<1>3. level[p] = Cardinality(EntryFrames(p)) /\ (wlock = p <=> level[p] > 0 \/ pc[p] \in Expunging)
  BY DEF LockInv, LockMatchesLevel, Expunging
<1>4. wlock \in {p, NoProc}
  BY <1>3 DEF CanLock
<1>5. wlock' = IF level[p] > 0 THEN wlock ELSE NoProc
  BY DEF ExpungeEnd, WUnlock
<1> QED
  BY <1>1, <1>2, <1>3, <1>4, <1>5, LockStep, ProcAssumption DEF LockInv, Expunging

LEMMA LockEnter ==
  ASSUME LockInv, NEW p \in Proc, NEW f \in Frame, f.kind \in {"hit", "gen"},
         Push(p, f), Enter(p), CanLock(p), pc[p] = "entry", pc' = [pc EXCEPT ![p] = "user"]
  PROVE  LockMatchesLevel'
<1>1. /\ pc'[p] = "user" /\ level'[p] = level[p] + 1
      /\ \A q \in Proc: q # p => pc'[q] = pc[q] /\ level'[q] = level[q]
  BY DEF Enter, LockInv, ControlInv, ControlTypeOK
<1>2. Cardinality(EntryFrames(p))' = Cardinality(EntryFrames(p)) + 1
  BY FramesPush, FramesSize DEF LockInv, ControlInv
<1>3. level[p] = Cardinality(EntryFrames(p)) /\ (wlock = p <=> level[p] > 0) /\ level[p] \in Nat
  BY FramesSize DEF LockInv, ControlInv, LockMatchesLevel
<1>4. wlock' = p /\ wlock \in {p, NoProc}
  BY <1>3 DEF Enter, WLock, CanLock
<1>5. \A q \in Proc: q # p => stack'[q] = stack[q]
  BY PushStack DEF LockInv, ControlInv
<1> QED
  BY <1>1, <1>2, <1>3, <1>4, <1>5, LockStep DEF LockInv

LEMMA LockLeave ==
  ASSUME LockInv, NEW p \in Proc, stack[p] # <<>>, Top(p).kind \in {"hit", "gen"},
         Pop(p), Leave(p), pc[p] \notin Expunging \cup {"dead"},
         NEW l \in {"user", "bail"}, pc' = [pc EXCEPT ![p] = l]
  PROVE  LockMatchesLevel'
<1>1. /\ pc'[p] = l /\ level'[p] = level[p] - 1
      /\ \A q \in Proc: q # p => pc'[q] = pc[q] /\ level'[q] = level[q]
  BY DEF Leave, LockInv, ControlInv, ControlTypeOK
<1>2. Cardinality(EntryFrames(p))' = Cardinality(EntryFrames(p)) - 1
  BY FramesPop, FramesSize DEF LockInv, ControlInv
<1>3. EntryFrames(p) # {}
  BY TopType DEF EntryFrames, Top, LockInv, ControlInv
<1>4. level[p] = Cardinality(EntryFrames(p)) /\ level[p] \in Nat /\ level[p] > 0 /\ wlock = p
  BY <1>3, FramesSize DEF LockInv, ControlInv, LockMatchesLevel
<1>5. wlock' = IF level[p] - 1 > 0 THEN wlock ELSE NoProc
  BY DEF Leave
<1>6. \A q \in Proc: q # p => stack'[q] = stack[q]
  BY PopStack DEF LockInv, ControlInv
<1>7. l \notin Expunging /\ l # "dead"
  BY DEF Expunging
<1> QED
  BY <1>1, <1>2, <1>4, <1>5, <1>6, <1>7, LockStep, ProcAssumption DEF LockInv

\* The lock and the levels after each step of p.
LEMMA LockCall ==
  ASSUME LockInv, NEW p \in Proc, Call(p)
  PROVE  LockMatchesLevel'
<1>1. PICK l \in {"malloc", "fetch", "exists", "delete", "update", "clear", "entry"}:
        pc' = [pc EXCEPT ![p] = l]
  BY DEF Call, CallStore, CallLookup, CallUpdate, CallClear, CallEntry, Goto
<1>2. pc[p] = "user" /\ UNCHANGED <<stack, level, wlock>>
  BY DEF Call, CallStore, CallLookup, CallUpdate, CallClear, CallEntry, Calls
<1> QED
  BY <1>1, <1>2, LockSame DEF Expunging

LEMMA LockLocking ==
  ASSUME LockInv, NEW p \in Proc, Locking(p)
  PROVE  LockMatchesLevel'
<1> USE DEF Goto
<1>1. CASE ExpungeAll(p)
  BY <1>1, LockExpungeEnd DEF ExpungeAll
<1>2. CASE ExpungeExpired(p)
  <2>1. /\ pc'[p] = "avail" /\ pc[p] = "expunge" /\ UNCHANGED <<stack, level>>
        /\ \A q \in Proc: q # p => pc'[q] = pc[q]
    BY <1>2 DEF ExpungeExpired, LockInv, ControlInv, ControlTypeOK
  <2>2. level[p] = Cardinality(EntryFrames(p)) /\ (wlock = p <=> level[p] > 0)
    BY <2>1 DEF LockInv, LockMatchesLevel
  <2>3. wlock' = p /\ wlock \in {p, NoProc}
    BY <1>2, <2>2 DEF ExpungeExpired, CanLock, WLock
  <2>4. EntryFrames(p)' = EntryFrames(p)
    BY <2>1 DEF EntryFrames
  <2> QED
    BY <2>1, <2>2, <2>3, <2>4, LockStep DEF LockInv, Expunging
<1>3. CASE FetchHit(p)
  <2>1. PICK a \in Found(args[p].key, args[p].t):
          Push(p, [kind |-> "fetch", addr |-> a, key |-> args[p].key])
    BY <1>3 DEF FetchHit
  <2> DEFINE f == [kind |-> "fetch", addr |-> a, key |-> args[p].key]
  <2>2. f \in Frame /\ f.kind = "fetch"
    BY FrameTypes DEF LockInv, ControlInv, Found, Matches
  <2>3. Push(p, f)
    BY <2>1
  <2> HIDE DEF f
  <2>4. Cardinality(EntryFrames(p))' = Cardinality(EntryFrames(p)) /\ \A q \in Proc: q # p => stack'[q] = stack[q]
    BY <2>2, <2>3, FramesPush, FramesSize, PushStack DEF LockInv, ControlInv
  <2>5. /\ pc'[p] = "user" /\ pc[p] = "fetch" /\ UNCHANGED <<level, wlock>>
        /\ \A q \in Proc: q # p => pc'[q] = pc[q]
    BY <1>3 DEF FetchHit, Return, LockInv, ControlInv, ControlTypeOK
  <2>6. level[p] = Cardinality(EntryFrames(p)) /\ (wlock = p <=> level[p] > 0)
    BY <2>5 DEF LockInv, LockMatchesLevel
  <2> QED
    BY <2>4, <2>5, <2>6, LockStep DEF LockInv, Expunging
<1>4. CASE EntryHit(p)
  <2>1. PICK a \in Found(args[p].key, args[p].t):
          Push(p, [kind |-> "hit", addr |-> a, key |-> args[p].key])
    BY <1>4 DEF EntryHit
  <2> DEFINE f == [kind |-> "hit", addr |-> a, key |-> args[p].key]
  <2>2. f \in Frame /\ f.kind = "hit"
    BY FrameTypes DEF LockInv, ControlInv, Found, Matches
  <2>3. Push(p, f)
    BY <2>1
  <2> HIDE DEF f
  <2> QED
    BY <1>4, <2>2, <2>3, LockEnter DEF EntryHit, Return
<1>5. CASE EntryMiss(p)
  <2> DEFINE f == [kind |-> "gen", key |-> args[p].key, ttl |-> args[p].ttl]
  <2>1. f \in Frame /\ f.kind = "gen" /\ Push(p, f)
    BY <1>5, FrameTypes DEF LockInv, ControlInv, EntryMiss
  <2> HIDE DEF f
  <2> QED
    BY <1>5, <2>1, LockEnter DEF EntryMiss, Return
<1>6. CASE \/ ExpungeSkip(p) \/ InsertRefused(p) \/ Insert(p) \/ ExistsHit(p) \/ LookupMiss(p)
           \/ UpdateHit(p) \/ UpdateInsert(p) \/ UpdateMiss(p) \/ Delete(p) \/ Clear(p)
  <2>1. PICK l \in {"malloc", "drop", "release", "user"}: pc' = [pc EXCEPT ![p] = l]
    BY <1>6 DEF ExpungeSkip, InsertRefused, Insert, ExistsHit, LookupMiss, UpdateHit, UpdateInsert,
                UpdateMiss, Delete, Clear, Return
  <2>2. pc[p] \notin Expunging \cup {"dead"} /\ UNCHANGED <<stack, level, wlock>>
    BY <1>6 DEF ExpungeSkip, InsertRefused, Insert, ExistsHit, LookupMiss, UpdateHit, UpdateInsert,
                UpdateMiss, Delete, Clear, Expunging
  <2> QED
    BY <2>1, <2>2, LockSame DEF Expunging
<1> QED
  BY <1>1, <1>2, <1>3, <1>4, <1>5, <1>6 DEF Locking

\* Steps that end a callback that did not take the lock.
LEMMA LockPop ==
  ASSUME LockInv, NEW p \in Proc, stack[p] # <<>>, Top(p).kind = "fetch", Pop(p),
         UNCHANGED <<pc, level, wlock>>
  PROVE  LockMatchesLevel'
<1>1. Cardinality(EntryFrames(p))' = Cardinality(EntryFrames(p)) /\ \A q \in Proc: q # p => stack'[q] = stack[q]
  BY FramesPop, FramesSize, PopStack DEF LockInv, ControlInv
<1>2. pc[p] # "dead" => level[p] = Cardinality(EntryFrames(p))
                        /\ (wlock = p <=> level[p] > 0 \/ pc[p] \in Expunging)
  BY DEF LockInv, LockMatchesLevel, Expunging
<1> QED
  BY <1>1, <1>2, LockStep DEF LockInv

LEMMA LockRunning ==
  ASSUME LockInv, NEW p \in Proc, Running(p)
  PROVE  LockMatchesLevel'
<1> USE DEF Goto
<1>1. CASE ExpungeShort(p) \/ ExpungeFragmented(p) \/ ExpungeDone(p)
  BY <1>1, LockExpungeEnd DEF ExpungeShort, ExpungeFragmented, ExpungeDone, Expunging
<1>2. CASE MallocFail(p) \/ Release(p) \/ Drop(p)
  <2>1. PICK l \in {"user", "update", "exit", "nomem"}: pc' = [pc EXCEPT ![p] = l]
    BY <1>2, ResumeType DEF MallocFail, Release, Drop, LockInv, ControlInv
  <2>2. pc[p] \notin Expunging \cup {"dead"} /\ UNCHANGED <<stack, level, wlock>>
    BY <1>2 DEF MallocFail, Release, Drop, Expunging
  <2> QED
    BY <2>1, <2>2, LockSame DEF Expunging
<1>3. CASE Malloc(p) \/ ReadCleanups(p) \/ Unwound(p)
  <2>1. PICK l \in {"insert", "expunge", "user"}: pc' = [pc EXCEPT ![p] = l]
    BY <1>3 DEF Malloc, ReadCleanups, Unwound
  <2>2. pc[p] \notin Expunging \cup {"dead"} /\ UNCHANGED <<stack, level, wlock>>
    BY <1>3 DEF Malloc, ReadCleanups, Unwound, Expunging
  <2> QED
    BY <2>1, <2>2, LockSame DEF Expunging
<1>4. CASE ExpungeAvail(p) \/ ExpungeDefrag(p)
  <2>1. PICK l \in {"defrag", "contig"}: pc' = [pc EXCEPT ![p] = l]
    BY <1>4 DEF ExpungeAvail, ExpungeDefrag
  <2>2. pc[p] \in Expunging /\ pc[p] # "dead" /\ UNCHANGED <<stack, level, wlock>>
    BY <1>4 DEF ExpungeAvail, ExpungeDefrag, Expunging
  <2> QED
    BY <2>1, <2>2, LockSame DEF Expunging
<1>5. CASE EntryExit(p)
  <2>1. stack[p] # <<>> /\ Top(p).kind = "gen"
    BY <1>5 DEF EntryExit, LockInv, ExitOK
  <2> QED
    BY <1>5, <2>1, LockLeave DEF EntryExit, Expunging
<1>6. CASE UnwindFetch(p)
  BY <1>6, LockPop DEF UnwindFetch
<1>7. CASE UnwindEntry(p)
  <2>1. pc' = [pc EXCEPT ![p] = "bail"] /\ pc[p] = "bail"
    BY <1>7 DEF UnwindEntry, LockInv, ControlInv, ControlTypeOK
  <2> QED
    BY <1>7, <2>1, LockLeave DEF UnwindEntry, Expunging
<1> QED
  BY <1>1, <1>2, <1>3, <1>4, <1>5, <1>6, <1>7 DEF Running

LEMMA LockCallback ==
  ASSUME LockInv, NEW p \in Proc, CallbackReturn(p)
  PROVE  LockMatchesLevel'
<1> USE DEF Goto
<1>1. CASE FetchReturn(p)
  BY <1>1, LockPop DEF FetchReturn, InCallback
<1>2. CASE EntryHitReturn(p)
  <2>1. pc' = [pc EXCEPT ![p] = "user"] /\ pc[p] = "user"
    BY <1>2 DEF EntryHitReturn, InCallback, LockInv, ControlInv, ControlTypeOK
  <2> QED
    BY <1>2, <2>1, LockLeave DEF EntryHitReturn, InCallback, Expunging
<1>3. ASSUME NEW v \in Values, GeneratorReturn(p, v)
      PROVE  LockMatchesLevel'
  BY <1>3, LockSame DEF GeneratorReturn, InCallback, Expunging
<1> QED
  BY <1>1, <1>2, <1>3 DEF CallbackReturn

LEMMA LockFail ==
  ASSUME LockInv, NEW p \in Proc, Fail(p)
  PROVE  LockMatchesLevel'
<1> USE DEF Goto
<1>1. CASE PersistBailout(p) \/ GeneratorThrow(p) \/ Bailout(p)
  <2>1. PICK l \in {"bail", "exit"}: pc' = [pc EXCEPT ![p] = l]
    BY <1>1 DEF PersistBailout, GeneratorThrow, Bailout
  <2>2. pc[p] \notin Expunging \cup {"dead"} /\ UNCHANGED <<stack, level, wlock>>
    BY <1>1 DEF PersistBailout, GeneratorThrow, Bailout, InCallback, Expunging
  <2> QED
    BY <2>1, <2>2, LockSame DEF Expunging
<1>2. CASE Crash(p)
  <2>1. pc'[p] = "dead" /\ UNCHANGED <<wlock, level>>
        /\ \A q \in Proc: q # p => pc'[q] = pc[q] /\ stack'[q] = stack[q] /\ level'[q] = level[q]
    BY <1>2 DEF Crash, LockInv, ControlInv, ControlTypeOK
  <2> QED
    BY <2>1, LockStep DEF LockInv
<1> QED
  BY <1>1, <1>2 DEF Fail

\* A step of p that does not concern a generator, and one in the middle of a store.
LEMMA ExitAway ==
  ASSUME ExitOK, NEW p \in Proc,
         \A q \in Proc: q # p =>
           pc'[q] = pc[q] /\ stack'[q] = stack[q] /\ args'[q].then = args[q].then,
         pc'[p] # "exit", args'[p].then # "exit"
  PROVE  ExitOK'
BY DEF ExitOK, Top

LEMMA ExitStore ==
  ASSUME ExitOK, NEW p \in Proc, NEW l, pc' = [pc EXCEPT ![p] = l], pc \in [Proc -> PCs],
         pc[p] \in Storing, l \in Storing, UNCHANGED stack,
         \A q \in Proc: args'[q].then = args[q].then
  PROVE  ExitOK'
<1>1. pc'[p] = l /\ l # "exit" /\ \A q \in Proc: q # p => pc'[q] = pc[q]
  BY DEF Storing
<1> QED
  BY <1>1 DEF ExitOK, Top

LEMMA ExitResume ==
  ASSUME ControlInv, ExitOK, NEW p \in Proc, Resume(p), pc[p] \in Storing, UNCHANGED stack
  PROVE  ExitOK'
<1>1. /\ pc'[p] = args[p].then /\ \A q \in Proc: q # p => pc'[q] = pc[q] /\ args'[q] = args[q]
  BY DEF Resume, Goto, ControlInv, ControlTypeOK
<1>2. args'[p].then = "user"
  <2>1. args[p] \in Args
    BY DEF ControlInv, ControlTypeOK
  <2>2. args'[p] = IF args[p].then = "update"
                     THEN [args[p] EXCEPT !.nuked = FALSE, !.then = "user"] ELSE NoArgs
    BY DEF Resume, ControlInv, ControlTypeOK
  <2> QED
    BY <2>1, <2>2 DEF Args, NoArgs
<1>3. args[p].then = "exit" => stack[p] # <<>> /\ Top(p).kind = "gen"
  BY DEF ExitOK
<1> QED
  BY <1>1, <1>2, <1>3 DEF ExitOK, Top

LEMMA NoArgsThen == NoArgs.then = "user"
BY DEF NoArgs

LEMMA ExitCall ==
  ASSUME ControlInv, ExitOK, NEW p \in Proc, Call(p)
  PROVE  ExitOK'
<1>1. UNCHANGED stack /\ pc[p] = "user" /\ \A q \in Proc: q # p => args'[q] = args[q] /\ pc'[q] = pc[q]
  BY DEF Call, CallStore, CallLookup, CallUpdate, CallClear, CallEntry, Calls, Goto,
         ControlInv, ControlTypeOK
<1>2. pc'[p] # "exit"
  BY DEF Call, CallStore, CallLookup, CallUpdate, CallClear, CallEntry, Calls, Goto,
         ControlInv, ControlTypeOK
<1>3. args[p].then # "exit"
  BY <1>1 DEF ExitOK, Storing
<1>4. args'[p].then # "exit"
  <2>1. CASE CallClear(p)
    BY <1>3, <2>1 DEF CallClear
  <2>2. ASSUME NEW k \in Key, CallLookup(p, k) PROVE args'[p].then = "user"
    <3>1. args'[p] = [NoArgs EXCEPT !.key = k, !.t = now]
      BY <2>2 DEF CallLookup, ControlInv, ControlTypeOK
    <3> QED
      BY <3>1 DEF NoArgs
  <2>3. ASSUME NEW k \in Key, NEW ttl \in Ttls, NEW v \in Values, CallStore(p, k, v, ttl)
        PROVE args'[p].then = "user"
    <3>1. PICK op \in {"store", "add"}:
            args'[p] = [NoArgs EXCEPT !.key = k, !.val = v, !.ttl = ttl, !.ct = now, !.excl = (op = "add")]
      BY <2>3 DEF CallStore, ControlInv, ControlTypeOK
    <3> QED
      BY <3>1 DEF NoArgs
  <2>4. ASSUME NEW k \in Key, NEW ttl \in Ttls, CallUpdate(p, k, ttl)
        PROVE args'[p].then = "user"
    <3>1. args'[p] = [NoArgs EXCEPT !.key = k, !.ttl = ttl, !.t = now, !.insert = TRUE]
      BY <2>4 DEF CallUpdate, ControlInv, ControlTypeOK
    <3> QED
      BY <3>1 DEF NoArgs
  <2>5. ASSUME NEW k \in Key, NEW ttl \in Ttls, CallEntry(p, k, ttl)
        PROVE args'[p].then = "user"
    <3>1. args'[p] = [NoArgs EXCEPT !.key = k, !.ttl = ttl, !.t = now]
      BY <2>5 DEF CallEntry, ControlInv, ControlTypeOK
    <3> QED
      BY <3>1 DEF NoArgs
  <2> QED
    BY <2>1, <2>2, <2>3, <2>4, <2>5 DEF Call
<1> QED
  BY <1>1, <1>2, <1>4, ExitAway

\* ExpungeEnd changes no `then'.
LEMMA ExitExpungeEnd ==
  ASSUME ControlInv, ExitOK, NEW p \in Proc, ExpungeEnd(p), pc[p] \in Storing
  PROVE  ExitOK'
<1>1. pc' = [pc EXCEPT ![p] = "malloc"] /\ UNCHANGED stack
  BY DEF ExpungeEnd, Goto
<1>2. ASSUME NEW q \in Proc PROVE args'[q].then = args[q].then
  <2>1. args[q] \in Args
    BY DEF ControlInv, ControlTypeOK
  <2>2. \/ args'[q] = [args[q] EXCEPT !.nuked = TRUE]
        \/ args'[q] = [args[q] EXCEPT !.missed = TRUE]
        \/ args'[q] = args[q]
    BY DEF ExpungeEnd
  <2> QED
    BY <2>1, <2>2 DEF Args
<1> QED
  BY <1>1, <1>2, ExitStore DEF ControlInv, ControlTypeOK, Storing

LEMMA ExitLocking ==
  ASSUME ControlInv, ExitOK, NEW p \in Proc, Locking(p)
  PROVE  ExitOK'
<1> USE DEF Goto
<1>1. CASE ExpungeAll(p)
  BY <1>1, ExitExpungeEnd DEF ExpungeAll, Storing
<1>2. CASE ExpungeSkip(p) \/ ExpungeExpired(p) \/ InsertRefused(p) \/ Insert(p)
  <2>1. PICK l \in {"malloc", "avail", "drop", "release"}: pc' = [pc EXCEPT ![p] = l]
    BY <1>2 DEF ExpungeSkip, ExpungeExpired, InsertRefused, Insert
  <2>2. pc[p] \in Storing /\ UNCHANGED <<stack, args>>
    BY <1>2 DEF ExpungeSkip, ExpungeExpired, InsertRefused, Insert, Storing
  <2> QED
    BY <2>1, <2>2, ExitStore DEF ControlInv, ControlTypeOK, Storing
<1>3. CASE UpdateInsert(p)
  <2>1. /\ UNCHANGED stack /\ pc'[p] = "malloc"
        /\ \A q \in Proc: q # p => args'[q] = args[q] /\ pc'[q] = pc[q]
    BY <1>3 DEF UpdateInsert, ControlInv, ControlTypeOK
  <2>2. args'[p].then = "update"
    <3>1. args[p] \in Args
      BY DEF ControlInv, ControlTypeOK
    <3>2. args'[p] = [args[p] EXCEPT !.val = 0, !.ct = now, !.excl = TRUE, !.insert = FALSE,
                                     !.then = "update"]
      BY <1>3 DEF UpdateInsert, ControlInv, ControlTypeOK
    <3> QED
      BY <3>1, <3>2 DEF Args
  <2> QED
    BY <2>1, <2>2, ExitAway
<1>4. CASE ExistsHit(p) \/ LookupMiss(p) \/ UpdateHit(p) \/ UpdateMiss(p) \/ Delete(p)
  <2>1. /\ UNCHANGED stack /\ pc'[p] = "user" /\ args'[p] = NoArgs
        /\ \A q \in Proc: q # p => args'[q] = args[q] /\ pc'[q] = pc[q]
    BY <1>4 DEF ExistsHit, LookupMiss, UpdateHit, UpdateMiss, Delete, Return, ControlInv, ControlTypeOK
  <2> QED
    BY <2>1, NoArgsThen, ExitAway
<1>5. CASE Clear(p)
  <2>1. /\ UNCHANGED stack /\ pc'[p] = "user" /\ args' = args /\ args[p].then # "exit"
        /\ \A q \in Proc: q # p => pc'[q] = pc[q]
    BY <1>5 DEF Clear, ControlInv, ControlTypeOK, ExitOK, Storing
  <2> QED
    BY <2>1, ExitAway
<1>6. CASE FetchHit(p) \/ EntryHit(p) \/ EntryMiss(p)
  <2>1. /\ pc'[p] = "user" /\ args'[p] = NoArgs
        /\ \A q \in Proc: q # p => args'[q] = args[q] /\ pc'[q] = pc[q] /\ stack'[q] = stack[q]
    BY <1>6 DEF FetchHit, EntryHit, EntryMiss, Return, Push, ControlInv, ControlTypeOK
  <2> QED
    BY <2>1, NoArgsThen, ExitAway
<1> QED
  BY <1>1, <1>2, <1>3, <1>4, <1>5, <1>6 DEF Locking

LEMMA ExitRunning ==
  ASSUME ControlInv, ExitOK, NEW p \in Proc, Running(p)
  PROVE  ExitOK'
<1> USE DEF Goto
<1>1. CASE ExpungeShort(p) \/ ExpungeFragmented(p) \/ ExpungeDone(p)
  BY <1>1, ExitExpungeEnd DEF ExpungeShort, ExpungeFragmented, ExpungeDone, Storing
<1>2. CASE \/ Malloc(p) \/ (MallocFail(p) /\ ~args[p].nuked)
           \/ ExpungeAvail(p) \/ ExpungeDefrag(p)
  <2>1. PICK l \in {"insert", "nomem", "defrag", "contig"}: pc' = [pc EXCEPT ![p] = l]
    BY <1>2 DEF Malloc, MallocFail, ExpungeAvail, ExpungeDefrag
  <2>2. pc[p] \in Storing /\ UNCHANGED <<stack, args>>
    BY <1>2 DEF Malloc, MallocFail, ExpungeAvail, ExpungeDefrag, Storing
  <2> QED
    BY <2>1, <2>2, ExitStore DEF ControlInv, ControlTypeOK, Storing
<1>3. CASE ReadCleanups(p)
  <2>1. pc' = [pc EXCEPT ![p] = "expunge"] /\ pc[p] \in Storing /\ UNCHANGED stack
    BY <1>3 DEF ReadCleanups, Storing
  <2>2. ASSUME NEW q \in Proc PROVE args'[q].then = args[q].then
    <3>1. args[q] \in Args
      BY DEF ControlInv, ControlTypeOK
    <3>2. \/ args'[q] = args[q]
          \/ args'[q] = [args[q] EXCEPT !.ncl = ncleanups, !.xt = now, !.missed = FALSE]
      BY <1>3 DEF ReadCleanups, ControlInv, ControlTypeOK
    <3> QED
      BY <3>1, <3>2 DEF Args
  <2> QED
    BY <2>1, <2>2, ExitStore DEF ControlInv, ControlTypeOK, Storing
<1>4. CASE (MallocFail(p) /\ args[p].nuked) \/ Release(p) \/ Drop(p)
  BY <1>4, ExitResume DEF MallocFail, Release, Drop, Storing
<1>5. CASE EntryExit(p)
  <2>1. /\ pc[p] = "exit" /\ pc'[p] = "user" /\ args' = args
        /\ \A q \in Proc: q # p => pc'[q] = pc[q] /\ stack'[q] = stack[q]
    BY <1>5 DEF EntryExit, Pop, ControlInv, ControlTypeOK
  <2>2. args[p].then # "exit"
    BY <2>1 DEF ExitOK, Storing
  <2> QED
    BY <2>1, <2>2, ExitAway
<1>6. CASE UnwindFetch(p) \/ UnwindEntry(p) \/ Unwound(p)
  <2>1. /\ pc[p] = "bail" /\ pc'[p] \in {"bail", "user"} /\ args' = args
        /\ \A q \in Proc: q # p => pc'[q] = pc[q] /\ stack'[q] = stack[q]
    BY <1>6 DEF UnwindFetch, UnwindEntry, Unwound, Pop, ControlInv, ControlTypeOK
  <2>2. args[p].then # "exit"
    BY <2>1 DEF ExitOK, Storing
  <2> QED
    BY <2>1, <2>2, ExitAway
<1> QED
  BY <1>1, <1>2, <1>3, <1>4, <1>5, <1>6 DEF Running

LEMMA ExitCallback ==
  ASSUME ControlInv, ExitOK, NEW p \in Proc, CallbackReturn(p)
  PROVE  ExitOK'
<1> USE DEF Goto
<1>1. CASE FetchReturn(p) \/ EntryHitReturn(p)
  <2>1. /\ pc[p] = "user" /\ pc' = pc /\ args' = args
        /\ \A q \in Proc: q # p => stack'[q] = stack[q]
    BY <1>1 DEF FetchReturn, EntryHitReturn, InCallback, Pop, ControlInv, ControlTypeOK
  <2>2. args[p].then # "exit"
    BY <2>1 DEF ExitOK, Storing
  <2> QED
    BY <2>1, <2>2, ExitAway
<1>2. ASSUME NEW v \in Values, GeneratorReturn(p, v)
      PROVE  ExitOK'
  <2>1. /\ pc'[p] = "malloc" /\ stack' = stack /\ stack[p] # <<>> /\ Top(p).kind = "gen"
        /\ \A q \in Proc: q # p => pc'[q] = pc[q] /\ args'[q] = args[q]
    BY <1>2 DEF GeneratorReturn, InCallback, ControlInv, ControlTypeOK
  <2> QED
    BY <2>1 DEF ExitOK, Storing, Top
<1> QED
  BY <1>1, <1>2 DEF CallbackReturn

LEMMA ExitFail ==
  ASSUME ControlInv, ExitOK, NEW p \in Proc, Fail(p)
  PROVE  ExitOK'
<1> USE DEF Goto
<1>1. CASE PersistBailout(p) \/ Crash(p)
  <2>1. /\ pc'[p] \in {"bail", "dead"} /\ args'[p] = NoArgs
        /\ \A q \in Proc: q # p => pc'[q] = pc[q] /\ args'[q] = args[q] /\ stack'[q] = stack[q]
    BY <1>1 DEF PersistBailout, Crash, ControlInv, ControlTypeOK
  <2> QED
    BY <2>1, NoArgsThen, ExitAway
<1>2. CASE Bailout(p)
  <2>1. /\ pc[p] = "user" /\ pc'[p] = "bail" /\ args' = args /\ stack' = stack
        /\ \A q \in Proc: q # p => pc'[q] = pc[q]
    BY <1>2 DEF Bailout, ControlInv, ControlTypeOK
  <2>2. args[p].then # "exit"
    BY <2>1 DEF ExitOK, Storing
  <2> QED
    BY <2>1, <2>2, ExitAway
<1>3. CASE GeneratorThrow(p)
  <2>1. /\ pc[p] = "user" /\ pc'[p] = "exit" /\ args' = args /\ stack' = stack
        /\ stack[p] # <<>> /\ Top(p).kind = "gen"
        /\ \A q \in Proc: q # p => pc'[q] = pc[q]
    BY <1>3 DEF GeneratorThrow, InCallback, ControlInv, ControlTypeOK
  <2>2. args[p].then # "exit"
    BY <2>1 DEF ExitOK, Storing
  <2>3. "exit" \notin Storing
    BY DEF Storing
  <2>4. ASSUME NEW q \in Proc
        PROVE  /\ args'[q].then = "exit" => pc'[q] \in Storing
               /\ pc'[q] = "exit" \/ args'[q].then = "exit"
                    => stack'[q] # <<>> /\ stack'[q][Len(stack'[q])].kind = "gen"
    <3>1. CASE q = p
      BY <2>1, <2>2, <3>1 DEF Top
    <3>2. CASE q # p
      BY <2>1, <3>2 DEF ExitOK, Top
    <3> QED
      BY <3>1, <3>2
  <2> QED
    BY <2>4 DEF ExitOK, Top
<1> QED
  BY <1>1, <1>2, <1>3 DEF Fail

LEMMA NextLock == LockInv /\ [Next]_vars => LockInv'
<1> SUFFICES ASSUME LockInv, [Next]_vars
             PROVE  LockInv'
  OBVIOUS
<1>1. ControlInv'
  BY NextControl DEF LockInv
<1>2. ASSUME NEW p \in Proc,
             Call(p) \/ Locking(p) \/ Running(p) \/ CallbackReturn(p) \/ Fail(p)
      PROVE  LockMatchesLevel' /\ ExitOK'
  <2>1. LockMatchesLevel'
    BY <1>2, LockCall, LockLocking, LockRunning, LockCallback, LockFail
  <2>2. ExitOK'
    BY <1>2, ExitCall, ExitLocking, ExitRunning, ExitCallback, ExitFail DEF LockInv
  <2> QED
    BY <2>1, <2>2
<1>3. ASSUME Tick \/ UNCHANGED vars
      PROVE  LockMatchesLevel' /\ ExitOK'
  <2>1. UNCHANGED <<pc, args, stack, level, wlock>>
    BY <1>3 DEF Tick, vars
  <2>2. ExitOK'
    BY <2>1 DEF LockInv, ExitOK, Top
  <2>3. \A p \in Proc: EntryFrames(p)' = EntryFrames(p)
    BY <2>1 DEF EntryFrames
  <2>4. LockMatchesLevel'
    BY <2>1, <2>3 DEF LockInv, LockMatchesLevel
  <2> QED
    BY <2>2, <2>4
<1>4. LockMatchesLevel' /\ ExitOK'
  BY <1>2, <1>3 DEF Next
<1> QED
  BY <1>1, <1>4 DEF LockInv

THEOREM LockIsInvariant == Spec => []LockInv
<1>1. Init => LockInv
  BY InitControl, InitLock DEF LockInv
<1> QED
  BY <1>1, NextLock, PTL DEF Spec

\* Through recursion, exceptions and bailouts of apcu_entry(), entry_level is the number of
\* calls in progress, and the write lock is held exactly by a process inside one or in the
\* middle of an expunge (apc_cache_wlock and apc_cache_wunlock skip the lock by that count).
THEOREM LockLevelAgree == Spec => []LockMatchesLevel
<1>1. LockInv => LockMatchesLevel
  BY DEF LockInv
<1> QED
  BY <1>1, LockIsInvariant, PTL

lists == <<linked, gc, nentries, ncleanups>>

\* A step of q that changes the lists moves q on, and q may lock or has the lock.
LEMMA ListSteps ==
  ASSUME ControlInv, NEW q \in Proc,
         Call(q) \/ Locking(q) \/ Running(q) \/ CallbackReturn(q) \/ Fail(q), lists' # lists
  PROVE  /\ pc'[q] # pc[q] /\ pc[q] # "dead"
         /\ CanLock(q) \/ pc[q] \in Expunging
<1> USE DEF lists, Goto, shared, history
<1>1. pc \in [Proc -> PCs]
  BY DEF ControlInv, ControlTypeOK
<1>2. CASE Call(q) \/ CallbackReturn(q) \/ Fail(q)
  BY <1>2 DEF Call, CallStore, CallLookup, CallUpdate, CallClear, CallEntry,
              CallbackReturn, FetchReturn, EntryHitReturn, GeneratorReturn,
              Fail, PersistBailout, GeneratorThrow, Bailout, Crash
<1>3. CASE Locking(q)
  <2>1. CASE ExpungeAll(q) \/ ExpungeExpired(q) \/ InsertRefused(q) \/ Insert(q)
             \/ Delete(q) \/ Clear(q)
    BY <1>1, <2>1 DEF ExpungeAll, ExpungeExpired, InsertRefused, Insert, Delete, Clear, ExpungeEnd, Return
  <2>2. CASE \/ ExpungeSkip(q) \/ FetchHit(q) \/ ExistsHit(q) \/ LookupMiss(q) \/ UpdateHit(q)
             \/ UpdateInsert(q) \/ UpdateMiss(q) \/ EntryHit(q) \/ EntryMiss(q)
    BY <2>2 DEF ExpungeSkip, FetchHit, ExistsHit, LookupMiss, UpdateHit, UpdateInsert, UpdateMiss,
                EntryHit, EntryMiss
  <2> QED
    BY <1>3, <2>1, <2>2 DEF Locking
<1>4. CASE Running(q)
  <2>1. CASE ExpungeShort(q) \/ ExpungeDefrag(q) \/ ExpungeFragmented(q) \/ ExpungeDone(q)
    BY <1>1, <2>1 DEF ExpungeShort, ExpungeDefrag, ExpungeFragmented, ExpungeDone, ExpungeEnd, Expunging
  <2>2. CASE \/ Malloc(q) \/ MallocFail(q) \/ ReadCleanups(q) \/ ExpungeAvail(q) \/ Release(q)
             \/ Drop(q) \/ EntryExit(q) \/ UnwindFetch(q) \/ UnwindEntry(q) \/ Unwound(q)
    BY <2>2 DEF Malloc, MallocFail, ReadCleanups, ExpungeAvail, Release, Drop, EntryExit,
                UnwindFetch, UnwindEntry, Unwound
  <2> QED
    BY <1>4, <2>1, <2>2 DEF Running
<1> QED
  BY <1>2, <1>3, <1>4

\* While a process holds the write lock, whether in user code of apcu_entry() or in an
\* expunge, the lists and counters of the cache change only by its own steps.
THEOREM WriterAlone == Spec => WriterExclusive
<1>1. ASSUME LockInv, [Next]_vars
      PROVE  [\A p \in Proc:
                wlock = p /\ <<linked, gc, nentries, ncleanups>>' # <<linked, gc, nentries, ncleanups>>
                  => pc'[p] # pc[p]]_vars
  <2>1. ASSUME NEW p \in Proc, wlock = p, lists' # lists
        PROVE  pc'[p] # pc[p]
    <3>1. ~(Tick \/ UNCHANGED vars)
      BY <2>1 DEF Tick, vars, shared, lists
    <3>2. PICK q \in Proc: Call(q) \/ Locking(q) \/ Running(q) \/ CallbackReturn(q) \/ Fail(q)
      BY <1>1, <3>1 DEF Next
    <3>3. /\ pc'[q] # pc[q] /\ pc[q] # "dead"
          /\ CanLock(q) \/ pc[q] \in Expunging
      BY <1>1, <2>1, <3>2, ListSteps DEF LockInv
    <3>4. wlock = q
      BY <1>1, <2>1, <3>3, ProcAssumption DEF LockInv, LockMatchesLevel, CanLock, Expunging
    <3> QED
      BY <2>1, <3>3, <3>4
  <2> QED
    BY <2>1 DEF lists
<1> QED
  BY <1>1, LockIsInvariant, PTL DEF Spec, WriterExclusive

-----------------------------------------------------------------------------
(* What is held *)

\* What MemoryInv says of the heap and the lists.
HeapOK ==
  /\ heap \in [Addr -> Entry \cup {Free}] /\ gc \in SUBSET Addr
  /\ ListsOK /\ RefCovers /\ PinSafe

LEMMA MemoryParts ==
  MemoryInv <=> ControlInv /\ HeapOK /\ lost \in SUBSET Addr /\ nentries \in Nat
BY DEF MemoryInv, ControlInv, HeapOK, TypeOK

LEMMA HoldersSize ==
  ASSUME NEW a
  PROVE  /\ IsFiniteSet(Holders(a)) /\ Cardinality(Holders(a)) \in Nat
         /\ Holders(a) # {} => Cardinality(Holders(a)) > 0
<1>1. IsFiniteSet(0..MaxDepth)
  BY BoundAssumption, FS_Interval
<1>2. IsFiniteSet(Proc \X (0..MaxDepth))
  BY <1>1, ProcAssumption, FS_Product
<1>3. Holders(a) \subseteq Proc \X (0..MaxDepth)
  BY DEF Holders
<1>4. IsFiniteSet(Holders(a))
  BY <1>2, <1>3, FS_Subset
<1> QED
  BY <1>4, FS_CardinalityType, FS_EmptySet

LEMMA UsedEntry ==
  ASSUME heap \in [Addr -> Entry \cup {Free}], NEW a \in Addr
  PROVE  /\ a \in Used <=> heap[a] # Free
         /\ a \in Used => heap[a] \in Entry /\ heap[a].ref \in Int /\ heap[a].key \in Key
BY DEF Used, FreeAddrs, Entry

\* Who holds a block holds an entry, and the entry's count shows it.
LEMMA HeldEntry ==
  ASSUME ControlInv, HeapOK, NEW a \in Addr, Holders(a) # {}
  PROVE  a \in Used /\ heap[a].ref >= 1
<1>1. PICK h \in Proc \X (0..MaxDepth):
        \/ h[2] = 0 /\ ptr[h[1]] = a
        \/ /\ h[2] \in 1..Len(stack[h[1]])
           /\ stack[h[1]][h[2]].kind \in Pinning /\ stack[h[1]][h[2]].addr = a
  BY DEF Holders
<1>2. a \in Used
  <2>1. CASE ptr[h[1]] = a
    <3>1. ptr[h[1]] # Null
      BY <2>1 DEF Addr, Null
    <3> QED
      BY <2>1, <3>1, UsedEntry DEF HeapOK, PinSafe
  <2>2. CASE /\ h[2] \in 1..Len(stack[h[1]])
             /\ stack[h[1]][h[2]].kind \in Pinning /\ stack[h[1]][h[2]].addr = a
    BY <2>2, UsedEntry DEF HeapOK, PinSafe
  <2> QED
    BY <1>1, <2>1, <2>2
<1>3. heap[a].ref >= Cardinality(Holders(a))
  BY <1>2 DEF HeapOK, RefCovers
<1> QED
  BY <1>2, <1>3, HoldersSize, UsedEntry DEF HeapOK

\* The heap and the lists after some entries left the slots and some left the memory: what
\* is held stays, as it was; what a store still has to itself is not touched.
Collected(h, l, g) ==
  /\ h \in [Addr -> Entry \cup {Free}]
  /\ l \subseteq linked /\ g \subseteq Listed /\ l \cap g = {}
  /\ \A a \in Addr: h[a] # Free => heap[a] # Free /\ h[a].key = heap[a].key /\ h[a].ref = heap[a].ref
  /\ \A a \in l \cup g: h[a] # Free
  /\ \A a \in Addr \ Listed: h[a] = heap[a]
  /\ \A a \in Listed: Holders(a) # {} => a \in l \cup g

\* A collecting step in which at most p moves, and may link the block of its store.
LEMMA CollectedStep ==
  ASSUME ControlInv, ControlInv', HeapOK, NEW p \in Proc, NEW l, NEW N,
         Collected(heap', l, gc'), linked' = l \cup N,
         N = {} \/ (N = {ptr[p]} /\ pc[p] = "insert" /\ pc'[p] = "release"),
         UNCHANGED <<ptr, stack>>,
         \A q \in Proc: q # p => pc'[q] = pc[q],
         pc'[p] \in {"insert", "drop"} => pc[p] \in {"insert", "drop"},
         pc'[p] = "release" => pc[p] = "release" \/ N # {},
         \A q \in Proc: ptr[q] # Null => args'[q].key = args[q].key
  PROVE  HeapOK'
<1>1. \A a: Holders(a)' = Holders(a)
  BY DEF Holders
<1>2. /\ heap \in [Addr -> Entry \cup {Free}] /\ heap' \in [Addr -> Entry \cup {Free}]
      /\ gc' \in SUBSET Addr /\ Listed \subseteq Addr /\ Listed \subseteq Used
      /\ Listed' \subseteq Listed \cup N /\ N \cap Listed = {} /\ N \subseteq Used
  BY DEF HeapOK, Collected, Listed, ListsOK, ControlInv, ControlTypeOK
<1>3. \A a \in Addr: /\ a \in Used <=> heap[a] # Free
                     /\ a \in Used' <=> heap'[a] # Free
  BY <1>2 DEF Used, FreeAddrs
<1>4. \A a \in Listed: Holders(a) # {} => a \in Listed'
  BY DEF Collected, Listed
<1>5. ASSUME NEW q \in Proc, ptr[q] # Null
      PROVE  ptr[q] \in Addr /\ <<q, 0>> \in Holders(ptr[q])
  BY <1>5, BoundAssumption DEF Holders, ControlInv, ControlTypeOK
<1>6. ASSUME NEW q \in Proc, NEW i \in 1..Len(stack[q]), stack[q][i].kind \in Pinning
      PROVE  <<q, i>> \in Holders(stack[q][i].addr)
  <2>1. Len(stack[q]) \in Nat /\ Len(stack[q]) <= MaxDepth
    BY LenProperties DEF ControlInv, ControlTypeOK, ControlOK
  <2> QED
    BY <1>6, <2>1, BoundAssumption DEF Holders
<1>7. \A a \in Addr \ Listed: heap'[a] = heap[a]
  BY DEF Collected
<1>8. \A a \in N: a \in Addr /\ heap'[a] # Free
  <2>1. ASSUME NEW a \in N
        PROVE  a \in Addr /\ heap'[a] # Free
    <3>1. a \in Used /\ a \notin Listed
      BY <1>2
    <3>2. a \in Addr
      BY <3>1 DEF Used
    <3>3. heap[a] # Free
      BY <1>3, <3>1, <3>2
    <3>4. heap'[a] = heap[a]
      BY <1>7, <3>1, <3>2
    <3> QED
      BY <3>2, <3>3, <3>4
  <2> QED
    BY <2>1
<1>9. ListsOK'
  <2>1. Listed' \subseteq Used' /\ linked' \cap gc' = {}
    <3>1. linked' \cap gc' = {}
      BY <1>2 DEF Collected
    <3>2. ASSUME NEW a \in Listed'
          PROVE  a \in Used'
      <4>1. a \in Addr
        BY <1>2, <1>8
      <4>2. heap'[a] # Free
        BY <1>8 DEF Collected, Listed
      <4> QED
        BY <1>3, <4>1, <4>2
    <3> QED
      BY <3>1, <3>2
  <2>2. ASSUME NEW q \in Proc, pc'[q] \in {"insert", "drop"}
        PROVE  ptr'[q] \in Used' \ Listed'
    <3>1. pc[q] \in {"insert", "drop"}
      BY <2>2
    <3>2. ptr[q] \in Used \ Listed
      BY <3>1 DEF HeapOK, ListsOK
    <3>3. ptr[q] \in Addr /\ heap'[ptr[q]] = heap[ptr[q]]
      BY <1>7, <3>2 DEF Used
    <3>4. ptr[q] \in Used'
      <4>1. heap[ptr[q]] # Free
        BY <3>2 DEF Used, FreeAddrs
      <4>2. heap'[ptr[q]] # Free
        BY <3>3, <4>1
      <4> QED
        BY <1>3, <3>3, <4>2
    <3>5. ptr[q] \notin N
      <4>1. CASE N = {}
        BY <4>1
      <4>2. CASE N = {ptr[p]} /\ pc'[p] = "release"
        <5>1. q # p /\ ptr[q] # Null
          BY <2>2, <3>1, <4>2 DEF ControlInv, ControlOK
        <5> QED
          BY <4>2, <5>1 DEF HeapOK, ListsOK
      <4> QED
        BY <4>1, <4>2
    <3>6. ptr[q] \notin Listed'
      BY <1>2, <3>2, <3>5
    <3> QED
      BY <3>4, <3>6
  <2>3. ASSUME NEW q \in Proc, pc'[q] = "release"
        PROVE  ptr'[q] \in Listed'
    <3>1. CASE pc[q] = "release"
      <4>1. ptr[q] \in Listed
        BY <3>1 DEF HeapOK, ListsOK
      <4>2. ptr[q] # Null
        BY <3>1 DEF ControlInv, ControlOK
      <4> QED
        BY <1>4, <1>5, <4>1, <4>2
    <3>2. CASE pc[q] # "release"
      <4>1. q = p /\ N = {ptr[p]}
        BY <2>3, <3>2
      <4> QED
        BY <4>1 DEF Listed
    <3> QED
      BY <3>1, <3>2
  <2>4. ASSUME NEW q \in Proc, NEW i \in 1..Len(stack[q]), stack[q][i].kind \in Pinning
        PROVE  stack[q][i].addr \in Listed'
    BY <1>4, <1>6, <2>4 DEF HeapOK, ListsOK
  <2> QED
    BY <2>1, <2>2, <2>3, <2>4 DEF HeapOK, ListsOK
<1>10. RefCovers'
  BY <1>1, <1>2, <1>3 DEF HeapOK, RefCovers, Collected, Used
<1>11. PinSafe'
  <2>1. ASSUME NEW q \in Proc, ptr[q] # Null
        PROVE  heap'[ptr[q]] # Free /\ heap'[ptr[q]].key = args'[q].key
    <3>1. heap[ptr[q]].key = args'[q].key /\ ptr[q] \in Addr /\ Holders(ptr[q]) # {}
      BY <1>5, <2>1 DEF HeapOK, PinSafe
    <3>2. heap'[ptr[q]] # Free
      BY <2>1, <3>1 DEF HeapOK, PinSafe, Collected
    <3> QED
      BY <3>1, <3>2 DEF Collected
  <2>2. ASSUME NEW q \in Proc, NEW i \in 1..Len(stack[q]), stack[q][i].kind \in Pinning
        PROVE  heap'[stack[q][i].addr] # Free /\ heap'[stack[q][i].addr].key = stack[q][i].key
    <3>1. stack[q][i].addr \in Addr /\ Holders(stack[q][i].addr) # {} /\ stack[q][i].addr \in Listed
      BY <1>2, <1>6, <2>2 DEF HeapOK, ListsOK
    <3>2. heap'[stack[q][i].addr] # Free
      BY <3>1 DEF Collected
    <3> QED
      BY <2>2, <3>1, <3>2 DEF HeapOK, PinSafe, Collected
  <2> QED
    BY <2>1, <2>2 DEF PinSafe
<1> QED
  BY <1>2, <1>9, <1>10, <1>11 DEF HeapOK

\* Whether an entry is kept does not depend on how the heap is seen.
LEMMA HeldReferenced ==
  ASSUME ControlInv, HeapOK, NEW a \in Listed
  PROVE  /\ a \in Addr /\ heap[a] # Free /\ heap[a] \in Entry /\ heap[a].ref \in Int
         /\ Holders(a) # {} => heap[a].ref > 0 /\ ~Unreferenced(heap[a])
<1>1. a \in Used /\ a \in Addr
  BY DEF HeapOK, ListsOK, Used
<1>2. heap[a] # Free /\ heap[a] \in Entry /\ heap[a].ref \in Int
  BY <1>1, UsedEntry DEF HeapOK
<1>3. Holders(a) # {} => heap[a].ref >= 1
  BY <1>1, HeldEntry
<1> QED
  BY <1>1, <1>2, <1>3 DEF Unreferenced

\* Nothing happens.
LEMMA CollectedNothing ==
  ASSUME ControlInv, HeapOK
  PROVE  Collected(heap, linked, gc)
<1>1. \A a \in Listed: heap[a] # Free
  BY HeldReferenced
<1> QED
  BY <1>1 DEF HeapOK, Collected, Listed, ListsOK

\* After that, the entries of S are removed from their slots.
LEMMA CollectedRemove ==
  ASSUME ControlInv, HeapOK, NEW h, NEW l, NEW g, Collected(h, l, g),
         NEW S, S \subseteq l, \A a \in S: h[a] = heap[a]
  PROVE  Collected(HeapRemove(h, S), l \ S, GcAdd(heap, g, S))
<1> DEFINE h2 == HeapRemove(h, S)
           g2 == GcAdd(heap, g, S)
<1>1. /\ S \subseteq linked /\ S \subseteq Listed /\ S \subseteq Addr /\ l \cap g = {} /\ now \in Nat
      /\ h \in [Addr -> Entry \cup {Free}] /\ Listed \subseteq Addr /\ l \subseteq linked /\ g \subseteq Listed
  BY DEF Listed, HeapOK, ListsOK, ControlInv, ControlTypeOK, Collected
<1>2. ASSUME NEW a \in Addr, a \notin S
      PROVE  h2[a] = h[a]
  BY <1>2 DEF HeapRemove
<1>3. ASSUME NEW a \in S
      PROVE  h2[a] = IF Unreferenced(heap[a]) THEN Free ELSE [heap[a] EXCEPT !.dtime = now]
  BY <1>1, <1>3 DEF HeapRemove
<1>4. ASSUME NEW a \in S
      PROVE  /\ h2[a] \in Entry \cup {Free} /\ heap[a] # Free
             /\ h2[a] # Free => h2[a].key = heap[a].key /\ h2[a].ref = heap[a].ref
             /\ ~Unreferenced(heap[a]) => h2[a] # Free
             /\ Holders(a) # {} => ~Unreferenced(heap[a])
  <2>1. /\ heap[a] # Free /\ heap[a] \in Entry
        /\ Holders(a) # {} => ~Unreferenced(heap[a])
    BY <1>1, <1>4, HeldReferenced
  <2>2. CASE Unreferenced(heap[a])
    <3>1. h2[a] = Free
      BY <1>3, <1>4, <2>2
    <3> HIDE DEF h2
    <3> QED
      BY <2>1, <2>2, <3>1
  <2>3. CASE ~Unreferenced(heap[a])
    <3>1. h2[a] = [heap[a] EXCEPT !.dtime = now]
      BY <1>3, <1>4, <2>3
    <3>2. h2[a] \in Entry /\ h2[a].key = heap[a].key /\ h2[a].ref = heap[a].ref
      BY <1>1, <2>1, <3>1 DEF Entry
    <3> HIDE DEF h2
    <3>3. h2[a] # Free
      BY <3>2, FreeAssumption
    <3> QED
      BY <2>1, <2>3, <3>2, <3>3
  <2> QED
    BY <2>2, <2>3
<1>5. g2 = g \cup {a \in S: ~Unreferenced(heap[a])}
  BY DEF GcAdd
<1>6. h2 \in [Addr -> Entry \cup {Free}]
  <2>1. h2 = [a \in Addr |-> h2[a]]
    BY DEF HeapRemove
  <2>2. \A a \in Addr: h2[a] \in Entry \cup {Free}
    BY <1>1, <1>2, <1>4
  <2> HIDE DEF h2
  <2> QED
    BY <2>1, <2>2
<1> HIDE DEF h2, g2
<1>7. \A a \in Addr: h2[a] # Free => heap[a] # Free /\ h2[a].key = heap[a].key /\ h2[a].ref = heap[a].ref
  BY <1>2, <1>4 DEF Collected
<1>8. \A a \in (l \ S) \cup g2: h2[a] # Free
  <2>1. ASSUME NEW a \in (l \ S) \cup g2
        PROVE  h2[a] # Free
    <3>1. CASE a \in S
      BY <1>1, <1>4, <1>5, <2>1, <3>1
    <3>2. CASE a \notin S
      <4>1. a \in Addr /\ a \in l \cup g
        BY <1>1, <1>5, <2>1, <3>2 DEF Listed
      <4>2. h2[a] = h[a]
        BY <1>2, <3>2, <4>1
      <4> QED
        BY <4>1, <4>2 DEF Collected
    <3> QED
      BY <3>1, <3>2
  <2> QED
    BY <2>1
<1>9. \A a \in Addr \ Listed: h2[a] = heap[a]
  BY <1>1, <1>2 DEF Collected
<1>10. \A a \in Listed: Holders(a) # {} => a \in (l \ S) \cup g2
  BY <1>4, <1>5 DEF Collected
<1>11. l \ S \subseteq linked /\ g2 \subseteq Listed /\ (l \ S) \cap g2 = {}
  BY <1>1, <1>5
<1> QED
  BY <1>6, <1>7, <1>8, <1>9, <1>10, <1>11 DEF Collected, h2, g2

\* After that, a gc pass that keeps what is held.
LEMMA CollectedGc ==
  ASSUME ControlInv, HeapOK, NEW h, NEW l, NEW g, Collected(h, l, g),
         \A a \in g: Holders(a) # {} => GcKeeps(h[a])
  PROVE  Collected(HeapGc(h, g), l, GcList(h, g))
<1> DEFINE h2 == HeapGc(h, g)
           g2 == GcList(h, g)
<1>1. /\ h \in [Addr -> Entry \cup {Free}] /\ Listed \subseteq Addr
      /\ l \subseteq linked /\ g \subseteq Listed /\ l \cap g = {}
  BY DEF Listed, HeapOK, ListsOK, ControlInv, ControlTypeOK, Collected
<1>2. g2 = {a \in g: GcKeeps(h[a])}
  BY DEF GcList
<1>3. /\ h2 = [a \in Addr |-> h2[a]]
      /\ \A a \in Addr: h2[a] = IF a \in g /\ ~GcKeeps(h[a]) THEN Free ELSE h[a]
  BY DEF HeapGc
<1> HIDE DEF h2, g2
<1>4. h2 \in [Addr -> Entry \cup {Free}]
  <2>1. \A a \in Addr: h2[a] \in Entry \cup {Free}
    BY <1>1, <1>3
  <2> QED
    BY <1>3, <2>1
<1>5. \A a \in Addr: h2[a] # Free => heap[a] # Free /\ h2[a].key = heap[a].key /\ h2[a].ref = heap[a].ref
  BY <1>3 DEF Collected
<1>6. \A a \in l \cup g2: h2[a] # Free
  <2>1. ASSUME NEW a \in l \cup g2
        PROVE  h2[a] = h[a] /\ h[a] # Free
    <3>1. a \in Addr /\ a \in l \cup g
      BY <1>1, <1>2, <2>1 DEF Listed
    <3>2. h2[a] = h[a]
      BY <1>1, <1>2, <1>3, <2>1, <3>1
    <3> QED
      BY <3>1, <3>2 DEF Collected
  <2> QED
    BY <2>1
<1>7. \A a \in Addr \ Listed: h2[a] = heap[a]
  BY <1>1, <1>3 DEF Collected
<1>8. \A a \in Listed: Holders(a) # {} => a \in l \cup g2
  BY <1>2 DEF Collected
<1>9. l \subseteq linked /\ g2 \subseteq Listed /\ l \cap g2 = {}
  BY <1>1, <1>2
<1> QED
  BY <1>4, <1>5, <1>6, <1>7, <1>8, <1>9 DEF Collected, h2, g2

\* What the collector keeps while references are given back in time.
LEMMA HeldKept ==
  ASSUME ControlInv, HeapOK, Timely, NEW a \in gc, Holders(a) # {}
  PROVE  GcKeeps(heap[a])
<1>1. heap[a] \in Entry /\ heap[a].ref > 0
  BY HeldReferenced DEF Listed
<1>2. GcTtl = 0 \/ now - heap[a].dtime <= GcTtl
  BY DEF Timely
<1>3. GcTtl \in Nat
  BY TtlAssumption
<1> QED
  BY <1>1, <1>2, <1>3 DEF GcKeeps

\* Removal followed by a gc pass: an expunge, a clear.
LEMMA RemoveThenGc ==
  ASSUME ControlInv, HeapOK, Timely, NEW S, S \subseteq linked
  PROVE  LET h == HeapRemove(heap, S)
             g == GcAdd(heap, gc, S)
         IN  Collected(HeapGc(h, g), linked \ S, GcList(h, g))
<1> DEFINE h == HeapRemove(heap, S)
           g == GcAdd(heap, gc, S)
<1>1. Collected(h, linked \ S, g)
  BY CollectedNothing, CollectedRemove
<1>2. ASSUME NEW a \in g, Holders(a) # {}
      PROVE  GcKeeps(h[a])
  <2>1. S \subseteq Addr /\ gc \subseteq Addr /\ linked \cap gc = {} /\ now \in Nat
    BY DEF HeapOK, ListsOK, ControlInv, ControlTypeOK
  <2>2. CASE a \in S
    <3>1. heap[a] \in Entry /\ heap[a].ref > 0 /\ ~Unreferenced(heap[a])
      BY <1>2, <2>2, HeldReferenced DEF Listed
    <3>2. h[a] = [heap[a] EXCEPT !.dtime = now]
      BY <2>1, <2>2, <3>1 DEF HeapRemove
    <3>3. h[a].ref > 0 /\ h[a].dtime = now
      BY <2>1, <3>1, <3>2 DEF Entry
    <3> HIDE DEF h
    <3> QED
      BY <2>1, <3>3, TtlAssumption DEF GcKeeps
  <2>3. CASE a \notin S
    <3>1. a \in gc
      BY <1>2, <2>3 DEF GcAdd
    <3>2. h[a] = heap[a]
      BY <2>1, <2>3, <3>1 DEF HeapRemove
    <3> QED
      BY <1>2, <3>1, <3>2, HeldKept
  <2> QED
    BY <2>2, <2>3
<1> HIDE DEF h, g
<1>3. Collected(HeapGc(h, g), linked \ S, GcList(h, g))
  BY <1>1, <1>2, CollectedGc
<1> QED
  BY <1>3 DEF h, g

\* A gc pass followed by removal: an insertion.
LEMMA GcThenRemove ==
  ASSUME ControlInv, HeapOK, Timely, NEW S, S \subseteq linked
  PROVE  Collected(HeapRemove(HeapGc(heap, gc), S), linked \ S, GcAdd(heap, GcList(heap, gc), S))
<1>1. Collected(HeapGc(heap, gc), linked, GcList(heap, gc))
  BY CollectedNothing, CollectedGc, HeldKept
<1>2. \A a \in S: HeapGc(heap, gc)[a] = heap[a]
  BY DEF HeapGc, HeapOK, ListsOK, ControlInv, ControlTypeOK
<1> QED
  BY <1>1, <1>2, CollectedRemove

\* A new value or access time.
LEMMA CollectedChange ==
  ASSUME ControlInv, HeapOK, NEW a \in linked, NEW e \in Entry,
         e.key = heap[a].key, e.ref = heap[a].ref
  PROVE  Collected([heap EXCEPT ![a] = e], linked, gc)
<1> DEFINE h == [heap EXCEPT ![a] = e]
<1>1. a \in Addr /\ a \in Listed /\ heap \in [Addr -> Entry \cup {Free}]
  BY DEF HeapOK, ControlInv, ControlTypeOK, Listed
<1>2. h \in [Addr -> Entry \cup {Free}] /\ h[a] = e /\ \A b \in Addr: b # a => h[b] = heap[b]
  BY <1>1
<1>3. e # Free /\ heap[a] # Free
  BY <1>1, HeldReferenced, FreeAssumption
<1>4. \A b \in Listed: b \in Addr /\ heap[b] # Free
  BY HeldReferenced
<1> HIDE DEF h
<1>5. Collected(h, linked, gc)
  BY <1>1, <1>2, <1>3, <1>4 DEF Collected, HeapOK, ListsOK, Listed
<1> QED
  BY <1>5 DEF h

-----------------------------------------------------------------------------
(* Steps that change what p holds *)

\* Only p moves, and the lists stay.
OnlyMoves(p) ==
  /\ UNCHANGED <<linked, gc>>
  /\ heap' \in [Addr -> Entry \cup {Free}]
  /\ \A q \in Proc: q # p => /\ ptr'[q] = ptr[q] /\ stack'[q] = stack[q]
                             /\ pc'[q] = pc[q] /\ args'[q] = args[q]

\* A step of p that leaves it fewer references, and takes at most one of those from the
\* count of each entry.
LEMMA FewerHolders ==
  ASSUME ControlInv, ControlInv', HeapOK, NEW p \in Proc, OnlyMoves(p), ptr'[p] = Null,
         \A i \in 1..Len(stack'[p]): stack'[p][i].kind \in Pinning =>
            i \in 1..Len(stack[p]) /\ stack'[p][i] = stack[p][i],
         \A a \in Addr: heap'[a] = Free <=> heap[a] = Free,
         \A a \in Used: /\ heap'[a].key = heap[a].key
                        /\ \/ heap'[a].ref = heap[a].ref
                           \/ /\ heap'[a].ref = heap[a].ref - 1
                              /\ \E h \in Holders(a): h \notin Holders(a)'
  PROVE  HeapOK'
<1>1. /\ heap \in [Addr -> Entry \cup {Free}] /\ gc \in SUBSET Addr
      /\ heap' \in [Addr -> Entry \cup {Free}] /\ gc' \in SUBSET Addr
      /\ Used' = Used /\ Listed' = Listed
  <2>1. Used' = Used
    BY DEF Used, FreeAddrs
  <2> QED
    BY <2>1 DEF HeapOK, OnlyMoves, Listed
<1>2. pc'[p] \notin {"insert", "release", "drop"}
  BY DEF ControlInv, ControlOK
<1>3. ASSUME NEW q \in Proc, NEW i \in 1..Len(stack'[q]), stack'[q][i].kind \in Pinning
      PROVE  i \in 1..Len(stack[q]) /\ stack'[q][i] = stack[q][i]
  BY <1>3 DEF OnlyMoves
<1>4. ListsOK'
  <2>1. ASSUME NEW q \in Proc, pc'[q] \in {"insert", "release", "drop"}
        PROVE  q # p /\ pc'[q] = pc[q] /\ ptr'[q] = ptr[q]
    BY <1>2, <2>1 DEF OnlyMoves
  <2>2. ASSUME NEW q \in Proc, NEW i \in 1..Len(stack'[q]), stack'[q][i].kind \in Pinning
        PROVE  stack'[q][i].addr \in Listed'
    BY <1>1, <1>3, <2>2 DEF HeapOK, ListsOK
  <2>3. ASSUME NEW q \in Proc, NEW r \in Proc, q # r, ptr'[q] # Null
        PROVE  ptr'[q] # ptr'[r]
    <3>1. q # p /\ ptr'[q] = ptr[q]
      BY <2>3 DEF OnlyMoves
    <3>2. CASE r = p
      BY <2>3, <3>2
    <3>3. CASE r # p
      BY <2>3, <3>1, <3>3 DEF OnlyMoves, HeapOK, ListsOK
    <3> QED
      BY <3>2, <3>3
  <2>4. \A q \in Proc: /\ pc'[q] \in {"insert", "drop"} => ptr'[q] \in Used' \ Listed'
                       /\ pc'[q] = "release" => ptr'[q] \in Listed'
    BY <1>1, <2>1 DEF HeapOK, ListsOK
  <2>5. Listed' \subseteq Used' /\ linked' \cap gc' = {}
    BY <1>1 DEF HeapOK, ListsOK, OnlyMoves
  <2> QED
    BY <2>2, <2>3, <2>4, <2>5 DEF ListsOK
<1>5. ASSUME NEW a \in Addr
      PROVE  Holders(a)' \subseteq Holders(a)
  <2>1. ASSUME NEW h \in Holders(a)'
        PROVE  h \in Holders(a)
    <3>1. /\ h \in Proc \X (0..MaxDepth) /\ h[1] \in Proc
          /\ \/ h[2] = 0 /\ ptr'[h[1]] = a
             \/ /\ h[2] \in 1..Len(stack'[h[1]])
                /\ stack'[h[1]][h[2]].kind \in Pinning /\ stack'[h[1]][h[2]].addr = a
      BY <2>1 DEF Holders
    <3>2. CASE h[2] = 0 /\ ptr'[h[1]] = a
      <4>1. h[1] # p
        BY <3>2 DEF Addr, Null
      <4> QED
        BY <3>1, <3>2, <4>1 DEF Holders, OnlyMoves
    <3>3. CASE /\ h[2] \in 1..Len(stack'[h[1]])
               /\ stack'[h[1]][h[2]].kind \in Pinning /\ stack'[h[1]][h[2]].addr = a
      <4>1. h[2] \in 1..Len(stack[h[1]]) /\ stack'[h[1]][h[2]] = stack[h[1]][h[2]]
        BY <1>3, <3>1, <3>3
      <4> QED
        BY <3>1, <3>3, <4>1 DEF Holders
    <3> QED
      BY <3>1, <3>2, <3>3
  <2> QED
    BY <2>1
<1>6. RefCovers'
  <2>1. ASSUME NEW a \in Used
        PROVE  heap'[a].ref >= Cardinality(Holders(a)')
    <3>1. a \in Addr /\ heap[a].ref \in Int /\ heap[a].ref >= Cardinality(Holders(a))
      BY UsedEntry DEF HeapOK, RefCovers, Used
    <3>2. IsFiniteSet(Holders(a)) /\ Cardinality(Holders(a)) \in Nat
      BY HoldersSize
    <3>3. /\ Cardinality(Holders(a)') \in Nat /\ Cardinality(Holders(a)') <= Cardinality(Holders(a))
          /\ Holders(a)' # Holders(a) => Cardinality(Holders(a)') < Cardinality(Holders(a))
      <4>1. Holders(a)' \subseteq Holders(a)
        BY <1>5, <3>1
      <4> QED
        BY <3>2, <4>1, FS_Subset, FS_CardinalityType
    <3>4. CASE heap'[a].ref = heap[a].ref
      BY <3>1, <3>2, <3>3, <3>4
    <3>5. CASE heap'[a].ref = heap[a].ref - 1 /\ \E h \in Holders(a): h \notin Holders(a)'
      <4>1. Holders(a)' # Holders(a)
        BY <3>5
      <4> QED
        BY <3>1, <3>2, <3>3, <3>5, <4>1
    <3> QED
      BY <3>4, <3>5
  <2> QED
    BY <1>1, <2>1 DEF RefCovers
<1>7. PinSafe'
  <2>1. \A a \in Addr: heap[a] # Free => heap'[a] # Free /\ heap'[a].key = heap[a].key
    BY DEF Used, FreeAddrs
  <2>2. ASSUME NEW q \in Proc, ptr'[q] # Null
        PROVE  heap'[ptr'[q]] # Free /\ heap'[ptr'[q]].key = args'[q].key
    <3>1. q # p /\ ptr'[q] = ptr[q] /\ args'[q] = args[q] /\ ptr[q] \in Addr
      BY <2>2 DEF OnlyMoves, ControlInv, ControlTypeOK
    <3> QED
      BY <2>1, <2>2, <3>1 DEF HeapOK, PinSafe
  <2>3. ASSUME NEW q \in Proc, NEW i \in 1..Len(stack'[q]), stack'[q][i].kind \in Pinning
        PROVE  heap'[stack'[q][i].addr] # Free /\ heap'[stack'[q][i].addr].key = stack'[q][i].key
    <3>1. i \in 1..Len(stack[q]) /\ stack'[q][i] = stack[q][i]
      BY <1>3, <2>3
    <3>2. stack[q][i].addr \in Addr
      BY <2>3, <3>1 DEF HeapOK, ListsOK, Used
    <3> QED
      BY <2>1, <2>3, <3>1, <3>2 DEF HeapOK, PinSafe
  <2> QED
    BY <2>2, <2>3 DEF PinSafe
<1> QED
  BY <1>1, <1>4, <1>6, <1>7 DEF HeapOK

\* One reference less.
LEMMA DecrefEntry ==
  ASSUME heap \in [Addr -> Entry \cup {Free}], NEW a \in Addr, heap' = Decref(heap, a)
  PROVE  /\ heap' \in [Addr -> Entry \cup {Free}]
         /\ \A b \in Addr: heap'[b] = Free <=> heap[b] = Free
         /\ \A b \in Used: heap'[b].key = heap[b].key
         /\ \A b \in Used: b # a => heap'[b].ref = heap[b].ref
         /\ a \in Used => heap'[a].ref = heap[a].ref - 1
<1>1. CASE heap[a] = Free
  <2>1. heap' = heap
    BY <1>1 DEF Decref
  <2>2. a \notin Used
    BY <1>1 DEF Used, FreeAddrs
  <2> QED
    BY <2>1, <2>2
<1>2. CASE heap[a] # Free
  <2> DEFINE e == [heap[a] EXCEPT !.ref = @ - 1]
  <2>1. heap[a] \in Entry
    BY <1>2
  <2>2. e \in Entry /\ e.key = heap[a].key /\ e.ref = heap[a].ref - 1
    BY <2>1 DEF Entry
  <2>3. heap' = [heap EXCEPT ![a] = e]
    BY <1>2 DEF Decref
  <2> HIDE DEF e
  <2>4. heap'[a] = e /\ \A b \in Addr: b # a => heap'[b] = heap[b]
    BY <2>3
  <2>5. e # Free /\ Used \subseteq Addr
    BY <2>2, FreeAssumption DEF Used
  <2>6. heap' \in [Addr -> Entry \cup {Free}]
    BY <2>2, <2>3
  <2> QED
    BY <1>2, <2>2, <2>4, <2>5, <2>6
<1> QED
  BY <1>1, <1>2

\* The end of a callback of p, which gives its pin back or loses it.
LEMMA PopMemory ==
  ASSUME ControlInv, ControlInv', HeapOK, NEW p \in Proc, Pop(p), stack[p] # <<>>,
         UNCHANGED <<linked, gc, ptr, args>>, ptr[p] = Null,
         \A q \in Proc: q # p => pc'[q] = pc[q],
         \/ heap' = heap
         \/ Top(p).kind \in Pinning /\ heap' = Decref(heap, Top(p).addr)
  PROVE  HeapOK'
<1>1. /\ heap \in [Addr -> Entry \cup {Free}]
      /\ \A q \in Proc: q # p => stack'[q] = stack[q]
      /\ Len(stack[p]) \in Nat /\ Len(stack[p]) # 0 /\ Len(stack[p]) <= MaxDepth
      /\ Len(stack'[p]) = Len(stack[p]) - 1
      /\ \A i \in 1..Len(stack'[p]): i \in 1..Len(stack[p]) /\ stack'[p][i] = stack[p][i]
  BY PopStack, TopType DEF ControlInv, ControlOK, HeapOK
<1>2. CASE heap' = heap
  <2>1. OnlyMoves(p)
    BY <1>1, <1>2 DEF OnlyMoves
  <2> QED
    BY <1>1, <1>2, <2>1, FewerHolders
<1>3. CASE Top(p).kind \in Pinning /\ heap' = Decref(heap, Top(p).addr)
  <2>1. PICK a \in Addr: a = Top(p).addr
    BY <1>1, <1>3 DEF Top, HeapOK, ListsOK, Used
  <2> DEFINE h == <<p, Len(stack[p])>>
  <2>2. h \in Holders(a)
    BY <1>1, <1>3, <2>1, BoundAssumption DEF Top, Holders
  <2>3. \A g \in Holders(a)': g # h
    BY <1>1 DEF Holders
  <2> HIDE DEF h
  <2>4. heap' = Decref(heap, a)
    BY <1>3, <2>1
  <2>5. /\ heap' \in [Addr -> Entry \cup {Free}]
        /\ \A b \in Addr: heap'[b] = Free <=> heap[b] = Free
        /\ \A b \in Used: heap'[b].key = heap[b].key
        /\ \A b \in Used: b # a => heap'[b].ref = heap[b].ref
        /\ a \in Used => heap'[a].ref = heap[a].ref - 1
    BY <1>1, <2>1, <2>4, DecrefEntry
  <2>6. OnlyMoves(p)
    BY <1>1, <2>5 DEF OnlyMoves
  <2>7. \A b \in Used: /\ heap'[b].key = heap[b].key
                       /\ \/ heap'[b].ref = heap[b].ref
                          \/ /\ heap'[b].ref = heap[b].ref - 1
                             /\ \E g \in Holders(b): g \notin Holders(b)'
    <3>1. ASSUME NEW b \in Used
          PROVE  \/ heap'[b].ref = heap[b].ref
                 \/ /\ heap'[b].ref = heap[b].ref - 1
                    /\ \E g \in Holders(b): g \notin Holders(b)'
      <4>1. CASE b = a
        BY <2>2, <2>3, <2>5, <4>1
      <4>2. CASE b # a
        BY <2>5, <4>2
      <4> QED
        BY <4>1, <4>2
    <3> QED
      BY <2>5, <3>1
  <2> QED
    BY <1>1, <2>5, <2>6, <2>7, FewerHolders
<1> QED
  BY <1>2, <1>3

\* The end of a store: it gives its reference back.
LEMMA ReleaseMemory ==
  ASSUME ControlInv, ControlInv', HeapOK, NEW p \in Proc, Release(p)
  PROVE  HeapOK'
<1>1. /\ heap \in [Addr -> Entry \cup {Free}] /\ heap' = Decref(heap, ptr[p])
      /\ UNCHANGED <<linked, gc, stack>> /\ pc[p] = "release"
      /\ ptr' = [ptr EXCEPT ![p] = Null]
  BY DEF Release, HeapOK
<1>2. PICK a \in Addr: a = ptr[p] /\ a # Null
  BY <1>1 DEF ControlInv, ControlTypeOK, ControlOK
<1> DEFINE h == <<p, 0>>
<1>3. ptr'[p] = Null /\ \A q \in Proc: q # p => ptr'[q] = ptr[q]
  BY <1>1 DEF ControlInv, ControlTypeOK
<1>4. \A q \in Proc: q # p => pc'[q] = pc[q] /\ args'[q] = args[q]
  BY DEF Release, Resume, Goto, ControlInv, ControlTypeOK
<1>5. h \in Holders(a) /\ \A g \in Holders(a)': g # h
  BY <1>2, <1>3, BoundAssumption DEF Holders
<1> HIDE DEF h
<1>6. /\ heap' \in [Addr -> Entry \cup {Free}]
      /\ \A b \in Addr: heap'[b] = Free <=> heap[b] = Free
      /\ \A b \in Used: heap'[b].key = heap[b].key
      /\ \A b \in Used: b # a => heap'[b].ref = heap[b].ref
      /\ a \in Used => heap'[a].ref = heap[a].ref - 1
  BY <1>1, <1>2, DecrefEntry
<1>7. OnlyMoves(p)
  BY <1>1, <1>3, <1>4, <1>6 DEF OnlyMoves
<1>8. \A b \in Used: /\ heap'[b].key = heap[b].key
                     /\ \/ heap'[b].ref = heap[b].ref
                        \/ /\ heap'[b].ref = heap[b].ref - 1
                           /\ \E g \in Holders(b): g \notin Holders(b)'
  <2>1. ASSUME NEW b \in Used
        PROVE  \/ heap'[b].ref = heap[b].ref
               \/ /\ heap'[b].ref = heap[b].ref - 1
                  /\ \E g \in Holders(b): g \notin Holders(b)'
    <3>1. CASE b = a
      BY <1>5, <1>6, <3>1
    <3>2. CASE b # a
      BY <1>6, <3>2
    <3> QED
      BY <3>1, <3>2
  <2> QED
    BY <1>6, <2>1
<1> QED
  BY <1>1, <1>3, <1>6, <1>7, <1>8, FewerHolders

\* A step that leaves the segment alone.
LEMMA QuietMemory ==
  ASSUME ControlInv, ControlInv', HeapOK, NEW p \in Proc,
         UNCHANGED <<heap, linked, gc, ptr, stack>>,
         \A q \in Proc: q # p => pc'[q] = pc[q],
         pc'[p] \in {"insert", "drop", "release"} => pc'[p] = pc[p],
         \A q \in Proc: ptr[q] # Null => args'[q].key = args[q].key
  PROVE  HeapOK'
<1>1. Collected(heap', linked, gc')
  BY CollectedNothing
<1>2. linked' = linked \cup {}
  OBVIOUS
<1> QED
  BY <1>1, <1>2, CollectedStep

\* Holders that a step does not add were there before it.
LEMMA HoldersAdded ==
  ASSUME NEW b, NEW X,
         \A q \in Proc: ptr'[q] = b => ptr[q] = b \/ <<q, 0>> \in X,
         \A q \in Proc: \A i \in 1..Len(stack'[q]):
           stack'[q][i].kind \in Pinning /\ stack'[q][i].addr = b =>
             (i \in 1..Len(stack[q]) /\ stack'[q][i] = stack[q][i]) \/ <<q, i>> \in X
  PROVE  Holders(b)' \subseteq Holders(b) \cup X
<1>1. ASSUME NEW h \in Holders(b)'
      PROVE  h \in Holders(b) \cup X
  <2>1. /\ h \in Proc \X (0..MaxDepth) /\ h[1] \in Proc /\ h = <<h[1], h[2]>>
        /\ \/ h[2] = 0 /\ ptr'[h[1]] = b
           \/ /\ h[2] \in 1..Len(stack'[h[1]])
              /\ stack'[h[1]][h[2]].kind \in Pinning /\ stack'[h[1]][h[2]].addr = b
    BY <1>1 DEF Holders
  <2>2. CASE h[2] = 0 /\ ptr'[h[1]] = b
    <3>1. ptr[h[1]] = b \/ h \in X
      BY <2>1, <2>2
    <3> QED
      BY <2>1, <2>2, <3>1 DEF Holders
  <2>3. CASE /\ h[2] \in 1..Len(stack'[h[1]])
             /\ stack'[h[1]][h[2]].kind \in Pinning /\ stack'[h[1]][h[2]].addr = b
    <3>1. (h[2] \in 1..Len(stack[h[1]]) /\ stack'[h[1]][h[2]] = stack[h[1]][h[2]]) \/ h \in X
      BY <2>1, <2>3
    <3> QED
      BY <2>1, <2>3, <3>1 DEF Holders
  <2> QED
    BY <2>1, <2>2, <2>3
<1> QED
  BY <1>1

\* The holders of a block grow by at most one.
LEMMA HoldersCount ==
  ASSUME NEW b, NEW x
  PROVE  /\ Holders(b)' \subseteq Holders(b) =>
              Cardinality(Holders(b)') <= Cardinality(Holders(b))
         /\ Holders(b)' \subseteq Holders(b) \cup {x} =>
              Cardinality(Holders(b)') <= Cardinality(Holders(b)) + 1
<1>1. IsFiniteSet(Holders(b)) /\ Cardinality(Holders(b)) \in Nat
  BY HoldersSize
<1>2. ASSUME Holders(b)' \subseteq Holders(b)
      PROVE  Cardinality(Holders(b)') <= Cardinality(Holders(b))
  BY <1>1, <1>2, FS_Subset
<1>3. ASSUME Holders(b)' \subseteq Holders(b) \cup {x}
      PROVE  Cardinality(Holders(b)') <= Cardinality(Holders(b)) + 1
  <2>1. /\ IsFiniteSet(Holders(b) \cup {x})
        /\ Cardinality(Holders(b) \cup {x}) =
             IF x \in Holders(b) THEN Cardinality(Holders(b)) ELSE Cardinality(Holders(b)) + 1
    BY <1>1, FS_AddElement
  <2>2. /\ Cardinality(Holders(b)') <= Cardinality(Holders(b) \cup {x})
        /\ IsFiniteSet(Holders(b)') /\ Cardinality(Holders(b)') \in Nat
    BY <1>3, <2>1, FS_Subset, FS_CardinalityType
  <2> QED
    BY <1>1, <2>1, <2>2
<1> QED
  BY <1>2, <1>3

\* The access time is set and the entry pinned.
LEMMA TouchedEntry ==
  ASSUME heap \in [Addr -> Entry \cup {Free}], NEW a \in Addr, heap[a] # Free,
         NEW t \in Nat, NEW pins \in Nat
  PROVE  \E e \in Entry: /\ Touched(heap, a, t, pins) = [heap EXCEPT ![a] = e]
                         /\ e.key = heap[a].key /\ e.ref = heap[a].ref + pins
<1> DEFINE f == [heap[a] EXCEPT !.atime = t]
           e == [f EXCEPT !.ref = heap[a].ref + pins]
<1>1. heap[a] \in Entry /\ heap[a].ref + pins \in Int
  BY DEF Entry
<1>2. f \in Entry /\ f.key = heap[a].key /\ f.ref = heap[a].ref
  BY <1>1 DEF Entry
<1>3. Touched(heap, a, t, pins) = [heap EXCEPT ![a] = e]
  BY DEF Touched
<1>4. e \in Entry /\ e.key = heap[a].key /\ e.ref = heap[a].ref + pins
  <2> HIDE DEF f
  <2> QED
    BY <1>1, <1>2 DEF Entry
<1> QED
  BY <1>3, <1>4

\* A lookup that hands out an entry.
LEMMA PinMemory ==
  ASSUME ControlInv, ControlInv', HeapOK, NEW p \in Proc, NEW a \in linked, NEW f \in Frame,
         f.kind \in Pinning, f.addr = a, f.key = heap[a].key, Push(p, f),
         NEW t \in Nat, heap' = Touched(heap, a, t, 1),
         UNCHANGED <<linked, gc, ptr>>, ptr[p] = Null,
         \A q \in Proc: q # p => pc'[q] = pc[q] /\ args'[q] = args[q],
         pc'[p] = "user"
  PROVE  HeapOK'
<1> DEFINE n == Len(stack[p])
<1>1. /\ a \in Addr /\ a \in Listed /\ heap[a] # Free
      /\ heap \in [Addr -> Entry \cup {Free}] /\ gc \in SUBSET Addr
  BY HeldReferenced DEF Listed, HeapOK
<1>2. PICK e \in Entry: /\ heap' = [heap EXCEPT ![a] = e]
                        /\ e.key = heap[a].key /\ e.ref = heap[a].ref + 1
  BY <1>1, TouchedEntry
<1>3. e # Free
  BY <1>2, FreeAssumption
<1>4. /\ heap' \in [Addr -> Entry \cup {Free}] /\ heap'[a] = e
      /\ \A b \in Addr: b # a => heap'[b] = heap[b]
  BY <1>1, <1>2
<1>5. /\ \A b \in Addr: heap'[b] = Free <=> heap[b] = Free
      /\ \A b \in Addr: heap'[b].key = heap[b].key
      /\ Used' = Used /\ Listed' = Listed
  <2>1. /\ \A b \in Addr: heap'[b] = Free <=> heap[b] = Free
        /\ \A b \in Addr: heap'[b].key = heap[b].key
    BY <1>1, <1>2, <1>3, <1>4
  <2> QED
    BY <2>1 DEF Used, FreeAddrs, Listed
<1>6. /\ n \in Nat /\ Len(stack'[p]) = n + 1 /\ stack'[p][n + 1] = f
      /\ \A i \in 1..n: stack'[p][i] = stack[p][i]
      /\ \A q \in Proc: q # p => stack'[q] = stack[q]
  BY PushStack DEF ControlInv
<1>7. ASSUME NEW q \in Proc, NEW i \in 1..Len(stack'[q])
      PROVE  \/ i \in 1..Len(stack[q]) /\ stack'[q][i] = stack[q][i]
             \/ q = p /\ i = n + 1 /\ stack'[q][i] = f
  BY <1>6
<1> HIDE DEF n
<1>8. ListsOK'
  <2>1. ASSUME NEW q \in Proc, NEW i \in 1..Len(stack'[q]), stack'[q][i].kind \in Pinning
        PROVE  stack'[q][i].addr \in Listed'
    <3>1. CASE i \in 1..Len(stack[q]) /\ stack'[q][i] = stack[q][i]
      BY <1>5, <2>1, <3>1 DEF HeapOK, ListsOK
    <3>2. CASE stack'[q][i] = f
      BY <1>1, <1>5, <3>2
    <3> QED
      BY <1>7, <3>1, <3>2
  <2>2. \A q \in Proc: pc'[q] \in {"insert", "drop", "release"} => pc'[q] = pc[q]
    OBVIOUS
  <2>3. \A q \in Proc: /\ pc'[q] \in {"insert", "drop"} => ptr'[q] \in Used' \ Listed'
                       /\ pc'[q] = "release" => ptr'[q] \in Listed'
    BY <1>5, <2>2 DEF HeapOK, ListsOK
  <2>4. Listed' \subseteq Used' /\ linked' \cap gc' = {}
    BY <1>5 DEF HeapOK, ListsOK
  <2> QED
    BY <2>1, <2>3, <2>4 DEF HeapOK, ListsOK
<1>9. RefCovers'
  <2>1. ASSUME NEW b
        PROVE  /\ Holders(b)' \subseteq Holders(b) \cup {<<p, n + 1>>}
               /\ b # a => Holders(b)' \subseteq Holders(b)
    <3>1. \A q \in Proc: ptr'[q] = b => ptr[q] = b
      OBVIOUS
    <3> DEFINE X == {<<p, n + 1>>}
    <3>2. ASSUME NEW q \in Proc, NEW i \in 1..Len(stack'[q]),
                 stack'[q][i].kind \in Pinning, stack'[q][i].addr = b
          PROVE  /\ (i \in 1..Len(stack[q]) /\ stack'[q][i] = stack[q][i]) \/ <<q, i>> \in X
                 /\ b # a => i \in 1..Len(stack[q]) /\ stack'[q][i] = stack[q][i]
      BY <1>7, <3>2
    <3>3. Holders(b)' \subseteq Holders(b) \cup X
      <4>1. \A q \in Proc: \A i \in 1..Len(stack'[q]):
              stack'[q][i].kind \in Pinning /\ stack'[q][i].addr = b =>
                (i \in 1..Len(stack[q]) /\ stack'[q][i] = stack[q][i]) \/ <<q, i>> \in X
        BY <3>2, Zenon
      <4> HIDE DEF X
      <4> QED
        BY <3>1, <4>1, HoldersAdded
    <3>4. ASSUME b # a
          PROVE  Holders(b)' \subseteq Holders(b)
      <4>1. \A q \in Proc: \A i \in 1..Len(stack'[q]):
              stack'[q][i].kind \in Pinning /\ stack'[q][i].addr = b =>
                (i \in 1..Len(stack[q]) /\ stack'[q][i] = stack[q][i]) \/ <<q, i>> \in {}
        BY <3>2, <3>4, Zenon
      <4>2. Holders(b)' \subseteq Holders(b) \cup {}
        BY <3>1, <4>1, HoldersAdded
      <4> QED
        BY <4>2
    <3> QED
      BY <3>3, <3>4
  <2>2. ASSUME NEW b \in Used
        PROVE  heap'[b].ref >= Cardinality(Holders(b)')
    <3>1. /\ b \in Addr /\ heap[b].ref \in Int /\ heap[b].ref >= Cardinality(Holders(b))
          /\ Cardinality(Holders(b)) \in Nat
      BY <1>1, UsedEntry, HoldersSize DEF HeapOK, RefCovers, Used
    <3>2. Cardinality(Holders(b)') \in Nat
      <4>1. Holders(b)' \subseteq Holders(b) \cup {<<p, n + 1>>}
        BY <2>1
      <4>2. IsFiniteSet(Holders(b) \cup {<<p, n + 1>>})
        BY HoldersSize, FS_AddElement
      <4> QED
        BY <4>1, <4>2, FS_Subset, FS_CardinalityType
    <3>3. CASE b = a
      <4>1. Holders(b)' \subseteq Holders(b) \cup {<<p, n + 1>>}
        BY <2>1
      <4>2. Cardinality(Holders(b)') <= Cardinality(Holders(b)) + 1
        BY <4>1, HoldersCount
      <4>3. heap'[b].ref = heap[b].ref + 1
        BY <1>2, <1>4, <3>3
      <4> QED
        BY <3>1, <3>2, <4>2, <4>3
    <3>4. CASE b # a
      <4>1. Holders(b)' \subseteq Holders(b)
        BY <2>1, <3>4
      <4>2. Cardinality(Holders(b)') <= Cardinality(Holders(b))
        BY <4>1, HoldersCount
      <4>3. heap'[b].ref = heap[b].ref
        BY <1>4, <3>1, <3>4
      <4> QED
        BY <3>1, <3>2, <4>2, <4>3
    <3> QED
      BY <3>3, <3>4
  <2> QED
    BY <1>5, <2>2 DEF RefCovers
<1>10. PinSafe'
  <2>1. ASSUME NEW q \in Proc, ptr'[q] # Null
        PROVE  heap'[ptr'[q]] # Free /\ heap'[ptr'[q]].key = args'[q].key
    <3>1. q # p /\ ptr'[q] = ptr[q] /\ args'[q] = args[q] /\ ptr[q] \in Addr
      BY <2>1 DEF ControlInv, ControlTypeOK
    <3> QED
      BY <1>5, <2>1, <3>1 DEF HeapOK, PinSafe
  <2>2. ASSUME NEW q \in Proc, NEW i \in 1..Len(stack'[q]), stack'[q][i].kind \in Pinning
        PROVE  heap'[stack'[q][i].addr] # Free /\ heap'[stack'[q][i].addr].key = stack'[q][i].key
    <3>1. CASE i \in 1..Len(stack[q]) /\ stack'[q][i] = stack[q][i]
      <4>1. stack[q][i].addr \in Addr
        BY <2>2, <3>1 DEF HeapOK, ListsOK, Used
      <4> QED
        BY <1>5, <2>2, <3>1, <4>1 DEF HeapOK, PinSafe
    <3>2. CASE stack'[q][i] = f
      BY <1>1, <1>5, <3>2
    <3> QED
      BY <1>7, <3>1, <3>2
  <2> QED
    BY <2>1, <2>2 DEF PinSafe
<1> QED
  BY <1>1, <1>4, <1>8, <1>9, <1>10 DEF HeapOK

\* A store gets a block.
LEMMA MallocMemory ==
  ASSUME ControlInv, ControlInv', HeapOK, NEW p \in Proc, Malloc(p)
  PROVE  HeapOK'
<1> DEFINE e == [key |-> args[p].key, val |-> args[p].val, ttl |-> args[p].ttl,
                 ref |-> 1, ctime |-> args[p].ct, atime |-> args[p].ct, dtime |-> 0]
<1>1. PICK a \in FreeAddrs: heap' = [heap EXCEPT ![a] = e] /\ ptr' = [ptr EXCEPT ![p] = a]
  BY DEF Malloc, InitialRef
<1>2. e \in Entry /\ e.ref = 1 /\ e.key = args[p].key
  <2>1. args[p] \in Args
    BY DEF ControlInv, ControlTypeOK
  <2> QED
    BY <2>1 DEF Args, Entry
<1> HIDE DEF e
<1>3. /\ a \in Addr /\ heap[a] = Free /\ e # Free /\ a # Null
      /\ heap \in [Addr -> Entry \cup {Free}] /\ gc \in SUBSET Addr
      /\ UNCHANGED <<linked, gc, stack, args>> /\ pc[p] = "malloc" /\ ptr[p] = Null
  BY <1>2, FreeAssumption DEF Malloc, HeapOK, FreeAddrs, Addr, Null, ControlInv, ControlOK
<1>4. /\ pc'[p] = "insert" /\ \A q \in Proc: q # p => pc'[q] = pc[q]
      /\ ptr'[p] = a /\ \A q \in Proc: q # p => ptr'[q] = ptr[q]
  BY <1>1 DEF Malloc, Goto, ControlInv, ControlTypeOK
<1>5. /\ heap' \in [Addr -> Entry \cup {Free}] /\ heap'[a] = e
      /\ \A b \in Addr: b # a => heap'[b] = heap[b]
  BY <1>1, <1>2, <1>3
<1>6. Used' = Used \cup {a} /\ Listed' = Listed /\ a \notin Used /\ a \notin Listed
  <2>1. Used' = Used \cup {a} /\ a \notin Used
    BY <1>3, <1>5 DEF Used, FreeAddrs
  <2> QED
    BY <1>3, <2>1 DEF Listed, HeapOK, ListsOK
<1>7. Holders(a) = {}
  BY <1>3, <1>6, HeldEntry
<1>8. \A q \in Proc: ptr[q] # a
  BY <1>3 DEF HeapOK, PinSafe
<1>9. ListsOK'
  <2>1. ASSUME NEW q \in Proc, NEW r \in Proc, q # r, ptr'[q] # Null
        PROVE  ptr'[q] # ptr'[r]
    <3>1. CASE q = p
      BY <1>4, <1>8, <2>1, <3>1
    <3>2. CASE r = p
      BY <1>4, <1>8, <2>1, <3>2
    <3>3. CASE q # p /\ r # p
      BY <1>4, <2>1, <3>3 DEF HeapOK, ListsOK
    <3> QED
      BY <3>1, <3>2, <3>3
  <2>2. ASSUME NEW q \in Proc
        PROVE  /\ pc'[q] \in {"insert", "drop"} => ptr'[q] \in Used' \ Listed'
               /\ pc'[q] = "release" => ptr'[q] \in Listed'
    <3>1. CASE q = p
      BY <1>4, <1>6, <3>1
    <3>2. CASE q # p
      BY <1>4, <1>6, <3>2 DEF HeapOK, ListsOK
    <3> QED
      BY <3>1, <3>2
  <2>3. Listed' \subseteq Used' /\ linked' \cap gc' = {}
    BY <1>3, <1>6 DEF HeapOK, ListsOK
  <2>4. \A q \in Proc: \A i \in 1..Len(stack'[q]):
          stack'[q][i].kind \in Pinning => stack'[q][i].addr \in Listed'
    BY <1>3, <1>6 DEF HeapOK, ListsOK
  <2> QED
    BY <2>1, <2>2, <2>3, <2>4 DEF ListsOK
<1>10. RefCovers'
  <2>1. ASSUME NEW b \in Used
        PROVE  heap'[b].ref >= Cardinality(Holders(b)')
    <3>1. b \in Addr /\ b # a /\ heap'[b] = heap[b]
      BY <1>5, <1>6 DEF Used
    <3>2. Holders(b)' = Holders(b)
      <4>1. Holders(b)' \subseteq Holders(b) \cup {}
        BY <1>3, <1>4, <3>1, HoldersAdded
      <4>2. \A q \in Proc: ptr[q] = b => ptr'[q] = b
        BY <1>3, <1>4, <3>1 DEF Addr, Null
      <4>3. Holders(b) \subseteq Holders(b)'
        BY <1>3, <4>2 DEF Holders
      <4> QED
        BY <4>1, <4>3
    <3> QED
      BY <3>1, <3>2 DEF HeapOK, RefCovers
  <2>2. heap'[a].ref >= Cardinality(Holders(a)')
    <3>1. Holders(a)' \subseteq Holders(a) \cup {<<p, 0>>}
      BY <1>3, <1>4, HoldersAdded
    <3>2. Holders(a)' \subseteq {<<p, 0>>}
      BY <1>7, <3>1
    <3>3. IsFiniteSet({<<p, 0>>}) /\ Cardinality({<<p, 0>>}) = 1
      BY FS_Singleton
    <3>4. Cardinality(Holders(a)') <= 1
      BY <3>2, <3>3, FS_Subset
    <3>5. Cardinality(Holders(a)') \in Nat
      BY <3>2, <3>3, FS_Subset, FS_CardinalityType
    <3> QED
      BY <1>2, <1>5, <3>4, <3>5
  <2> QED
    BY <1>6, <2>1, <2>2 DEF RefCovers
<1>11. PinSafe'
  <2>1. \A b \in Addr: heap[b] # Free => heap'[b] = heap[b]
    BY <1>3, <1>5
  <2>2. ASSUME NEW q \in Proc, ptr'[q] # Null
        PROVE  heap'[ptr'[q]] # Free /\ heap'[ptr'[q]].key = args'[q].key
    <3>1. CASE q = p
      BY <1>2, <1>3, <1>4, <1>5, <3>1
    <3>2. CASE q # p
      <4>1. ptr'[q] = ptr[q] /\ ptr[q] \in Addr
        BY <1>4, <2>2, <3>2 DEF ControlInv, ControlTypeOK
      <4> QED
        BY <1>3, <2>1, <2>2, <4>1 DEF HeapOK, PinSafe
    <3> QED
      BY <3>1, <3>2
  <2>3. ASSUME NEW q \in Proc, NEW i \in 1..Len(stack[q]), stack[q][i].kind \in Pinning
        PROVE  heap'[stack[q][i].addr] # Free /\ heap'[stack[q][i].addr].key = stack[q][i].key
    <3>1. stack[q][i].addr \in Addr
      BY <2>3 DEF HeapOK, ListsOK, Used
    <3> QED
      BY <2>1, <2>3, <3>1 DEF HeapOK, PinSafe
  <2> QED
    BY <1>3, <2>2, <2>3 DEF PinSafe
<1> QED
  BY <1>3, <1>5, <1>9, <1>10, <1>11 DEF HeapOK

\* A refused store frees its block.
LEMMA DropMemory ==
  ASSUME ControlInv, ControlInv', HeapOK, NEW p \in Proc, Drop(p)
  PROVE  HeapOK'
<1>1. /\ pc[p] = "drop" /\ UNCHANGED <<linked, gc, stack>>
      /\ heap' = [heap EXCEPT ![ptr[p]] = Free] /\ ptr' = [ptr EXCEPT ![p] = Null]
      /\ heap \in [Addr -> Entry \cup {Free}] /\ gc \in SUBSET Addr
  BY DEF Drop, HeapOK
<1>2. PICK a \in Addr: a = ptr[p] /\ a # Null /\ a \in Used /\ a \notin Listed
  BY <1>1 DEF ControlInv, ControlTypeOK, ControlOK, HeapOK, ListsOK
<1>3. /\ heap' \in [Addr -> Entry \cup {Free}] /\ heap'[a] = Free
      /\ \A b \in Addr: b # a => heap'[b] = heap[b]
  BY <1>1, <1>2
<1>4. ptr'[p] = Null /\ \A q \in Proc: q # p => ptr'[q] = ptr[q]
  BY <1>1 DEF ControlInv, ControlTypeOK
<1>5. \A q \in Proc: q # p => pc'[q] = pc[q] /\ args'[q] = args[q]
  BY DEF Drop, Resume, Goto, ControlInv, ControlTypeOK
<1>6. pc'[p] \notin {"insert", "release", "drop"}
  BY <1>4 DEF ControlInv, ControlOK
<1>7. \A q \in Proc: q # p /\ ptr[q] # Null => ptr[q] # a
  BY <1>2 DEF HeapOK, ListsOK
<1>8. Used' = Used \ {a} /\ Listed' = Listed
  BY <1>1, <1>3 DEF Used, FreeAddrs, Listed
<1>9. ListsOK'
  <2>1. ASSUME NEW q \in Proc, NEW r \in Proc, q # r, ptr'[q] # Null
        PROVE  ptr'[q] # ptr'[r]
    <3>1. CASE r = p
      BY <1>4, <2>1, <3>1
    <3>2. CASE r # p
      BY <1>4, <2>1, <3>2 DEF HeapOK, ListsOK
    <3> QED
      BY <3>1, <3>2
  <2>2. ASSUME NEW q \in Proc, pc'[q] \in {"insert", "release", "drop"}
        PROVE  /\ pc'[q] \in {"insert", "drop"} => ptr'[q] \in Used' \ Listed'
               /\ pc'[q] = "release" => ptr'[q] \in Listed'
    <3>1. q # p /\ pc'[q] = pc[q] /\ ptr'[q] = ptr[q]
      BY <1>4, <1>5, <1>6, <2>2
    <3>2. ptr[q] # Null
      BY <2>2, <3>1 DEF ControlInv, ControlOK
    <3>3. ptr[q] # a
      BY <1>7, <3>1, <3>2
    <3> QED
      BY <1>8, <3>1, <3>3 DEF HeapOK, ListsOK
  <2>3. Listed' \subseteq Used' /\ linked' \cap gc' = {}
    BY <1>1, <1>2, <1>8 DEF HeapOK, ListsOK
  <2>4. \A q \in Proc: \A i \in 1..Len(stack'[q]):
          stack'[q][i].kind \in Pinning => stack'[q][i].addr \in Listed'
    BY <1>1, <1>8 DEF HeapOK, ListsOK
  <2> QED
    BY <2>1, <2>2, <2>3, <2>4 DEF ListsOK
<1>10. RefCovers'
  <2>1. ASSUME NEW b \in Used, b # a
        PROVE  heap'[b].ref >= Cardinality(Holders(b)')
    <3>1. b \in Addr /\ heap'[b] = heap[b]
      BY <1>3, <2>1 DEF Used
    <3>2. Holders(b)' = Holders(b)
      <4>1. \A q \in Proc: ptr'[q] = b <=> ptr[q] = b
        BY <1>2, <1>4, <2>1, <3>1 DEF Addr, Null
      <4> QED
        BY <1>1, <4>1 DEF Holders
    <3> QED
      BY <3>1, <3>2 DEF HeapOK, RefCovers
  <2> QED
    BY <1>8, <2>1 DEF RefCovers
<1>11. PinSafe'
  <2>1. ASSUME NEW q \in Proc, ptr'[q] # Null
        PROVE  heap'[ptr'[q]] # Free /\ heap'[ptr'[q]].key = args'[q].key
    <3>1. /\ q # p /\ ptr'[q] = ptr[q] /\ args'[q] = args[q] /\ ptr[q] # a /\ ptr[q] \in Addr
      BY <1>4, <1>5, <1>7, <2>1 DEF ControlInv, ControlTypeOK
    <3> QED
      BY <1>3, <2>1, <3>1 DEF HeapOK, PinSafe
  <2>2. ASSUME NEW q \in Proc, NEW i \in 1..Len(stack[q]), stack[q][i].kind \in Pinning
        PROVE  heap'[stack[q][i].addr] # Free /\ heap'[stack[q][i].addr].key = stack[q][i].key
    <3>1. stack[q][i].addr \in Addr /\ stack[q][i].addr # a
      BY <1>2, <2>2 DEF HeapOK, ListsOK, Used
    <3> QED
      BY <1>3, <2>2, <3>1 DEF HeapOK, PinSafe
  <2> QED
    BY <1>1, <2>1, <2>2 DEF PinSafe
<1> QED
  BY <1>1, <1>3, <1>9, <1>10, <1>11 DEF HeapOK

\* Defragmentation moves no entry that is held.
LEMMA DefragMemory ==
  ASSUME ControlInv, ControlInv', HeapOK, NEW p \in Proc, ExpungeDefrag(p)
  PROVE  HeapOK'
<1>1. PICK f \in [Used -> Addr]:
        /\ Compacts(f)
        /\ heap' = [b \in Addr |-> IF \E a \in Used: f[a] = b
                                     THEN heap[CHOOSE a \in Used: f[a] = b] ELSE Free]
        /\ linked' = {Follow(f, a): a \in linked}
        /\ gc' = {Follow(f, a): a \in gc}
  BY DEF ExpungeDefrag
<1>2. /\ heap \in [Addr -> Entry \cup {Free}] /\ gc \subseteq Used /\ linked \subseteq Used
      /\ Used \subseteq Addr /\ UNCHANGED <<ptr, stack, args>>
      /\ \A a \in Used: a \in Nat
  BY DEF HeapOK, ListsOK, Listed, ExpungeDefrag, Used, Addr
<1>3. \A q \in Proc: pc'[q] \in {"insert", "release", "drop"} => pc'[q] = pc[q]
  BY DEF ExpungeDefrag, Goto, ControlInv, ControlTypeOK
<1>4. ASSUME NEW a \in Used, NEW b \in Used, f[a] = f[b]
      PROVE  a = b
  <2>1. /\ a \in Nat /\ b \in Nat /\ f[a] \in Nat /\ f[b] \in Nat
        /\ a < b => f[a] < f[b]
        /\ b < a => f[b] < f[a]
    BY <1>1, <1>2 DEF Compacts, Addr
  <2> QED
    BY <1>4, <2>1
<1>5. ASSUME NEW a \in Used
      PROVE  heap'[f[a]] = heap[a] /\ f[a] \in Addr
  <2>1. f[a] \in Addr
    BY <1>1
  <2>2. (CHOOSE b \in Used: f[b] = f[a]) = a
    BY <1>4
  <2> QED
    BY <1>1, <2>1, <2>2
<1>6. \A a \in Used: heap[a] # Free
  BY DEF Used, FreeAddrs
<1>7. ASSUME NEW b \in Addr, heap'[b] # Free
      PROVE  \E a \in Used: f[a] = b
  BY <1>1, <1>7
<1>8. heap' \in [Addr -> Entry \cup {Free}]
  <2>1. \A b \in Addr: heap'[b] \in Entry \cup {Free}
    <3>1. ASSUME NEW b \in Addr, heap'[b] # Free
          PROVE  heap'[b] \in Entry \cup {Free}
      BY <1>2, <1>5, <1>7, <3>1
    <3> QED
      BY <3>1
  <2>2. heap' = [b \in Addr |-> heap'[b]]
    BY <1>1
  <2> QED
    BY <2>1, <2>2
<1>9. Used' = {f[a]: a \in Used}
  <2>1. \A b: b \in Used' <=> b \in Addr /\ heap'[b] # Free
    BY DEF Used, FreeAddrs
  <2> QED
    BY <1>5, <1>6, <1>7, <2>1
<1>10. linked' = {f[a]: a \in linked} /\ gc' = {f[a]: a \in gc}
  <2>1. \A a \in linked \cup gc: Follow(f, a) = f[a]
    BY <1>2 DEF Follow
  <2> QED
    BY <1>1, <2>1
<1>11. ASSUME NEW a \in Addr, Holders(a) # {}
       PROVE  a \in Used /\ f[a] = a /\ heap'[a] = heap[a]
  <2>1. a \in Used /\ heap[a].ref >= 1 /\ heap[a].ref \in Int
    BY <1>2, <1>11, HeldEntry, UsedEntry
  <2>2. ~Movable(heap[a])
    BY <2>1 DEF Movable
  <2>3. f[a] = a
    BY <1>1, <2>1, <2>2 DEF Compacts
  <2> QED
    BY <1>5, <2>1, <2>3
<1>12. \A a: Holders(a)' = Holders(a)
  BY <1>2 DEF Holders
<1>13. ASSUME NEW q \in Proc, ptr[q] # Null
       PROVE  /\ ptr[q] \in Addr /\ ptr[q] \in Used
              /\ f[ptr[q]] = ptr[q] /\ heap'[ptr[q]] = heap[ptr[q]]
  <2>1. ptr[q] \in Addr
    BY <1>13 DEF ControlInv, ControlTypeOK
  <2>2. <<q, 0>> \in Holders(ptr[q])
    BY BoundAssumption DEF Holders
  <2> QED
    BY <1>11, <2>1, <2>2
<1>14. ASSUME NEW q \in Proc, NEW i \in 1..Len(stack[q]), stack[q][i].kind \in Pinning
       PROVE  /\ stack[q][i].addr \in Addr /\ f[stack[q][i].addr] = stack[q][i].addr
              /\ heap'[stack[q][i].addr] = heap[stack[q][i].addr]
  <2>1. Len(stack[q]) \in Nat /\ Len(stack[q]) <= MaxDepth
    BY LenProperties DEF ControlInv, ControlTypeOK, ControlOK
  <2>2. <<q, i>> \in Holders(stack[q][i].addr)
    BY <1>14, <2>1, BoundAssumption DEF Holders
  <2>3. stack[q][i].addr \in Addr
    BY <1>14 DEF HeapOK, ListsOK, Used
  <2> QED
    BY <1>11, <2>2, <2>3
<1>15. ListsOK'
  <2>1. Listed' = {f[a]: a \in Listed} /\ Listed \subseteq Used
    BY <1>2, <1>10 DEF Listed
  <2>2. Listed' \subseteq Used'
    BY <1>9, <2>1
  <2>3. linked' \cap gc' = {}
    <3>1. ASSUME NEW b \in linked', b \in gc'
          PROVE  FALSE
      <4>1. PICK x \in linked: b = f[x]
        BY <1>10
      <4>2. PICK y \in gc: b = f[y]
        BY <1>10, <3>1
      <4>3. x = y
        BY <1>2, <1>4, <4>1, <4>2
      <4> QED
        BY <4>3 DEF HeapOK, ListsOK
    <3> QED
      BY <3>1
  <2>4. ASSUME NEW q \in Proc, pc'[q] \in {"insert", "release", "drop"}
        PROVE  /\ pc'[q] \in {"insert", "drop"} => ptr'[q] \in Used' \ Listed'
               /\ pc'[q] = "release" => ptr'[q] \in Listed'
    <3>1. pc'[q] = pc[q] /\ ptr'[q] = ptr[q] /\ ptr[q] # Null
      BY <1>2, <1>3, <2>4 DEF ControlInv, ControlOK
    <3>2. ptr[q] \in Used /\ f[ptr[q]] = ptr[q]
      BY <1>13, <3>1
    <3>3. ptr[q] \in Used'
      BY <1>9, <3>2
    <3>4. ptr[q] \in Listed => ptr[q] \in Listed'
      BY <2>1, <3>2
    <3>5. ptr[q] \in Listed' => ptr[q] \in Listed
      <4>1. ASSUME ptr[q] \in Listed'
            PROVE  ptr[q] \in Listed
        <5>1. PICK x \in Listed: ptr[q] = f[x]
          BY <2>1, <4>1
        <5>2. x = ptr[q]
          BY <1>4, <2>1, <3>2, <5>1
        <5> QED
          BY <5>2
      <4> QED
        BY <4>1
    <3> QED
      BY <3>1, <3>3, <3>4, <3>5 DEF HeapOK, ListsOK
  <2>5. ASSUME NEW q \in Proc, NEW i \in 1..Len(stack[q]), stack[q][i].kind \in Pinning
        PROVE  stack[q][i].addr \in Listed'
    BY <1>14, <2>1, <2>5 DEF HeapOK, ListsOK
  <2>6. \A q, r \in Proc: q # r /\ ptr'[q] # Null => ptr'[q] # ptr'[r]
    BY <1>2 DEF HeapOK, ListsOK
  <2> QED
    BY <1>2, <2>2, <2>3, <2>4, <2>5, <2>6 DEF ListsOK
<1>16. RefCovers'
  <2>1. ASSUME NEW c \in Used'
        PROVE  heap'[c].ref >= Cardinality(Holders(c))
    <3>1. PICK a \in Used: c = f[a]
      BY <1>9
    <3>2. heap'[c] = heap[a] /\ c \in Addr
      BY <1>5, <3>1
    <3>3. /\ heap[a].ref \in Int /\ heap[a].ref >= Cardinality(Holders(a))
          /\ Cardinality(Holders(a)) \in Nat
      BY <1>2, UsedEntry, HoldersSize DEF HeapOK, RefCovers
    <3>4. CASE Holders(c) = {}
      <4>1. Cardinality(Holders(c)) = 0
        BY <3>4, FS_EmptySet
      <4> QED
        BY <3>2, <3>3, <4>1
    <3>5. CASE Holders(c) # {}
      <4>1. c \in Used /\ f[c] = c
        BY <1>11, <3>2, <3>5
      <4>2. c = a
        BY <1>4, <3>1, <4>1
      <4> QED
        BY <3>2, <3>3, <4>2
    <3> QED
      BY <3>4, <3>5
  <2> QED
    BY <1>12, <2>1 DEF RefCovers
<1>17. PinSafe'
  BY <1>2, <1>13, <1>14 DEF HeapOK, PinSafe
<1>18. gc' \in SUBSET Addr
  BY <1>2, <1>5, <1>10
<1> QED
  BY <1>8, <1>15, <1>16, <1>17, <1>18 DEF HeapOK

\* A step that only removes, collects or changes entries.
LEMMA ListMemory ==
  ASSUME ControlInv, ControlInv', HeapOK, NEW p \in Proc, Collected(heap', linked', gc'),
         UNCHANGED <<ptr, stack>>,
         \A q \in Proc: q # p => pc'[q] = pc[q],
         pc'[p] \in {"insert", "drop"} => pc[p] \in {"insert", "drop"},
         pc'[p] = "release" => pc[p] = "release",
         \A q \in Proc: ptr[q] # Null => args'[q].key = args[q].key
  PROVE  HeapOK'
<1>1. linked' = linked' \cup {}
  OBVIOUS
<1> QED
  BY <1>1, CollectedStep

\* What the end of an expunge leaves alone.
LEMMA ExpungeEndKeeps ==
  ASSUME ControlInv, NEW p \in Proc, ExpungeEnd(p), pc[p] \notin {"insert", "release", "drop"}
  PROVE  /\ UNCHANGED <<ptr, stack>> /\ pc'[p] = "malloc"
         /\ \A q \in Proc: q # p => pc'[q] = pc[q]
         /\ \A q \in Proc: ptr[q] # Null => args'[q].key = args[q].key
<1>1. UNCHANGED <<ptr, stack>> /\ pc'[p] = "malloc" /\ \A q \in Proc: q # p => pc'[q] = pc[q]
  BY DEF ExpungeEnd, Goto, ControlInv, ControlTypeOK
<1>2. ASSUME NEW q \in Proc, ptr[q] # Null
      PROVE  args'[q].key = args[q].key
  <2>1. q # p /\ pc[q] # "expunge"
    BY <1>2 DEF ControlInv, ControlOK
  <2> QED
    BY <2>1 DEF ExpungeEnd
<1> QED
  BY <1>1, <1>2

LEMMA ExpungeMemory ==
  ASSUME ControlInv, ControlInv', HeapOK, NEW p \in Proc
  PROVE  /\ Timely /\ ExpungeAll(p) => HeapOK'
         /\ Timely /\ ExpungeExpired(p) => HeapOK'
         /\ ExpungeShort(p) \/ ExpungeFragmented(p) => HeapOK'
         /\ ExpungeDone(p) => HeapOK'
<1>1. linked \ linked = {}
  OBVIOUS
<1>2. ASSUME Timely, ExpungeAll(p)
      PROVE  HeapOK'
  <2>1. Collected(heap', linked', gc')
    BY <1>1, <1>2, RemoveThenGc DEF ExpungeAll, RealExpungeGc
  <2>2. ExpungeEnd(p) /\ pc[p] = "expunge"
    BY <1>2 DEF ExpungeAll
  <2> QED
    BY <2>1, <2>2, ExpungeEndKeeps, ListMemory
<1>3. ASSUME Timely, ExpungeExpired(p)
      PROVE  HeapOK'
  <2>1. Collected(heap', linked', gc')
    <3> DEFINE S == {a \in linked: Expired(heap[a], args[p].xt)}
    <3>1. S \subseteq linked
      OBVIOUS
    <3>2. /\ heap' = HeapGc(HeapRemove(heap, S), GcAdd(heap, gc, S))
          /\ gc' = GcList(HeapRemove(heap, S), GcAdd(heap, gc, S))
          /\ linked' = linked \ S
      BY <1>3 DEF ExpungeExpired
    <3> HIDE DEF S
    <3> QED
      BY <1>3, <3>1, <3>2, RemoveThenGc
  <2>2. UNCHANGED <<args, ptr, stack>> /\ pc'[p] = "avail" /\ \A q \in Proc: q # p => pc'[q] = pc[q]
    BY <1>3 DEF ExpungeExpired, Goto, ControlInv, ControlTypeOK
  <2> QED
    BY <2>1, <2>2, ListMemory
<1>4. ASSUME ExpungeShort(p) \/ ExpungeFragmented(p)
      PROVE  HeapOK'
  <2>1. Collected(HeapRemove(heap, linked), linked \ linked, GcAdd(heap, gc, linked))
    BY CollectedNothing, CollectedRemove
  <2>2. Collected(heap', linked', gc')
    BY <1>1, <1>4, <2>1 DEF ExpungeShort, ExpungeFragmented, RealExpunge
  <2>3. ExpungeEnd(p) /\ pc[p] \in {"avail", "contig"}
    BY <1>4 DEF ExpungeShort, ExpungeFragmented
  <2> QED
    BY <2>2, <2>3, ExpungeEndKeeps, ListMemory
<1>5. ASSUME ExpungeDone(p)
      PROVE  HeapOK'
  <2>1. ExpungeEnd(p) /\ pc[p] = "contig" /\ UNCHANGED <<heap, linked, gc>>
    BY <1>5 DEF ExpungeDone
  <2> QED
    BY <2>1, ExpungeEndKeeps, QuietMemory
<1> QED
  BY <1>2, <1>3, <1>4, <1>5

LEMMA InsertMemory ==
  ASSUME ControlInv, ControlInv', HeapOK, Timely, NEW p \in Proc, InsertRefused(p) \/ Insert(p)
  PROVE  HeapOK'
<1>1. CASE InsertRefused(p)
  <2>1. PICK S \in SUBSET Stale(p):
          /\ heap' = HeapRemove(HeapGc(heap, gc), S)
          /\ gc' = GcAdd(heap, GcList(heap, gc), S)
          /\ linked' = linked \ S
    BY <1>1 DEF InsertRefused
  <2>2. S \subseteq linked
    BY DEF Stale
  <2>3. Collected(heap', linked', gc')
    BY <2>1, <2>2, GcThenRemove
  <2>4. /\ UNCHANGED <<args, ptr, stack>> /\ pc[p] = "insert" /\ pc'[p] = "drop"
        /\ \A q \in Proc: q # p => pc'[q] = pc[q]
    BY <1>1 DEF InsertRefused, Goto, ControlInv, ControlTypeOK
  <2> QED
    BY <2>3, <2>4, ListMemory
<1>2. CASE Insert(p)
  <2>1. PICK S \in Replaced(p):
          /\ heap' = HeapRemove(HeapGc(heap, gc), S)
          /\ gc' = GcAdd(heap, GcList(heap, gc), S)
          /\ linked' = (linked \ S) \cup {ptr[p]}
    BY <1>2 DEF Insert
  <2>2. S \subseteq linked
    BY DEF Replaced, Stale, Matches
  <2>3. Collected(heap', linked \ S, gc')
    BY <2>1, <2>2, GcThenRemove
  <2>4. /\ UNCHANGED <<args, ptr, stack>> /\ pc[p] = "insert" /\ pc'[p] = "release"
        /\ \A q \in Proc: q # p => pc'[q] = pc[q]
    BY <1>2 DEF Insert, Goto, ControlInv, ControlTypeOK
  <2> DEFINE l == linked \ S
             N == {ptr[p]}
  <2>5. Collected(heap', l, gc') /\ linked' = l \cup N /\ N # {}
    BY <2>1, <2>3
  <2>6. N = {ptr[p]} /\ pc[p] = "insert" /\ pc'[p] = "release"
    BY <2>4
  <2> HIDE DEF l, N
  <2> QED
    BY <2>4, <2>5, <2>6, CollectedStep
<1> QED
  BY <1>1, <1>2

\* A lookup returns to user code.
LEMMA ReturnKeeps ==
  ASSUME ControlInv, NEW p \in Proc, Return(p)
  PROVE  pc'[p] = "user" /\ \A q \in Proc: q # p => pc'[q] = pc[q] /\ args'[q] = args[q]
BY DEF Return, Goto, ControlInv, ControlTypeOK

LEMMA LookupMemory ==
  ASSUME ControlInv, ControlInv', HeapOK, NEW p \in Proc,
         FetchHit(p) \/ ExistsHit(p) \/ EntryHit(p) \/ UpdateHit(p)
  PROVE  HeapOK'
<1>1. /\ Return(p) /\ UNCHANGED <<linked, gc, ptr>> /\ ptr[p] = Null
  BY DEF FetchHit, ExistsHit, EntryHit, UpdateHit, ControlInv, ControlOK
<1>2. pc'[p] = "user" /\ \A q \in Proc: q # p => pc'[q] = pc[q] /\ args'[q] = args[q]
  BY <1>1, ReturnKeeps
<1>3. args[p].t \in Nat /\ args[p].key \in Key /\ heap \in [Addr -> Entry \cup {Free}]
  BY DEF ControlInv, ControlTypeOK, Args, HeapOK
<1>4. ASSUME NEW a \in Found(args[p].key, args[p].t)
      PROVE  /\ a \in linked /\ a \in Addr /\ heap[a] # Free /\ heap[a] \in Entry
             /\ heap[a].key = args[p].key
  BY HeldReferenced DEF Found, Matches, Listed
<1>5. CASE FetchHit(p) \/ EntryHit(p)
  <2>1. PICK a \in Found(args[p].key, args[p].t), kind \in {"fetch", "hit"}:
          /\ heap' = Touched(heap, a, args[p].t, 1)
          /\ Push(p, [kind |-> kind, addr |-> a, key |-> args[p].key])
    BY <1>5 DEF FetchHit, EntryHit
  <2> DEFINE f == [kind |-> kind, addr |-> a, key |-> args[p].key]
  <2>2. f \in Frame /\ f.kind \in Pinning /\ f.addr = a /\ f.key = heap[a].key
    BY <1>3, <1>4 DEF Frame, Pinning
  <2>3. Push(p, f)
    BY <2>1
  <2> HIDE DEF f
  <2> QED
    BY <1>1, <1>2, <1>3, <1>4, <2>1, <2>2, <2>3, PinMemory
<1>6. CASE ExistsHit(p)
  <2>1. PICK a \in Found(args[p].key, args[p].t): heap' = Touched(heap, a, args[p].t, 0)
    BY <1>6 DEF ExistsHit
  <2>2. PICK e \in Entry: /\ heap' = [heap EXCEPT ![a] = e]
                          /\ e.key = heap[a].key /\ e.ref = heap[a].ref + 0
    <3>1. a \in Addr /\ heap[a] # Free /\ 0 \in Nat
      BY <1>4
    <3>2. \E e \in Entry: /\ Touched(heap, a, args[p].t, 0) = [heap EXCEPT ![a] = e]
                          /\ e.key = heap[a].key /\ e.ref = heap[a].ref + 0
      BY <1>3, <3>1, TouchedEntry, Zenon
    <3> QED
      BY <2>1, <3>2
  <2>3. e.ref = heap[a].ref
    BY <1>4, <2>2 DEF Entry
  <2>4. Collected(heap', linked', gc')
    BY <1>1, <1>4, <2>2, <2>3, CollectedChange
  <2> QED
    BY <1>1, <1>2, <1>6, <2>4, ListMemory DEF ExistsHit
<1>7. CASE UpdateHit(p)
  <2>1. PICK a \in Found(args[p].key, args[p].t): heap' = [heap EXCEPT ![a].val = Incremented(@)]
    BY <1>7 DEF UpdateHit
  <2> DEFINE e == [heap[a] EXCEPT !.val = Incremented(@)]
  <2>2. Incremented(heap[a].val) \in Val
    <3>1. heap[a].val \in Val
      BY <1>4 DEF Entry
    <3> QED
      BY <3>1, ValueAssumption DEF Incremented, Val
  <2>3. e \in Entry /\ e.key = heap[a].key /\ e.ref = heap[a].ref
    BY <1>4, <2>2 DEF Entry
  <2>4. heap' = [heap EXCEPT ![a] = e]
    BY <2>1
  <2> HIDE DEF e
  <2>5. Collected(heap', linked', gc')
    BY <1>1, <1>4, <2>3, <2>4, CollectedChange
  <2> QED
    BY <1>1, <1>2, <1>7, <2>5, ListMemory DEF UpdateHit
<1> QED
  BY <1>5, <1>6, <1>7

LEMMA DeleteMemory ==
  ASSUME ControlInv, ControlInv', HeapOK, NEW p \in Proc, Delete(p)
  PROVE  HeapOK'
<1>1. /\ Return(p) /\ UNCHANGED <<ptr, stack>> /\ ptr[p] = Null
  BY DEF Delete, ControlInv, ControlOK
<1>2. pc'[p] = "user" /\ \A q \in Proc: q # p => pc'[q] = pc[q] /\ args'[q] = args[q]
  BY <1>1, ReturnKeeps
<1>3. CASE UNCHANGED <<heap, linked, gc>>
  BY <1>1, <1>2, <1>3, QuietMemory
<1>4. CASE \E a \in Matches(args[p].key):
             /\ heap' = HeapRemove(heap, {a})
             /\ gc' = GcAdd(heap, gc, {a})
             /\ linked' = linked \ {a}
  <2>1. PICK a \in linked: /\ heap' = HeapRemove(heap, {a})
                           /\ gc' = GcAdd(heap, gc, {a})
                           /\ linked' = linked \ {a}
    BY <1>4 DEF Matches
  <2>2. Collected(HeapRemove(heap, {a}), linked \ {a}, GcAdd(heap, gc, {a}))
    <3>1. {a} \subseteq linked
      OBVIOUS
    <3> QED
      BY <3>1, CollectedNothing, CollectedRemove
  <2> QED
    BY <1>1, <1>2, <2>1, <2>2, ListMemory
<1> QED
  BY <1>3, <1>4 DEF Delete

LEMMA ClearMemory ==
  ASSUME ControlInv, ControlInv', HeapOK, Timely, NEW p \in Proc, Clear(p)
  PROVE  HeapOK'
<1>1. linked \ linked = {}
  OBVIOUS
<1>2. Collected(heap', linked', gc')
  BY <1>1, RemoveThenGc DEF Clear, RealExpungeGc
<1>3. UNCHANGED <<args, ptr, stack>> /\ pc'[p] = "user" /\ \A q \in Proc: q # p => pc'[q] = pc[q]
  BY DEF Clear, Goto, ControlInv, ControlTypeOK
<1> QED
  BY <1>2, <1>3, ListMemory

\* A lookup that finds nothing, and runs the generator.
LEMMA EntryMissMemory ==
  ASSUME ControlInv, ControlInv', HeapOK, NEW p \in Proc, EntryMiss(p)
  PROVE  HeapOK'
<1> DEFINE f == [kind |-> "gen", key |-> args[p].key, ttl |-> args[p].ttl]
<1>1. /\ Return(p) /\ UNCHANGED <<heap, linked, gc, ptr>> /\ ptr[p] = Null /\ Push(p, f)
      /\ heap \in [Addr -> Entry \cup {Free}]
  BY DEF EntryMiss, ControlInv, ControlOK, shared, HeapOK
<1>2. \A q \in Proc: q # p => pc'[q] = pc[q] /\ args'[q] = args[q]
  BY <1>1, ReturnKeeps
<1>3. f \in Frame /\ f.kind \notin Pinning
  BY FrameTypes DEF ControlInv, Pinning
<1> HIDE DEF f
<1>4. /\ Len(stack[p]) \in Nat /\ Len(stack'[p]) = Len(stack[p]) + 1
      /\ stack'[p][Len(stack[p]) + 1] = f
      /\ \A i \in 1..Len(stack[p]): stack'[p][i] = stack[p][i]
      /\ \A q \in Proc: q # p => stack'[q] = stack[q]
  BY <1>1, <1>3, PushStack DEF ControlInv
<1>5. OnlyMoves(p)
  BY <1>1, <1>2, <1>4 DEF OnlyMoves
<1>6. \A i \in 1..Len(stack'[p]): stack'[p][i].kind \in Pinning =>
         i \in 1..Len(stack[p]) /\ stack'[p][i] = stack[p][i]
  BY <1>3, <1>4
<1> QED
  BY <1>1, <1>5, <1>6, FewerHolders

-----------------------------------------------------------------------------
(* Memory: every step *)

LEMMA CallMemory ==
  ASSUME ControlInv, ControlInv', HeapOK, NEW p \in Proc, Call(p)
  PROVE  HeapOK'
<1>1. pc[p] = "user" /\ UNCHANGED <<heap, linked, gc, ptr, stack>>
  BY DEF Call, CallLookup, CallStore, CallUpdate, CallEntry, CallClear, Calls, shared
<1>2. \E l \in {"malloc", "fetch", "exists", "delete", "update", "clear", "entry"}:
        pc' = [pc EXCEPT ![p] = l]
  BY DEF Call, CallStore, CallLookup, CallUpdate, CallClear, CallEntry, Goto
<1>3. \A q \in Proc: q # p => args'[q] = args[q]
  BY DEF Call, CallStore, CallLookup, CallUpdate, CallClear, CallEntry, ControlInv, ControlTypeOK
<1>4. ptr[p] = Null
  BY <1>1 DEF ControlInv, ControlOK
<1>5. /\ \A q \in Proc: q # p => pc'[q] = pc[q]
      /\ pc'[p] \notin {"insert", "release", "drop"}
  BY <1>2 DEF ControlInv, ControlTypeOK
<1> QED
  BY <1>1, <1>3, <1>4, <1>5, QuietMemory

LEMMA LockingMemory ==
  ASSUME ControlInv, ControlInv', HeapOK, Timely, NEW p \in Proc, Locking(p)
  PROVE  HeapOK'
<1>1. CASE ExpungeAll(p) \/ ExpungeExpired(p)
  BY <1>1, ExpungeMemory
<1>2. CASE InsertRefused(p) \/ Insert(p)
  BY <1>2, InsertMemory
<1>3. CASE FetchHit(p) \/ ExistsHit(p) \/ EntryHit(p) \/ UpdateHit(p)
  BY <1>3, LookupMemory
<1>4. CASE Delete(p) \/ Clear(p) \/ EntryMiss(p)
  BY <1>4, DeleteMemory, ClearMemory, EntryMissMemory
<1>5. CASE ExpungeSkip(p) \/ LookupMiss(p) \/ UpdateInsert(p) \/ UpdateMiss(p)
  <2>1. /\ UNCHANGED <<heap, linked, gc, ptr, stack>>
        /\ pc[p] \in {"expunge", "fetch", "exists", "update"}
    BY <1>5 DEF ExpungeSkip, LookupMiss, UpdateInsert, UpdateMiss, shared
  <2>2. /\ \A q \in Proc: q # p => pc'[q] = pc[q] /\ args'[q] = args[q]
        /\ pc'[p] \in {"malloc", "user"}
    BY <1>5 DEF ExpungeSkip, LookupMiss, UpdateInsert, UpdateMiss, Return, Goto, ControlInv, ControlTypeOK
  <2>3. ptr[p] = Null
    BY <2>1 DEF ControlInv, ControlOK
  <2> QED
    BY <2>1, <2>2, <2>3, QuietMemory
<1> QED
  BY <1>1, <1>2, <1>3, <1>4, <1>5 DEF Locking

LEMMA RunningMemory ==
  ASSUME ControlInv, ControlInv', HeapOK, NEW p \in Proc, Running(p)
  PROVE  HeapOK'
<1>1. CASE Malloc(p)
  BY <1>1, MallocMemory
<1>2. CASE ExpungeShort(p) \/ ExpungeFragmented(p) \/ ExpungeDone(p)
  BY <1>2, ExpungeMemory
<1>3. CASE ExpungeDefrag(p)
  BY <1>3, DefragMemory
<1>4. CASE Release(p) \/ Drop(p)
  BY <1>4, ReleaseMemory, DropMemory
<1>5. CASE MallocFail(p) \/ ReadCleanups(p) \/ ExpungeAvail(p) \/ Unwound(p)
  <2>1. /\ UNCHANGED <<heap, linked, gc, ptr, stack>>
        /\ pc[p] \in {"malloc", "nomem", "avail", "bail"}
    BY <1>5 DEF MallocFail, ReadCleanups, ExpungeAvail, Unwound, shared
  <2>2. \E l \in {"user", "update", "exit", "nomem", "expunge", "defrag"}: pc' = [pc EXCEPT ![p] = l]
    BY <1>5, ResumeType DEF MallocFail, ReadCleanups, ExpungeAvail, Unwound, Goto, ControlInv
  <2>3. \A q \in Proc: q # p => args'[q] = args[q]
    BY <1>5 DEF MallocFail, ReadCleanups, ExpungeAvail, Unwound, Resume, ControlInv, ControlTypeOK
  <2>4. /\ \A q \in Proc: q # p => pc'[q] = pc[q]
        /\ pc'[p] \notin {"insert", "release", "drop"}
    BY <2>2 DEF ControlInv, ControlTypeOK
  <2>5. ptr[p] = Null
    BY <2>1 DEF ControlInv, ControlOK
  <2> QED
    BY <2>1, <2>3, <2>4, <2>5, QuietMemory
<1>6. CASE EntryExit(p)
  <2>1. /\ pc[p] = "exit" /\ Pop(p) /\ UNCHANGED <<heap, linked, gc, args, ptr>> /\ ptr[p] = Null
        /\ \A q \in Proc: q # p => pc'[q] = pc[q]
    BY <1>6 DEF EntryExit, Goto, shared, ControlInv, ControlTypeOK, ControlOK
  <2>2. CASE stack[p] # <<>>
    BY <2>1, <2>2, PopMemory
  <2>3. CASE stack[p] = <<>>
    <3>1. /\ Len(stack'[p]) <= Len(stack[p]) /\ Len(stack'[p]) \in Nat /\ Len(stack[p]) \in Nat
          /\ \A q \in Proc: q # p => stack'[q] = stack[q]
          /\ \A i \in 1..Len(stack'[p]): i \in 1..Len(stack[p]) /\ stack'[p][i] = stack[p][i]
      BY <2>1, PopStack DEF ControlInv
    <3>2. OnlyMoves(p)
      BY <2>1, <3>1 DEF OnlyMoves, HeapOK
    <3> QED
      BY <2>1, <3>1, <3>2, FewerHolders
  <2> QED
    BY <2>2, <2>3
<1>7. CASE UnwindFetch(p) \/ UnwindEntry(p)
  <2>1. /\ pc[p] = "bail" /\ stack[p] # <<>> /\ Pop(p) /\ ptr[p] = Null
        /\ UNCHANGED <<linked, gc, args, ptr, pc>>
    BY <1>7 DEF UnwindFetch, UnwindEntry, shared, ControlInv, ControlOK
  <2>2. heap' = heap \/ (Top(p).kind \in Pinning /\ heap' = Decref(heap, Top(p).addr))
    BY <1>7 DEF UnwindFetch, UnwindEntry, shared, Pinning
  <2> QED
    BY <2>1, <2>2, PopMemory
<1> QED
  BY <1>1, <1>2, <1>3, <1>4, <1>5, <1>6, <1>7 DEF Running

LEMMA CallbackMemory ==
  ASSUME ControlInv, ControlInv', HeapOK, NEW p \in Proc, CallbackReturn(p)
  PROVE  HeapOK'
<1>1. CASE FetchReturn(p) \/ EntryHitReturn(p)
  <2>1. /\ pc[p] = "user" /\ stack[p] # <<>> /\ Pop(p) /\ ptr[p] = Null
        /\ UNCHANGED <<linked, gc, args, ptr, pc>>
    BY <1>1 DEF FetchReturn, EntryHitReturn, InCallback, ControlInv, ControlOK
  <2>2. Top(p).kind \in Pinning /\ heap' = Decref(heap, Top(p).addr)
    BY <1>1 DEF FetchReturn, EntryHitReturn, InCallback, Pinning
  <2> QED
    BY <2>1, <2>2, PopMemory
<1>2. ASSUME NEW v \in Values, GeneratorReturn(p, v)
      PROVE  HeapOK'
  <2>1. /\ UNCHANGED <<heap, linked, gc, ptr, stack>> /\ pc[p] = "user" /\ pc'[p] = "malloc"
        /\ ptr[p] = Null
        /\ \A q \in Proc: q # p => pc'[q] = pc[q] /\ args'[q] = args[q]
    BY <1>2 DEF GeneratorReturn, InCallback, Goto, shared, ControlInv, ControlTypeOK, ControlOK
  <2> QED
    BY <2>1, QuietMemory
<1> QED
  BY <1>1, <1>2 DEF CallbackReturn

LEMMA FailMemory ==
  ASSUME ControlInv, ControlInv', HeapOK, NEW p \in Proc, Fail(p)
  PROVE  HeapOK'
<1>1. CASE PersistBailout(p)
  <2>1. /\ UNCHANGED <<heap, linked, gc, stack>> /\ ptr'[p] = Null
        /\ \A q \in Proc: q # p => ptr'[q] = ptr[q] /\ pc'[q] = pc[q] /\ args'[q] = args[q]
    BY <1>1 DEF PersistBailout, Goto, shared, ControlInv, ControlTypeOK
  <2>2. OnlyMoves(p)
    BY <2>1 DEF OnlyMoves, HeapOK
  <2> QED
    BY <2>1, <2>2, FewerHolders
<1>2. CASE Crash(p)
  <2>1. /\ UNCHANGED <<heap, linked, gc>> /\ ptr'[p] = Null /\ stack'[p] = <<>>
        /\ \A q \in Proc: q # p => /\ ptr'[q] = ptr[q] /\ pc'[q] = pc[q]
                                   /\ args'[q] = args[q] /\ stack'[q] = stack[q]
    BY <1>2 DEF Crash, Goto, shared, ControlInv, ControlTypeOK
  <2>2. OnlyMoves(p)
    BY <2>1 DEF OnlyMoves, HeapOK
  <2>3. 1..Len(stack'[p]) = {}
    BY <2>1, EmptySeq
  <2> QED
    BY <2>1, <2>2, <2>3, FewerHolders
<1>3. CASE GeneratorThrow(p) \/ Bailout(p)
  <2>1. /\ UNCHANGED <<heap, linked, gc, ptr, stack, args>> /\ pc'[p] \in {"exit", "bail"}
        /\ \A q \in Proc: q # p => pc'[q] = pc[q]
    BY <1>3 DEF GeneratorThrow, Bailout, Goto, shared, ControlInv, ControlTypeOK
  <2> QED
    BY <2>1, QuietMemory
<1> QED
  BY <1>1, <1>2, <1>3 DEF Fail

LEMMA StepMemory ==
  ASSUME ControlInv, ControlInv', HeapOK, Timely, [Next]_vars
  PROVE  HeapOK'
<1>1. ASSUME NEW p \in Proc,
             Call(p) \/ Locking(p) \/ Running(p) \/ CallbackReturn(p) \/ Fail(p)
      PROVE  HeapOK'
  BY <1>1, CallMemory, LockingMemory, RunningMemory, CallbackMemory, FailMemory
<1>2. CASE Tick \/ UNCHANGED vars
  <2>1. UNCHANGED <<heap, linked, gc, ptr, stack, pc, args>>
    BY <1>2 DEF Tick, vars, shared
  <2> QED
    BY <2>1 DEF HeapOK, ListsOK, RefCovers, PinSafe, Listed, Used, FreeAddrs, Holders
<1> QED
  BY <1>1, <1>2 DEF Next

\* The counter and the lost blocks stay in their range.
CountsOK == lost \in SUBSET Addr /\ nentries \in Nat

LEMMA CountRemoveType ==
  ASSUME NEW n \in Nat, NEW S, S \subseteq Addr
  PROVE  CountRemove(n, S) \in Nat
<1>1. IsFiniteSet(Addr)
  BY BlocksAssumption, FS_Interval DEF Addr
<1>2. Cardinality(S) \in Nat
  BY <1>1, FS_Subset, FS_CardinalityType
<1> QED
  BY <1>2 DEF CountRemove

LEMMA StepCounts ==
  ASSUME ControlInv, CountsOK, [Next]_vars
  PROVE  CountsOK'
<1>1. linked \in SUBSET Addr /\ ptr \in [Proc -> Addr \cup {Null}]
  BY DEF ControlInv, ControlTypeOK
<1>2. \A S \in SUBSET linked: CountRemove(nentries, S) \in Nat
  BY <1>1, CountRemoveType DEF CountsOK
<1>3. ASSUME NEW p \in Proc, Call(p) \/ CallbackReturn(p)
      PROVE  CountsOK'
  BY <1>3 DEF Call, CallLookup, CallStore, CallUpdate, CallEntry, CallClear, CallbackReturn,
     FetchReturn, EntryHitReturn, GeneratorReturn, shared, history, CountsOK
<1>4. ASSUME NEW p \in Proc, Running(p)
      PROVE  CountsOK'
  BY <1>4 DEF Running, Malloc, MallocFail, ReadCleanups, ExpungeShort, ExpungeAvail,
     ExpungeDefrag, ExpungeFragmented, ExpungeDone, Release, Drop, EntryExit, UnwindFetch,
     UnwindEntry, Unwound, RealExpunge, ExpungeEnd, shared, history, CountsOK
<1>5. ASSUME NEW p \in Proc, Fail(p)
      PROVE  CountsOK'
  <2>1. pc[p] \in {"insert", "drop"} => ptr[p] \in Addr
    BY <1>1 DEF ControlInv, ControlOK
  <2>2. lost' = lost \/ (lost' = lost \cup {ptr[p]} /\ pc[p] \in {"insert", "drop"})
    BY <1>5 DEF Fail, PersistBailout, GeneratorThrow, Bailout, Crash, history
  <2>3. nentries' = nentries
    BY <1>5 DEF Fail, PersistBailout, GeneratorThrow, Bailout, Crash, shared
  <2> QED
    BY <2>1, <2>2, <2>3 DEF CountsOK
<1>6. ASSUME NEW p \in Proc, Locking(p)
      PROVE  CountsOK'
  <2>1. lost' = lost
    BY <1>6 DEF Locking, ExpungeSkip, ExpungeAll, ExpungeExpired, ExpungeEnd, InsertRefused,
       Insert, FetchHit, ExistsHit, LookupMiss, UpdateHit, UpdateInsert, UpdateMiss, Delete,
       Clear, EntryHit, EntryMiss, history
  <2>2. CASE InsertRefused(p) \/ Insert(p)
    <3>1. \E S \in SUBSET linked:
             nentries' \in {CountRemove(nentries, S), CountRemove(nentries, S) + 1}
      BY <2>2 DEF InsertRefused, Insert, Stale, Replaced, Matches
    <3> QED
      BY <1>2, <2>1, <3>1 DEF CountsOK
  <2>3. CASE ExpungeExpired(p)
    <3>1. \E S \in SUBSET linked: nentries' = CountRemove(nentries, S)
      BY <2>3 DEF ExpungeExpired
    <3> QED
      BY <1>2, <2>1, <3>1 DEF CountsOK
  <2>4. CASE Delete(p)
    <3>1. \/ nentries' = nentries
          \/ \E a \in linked: nentries' = CountRemove(nentries, {a})
      BY <2>4 DEF Delete, Matches
    <3>2. \A a \in linked: {a} \in SUBSET linked
      OBVIOUS
    <3> QED
      BY <1>2, <2>1, <3>1, <3>2 DEF CountsOK
  <2>5. CASE ExpungeAll(p) \/ Clear(p)
    BY <2>1, <2>5 DEF ExpungeAll, Clear, RealExpungeGc, CountsOK
  <2>6. CASE \/ ExpungeSkip(p) \/ FetchHit(p) \/ ExistsHit(p) \/ LookupMiss(p) \/ UpdateHit(p)
             \/ UpdateInsert(p) \/ UpdateMiss(p) \/ EntryHit(p) \/ EntryMiss(p)
    BY <2>1, <2>6 DEF ExpungeSkip, FetchHit, ExistsHit, LookupMiss, UpdateHit, UpdateInsert,
       UpdateMiss, EntryHit, EntryMiss, shared, CountsOK
  <2> QED
    BY <1>6, <2>2, <2>3, <2>4, <2>5, <2>6 DEF Locking
<1>7. CASE Tick \/ UNCHANGED vars
  BY <1>7 DEF Tick, vars, shared, history, CountsOK
<1> QED
  BY <1>3, <1>4, <1>5, <1>6, <1>7 DEF Next

LEMMA InitMemory == Init => MemoryInv
<1> SUFFICES ASSUME Init PROVE MemoryInv
  OBVIOUS
<1>1. ControlInv
  BY InitControl
<1>2. /\ heap \in [Addr -> Entry \cup {Free}] /\ Used = {} /\ Listed = {} /\ linked = {} /\ gc = {}
      /\ CountsOK
  BY DEF Init, Used, FreeAddrs, Listed, CountsOK
<1>3. \A q \in Proc: ptr[q] = Null /\ pc[q] = "user" /\ 1..Len(stack[q]) = {}
  BY EmptySeq DEF Init
<1>4. ListsOK /\ RefCovers /\ PinSafe
  BY <1>2, <1>3 DEF ListsOK, RefCovers, PinSafe
<1> QED
  BY <1>1, <1>2, <1>4, MemoryParts DEF HeapOK, CountsOK

\* MemoryInv is inductive while references are given back in time.
LEMMA NextMemory == MemoryInv /\ Timely /\ [Next]_vars => MemoryInv'
<1> SUFFICES ASSUME MemoryInv, Timely, [Next]_vars
             PROVE  MemoryInv'
  OBVIOUS
<1>1. ControlInv /\ HeapOK /\ CountsOK
  BY MemoryParts DEF CountsOK
<1>2. ControlInv'
  BY <1>1, NextControl
<1>3. HeapOK'
  BY <1>1, <1>2, StepMemory
<1>4. CountsOK'
  BY <1>1, StepCounts
<1> QED
  BY <1>2, <1>3, <1>4 DEF MemoryInv, ControlInv, HeapOK, TypeOK, CountsOK

-----------------------------------------------------------------------------
(* Memory: theorems *)

\* As long as running code gives back, within gc_ttl, what it holds of removed entries, the
\* blocks, the lists and the reference counts of the cache are in order.
THEOREM MemorySafety == Spec => MemoryWhileTimely
<1>1. Spec /\ []Timely => []MemoryInv
  BY InitMemory, NextMemory, PTL DEF Spec
<1> QED
  BY <1>1, PTL DEF MemoryWhileTimely

\* As long as it does, nobody loses an entry that a fetch, apcu_entry() or its own
\* allocation has handed out: apc_cache_entry_incref and apc_cache_wlocked_gc.
THEOREM PinnedIsSafe == Spec => PinSafeWhileTimely
<1>1. MemoryInv => PinSafe
  BY DEF MemoryInv
<1> QED
  BY <1>1, MemorySafety, PTL DEF MemoryWhileTimely, PinSafeWhileTimely

\* As long as it does, every variable stays in its range: nothing is read from or written to
\* a block that has been freed, and nentries does not fall below zero.
THEOREM CacheTyped == Spec => ([]Timely => []TypeOK)
<1>1. MemoryInv => TypeOK
  BY DEF MemoryInv
<1> QED
  BY <1>1, MemorySafety, PTL DEF MemoryWhileTimely

\* As long as it does, no reference count is below the number of those who hold the entry,
\* whose increments and decrements are not all made under the write lock.
THEOREM CountsCover == Spec => ([]Timely => []RefCovers)
<1>1. MemoryInv => RefCovers
  BY DEF MemoryInv
<1> QED
  BY <1>1, MemorySafety, PTL DEF MemoryWhileTimely

\* With apc.gc_ttl = 0 no condition is left: a referenced entry is never collected.
THEOREM MemorySafetyWithoutGcTtl == GcTtl = 0 => (Spec => []MemoryInv)
<1> SUFFICES ASSUME GcTtl = 0 PROVE Spec => []MemoryInv
  OBVIOUS
<1>1. Timely
  BY DEF Timely
<1>2. MemoryInv /\ [Next]_vars => MemoryInv'
  BY <1>1, NextMemory
<1> QED
  BY <1>2, InitMemory, PTL DEF Spec

-----------------------------------------------------------------------------
(* What a collection leaves *)

\* What a collection takes off the lists it gives back to the allocator.
NoneLeaked(h, l, g) == \A a \in Listed \ (l \cup g): h[a] = Free

\* Removal alone: the block is freed or moves to the gc list.
LEMMA RemoveLeaksNone ==
  ASSUME ControlInv, HeapOK, NEW S, S \subseteq linked
  PROVE  NoneLeaked(HeapRemove(heap, S), linked \ S, GcAdd(heap, gc, S))
<1>1. ASSUME NEW a \in Listed, a \notin linked \ S, a \notin GcAdd(heap, gc, S)
      PROVE  HeapRemove(heap, S)[a] = Free
  <2>1. a \in Addr /\ a \in S /\ Unreferenced(heap[a])
    BY <1>1 DEF Listed, GcAdd, ControlInv, ControlTypeOK
  <2> QED
    BY <2>1 DEF HeapRemove
<1> QED
  BY <1>1 DEF NoneLeaked

\* Removal followed by a gc pass.
LEMMA RemoveThenGcLeaksNone ==
  ASSUME ControlInv, HeapOK, NEW S, S \subseteq linked
  PROVE  LET h == HeapRemove(heap, S)
             g == GcAdd(heap, gc, S)
         IN  NoneLeaked(HeapGc(h, g), linked \ S, GcList(h, g))
<1> DEFINE h == HeapRemove(heap, S)
           g == GcAdd(heap, gc, S)
<1>1. NoneLeaked(h, linked \ S, g)
  BY RemoveLeaksNone
<1>2. Listed \subseteq Addr
  BY DEF HeapOK, Listed, ControlInv, ControlTypeOK
<1> HIDE DEF h, g
<1>3. NoneLeaked(HeapGc(h, g), linked \ S, GcList(h, g))
  BY <1>1, <1>2 DEF NoneLeaked, HeapGc, GcList
<1> QED
  BY <1>3 DEF h, g

\* A gc pass followed by removal.
LEMMA GcThenRemoveLeaksNone ==
  ASSUME ControlInv, HeapOK, NEW S, S \subseteq linked
  PROVE  NoneLeaked(HeapRemove(HeapGc(heap, gc), S), linked \ S, GcAdd(heap, GcList(heap, gc), S))
<1> DEFINE h == HeapGc(heap, gc)
           g == GcAdd(heap, GcList(heap, gc), S)
<1>1. linked \cap gc = {} /\ Listed \subseteq Addr
  BY DEF HeapOK, ListsOK, Listed, ControlInv, ControlTypeOK
<1>2. ASSUME NEW a \in Listed, a \notin linked \ S, a \notin g
      PROVE  HeapRemove(h, S)[a] = Free
  <2>1. CASE a \in S
    <3>1. Unreferenced(heap[a])
      BY <1>2, <2>1 DEF GcAdd, g
    <3>2. h[a] = heap[a]
      BY <1>1, <2>1 DEF HeapGc, h
    <3> QED
      BY <1>1, <2>1, <3>1, <3>2 DEF HeapRemove
  <2>2. CASE a \notin S
    <3>1. a \in gc /\ a \notin GcList(heap, gc)
      BY <1>2, <2>2 DEF Listed, GcAdd, g
    <3>2. h[a] = Free
      BY <1>1, <3>1 DEF GcList, HeapGc, h
    <3> QED
      BY <1>1, <2>2, <3>2 DEF HeapRemove
  <2> QED
    BY <2>1, <2>2
<1> QED
  BY <1>2 DEF NoneLeaked, h, g

\* An expunge, and a clear.
LEMMA ExpungeCollected ==
  ASSUME ControlInv, HeapOK, Timely, NEW p \in Proc,
         \/ ExpungeAll(p) \/ ExpungeExpired(p) \/ ExpungeShort(p) \/ ExpungeFragmented(p)
         \/ Clear(p)
  PROVE  /\ Collected(heap', linked', gc') /\ NoneLeaked(heap', linked', gc')
         /\ \E S \in SUBSET linked:
              /\ linked' = linked \ S
              /\ nentries' = CountRemove(nentries, S) \/ (S = linked /\ nentries' = 0)
<1>1. linked \ linked = {}
  OBVIOUS
<1>2. CASE ExpungeAll(p) \/ Clear(p)
  BY <1>1, <1>2, RemoveThenGc, RemoveThenGcLeaksNone DEF ExpungeAll, Clear, RealExpungeGc
<1>3. CASE ExpungeShort(p) \/ ExpungeFragmented(p)
  <2>1. /\ Collected(HeapRemove(heap, linked), linked \ linked, GcAdd(heap, gc, linked))
        /\ NoneLeaked(HeapRemove(heap, linked), linked \ linked, GcAdd(heap, gc, linked))
    BY CollectedNothing, CollectedRemove, RemoveLeaksNone
  <2> QED
    BY <1>1, <1>3, <2>1 DEF ExpungeShort, ExpungeFragmented, RealExpunge
<1>4. CASE ExpungeExpired(p)
  <2> DEFINE S == {a \in linked: Expired(heap[a], args[p].xt)}
  <2>1. S \subseteq linked
    OBVIOUS
  <2>2. /\ heap' = HeapGc(HeapRemove(heap, S), GcAdd(heap, gc, S))
        /\ gc' = GcList(HeapRemove(heap, S), GcAdd(heap, gc, S))
        /\ linked' = linked \ S
        /\ nentries' = CountRemove(nentries, S)
    BY <1>4 DEF ExpungeExpired
  <2> HIDE DEF S
  <2>3. Collected(heap', linked', gc') /\ NoneLeaked(heap', linked', gc')
    BY <2>1, <2>2, RemoveThenGc, RemoveThenGcLeaksNone
  <2> QED
    BY <2>1, <2>2, <2>3
<1> QED
  BY <1>2, <1>3, <1>4

\* A deletion, of one entry or none.
LEMMA DeleteCollected ==
  ASSUME ControlInv, HeapOK, NEW p \in Proc, Delete(p)
  PROVE  /\ Collected(heap', linked', gc') /\ NoneLeaked(heap', linked', gc')
         /\ \/ UNCHANGED <<linked, nentries>>
            \/ \E S \in SUBSET linked: linked' = linked \ S /\ nentries' = CountRemove(nentries, S)
<1>1. CASE UNCHANGED <<heap, linked, gc, nentries>>
  BY <1>1, CollectedNothing DEF NoneLeaked, Listed
<1>2. CASE \E a \in Matches(args[p].key):
             /\ heap' = HeapRemove(heap, {a})
             /\ gc' = GcAdd(heap, gc, {a})
             /\ linked' = linked \ {a}
             /\ nentries' = CountRemove(nentries, {a})
  <2>1. PICK a \in linked: /\ heap' = HeapRemove(heap, {a})
                           /\ gc' = GcAdd(heap, gc, {a})
                           /\ linked' = linked \ {a}
                           /\ nentries' = CountRemove(nentries, {a})
    BY <1>2 DEF Matches
  <2>2. {a} \subseteq linked
    OBVIOUS
  <2> QED
    BY <2>1, <2>2, CollectedNothing, CollectedRemove, RemoveLeaksNone
<1> QED
  BY <1>1, <1>2 DEF Delete

\* An insertion, apart from the entry that it links.
LEMMA InsertCollected ==
  ASSUME ControlInv, HeapOK, Timely, NEW p \in Proc
  PROVE  /\ InsertRefused(p) => \E S \in SUBSET linked:
              /\ linked' = linked \ S /\ nentries' = CountRemove(nentries, S)
              /\ Collected(heap', linked', gc') /\ NoneLeaked(heap', linked', gc')
         /\ Insert(p) => \E S \in Replaced(p):
              /\ S \subseteq linked
              /\ linked' = (linked \ S) \cup {ptr[p]}
              /\ nentries' = CountRemove(nentries, S) + 1
              /\ Collected(heap', linked \ S, gc') /\ NoneLeaked(heap', linked \ S, gc')
<1>1. ASSUME InsertRefused(p)
      PROVE  \E S \in SUBSET linked:
               /\ linked' = linked \ S /\ nentries' = CountRemove(nentries, S)
               /\ Collected(heap', linked', gc') /\ NoneLeaked(heap', linked', gc')
  <2>1. PICK S \in SUBSET Stale(p):
          /\ heap' = HeapRemove(HeapGc(heap, gc), S)
          /\ gc' = GcAdd(heap, GcList(heap, gc), S)
          /\ linked' = linked \ S
          /\ nentries' = CountRemove(nentries, S)
    BY <1>1 DEF InsertRefused
  <2>2. S \subseteq linked
    BY DEF Stale
  <2> QED
    BY <2>1, <2>2, GcThenRemove, GcThenRemoveLeaksNone
<1>2. ASSUME Insert(p)
      PROVE  \E S \in Replaced(p):
               /\ S \subseteq linked
               /\ linked' = (linked \ S) \cup {ptr[p]}
               /\ nentries' = CountRemove(nentries, S) + 1
               /\ Collected(heap', linked \ S, gc') /\ NoneLeaked(heap', linked \ S, gc')
  <2>1. PICK S \in Replaced(p):
          /\ heap' = HeapRemove(HeapGc(heap, gc), S)
          /\ gc' = GcAdd(heap, GcList(heap, gc), S)
          /\ linked' = (linked \ S) \cup {ptr[p]}
          /\ nentries' = CountRemove(nentries, S) + 1
    BY <1>2 DEF Insert
  <2>2. S \subseteq linked
    BY DEF Replaced, Stale, Matches
  <2> QED
    BY <2>1, <2>2, GcThenRemove, GcThenRemoveLeaksNone
<1> QED
  BY <1>1, <1>2

-----------------------------------------------------------------------------
(* One entry per key, and their number *)

IndexOK == KeyUnique /\ CountExact

\* The slots are finite, and hold blocks.
LEMMA LinkedFinite ==
  ASSUME ControlInv
  PROVE  /\ IsFiniteSet(linked) /\ linked \subseteq Addr
         /\ \A S \in SUBSET linked: IsFiniteSet(S) /\ Cardinality(S) \in Nat
<1>1. IsFiniteSet(Addr)
  BY BlocksAssumption, FS_Interval DEF Addr
<1>2. linked \subseteq Addr
  BY DEF ControlInv, ControlTypeOK
<1> QED
  BY <1>1, <1>2, FS_Subset, FS_CardinalityType

\* The guarded decrement of nentries is exact: its guard holds unless the slots empty.
LEMMA CountRemoved ==
  ASSUME ControlInv, CountExact, NEW S, S \subseteq linked
  PROVE  CountRemove(nentries, S) = Cardinality(linked \ S)
<1>1. /\ IsFiniteSet(linked) /\ IsFiniteSet(S)
      /\ Cardinality(linked) \in Nat /\ Cardinality(S) \in Nat /\ Cardinality(linked \ S) \in Nat
  BY LinkedFinite, FS_CardinalityType
<1>2. Cardinality(linked \ S) = Cardinality(linked) - Cardinality(linked \cap S)
  BY <1>1, FS_Difference
<1>3. linked \cap S = S
  OBVIOUS
<1> QED
  BY <1>1, <1>2, <1>3 DEF CountRemove, CountExact

\* A step that takes the entries of S out of the slots and leaves the keys of the others.
LEMMA IndexRemoved ==
  ASSUME ControlInv, IndexOK, NEW S, S \subseteq linked, linked' = linked \ S,
         nentries' = CountRemove(nentries, S) \/ (S = linked /\ nentries' = 0),
         \A a \in linked': heap'[a].key = heap[a].key
  PROVE  IndexOK'
<1>1. CASE nentries' = CountRemove(nentries, S)
  BY <1>1, CountRemoved DEF IndexOK, KeyUnique, CountExact
<1>2. CASE S = linked /\ nentries' = 0
  <2>1. linked' = {}
    BY <1>2
  <2> QED
    BY <1>2, <2>1, FS_EmptySet DEF IndexOK, KeyUnique, CountExact
<1> QED
  BY <1>1, <1>2

\* A step that leaves the slots, their counter and the keys in them.
LEMMA IndexKept ==
  ASSUME IndexOK, UNCHANGED <<linked, nentries>>, \A a \in linked: heap'[a].key = heap[a].key
  PROVE  IndexOK'
BY DEF IndexOK, KeyUnique, CountExact

\* What a collection leaves in the slots keeps its key.
LEMMA CollectedKeys ==
  ASSUME ControlInv, NEW h, NEW l, NEW g, Collected(h, l, g)
  PROVE  \A a \in l: h[a].key = heap[a].key
BY DEF Collected, ControlInv, ControlTypeOK

\* The removals: a collection that takes the entries of S out of the slots.
LEMMA IndexCollected ==
  ASSUME ControlInv, IndexOK, NEW S, S \subseteq linked, linked' = linked \ S,
         nentries' = CountRemove(nentries, S) \/ (S = linked /\ nentries' = 0),
         Collected(heap', linked', gc')
  PROVE  IndexOK'
BY CollectedKeys, IndexRemoved

\* An expunge, a clear or a deletion.
LEMMA RemovalIndex ==
  ASSUME ControlInv, HeapOK, IndexOK, Timely, NEW p \in Proc,
         \/ ExpungeAll(p) \/ ExpungeExpired(p) \/ ExpungeShort(p) \/ ExpungeFragmented(p)
         \/ Clear(p) \/ Delete(p)
  PROVE  IndexOK'
<1>1. Collected(heap', linked', gc')
  BY ExpungeCollected, DeleteCollected
<1>2. CASE \E S \in SUBSET linked:
             /\ linked' = linked \ S
             /\ nentries' = CountRemove(nentries, S) \/ (S = linked /\ nentries' = 0)
  BY <1>1, <1>2, IndexCollected
<1>3. CASE UNCHANGED <<linked, nentries>>
  BY <1>1, <1>3, CollectedKeys, IndexKept
<1> QED
  BY <1>2, <1>3, ExpungeCollected, DeleteCollected

\* An insertion removes the entry that has its key, if there is one, and adds its own.
LEMMA InsertIndex ==
  ASSUME ControlInv, HeapOK, IndexOK, Timely, NEW p \in Proc, InsertRefused(p) \/ Insert(p)
  PROVE  IndexOK'
<1>1. CASE InsertRefused(p)
  BY <1>1, InsertCollected, IndexCollected
<1>2. CASE Insert(p)
  <2>1. PICK S \in Replaced(p):
          /\ S \subseteq linked
          /\ linked' = (linked \ S) \cup {ptr[p]}
          /\ nentries' = CountRemove(nentries, S) + 1
          /\ Collected(heap', linked \ S, gc')
    BY <1>2, InsertCollected
  <2>2. S \subseteq linked /\ \A a \in linked \ S: heap[a].key # args[p].key
    <3>1. ASSUME NEW a \in linked \ S
          PROVE  heap[a].key # args[p].key
      <4>1. CASE Matches(args[p].key) = {}
        BY <4>1, <3>1 DEF Matches
      <4>2. CASE Matches(args[p].key) # {}
        <5>1. PICK m \in Matches(args[p].key): m \in S
          BY <4>2 DEF Replaced
        <5>2. m \in linked /\ heap[m].key = args[p].key
          BY DEF Matches
        <5> QED
          BY <3>1, <5>1, <5>2 DEF IndexOK, KeyUnique
      <4> QED
        BY <4>1, <4>2
    <3> QED
      BY <2>1, <3>1
  <2>3. Collected(heap', linked \ S, gc')
    BY <2>1
  <2>4. /\ ptr[p] \in Addr /\ ptr[p] \notin Listed
        /\ heap[ptr[p]].key = args[p].key
    BY <1>2 DEF Insert, ControlInv, ControlTypeOK, ControlOK, HeapOK, ListsOK, PinSafe
  <2>5. \A a \in linked \ S: heap'[a].key = heap[a].key
    BY <2>3, CollectedKeys
  <2>6. heap'[ptr[p]] = heap[ptr[p]]
    BY <2>3, <2>4 DEF Collected
  <2>7. KeyUnique'
    BY <2>1, <2>2, <2>4, <2>5, <2>6 DEF IndexOK, KeyUnique
  <2>8. CountExact'
    <3>1. CountRemove(nentries, S) = Cardinality(linked \ S)
      BY <2>2, CountRemoved DEF IndexOK
    <3>2. IsFiniteSet(linked \ S) /\ ptr[p] \notin linked \ S
      BY <2>4, LinkedFinite, FS_Subset DEF Listed
    <3> QED
      BY <2>1, <3>1, <3>2, FS_AddElement DEF CountExact
  <2> QED
    BY <2>7, <2>8 DEF IndexOK
<1> QED
  BY <1>1, <1>2

\* Defragmentation renames the blocks, no two alike, and links follow.
LEMMA DefragMap ==
  ASSUME ControlInv, HeapOK, NEW p \in Proc, ExpungeDefrag(p)
  PROVE  \E f \in [Used -> Addr]:
           /\ Compacts(f)
           /\ \A a, b \in Used: f[a] = f[b] => a = b
           /\ \A a \in Used: heap'[f[a]] = heap[a]
           /\ \A b \in Addr: heap'[b] # Free => \E a \in Used: f[a] = b
           /\ linked' = {f[a]: a \in linked} /\ gc' = {f[a]: a \in gc}
<1>1. PICK f \in [Used -> Addr]:
        /\ Compacts(f)
        /\ heap' = [b \in Addr |-> IF \E a \in Used: f[a] = b
                                     THEN heap[CHOOSE a \in Used: f[a] = b] ELSE Free]
        /\ linked' = {Follow(f, a): a \in linked}
        /\ gc' = {Follow(f, a): a \in gc}
  BY DEF ExpungeDefrag
<1>2. linked \subseteq Used /\ gc \subseteq Used /\ \A a \in Used: a \in Nat
  BY DEF HeapOK, ListsOK, Listed, Used, Addr
<1>3. ASSUME NEW a \in Used, NEW b \in Used, f[a] = f[b]
      PROVE  a = b
  <2>1. /\ a \in Nat /\ b \in Nat /\ f[a] \in Nat /\ f[b] \in Nat
        /\ a < b => f[a] < f[b]
        /\ b < a => f[b] < f[a]
    BY <1>1, <1>2 DEF Compacts, Addr
  <2> QED
    BY <1>3, <2>1
<1>4. ASSUME NEW a \in Used
      PROVE  heap'[f[a]] = heap[a]
  <2>1. f[a] \in Addr
    BY <1>1
  <2>2. (CHOOSE b \in Used: f[b] = f[a]) = a
    BY <1>3
  <2> QED
    BY <1>1, <2>1, <2>2
<1>5. linked' = {f[a]: a \in linked} /\ gc' = {f[a]: a \in gc}
  <2>1. \A a \in linked \cup gc: Follow(f, a) = f[a]
    BY <1>2 DEF Follow
  <2> QED
    BY <1>1, <2>1
<1>6. \A b \in Addr: heap'[b] # Free => \E a \in Used: f[a] = b
  BY <1>1
<1> QED
  BY <1>1, <1>3, <1>4, <1>5, <1>6

\* Keys and their number follow too.
LEMMA DefragIndex ==
  ASSUME ControlInv, HeapOK, IndexOK, NEW p \in Proc, ExpungeDefrag(p)
  PROVE  IndexOK'
<1>1. PICK f \in [Used -> Addr]:
        /\ \A a, b \in Used: f[a] = f[b] => a = b
        /\ \A a \in Used: heap'[f[a]] = heap[a]
        /\ linked' = {f[a]: a \in linked}
  BY DefragMap
<1>2. linked \subseteq Used /\ nentries' = nentries
  BY DEF HeapOK, ListsOK, Listed, ExpungeDefrag
<1>3. KeyUnique'
  <2>1. ASSUME NEW b \in linked', NEW c \in linked', heap'[b].key = heap'[c].key
        PROVE  b = c
    <3>1. PICK x \in linked: b = f[x]
      BY <1>1
    <3>2. PICK y \in linked: c = f[y]
      BY <1>1
    <3>3. heap[x].key = heap[y].key
      BY <1>1, <1>2, <2>1, <3>1, <3>2
    <3> QED
      BY <3>1, <3>2, <3>3 DEF IndexOK, KeyUnique
  <2> QED
    BY <2>1 DEF KeyUnique
<1>4. CountExact'
  <2> DEFINE g == [a \in linked |-> f[a]]
  <2>1. g \in Bijection(linked, linked')
    <3>1. g \in [linked -> linked'] /\ \A a \in linked: g[a] = f[a]
      BY <1>1
    <3>2. \A a, b \in linked: g[a] = g[b] => a = b
      BY <1>1, <1>2
    <3>3. \A c \in linked': \E a \in linked: g[a] = c
      BY <1>1
    <3> HIDE DEF g
    <3> QED
      BY <3>1, <3>2, <3>3, Fun_IsBij
  <2>2. Cardinality(linked') = Cardinality(linked)
    BY <2>1, LinkedFinite, FS_Bijection DEF ExistsBijection
  <2> QED
    BY <1>2, <2>2 DEF IndexOK, CountExact
<1> QED
  BY <1>3, <1>4 DEF IndexOK

\* One reference less, whoever's it was, leaves the keys.
LEMMA DecrefKeys ==
  ASSUME ControlInv, HeapOK, NEW x, heap' = Decref(heap, x)
  PROVE  \A a \in linked: heap'[a].key = heap[a].key
<1>1. heap \in [Addr -> Entry \cup {Free}] /\ linked \subseteq Addr /\ linked \subseteq Used
  BY DEF HeapOK, ListsOK, Listed, ControlInv, ControlTypeOK
<1>2. CASE x \in Addr
  BY <1>1, <1>2, DecrefEntry
<1>3. CASE x \notin Addr
  <2>1. \A a \in linked: heap'[a] = heap[a]
    BY <1>1, <1>3 DEF Decref
  <2> QED
    BY <2>1
<1> QED
  BY <1>2, <1>3

\* A hit writes to one entry in the slots, and not to its key.
LEMMA LookupWrites ==
  ASSUME ControlInv, HeapOK, NEW p \in Proc,
         FetchHit(p) \/ ExistsHit(p) \/ EntryHit(p) \/ UpdateHit(p)
  PROVE  \E a \in linked, e \in Entry: heap' = [heap EXCEPT ![a] = e] /\ e.key = heap[a].key
<1>1. /\ args[p].t \in Nat /\ heap \in [Addr -> Entry \cup {Free}] /\ linked \subseteq Addr
      /\ \A a \in linked: heap[a] \in Entry /\ heap[a] # Free
  BY HeldReferenced DEF ControlInv, ControlTypeOK, Args, HeapOK, Listed
<1>2. ASSUME NEW a \in linked, NEW pins \in {0, 1}, heap' = Touched(heap, a, args[p].t, pins)
      PROVE  \E e \in Entry: heap' = [heap EXCEPT ![a] = e] /\ e.key = heap[a].key
  <2> DEFINE f == [heap[a] EXCEPT !.atime = args[p].t]
             e == [f EXCEPT !.ref = heap[a].ref + pins]
  <2>1. heap' = [heap EXCEPT ![a] = e]
    BY <1>1, <1>2 DEF Touched
  <2>2. f \in Entry /\ f.key = heap[a].key
    BY <1>1 DEF Entry
  <2>3. heap[a].ref + pins \in Int
    BY <1>1 DEF Entry
  <2>4. e \in Entry /\ e.key = heap[a].key
    <3> HIDE DEF f
    <3> QED
      BY <2>2, <2>3 DEF Entry
  <2> QED
    BY <2>1, <2>4
<1>3. ASSUME NEW a \in linked, heap' = [heap EXCEPT ![a].val = Incremented(@)]
      PROVE  \E e \in Entry: heap' = [heap EXCEPT ![a] = e] /\ e.key = heap[a].key
  <2> DEFINE e == [heap[a] EXCEPT !.val = Incremented(@)]
  <2>1. heap' = [heap EXCEPT ![a] = e]
    BY <1>3
  <2>2. Incremented(heap[a].val) \in Val
    <3>1. heap[a].val \in Val
      BY <1>1 DEF Entry
    <3> QED
      BY <3>1, ValueAssumption DEF Incremented, Val
  <2>3. e \in Entry /\ e.key = heap[a].key
    BY <1>1, <2>2 DEF Entry
  <2> QED
    BY <2>1, <2>3
<1>4. \A a \in Found(args[p].key, args[p].t): a \in linked
  BY DEF Found, Matches
<1>5. \/ \E a \in linked, pins \in {0, 1}: heap' = Touched(heap, a, args[p].t, pins)
      \/ \E a \in linked: heap' = [heap EXCEPT ![a].val = Incremented(@)]
  BY <1>4 DEF FetchHit, ExistsHit, EntryHit, UpdateHit
<1> QED
  BY <1>2, <1>3, <1>5

\* A hit changes no key.
LEMMA LookupIndex ==
  ASSUME ControlInv, HeapOK, IndexOK, NEW p \in Proc,
         FetchHit(p) \/ ExistsHit(p) \/ EntryHit(p) \/ UpdateHit(p)
  PROVE  IndexOK'
<1>1. UNCHANGED <<linked, nentries>>
  BY DEF FetchHit, ExistsHit, EntryHit, UpdateHit
<1>2. PICK a \in linked, e \in Entry: heap' = [heap EXCEPT ![a] = e] /\ e.key = heap[a].key
  BY LookupWrites
<1>3. \A b \in linked: heap'[b].key = heap[b].key
  BY <1>2 DEF HeapOK, ControlInv, ControlTypeOK
<1> QED
  BY <1>1, <1>3, IndexKept

\* Steps that wait for the lock.
LEMMA LockingIndex ==
  ASSUME ControlInv, HeapOK, IndexOK, Timely, NEW p \in Proc, Locking(p)
  PROVE  IndexOK'
<1>1. CASE ExpungeAll(p) \/ ExpungeExpired(p) \/ Clear(p) \/ Delete(p)
  BY <1>1, RemovalIndex
<1>2. CASE InsertRefused(p) \/ Insert(p)
  BY <1>2, InsertIndex
<1>3. CASE FetchHit(p) \/ ExistsHit(p) \/ EntryHit(p) \/ UpdateHit(p)
  BY <1>3, LookupIndex
<1>4. CASE ExpungeSkip(p) \/ LookupMiss(p) \/ UpdateInsert(p) \/ UpdateMiss(p) \/ EntryMiss(p)
  BY <1>4, IndexKept
  DEF ExpungeSkip, LookupMiss, UpdateInsert, UpdateMiss, EntryMiss, shared
<1> QED
  BY <1>1, <1>2, <1>3, <1>4 DEF Locking

\* Steps that wait for nothing.
LEMMA RunningIndex ==
  ASSUME ControlInv, HeapOK, IndexOK, Timely, NEW p \in Proc, Running(p)
  PROVE  IndexOK'
<1>1. /\ heap \in [Addr -> Entry \cup {Free}] /\ linked \subseteq Addr
      /\ linked \subseteq Used /\ linked \subseteq Listed
  BY DEF HeapOK, ListsOK, Listed, ControlInv, ControlTypeOK
<1>2. CASE Malloc(p)
  <2>1. PICK a \in FreeAddrs: \A b \in Addr: b # a => heap'[b] = heap[b]
    BY <1>1, <1>2 DEF Malloc, FreeAddrs
  <2>2. a \notin linked
    BY <1>1 DEF Used
  <2>3. UNCHANGED <<linked, nentries>>
    BY <1>2 DEF Malloc
  <2> QED
    BY <1>1, <2>1, <2>2, <2>3, IndexKept
<1>3. CASE ExpungeShort(p) \/ ExpungeFragmented(p)
  BY <1>3, RemovalIndex
<1>4. CASE ExpungeDefrag(p)
  BY <1>4, DefragIndex
<1>5. CASE Release(p)
  BY <1>5, DecrefKeys, IndexKept DEF Release
<1>6. CASE Drop(p)
  <2>1. ptr[p] \notin linked
    BY <1>6 DEF Drop, HeapOK, ListsOK, Listed
  <2>2. \A b \in linked: heap'[b] = heap[b]
    BY <1>1, <1>6, <2>1 DEF Drop
  <2>3. UNCHANGED <<linked, nentries>>
    BY <1>6 DEF Drop
  <2> QED
    BY <2>2, <2>3, IndexKept
<1>7. CASE UnwindFetch(p)
  BY <1>7, DecrefKeys, IndexKept DEF UnwindFetch
<1>8. CASE \/ MallocFail(p) \/ ReadCleanups(p) \/ ExpungeAvail(p) \/ ExpungeDone(p)
           \/ EntryExit(p) \/ UnwindEntry(p) \/ Unwound(p)
  BY <1>8, IndexKept
  DEF MallocFail, ReadCleanups, ExpungeAvail, ExpungeDone, EntryExit, UnwindEntry, Unwound, shared
<1> QED
  BY <1>2, <1>3, <1>4, <1>5, <1>6, <1>7, <1>8 DEF Running

\* Keys and count are inductive while references are given back in time.
LEMMA NextIndex == MemoryInv /\ IndexOK /\ Timely /\ [Next]_vars => IndexOK'
<1> SUFFICES ASSUME MemoryInv, IndexOK, Timely, [Next]_vars
             PROVE  IndexOK'
  OBVIOUS
<1>1. ControlInv /\ HeapOK
  BY MemoryParts
<1>2. ASSUME NEW p \in Proc, Call(p) \/ Fail(p)
      PROVE  IndexOK'
  BY <1>2, IndexKept
  DEF Call, CallLookup, CallStore, CallUpdate, CallEntry, CallClear, Fail, PersistBailout,
     GeneratorThrow, Bailout, Crash, shared
<1>3. ASSUME NEW p \in Proc, CallbackReturn(p)
      PROVE  IndexOK'
  <2>1. CASE FetchReturn(p) \/ EntryHitReturn(p)
    BY <1>1, <2>1, DecrefKeys, IndexKept DEF FetchReturn, EntryHitReturn
  <2>2. CASE \E v \in Values: GeneratorReturn(p, v)
    BY <2>2, IndexKept DEF GeneratorReturn, shared
  <2> QED
    BY <1>3, <2>1, <2>2 DEF CallbackReturn
<1>4. CASE Tick \/ UNCHANGED vars
  BY <1>4, IndexKept DEF Tick, vars, shared
<1> QED
  BY <1>1, <1>2, <1>3, <1>4, LockingIndex, RunningIndex DEF Next

\* An empty cache.
LEMMA InitIndex == Init => IndexOK
BY FS_EmptySet DEF Init, IndexOK, KeyUnique, CountExact

-----------------------------------------------------------------------------
(* Every block is accounted for *)

\* An allocated block is on a list, a running store's own, or lost with its owner; and a
\* lost block keeps the reference it was born with, so that nothing moves or frees it.
AccountOK ==
  /\ Used \subseteq Listed \cup Private \cup lost
  /\ lost \subseteq Used /\ lost \cap (Listed \cup Private) = {}
  /\ \A a \in lost: heap[a].ref >= 1

\* What AccountOK says on top of HeapOK is Accounted.
LEMMA AccountInv ==
  ASSUME ControlInv, HeapOK, AccountOK
  PROVE  Accounted
<1>1. Private \subseteq Used \ Listed
  BY DEF Private, HeapOK, ListsOK
<1>2. Listed \subseteq Used /\ linked \cap gc = {}
  BY DEF HeapOK, ListsOK
<1>3. \A p, q \in Proc: p # q /\ ptr[p] # Null => ptr[p] # ptr[q]
  BY DEF HeapOK, ListsOK
<1> QED
  BY <1>1, <1>2, <1>3 DEF Accounted, AccountOK, Listed

\* A collecting step; N is the block it links, if it links one.
LEMMA AccountCollected ==
  ASSUME ControlInv, HeapOK, AccountOK, NEW l, NEW N,
         Collected(heap', l, gc'), NoneLeaked(heap', l, gc'), linked' = l \cup N,
         N \subseteq Private, Private' = Private \ N, lost' = lost
  PROVE  AccountOK'
<1>1. /\ heap \in [Addr -> Entry \cup {Free}] /\ heap' \in [Addr -> Entry \cup {Free}]
      /\ Listed' \subseteq Listed \cup N /\ Listed' = l \cup gc' \cup N
  BY DEF HeapOK, Collected, Listed
<1>2. \A a: /\ a \in Used <=> a \in Addr /\ heap[a] # Free
            /\ a \in Used' <=> a \in Addr /\ heap'[a] # Free
  BY DEF Used, FreeAddrs
<1>3. Used' \subseteq Listed' \cup Private' \cup lost'
  <2>1. ASSUME NEW a \in Used'
        PROVE  a \in Listed' \cup Private' \cup lost'
    <3>1. a \in Used
      BY <1>2 DEF Collected
    <3>2. a \in Listed => a \in l \cup gc'
      BY <1>2 DEF NoneLeaked
    <3> QED
      BY <1>1, <3>1, <3>2 DEF AccountOK
  <2> QED
    BY <2>1
<1>4. \A a \in lost: heap'[a] = heap[a]
  BY <1>2 DEF AccountOK, Collected
<1> QED
  BY <1>1, <1>2, <1>3, <1>4 DEF AccountOK

\* A step that leaves the lists, the owners, and which blocks are in use.
LEMMA AccountKept ==
  ASSUME HeapOK, AccountOK, UNCHANGED <<linked, gc, lost>>, Private' = Private,
         \A a \in Addr: heap'[a] = Free <=> heap[a] = Free,
         \A a \in lost: heap'[a].ref = heap[a].ref
  PROVE  AccountOK'
<1>1. Used' = Used /\ Listed' = Listed
  BY DEF Used, FreeAddrs, Listed
<1> QED
  BY <1>1 DEF AccountOK

\* The blocks of the stores that run, across a step in which at most p moves.
LEMMA PrivateKept ==
  ASSUME NEW p \in Proc, \A q \in Proc: q # p => pc'[q] = pc[q] /\ ptr'[q] = ptr[q],
         pc'[p] \in {"insert", "drop"} <=> pc[p] \in {"insert", "drop"},
         pc[p] \in {"insert", "drop"} => ptr'[p] = ptr[p]
  PROVE  Private' = Private
BY DEF Private

\* p gives up its block, or gets one.
LEMMA PrivateMoved ==
  ASSUME ControlInv, HeapOK, NEW p \in Proc,
         \A q \in Proc: q # p => pc'[q] = pc[q] /\ ptr'[q] = ptr[q]
  PROVE  /\ pc[p] \in {"insert", "drop"} /\ pc'[p] \notin {"insert", "drop"} =>
              ptr[p] \in Private /\ Private' = Private \ {ptr[p]}
         /\ pc[p] \notin {"insert", "drop"} /\ pc'[p] \in {"insert", "drop"} /\ ptr'[p] \in Addr =>
              Private' = Private \cup {ptr'[p]}
<1>1. CASE pc[p] \in {"insert", "drop"} /\ pc'[p] \notin {"insert", "drop"}
  <2>1. ptr[p] \in Addr /\ ptr[p] # Null
    BY <1>1 DEF ControlInv, ControlTypeOK, ControlOK
  <2>2. \A q \in Proc: q # p => ptr[q] # ptr[p]
    BY <2>1 DEF HeapOK, ListsOK
  <2> QED
    BY <1>1, <2>1, <2>2 DEF Private
<1>2. CASE pc[p] \notin {"insert", "drop"} /\ pc'[p] \in {"insert", "drop"} /\ ptr'[p] \in Addr
  BY <1>2 DEF Private
<1> QED
  BY <1>1, <1>2

\* A reference given back: the entry was on a list, so that no lost block changes.
LEMMA DecrefAccount ==
  ASSUME HeapOK, AccountOK, NEW x \in Listed, heap' = Decref(heap, x)
  PROVE  /\ \A a \in Addr: heap'[a] = Free <=> heap[a] = Free
         /\ \A a \in lost: heap'[a].ref = heap[a].ref
<1>1. heap \in [Addr -> Entry \cup {Free}] /\ x \in Addr /\ lost \subseteq Used /\ x \notin lost
  BY DEF HeapOK, ListsOK, AccountOK, Used
<1> QED
  BY <1>1, DecrefEntry

\* Where a step that is not a store's leaves the program counters.
Settled(p) ==
  /\ \A q \in Proc: q # p => pc'[q] = pc[q]
  /\ pc[p] \notin {"insert", "drop"} /\ pc'[p] \notin {"insert", "drop"}

\* An expunge, a clear or a deletion.
LEMMA RemovalAccount ==
  ASSUME ControlInv, HeapOK, AccountOK, Timely, NEW p \in Proc,
         \/ ExpungeAll(p) \/ ExpungeExpired(p) \/ ExpungeShort(p) \/ ExpungeFragmented(p)
         \/ Clear(p) \/ Delete(p)
  PROVE  AccountOK'
<1>1. UNCHANGED <<ptr, lost>> /\ Settled(p)
  BY ReturnKeeps DEF ExpungeAll, ExpungeExpired, ExpungeShort, ExpungeFragmented, Clear, Delete,
     ExpungeEnd, Settled, Goto, history, ControlInv, ControlTypeOK
<1>2. Private' = Private
  BY <1>1, PrivateKept DEF Settled
<1>3. Collected(heap', linked', gc') /\ NoneLeaked(heap', linked', gc')
  BY ExpungeCollected, DeleteCollected
<1>4. linked' = linked' \cup {} /\ {} \subseteq Private /\ Private = Private \ {}
  OBVIOUS
<1> QED
  BY <1>1, <1>2, <1>3, <1>4, AccountCollected

\* A refused store keeps its block to itself; the other's goes into a slot.
LEMMA InsertAccount ==
  ASSUME ControlInv, HeapOK, AccountOK, Timely, NEW p \in Proc, InsertRefused(p) \/ Insert(p)
  PROVE  AccountOK'
<1>1. CASE InsertRefused(p)
  <2>1. Collected(heap', linked', gc') /\ NoneLeaked(heap', linked', gc')
    BY <1>1, InsertCollected
  <2>2. /\ UNCHANGED <<ptr, lost>> /\ pc[p] = "insert" /\ pc'[p] = "drop"
        /\ \A q \in Proc: q # p => pc'[q] = pc[q]
    BY <1>1 DEF InsertRefused, Goto, history, ControlInv, ControlTypeOK
  <2>3. Private' = Private
    BY <2>2, PrivateKept
  <2>4. linked' = linked' \cup {} /\ {} \subseteq Private /\ Private = Private \ {}
    OBVIOUS
  <2> QED
    BY <2>1, <2>2, <2>3, <2>4, AccountCollected
<1>2. CASE Insert(p)
  <2>1. PICK S \in Replaced(p):
          /\ linked' = (linked \ S) \cup {ptr[p]}
          /\ Collected(heap', linked \ S, gc') /\ NoneLeaked(heap', linked \ S, gc')
    BY <1>2, InsertCollected
  <2>2. /\ UNCHANGED <<ptr, lost>> /\ pc[p] = "insert" /\ pc'[p] = "release"
        /\ \A q \in Proc: q # p => pc'[q] = pc[q]
    BY <1>2 DEF Insert, Goto, history, ControlInv, ControlTypeOK
  <2>3. ptr[p] \in Private /\ Private' = Private \ {ptr[p]}
    BY <2>2, PrivateMoved
  <2> DEFINE l == linked \ S
             N == {ptr[p]}
  <2>4. /\ Collected(heap', l, gc') /\ NoneLeaked(heap', l, gc') /\ linked' = l \cup N
        /\ N \subseteq Private /\ Private' = Private \ N
    BY <2>1, <2>3
  <2> HIDE DEF l, N
  <2> QED
    BY <2>2, <2>4, AccountCollected
<1> QED
  BY <1>1, <1>2

\* Defragmentation moves neither a store's block nor a lost one: both are referenced.
LEMMA DefragAccount ==
  ASSUME ControlInv, HeapOK, AccountOK, NEW p \in Proc, ExpungeDefrag(p)
  PROVE  AccountOK'
<1>1. PICK f \in [Used -> Addr]:
        /\ Compacts(f)
        /\ \A a, b \in Used: f[a] = f[b] => a = b
        /\ \A a \in Used: heap'[f[a]] = heap[a]
        /\ \A b \in Addr: heap'[b] # Free => \E a \in Used: f[a] = b
        /\ linked' = {f[a]: a \in linked} /\ gc' = {f[a]: a \in gc}
  BY DefragMap
<1>2. UNCHANGED <<ptr, lost>> /\ Settled(p)
  BY DEF ExpungeDefrag, Settled, Goto, history, ControlInv, ControlTypeOK
<1>3. Private' = Private
  BY <1>2, PrivateKept DEF Settled
<1>4. heap \in [Addr -> Entry \cup {Free}] /\ Listed \subseteq Used /\ Private \subseteq Used
  BY DEF HeapOK, ListsOK, Private
<1>5. \A a: /\ a \in Used <=> a \in Addr /\ heap[a] # Free
            /\ a \in Used' <=> a \in Addr /\ heap'[a] # Free
  BY DEF Used, FreeAddrs
<1>6. Listed' = {f[a]: a \in Listed}
  BY <1>1 DEF Listed
<1>7. ASSUME NEW a \in Private \cup lost
      PROVE  a \in Used /\ heap[a].ref >= 1 /\ f[a] = a
  <2>1. a \in Used
    BY <1>4 DEF AccountOK
  <2>2. heap[a].ref >= 1
    <3>1. CASE a \in Private
      <4>1. PICK q \in Proc: ptr[q] = a
        BY <3>1 DEF Private
      <4>2. <<q, 0>> \in Holders(a)
        BY <4>1, BoundAssumption DEF Holders
      <4> QED
        BY <1>5, <2>1, <4>2, HeldEntry
    <3> QED
      BY <3>1 DEF AccountOK
  <2>3. heap[a].ref \in Int
    BY <1>4, <1>5, <2>1, UsedEntry
  <2>4. ~Movable(heap[a])
    BY <2>2, <2>3 DEF Movable
  <2> QED
    BY <1>1, <2>1, <2>2, <2>4 DEF Compacts
<1>8. \A a \in Private \cup lost: a \in Addr /\ heap'[a] = heap[a]
  BY <1>1, <1>5, <1>7
<1>9. Used' \subseteq Listed' \cup Private' \cup lost'
  <2>1. ASSUME NEW b \in Used'
        PROVE  b \in Listed' \cup Private' \cup lost'
    <3>1. PICK a \in Used: f[a] = b
      BY <1>1, <1>5
    <3>2. a \in Listed \/ a \in Private \cup lost
      BY DEF AccountOK
    <3> QED
      BY <1>2, <1>3, <1>6, <1>7, <3>1, <3>2
  <2> QED
    BY <2>1
<1>10. lost' \subseteq Used' /\ lost' \cap Private' = {} /\ \A a \in lost': heap'[a].ref >= 1
  BY <1>2, <1>3, <1>5, <1>7, <1>8 DEF AccountOK
<1>11. ASSUME NEW b \in lost', b \in Listed'
       PROVE  FALSE
  <2>1. PICK a \in Listed: b = f[a]
    BY <1>6, <1>11
  <2>2. a = b
    BY <1>1, <1>2, <1>4, <1>7, <2>1
  <2> QED
    BY <1>2, <2>1, <2>2 DEF AccountOK
<1> QED
  BY <1>9, <1>10, <1>11 DEF AccountOK

\* A hit, of an entry that is not lost.
LEMMA LookupAccount ==
  ASSUME ControlInv, HeapOK, AccountOK, NEW p \in Proc,
         FetchHit(p) \/ ExistsHit(p) \/ EntryHit(p) \/ UpdateHit(p)
  PROVE  AccountOK'
<1>1. UNCHANGED <<linked, gc, ptr, lost>> /\ Settled(p)
  BY ReturnKeeps DEF FetchHit, ExistsHit, EntryHit, UpdateHit, Settled, history
<1>2. /\ heap \in [Addr -> Entry \cup {Free}] /\ linked \subseteq Addr
      /\ lost \cap linked = {} /\ lost \subseteq Addr /\ \A a \in linked: heap[a] # Free
  BY HeldReferenced DEF ControlInv, ControlTypeOK, HeapOK, Listed, AccountOK, Used
<1>3. PICK a \in linked, e \in Entry: heap' = [heap EXCEPT ![a] = e]
  BY LookupWrites
<1>4. /\ \A b \in Addr: heap'[b] = Free <=> heap[b] = Free
      /\ \A b \in lost: heap'[b].ref = heap[b].ref
  BY <1>2, <1>3, FreeAssumption
<1>5. Private' = Private
  BY <1>1, PrivateKept DEF Settled
<1> QED
  BY <1>1, <1>4, <1>5, AccountKept

\* A store gets its block, and the stores that give theirs up.
LEMMA StoreAccount ==
  ASSUME ControlInv, ControlInv', HeapOK, AccountOK, NEW p \in Proc,
         Malloc(p) \/ Release(p) \/ Drop(p)
  PROVE  AccountOK'
<1>1. /\ heap \in [Addr -> Entry \cup {Free}] /\ Listed' = Listed /\ lost' = lost
      /\ lost \subseteq Addr
      /\ \A q \in Proc: q # p => pc'[q] = pc[q] /\ ptr'[q] = ptr[q]
  BY DEF HeapOK, Listed, Malloc, Release, Drop, Resume, Goto, history, ControlInv, ControlTypeOK,
     AccountOK, Used
<1>2. \A a: /\ a \in Used <=> a \in Addr /\ heap[a] # Free
            /\ a \in Used' <=> a \in Addr /\ heap'[a] # Free
  BY DEF Used, FreeAddrs
<1>3. CASE Malloc(p)
  <2>1. PICK a \in FreeAddrs, e \in Entry:
          heap' = [heap EXCEPT ![a] = e] /\ ptr' = [ptr EXCEPT ![p] = a]
    <3>1. args[p] \in Args
      BY DEF ControlInv, ControlTypeOK
    <3>2. [key |-> args[p].key, val |-> args[p].val, ttl |-> args[p].ttl, ref |-> 1,
           ctime |-> args[p].ct, atime |-> args[p].ct, dtime |-> 0] \in Entry
      BY <3>1 DEF Args, Entry
    <3> QED
      BY <1>3, <3>2 DEF Malloc, InitialRef
  <2>2. /\ a \in Addr /\ a \notin Used /\ heap'[a] # Free /\ \A b \in Addr: b # a => heap'[b] = heap[b]
    BY <1>1, <2>1, FreeAssumption DEF FreeAddrs, Used
  <2>3. Used' = Used \cup {a}
    BY <1>2, <2>2
  <2>4. pc[p] = "malloc" /\ pc'[p] = "insert" /\ ptr'[p] = a
    BY <1>3, <2>1 DEF Malloc, Goto, ControlInv, ControlTypeOK
  <2>5. Private' = Private \cup {a}
    BY <1>1, <2>2, <2>4, PrivateMoved
  <2>6. lost' \cap (Listed' \cup Private') = {} /\ \A b \in lost': heap'[b].ref >= 1
    BY <1>1, <2>2, <2>5 DEF AccountOK
  <2> QED
    BY <1>1, <2>3, <2>5, <2>6 DEF AccountOK
<1>4. CASE Release(p)
  <2>1. pc[p] = "release" /\ ptr[p] \in Listed /\ pc'[p] \notin {"insert", "drop"}
    <3>1. pc[p] = "release" /\ ptr'[p] = Null
      BY <1>4 DEF Release, ControlInv, ControlTypeOK
    <3> QED
      BY <3>1 DEF HeapOK, ListsOK, ControlInv, ControlOK
  <2>2. Private' = Private
    BY <1>1, <2>1, PrivateKept
  <2>3. UNCHANGED <<linked, gc>> /\ heap' = Decref(heap, ptr[p])
    BY <1>4 DEF Release
  <2>4. /\ \A a \in Addr: heap'[a] = Free <=> heap[a] = Free
        /\ \A a \in lost: heap'[a].ref = heap[a].ref
    BY <2>1, <2>3, DecrefAccount
  <2> QED
    BY <1>1, <2>2, <2>3, <2>4, AccountKept
<1>5. CASE Drop(p)
  <2>1. pc[p] = "drop" /\ ptr[p] \in Used /\ pc'[p] \notin {"insert", "drop"}
    <3>1. pc[p] = "drop" /\ ptr'[p] = Null
      BY <1>5 DEF Drop, ControlInv, ControlTypeOK
    <3> QED
      BY <3>1 DEF HeapOK, ListsOK, ControlInv, ControlOK
  <2>2. ptr[p] \in Private /\ Private' = Private \ {ptr[p]}
    BY <1>1, <2>1, PrivateMoved
  <2>3. heap' = [heap EXCEPT ![ptr[p]] = Free]
    BY <1>5 DEF Drop
  <2>4. heap'[ptr[p]] = Free /\ \A b \in Addr: b # ptr[p] => heap'[b] = heap[b]
    BY <1>1, <1>2, <2>1, <2>3
  <2>5. Used' = Used \ {ptr[p]}
    BY <1>2, <2>4
  <2>6. ptr[p] \notin lost
    BY <2>2 DEF AccountOK
  <2> QED
    BY <1>1, <2>2, <2>4, <2>5, <2>6 DEF AccountOK
<1> QED
  BY <1>3, <1>4, <1>5

\* A request that ends between allocation and insertion loses its block, reference and all.
LEMMA FailAccount ==
  ASSUME ControlInv, HeapOK, AccountOK, NEW p \in Proc, Fail(p)
  PROVE  AccountOK'
<1>1. /\ Used' = Used /\ Listed' = Listed /\ heap' = heap
      /\ \A q \in Proc: q # p => pc'[q] = pc[q] /\ ptr'[q] = ptr[q]
      /\ pc'[p] \notin {"insert", "drop"}
  BY DEF Fail, PersistBailout, GeneratorThrow, Bailout, Crash, Goto, shared, ControlInv,
     ControlTypeOK, Used, FreeAddrs, Listed
<1>2. CASE pc[p] \in {"insert", "drop"}
  <2>1. ptr[p] \in Private /\ Private' = Private \ {ptr[p]}
    BY <1>1, <1>2, PrivateMoved
  <2>2. lost' = lost \cup {ptr[p]}
    BY <1>2 DEF Fail, PersistBailout, GeneratorThrow, Bailout, Crash, InCallback
  <2>3. ptr[p] \in Used \ Listed /\ heap[ptr[p]].ref >= 1
    <3>1. ptr[p] \in Used \ Listed /\ ptr[p] \in Addr
      BY <1>2 DEF HeapOK, ListsOK, Used
    <3>2. <<p, 0>> \in Holders(ptr[p])
      BY BoundAssumption DEF Holders
    <3> QED
      BY <3>1, <3>2, HeldEntry
  <2> QED
    BY <1>1, <2>1, <2>2, <2>3 DEF AccountOK
<1>3. CASE pc[p] \notin {"insert", "drop"}
  <2>1. lost' = lost
    BY <1>3 DEF Fail, PersistBailout, GeneratorThrow, Bailout, Crash, history
  <2>2. Private' = Private
    BY <1>1, <1>3, PrivateKept
  <2> QED
    BY <1>1, <2>1, <2>2 DEF AccountOK
<1> QED
  BY <1>2, <1>3

\* A step that leaves the segment alone, and moves p between other places.
LEMMA AccountQuiet ==
  ASSUME HeapOK, AccountOK, NEW p \in Proc, UNCHANGED <<heap, linked, gc, ptr, lost>>, Settled(p)
  PROVE  AccountOK'
<1>1. Private' = Private
  BY PrivateKept DEF Settled
<1> QED
  BY <1>1, AccountKept

\* A callback ends, and its reference with it.
LEMMA PopAccount ==
  ASSUME ControlInv, HeapOK, AccountOK, NEW p \in Proc,
         FetchReturn(p) \/ EntryHitReturn(p) \/ UnwindFetch(p)
  PROVE  AccountOK'
<1>1. /\ UNCHANGED <<linked, gc, ptr, lost, pc>> /\ pc[p] \in {"user", "bail"}
      /\ stack[p] # <<>> /\ Top(p).kind \in Pinning /\ heap' = Decref(heap, Top(p).addr)
  BY DEF FetchReturn, EntryHitReturn, UnwindFetch, InCallback, Pinning, history
<1>2. Top(p).addr \in Listed
  <2>1. Len(stack[p]) \in 1..Len(stack[p])
    BY <1>1, LenProperties, EmptySeq DEF ControlInv, ControlTypeOK
  <2> QED
    BY <1>1, <2>1 DEF HeapOK, ListsOK, Top
<1>3. /\ \A a \in Addr: heap'[a] = Free <=> heap[a] = Free
      /\ \A a \in lost: heap'[a].ref = heap[a].ref
  BY <1>1, <1>2, DecrefAccount
<1>4. Private' = Private
  BY <1>1 DEF Private
<1> QED
  BY <1>1, <1>3, <1>4, AccountKept

\* Ownership is inductive while references are given back in time.
LEMMA NextAccount == MemoryInv /\ AccountOK /\ Timely /\ [Next]_vars => AccountOK'
<1> SUFFICES ASSUME MemoryInv, AccountOK, Timely, [Next]_vars
             PROVE  AccountOK'
  OBVIOUS
<1>1. ControlInv /\ HeapOK /\ ControlInv'
  BY MemoryParts, NextControl
<1>2. ASSUME NEW p \in Proc, Call(p)
      PROVE  AccountOK'
  <2>1. UNCHANGED <<heap, linked, gc, ptr, lost>> /\ Settled(p)
    BY <1>1, <1>2 DEF Call, CallLookup, CallStore, CallUpdate, CallEntry, CallClear, Calls, Settled,
       Goto, shared, history, ControlInv, ControlTypeOK
  <2> QED
    BY <1>1, <2>1, AccountQuiet
<1>3. ASSUME NEW p \in Proc, CallbackReturn(p)
      PROVE  AccountOK'
  <2>1. CASE FetchReturn(p) \/ EntryHitReturn(p)
    BY <1>1, <2>1, PopAccount
  <2>2. CASE \E v \in Values: GeneratorReturn(p, v)
    <3>1. UNCHANGED <<heap, linked, gc, ptr, lost>> /\ Settled(p)
      BY <1>1, <2>2 DEF GeneratorReturn, InCallback, Settled, Goto, shared, history, ControlInv, ControlTypeOK
    <3> QED
      BY <1>1, <3>1, AccountQuiet
  <2> QED
    BY <1>3, <2>1, <2>2 DEF CallbackReturn
<1>4. ASSUME NEW p \in Proc, Locking(p)
      PROVE  AccountOK'
  <2>1. CASE ExpungeAll(p) \/ ExpungeExpired(p) \/ Clear(p) \/ Delete(p)
    BY <1>1, <2>1, RemovalAccount
  <2>2. CASE InsertRefused(p) \/ Insert(p)
    BY <1>1, <2>2, InsertAccount
  <2>3. CASE FetchHit(p) \/ ExistsHit(p) \/ EntryHit(p) \/ UpdateHit(p)
    BY <1>1, <2>3, LookupAccount
  <2>4. CASE ExpungeSkip(p) \/ LookupMiss(p) \/ UpdateInsert(p) \/ UpdateMiss(p) \/ EntryMiss(p)
    <3>1. UNCHANGED <<heap, linked, gc, ptr, lost>> /\ Settled(p)
      BY <1>1, <2>4 DEF ExpungeSkip, LookupMiss, UpdateInsert, UpdateMiss, EntryMiss, Return,
         Settled, Goto, shared, history, ControlInv, ControlTypeOK
    <3> QED
      BY <1>1, <3>1, AccountQuiet
  <2> QED
    BY <1>4, <2>1, <2>2, <2>3, <2>4 DEF Locking
<1>5. ASSUME NEW p \in Proc, Running(p)
      PROVE  AccountOK'
  <2>1. CASE Malloc(p) \/ Release(p) \/ Drop(p)
    BY <1>1, <2>1, StoreAccount
  <2>2. CASE ExpungeShort(p) \/ ExpungeFragmented(p)
    BY <1>1, <2>2, RemovalAccount
  <2>3. CASE ExpungeDefrag(p)
    BY <1>1, <2>3, DefragAccount
  <2>4. CASE UnwindFetch(p)
    BY <1>1, <2>4, PopAccount
  <2>5. CASE \/ MallocFail(p) \/ ReadCleanups(p) \/ ExpungeAvail(p) \/ ExpungeDone(p)
             \/ EntryExit(p) \/ UnwindEntry(p) \/ Unwound(p)
    <3>1. UNCHANGED <<heap, linked, gc, ptr, lost>> /\ pc[p] \notin {"insert", "drop"}
      BY <2>5 DEF MallocFail, ReadCleanups, ExpungeAvail, ExpungeDone, ExpungeEnd, EntryExit,
         UnwindEntry, Unwound, shared, history
    <3>2. \E l \in {"user", "update", "exit", "nomem", "expunge", "defrag", "malloc", "bail"}:
             pc' = [pc EXCEPT ![p] = l]
      BY <1>1, <2>5, ResumeType DEF MallocFail, ReadCleanups, ExpungeAvail, ExpungeDone, ExpungeEnd,
         EntryExit, UnwindEntry, Unwound, Goto, ControlInv, ControlTypeOK
    <3>3. Settled(p)
      BY <1>1, <3>1, <3>2 DEF Settled, ControlInv, ControlTypeOK
    <3> QED
      BY <1>1, <3>1, <3>3, AccountQuiet
  <2> QED
    BY <1>5, <2>1, <2>2, <2>3, <2>4, <2>5 DEF Running
<1>6. CASE Tick \/ UNCHANGED vars
  <2>1. UNCHANGED <<heap, linked, gc, ptr, lost, pc>>
    BY <1>6 DEF Tick, vars, shared, history
  <2>2. Private' = Private
    BY <2>1 DEF Private
  <2> QED
    BY <1>1, <2>1, <2>2, AccountKept
<1> QED
  BY <1>1, <1>2, <1>3, <1>4, <1>5, <1>6, FailAccount DEF Next

\* An empty segment.
LEMMA InitAccount == Init => AccountOK
BY DEF Init, AccountOK, Used, FreeAddrs

-----------------------------------------------------------------------------
(* Index: theorems *)

\* While running code gives back in time what it holds, no two entries in the slots have
\* the same key, though each insert allocates its entry before it takes the lock:
\* apc_cache_wlocked_insert.
THEOREM KeysUnique == Spec => ([]Timely => []KeyUnique)
<1>1. MemoryInv /\ IndexOK /\ Timely /\ [Next]_vars => (MemoryInv /\ IndexOK)'
  BY NextMemory, NextIndex
<1>2. Spec /\ []Timely => [](MemoryInv /\ IndexOK)
  BY <1>1, InitMemory, InitIndex, PTL DEF Spec
<1>3. IndexOK => KeyUnique
  BY DEF IndexOK
<1> QED
  BY <1>2, <1>3, PTL

\* Under the same condition nentries, which an expunge resets and every removal decrements
\* under a guard, is the number of entries in the slots: apc_cache_wlocked_remove_entry.
THEOREM CountIsExact == Spec => ([]Timely => []CountExact)
<1>1. MemoryInv /\ IndexOK /\ Timely /\ [Next]_vars => (MemoryInv /\ IndexOK)'
  BY NextMemory, NextIndex
<1>2. Spec /\ []Timely => [](MemoryInv /\ IndexOK)
  BY <1>1, InitMemory, InitIndex, PTL DEF Spec
<1>3. IndexOK => CountExact
  BY DEF IndexOK
<1> QED
  BY <1>2, <1>3, PTL

\* Under the same condition no block leaks and none has two owners, whichever request ends
\* in the middle of a store: every allocated block is in a slot, on the gc list, a running
\* store's, or lost with the request that had just allocated it.
THEOREM NoBlockLeaks == Spec => ([]Timely => []Accounted)
<1>1. MemoryInv /\ AccountOK /\ Timely /\ [Next]_vars => (MemoryInv /\ AccountOK)'
  BY NextMemory, NextAccount
<1>2. Spec /\ []Timely => [](MemoryInv /\ AccountOK)
  BY <1>1, InitMemory, InitAccount, PTL DEF Spec
<1>3. MemoryInv /\ AccountOK => Accounted
  BY MemoryParts, AccountInv
<1> QED
  BY <1>2, <1>3, PTL

-----------------------------------------------------------------------------
(* Expunges that wait *)

\* The counter an expunge has read is not ahead of the header's, and behind it if another
\* expunge has completed since; a store that goes to an expunge has not done one.
BehindOK(p) ==
  /\ pc[p] # "clear"
  /\ pc[p] \in {"nomem", "expunge"} => ~args[p].nuked
  /\ pc[p] = "expunge" => /\ args[p].ncl <= ncleanups
                          /\ args[p].missed => args[p].ncl < ncleanups

CountersOK == \A p \in Proc: BehindOK(p)

\* The end of an expunge: those that wait are behind from now on.
LEMMA EndBehind ==
  ASSUME ControlInv, CountersOK, NEW p \in Proc, pc[p] # "clear", ExpungeEnd(p)
  PROVE  CountersOK'
<1>1. /\ pc \in [Proc -> PCs] /\ args \in [Proc -> Args] /\ ncleanups \in Nat
      /\ pc' = [pc EXCEPT ![p] = "malloc"] /\ ncleanups' = ncleanups + 1
  BY DEF ControlInv, ControlTypeOK, ExpungeEnd, Goto
<1>2. ASSUME NEW q \in Proc, q # p
      PROVE  BehindOK(q)'
  <2>1. /\ pc'[q] = pc[q] /\ BehindOK(q) /\ args[q] \in Args
        /\ args'[q] = IF pc[q] = "expunge" THEN [args[q] EXCEPT !.missed = TRUE] ELSE args[q]
    BY <1>1, <1>2 DEF ExpungeEnd, CountersOK
  <2>2. args'[q].nuked = args[q].nuked /\ args'[q].ncl = args[q].ncl /\ args[q].ncl \in Nat
    BY <2>1 DEF Args
  <2> QED
    BY <1>1, <2>1, <2>2 DEF BehindOK
<1>3. BehindOK(p)'
  BY <1>1 DEF BehindOK
<1> QED
  BY <1>2, <1>3 DEF CountersOK

\* A step of p that leaves the counter, and leads to no expunge.
LEMMA ElsewhereBehind ==
  ASSUME ControlInv, CountersOK, NEW p \in Proc, ncleanups' = ncleanups,
         pc'[p] \notin {"clear", "nomem", "expunge"},
         \A q \in Proc: q # p => pc'[q] = pc[q] /\ args'[q] = args[q]
  PROVE  CountersOK'
BY DEF CountersOK, BehindOK

\* The counters are in order as long as nobody clears the cache.
LEMMA NextCounters ==
  ASSUME \A p \in Proc: "clear" \notin Ops[p]
  PROVE  ControlInv /\ CountersOK /\ [Next]_vars => CountersOK'
<1> SUFFICES ASSUME ControlInv, CountersOK, [Next]_vars
             PROVE  CountersOK'
  OBVIOUS
<1> USE DEF Goto, shared
<1>1. pc \in [Proc -> PCs] /\ args \in [Proc -> Args]
  BY DEF ControlInv, ControlTypeOK
<1>2. ASSUME NEW p \in Proc, Call(p)
      PROVE  CountersOK'
  <2>1. CASE CallClear(p)
    BY <2>1 DEF CallClear, Calls
  <2>2. CASE ~CallClear(p)
    <3>1. /\ \E l \in {"malloc", "fetch", "exists", "delete", "update", "entry"}:
               pc' = [pc EXCEPT ![p] = l]
          /\ \E r: args' = [args EXCEPT ![p] = r]
          /\ ncleanups' = ncleanups
      BY <1>2, <2>2 DEF Call, CallLookup, CallStore, CallUpdate, CallEntry
    <3> QED
      BY <1>1, <3>1, ElsewhereBehind
  <2> QED
    BY <2>1, <2>2
<1>3. ASSUME NEW p \in Proc, Locking(p)
      PROVE  CountersOK'
  <2>1. CASE ExpungeAll(p)
    BY <2>1, EndBehind DEF ExpungeAll
  <2>2. CASE Clear(p)
    BY <2>2 DEF Clear, CountersOK, BehindOK
  <2>3. CASE \/ ExpungeSkip(p) \/ ExpungeExpired(p) \/ InsertRefused(p) \/ Insert(p)
             \/ UpdateInsert(p)
    BY <1>1, <2>3, ElsewhereBehind
    DEF ExpungeSkip, ExpungeExpired, InsertRefused, Insert, UpdateInsert
  <2>4. CASE \/ FetchHit(p) \/ ExistsHit(p) \/ LookupMiss(p) \/ UpdateHit(p) \/ UpdateMiss(p)
             \/ Delete(p) \/ EntryHit(p) \/ EntryMiss(p)
    BY <1>1, <2>4, ElsewhereBehind DEF FetchHit, ExistsHit, LookupMiss, UpdateHit, UpdateMiss,
       Delete, EntryHit, EntryMiss, Return
  <2> QED
    BY <1>3, <2>1, <2>2, <2>3, <2>4 DEF Locking
<1>4. ASSUME NEW p \in Proc, Running(p)
      PROVE  CountersOK'
  <2>1. CASE ExpungeShort(p) \/ ExpungeFragmented(p) \/ ExpungeDone(p)
    BY <2>1, EndBehind DEF ExpungeShort, ExpungeFragmented, ExpungeDone
  <2>2. CASE MallocFail(p) \/ Release(p) \/ Drop(p)
    <3>1. ASSUME Resume(p)
          PROVE  /\ pc'[p] \notin {"clear", "nomem", "expunge"} /\ ncleanups' = ncleanups
                 /\ \A q \in Proc: q # p => pc'[q] = pc[q] /\ args'[q] = args[q]
      <4>1. \E l \in {"user", "update", "exit"}: pc' = [pc EXCEPT ![p] = l]
        BY <3>1, ResumeType DEF ControlInv
      <4> QED
        BY <1>1, <2>2, <3>1, <4>1 DEF Resume, MallocFail, Release, Drop
    <3>2. CASE Resume(p)
      BY <3>1, <3>2, ElsewhereBehind
    <3>3. CASE ~Resume(p)
      <4>1. /\ pc' = [pc EXCEPT ![p] = "nomem"] /\ ~args[p].nuked
            /\ UNCHANGED <<args, ncleanups>>
        BY <2>2, <3>3 DEF MallocFail, Release, Drop
      <4> QED
        BY <1>1, <4>1 DEF CountersOK, BehindOK
    <3> QED
      BY <3>2, <3>3
  <2>3. CASE ReadCleanups(p)
    <3>1. /\ pc' = [pc EXCEPT ![p] = "expunge"] /\ ncleanups' = ncleanups /\ ncleanups \in Nat
          /\ pc[p] = "nomem"
          /\ args' = [args EXCEPT ![p].ncl = ncleanups, ![p].xt = now, ![p].missed = FALSE]
      BY <2>3 DEF ReadCleanups, ControlInv, ControlTypeOK
    <3>2. /\ args'[p].nuked = args[p].nuked /\ args'[p].ncl = ncleanups /\ args'[p].missed = FALSE
          /\ \A q \in Proc: q # p => args'[q] = args[q]
      BY <1>1, <3>1 DEF Args
    <3> QED
      BY <1>1, <3>1, <3>2 DEF CountersOK, BehindOK
  <2>4. CASE \/ Malloc(p) \/ ExpungeAvail(p) \/ ExpungeDefrag(p) \/ EntryExit(p)
             \/ UnwindFetch(p) \/ UnwindEntry(p) \/ Unwound(p)
    BY <1>1, <2>4, ElsewhereBehind DEF Malloc, ExpungeAvail, ExpungeDefrag, EntryExit,
       UnwindFetch, UnwindEntry, Unwound
  <2> QED
    BY <1>4, <2>1, <2>2, <2>3, <2>4 DEF Running
<1>5. ASSUME NEW p \in Proc, CallbackReturn(p) \/ Fail(p)
      PROVE  CountersOK'
  BY <1>1, <1>5, ElsewhereBehind DEF CallbackReturn, FetchReturn, EntryHitReturn,
     GeneratorReturn, InCallback, Fail, PersistBailout, GeneratorThrow, Bailout, Crash
<1>6. CASE Tick \/ UNCHANGED vars
  BY <1>6 DEF Tick, vars, CountersOK, BehindOK
<1> QED
  BY <1>2, <1>3, <1>4, <1>5, <1>6 DEF Next

\* No expunge runs at first.
LEMMA InitCounters == Init => CountersOK
BY DEF Init, CountersOK, BehindOK

\* Nobody but p moves p.
LEMMA OwnPlace ==
  ASSUME ControlInv, NEW p \in Proc, NEW q \in Proc, q # p,
         Call(q) \/ Locking(q) \/ Running(q) \/ CallbackReturn(q) \/ Fail(q)
  PROVE  pc'[p] = pc[p]
<1> USE DEF Goto
<1>1. pc \in [Proc -> PCs]
  BY DEF ControlInv, ControlTypeOK
<1>2. ASSUME NEW l, pc' = [pc EXCEPT ![q] = l]
      PROVE  pc'[p] = pc[p]
  BY <1>1, <1>2
<1>3. CASE Call(q)
  BY <1>2, <1>3 DEF Call, CallLookup, CallStore, CallUpdate, CallEntry, CallClear
<1>4. CASE Locking(q)
  BY <1>2, <1>4 DEF Locking, ExpungeSkip, ExpungeAll, ExpungeExpired, ExpungeEnd, InsertRefused,
     Insert, FetchHit, ExistsHit, LookupMiss, UpdateHit, UpdateInsert, UpdateMiss, Delete, Clear,
     EntryHit, EntryMiss, Return
<1>5. CASE Running(q)
  BY <1>2, <1>5 DEF Running, Malloc, MallocFail, ReadCleanups, ExpungeShort, ExpungeAvail,
     ExpungeDefrag, ExpungeFragmented, ExpungeDone, ExpungeEnd, Release, Drop, Resume, EntryExit,
     UnwindFetch, UnwindEntry, Unwound
<1>6. CASE CallbackReturn(q) \/ Fail(q)
  BY <1>2, <1>6 DEF CallbackReturn, FetchReturn, EntryHitReturn, GeneratorReturn, Fail,
     PersistBailout, GeneratorThrow, Bailout, Crash
<1> QED
  BY <1>3, <1>4, <1>5, <1>6

\* Who leaves an expunge that another one has overtaken has done nothing.
LEMMA OvertakenSkips ==
  ASSUME ControlInv, CountersOK, [Next]_vars, NEW p \in Proc,
         pc[p] = "expunge", pc'[p] \notin {"expunge", "dead"}, args[p].missed
  PROVE  pc'[p] = "malloc" /\ ~args'[p].nuked
<1> USE DEF Goto, shared
<1>1. /\ pc \in [Proc -> PCs] /\ args \in [Proc -> Args] /\ Stacked(p) /\ ~args[p].nuked
  BY DEF ControlInv, ControlTypeOK, CountersOK, BehindOK, Stacked
<1>2. CASE ExpungeSkip(p)
  BY <1>1, <1>2 DEF ExpungeSkip
<1>3. ~(Tick \/ UNCHANGED vars)
  BY DEF Tick, vars
<1>4. PICK q \in Proc: Call(q) \/ Locking(q) \/ Running(q) \/ CallbackReturn(q) \/ Fail(q)
  BY <1>3 DEF Next
<1>5. q = p
  BY <1>4, OwnPlace
<1>6. ~Call(p) /\ ~CallbackReturn(p)
  BY DEF Call, CallLookup, CallStore, CallUpdate, CallEntry, CallClear, Calls, CallbackReturn,
     FetchReturn, EntryHitReturn, GeneratorReturn, InCallback
<1>7. Locking(p) => ExpungeSkip(p)
  BY <1>1 DEF Locking, ExpungeAll, ExpungeExpired, InsertRefused, Insert, FetchHit, ExistsHit,
     LookupMiss, UpdateHit, UpdateInsert, UpdateMiss, Delete, Clear, EntryHit, EntryMiss
<1>8. ~Running(p)
  BY DEF Running, Malloc, MallocFail, ReadCleanups, ExpungeShort, ExpungeAvail, ExpungeDefrag,
     ExpungeFragmented, ExpungeDone, Release, Drop, EntryExit, UnwindFetch, UnwindEntry, Unwound
<1>9. ~Fail(p)
  BY <1>1 DEF Fail, PersistBailout, GeneratorThrow, Bailout, Crash, InCallback
<1> QED
  BY <1>2, <1>4, <1>5, <1>6, <1>7, <1>8, <1>9

\* Unless somebody clears the cache, which resets the counter, an expunge that waited for
\* the lock while another one completed removes nothing and is not counted as the store's
\* own, for any number of processes that wait (comment in apc_cache_default_expunge).
THEOREM OvertakenExpungesSkip ==
  (\A p \in Proc: "clear" \notin Ops[p]) => (Spec => NoStackedExpunge)
<1> SUFFICES ASSUME \A p \in Proc: "clear" \notin Ops[p]
             PROVE  Spec => NoStackedExpunge
  OBVIOUS
<1>1. ControlInv /\ CountersOK /\ [Next]_vars => (ControlInv /\ CountersOK)'
  BY NextControl, NextCounters
<1>2. Init => ControlInv /\ CountersOK
  BY InitControl, InitCounters
<1>3. ControlInv /\ CountersOK /\ [Next]_vars =>
        [\A p \in Proc:
           pc[p] = "expunge" /\ pc'[p] \notin {"expunge", "dead"} /\ args[p].missed
             => pc'[p] = "malloc" /\ ~args'[p].nuked]_vars
  BY OvertakenSkips
<1> QED
  BY <1>1, <1>2, <1>3, PTL DEF Spec, NoStackedExpunge

-----------------------------------------------------------------------------
(* Expunges that are done *)

Expunges == {"nomem", "expunge", "avail", "defrag", "contig"}

\* A store has not expunged before it does; after its gc pass no entry that it could free
\* is left on the gc list; and when it tries again, there is a free block, or none that
\* could be.
RoomOK == \A p \in Proc:
  /\ pc[p] \in {"nomem", "expunge", "update"} => ~args[p].nuked
  /\ pc[p] \in {"avail", "defrag", "contig"} => \A a \in gc: heap[a].ref > 0
  /\ pc[p] = "malloc" /\ args[p].nuked =>
       FreeAddrs # {} \/ \A a \in Addr: heap[a].ref > 0

Alone == \A p, q \in Proc: p = q

\* The wipe frees what nobody references.
LEMMA WipeFrees ==
  ASSUME Alone, ControlInv, HeapOK, AccountOK, NEW p \in Proc, pc[p] \notin {"insert", "drop"},
         \/ RealExpunge /\ \A a \in gc: heap[a].ref > 0
         \/ RealExpungeGc
  PROVE  FreeAddrs' # {} \/ \A a \in Addr: heap'[a].ref > 0
<1> DEFINE h == HeapRemove(heap, linked)
           g == GcAdd(heap, gc, linked)
<1>1. /\ Private = {} /\ Used \subseteq Listed \cup lost /\ lost \cap Listed = {}
      /\ linked \cap gc = {} /\ heap \in [Addr -> Entry \cup {Free}]
      /\ linked \subseteq Used /\ \A a \in lost: heap[a].ref >= 1
  BY DEF Alone, Listed, Private, AccountOK, HeapOK, ListsOK
<1>2. ASSUME NEW a \in Addr, heap'[a] # Free
      PROVE  heap'[a].ref > 0
  <2>1. heap[a] # Free => heap[a] \in Entry /\ heap[a].ref \in Int /\ a \in Used
    BY <1>1, UsedEntry
  <2>2. h[a] # Free => heap[a] # Free
    BY <1>1 DEF HeapRemove, Used, FreeAddrs
  <2>3. a \in linked /\ h[a] # Free => h[a].ref > 0
    BY <2>1, <2>2 DEF HeapRemove, Unreferenced, Entry
  <2>4. a \notin linked => h[a] = heap[a]
    BY DEF HeapRemove
  <2>5. CASE heap' = h /\ \A b \in gc: heap[b].ref > 0
    BY <1>1, <1>2, <2>1, <2>2, <2>3, <2>4, <2>5 DEF Listed
  <2>6. CASE heap' = HeapGc(h, g)
    <3>1. heap'[a] = h[a] /\ (a \in g => GcKeeps(h[a]))
      BY <1>2, <2>6 DEF HeapGc
    <3>2. a \in gc => a \in g
      BY DEF GcAdd
    <3> QED
      BY <1>1, <1>2, <2>1, <2>2, <2>3, <2>4, <3>1, <3>2 DEF Listed, GcKeeps
  <2> QED
    BY <2>5, <2>6 DEF RealExpunge, RealExpungeGc
<1> QED
  BY <1>2 DEF FreeAddrs

\* So there is room after an expunge, if there can be any.
LEMMA ExpungeRoom ==
  ASSUME Alone, ControlInv, HeapOK, AccountOK, RoomOK, NEW p \in Proc,
         ExpungeAll(p) \/ ExpungeShort(p) \/ ExpungeFragmented(p) \/ ExpungeDone(p)
  PROVE  RoomOK'
<1>1. pc'[p] = "malloc"
  BY DEF ExpungeAll, ExpungeShort, ExpungeFragmented, ExpungeDone, ExpungeEnd, Goto, ControlInv,
     ControlTypeOK
<1>2. CASE ExpungeDone(p)
  <2>1. FreeAddrs # {}
    <3>1. PICK a \in Addr: a..(a + Need - 1) \subseteq FreeAddrs
      BY <1>2 DEF ExpungeDone, Contiguous
    <3>2. a \in a..(a + Need - 1)
      BY TtlAssumption DEF Need, Addr
    <3> QED
      BY <3>1, <3>2
  <2>2. FreeAddrs' = FreeAddrs
    BY <1>2 DEF ExpungeDone, FreeAddrs
  <2> QED
    BY <1>1, <2>1, <2>2 DEF RoomOK, Alone
<1>3. CASE ExpungeAll(p) \/ ExpungeShort(p) \/ ExpungeFragmented(p)
  <2>1. /\ pc[p] \notin {"insert", "drop"}
        /\ RealExpungeGc \/ (RealExpunge /\ \A a \in gc: heap[a].ref > 0)
    BY <1>3 DEF ExpungeAll, ExpungeShort, ExpungeFragmented, RoomOK
  <2>2. FreeAddrs' # {} \/ \A a \in Addr: heap'[a].ref > 0
    BY <2>1, WipeFrees
  <2> QED
    BY <1>1, <2>2 DEF RoomOK, Alone
<1> QED
  BY <1>2, <1>3

\* The gc pass of an expunge, and the steps up to the last check, leave only referenced
\* entries on the gc list.
LEMMA ExpungeGcRoom ==
  ASSUME Alone, ControlInv, HeapOK, RoomOK, NEW p \in Proc,
         ExpungeExpired(p) \/ ExpungeAvail(p) \/ ExpungeDefrag(p)
  PROVE  RoomOK'
<1>1. pc'[p] \in {"avail", "defrag", "contig"}
  BY DEF ExpungeExpired, ExpungeAvail, ExpungeDefrag, Goto, ControlInv, ControlTypeOK
<1>2. \A a \in gc': heap'[a].ref > 0
  <2>1. CASE ExpungeExpired(p)
    <3> DEFINE S == {a \in linked: Expired(heap[a], args[p].xt)}
               h == HeapRemove(heap, S)
               g == GcAdd(heap, gc, S)
    <3>1. heap' = HeapGc(h, g) /\ gc' = GcList(h, g) /\ g \subseteq Addr
      BY <2>1 DEF ExpungeExpired, GcAdd, HeapOK, ControlInv, ControlTypeOK
    <3> HIDE DEF h, g
    <3>2. \A a \in gc': a \in Addr /\ heap'[a] = h[a] /\ GcKeeps(h[a])
      BY <3>1 DEF HeapGc, GcList
    <3> QED
      BY <3>2 DEF GcKeeps
  <2>2. CASE ExpungeAvail(p)
    BY <2>2 DEF ExpungeAvail, shared, RoomOK
  <2>3. CASE ExpungeDefrag(p)
    <3>1. PICK f \in [Used -> Addr]:
            /\ \A a \in Used: heap'[f[a]] = heap[a]
            /\ gc' = {f[a]: a \in gc}
      BY <2>3, DefragMap
    <3>2. gc \subseteq Used /\ \A a \in gc: heap[a].ref > 0
      BY <2>3 DEF ExpungeDefrag, RoomOK, HeapOK, ListsOK, Listed
    <3> QED
      BY <3>1, <3>2
  <2> QED
    BY <2>1, <2>2, <2>3
<1> QED
  BY <1>1, <1>2 DEF RoomOK, Alone

\* A step of p that leads to no expunge.
LEMMA ElsewhereRoom ==
  ASSUME Alone, NEW p \in Proc,
         \/ pc'[p] \notin {"avail", "defrag", "contig"} /\ ~args'[p].nuked
         \/ pc'[p] \notin Expunges \cup {"malloc", "update"}
  PROVE  RoomOK'
BY DEF Alone, RoomOK, Expunges

\* Room is what an expunge leaves, for a process that is alone.
LEMMA NextRoom ==
  ASSUME Alone
  PROVE  MemoryInv /\ AccountOK /\ RoomOK /\ [Next]_vars => RoomOK'
<1> SUFFICES ASSUME MemoryInv, AccountOK, RoomOK, [Next]_vars
             PROVE  RoomOK'
  OBVIOUS
<1> USE DEF Goto, shared
<1>1. ControlInv /\ HeapOK /\ pc \in [Proc -> PCs] /\ args \in [Proc -> Args]
  BY MemoryParts DEF ControlInv, ControlTypeOK
<1>2. ASSUME NEW p \in Proc, Call(p) \/ CallbackReturn(p) \/ Fail(p)
      PROVE  RoomOK'
  <2>1. NoArgs.nuked = FALSE
    BY DEF NoArgs
  <2>2. CASE CallClear(p) \/ FetchReturn(p) \/ EntryHitReturn(p) \/ Fail(p)
    BY <1>1, <2>2, ElsewhereRoom DEF CallClear, FetchReturn, EntryHitReturn, InCallback, Fail,
       PersistBailout, GeneratorThrow, Bailout, Crash, Expunges
  <2>3. CASE \E k \in Key: CallLookup(p, k)
    BY <1>1, <2>3, ElsewhereRoom DEF CallLookup, Expunges
  <2>4. ASSUME NEW k, NEW ttl, NEW v,
               CallStore(p, k, v, ttl) \/ CallUpdate(p, k, ttl) \/ CallEntry(p, k, ttl)
                 \/ GeneratorReturn(p, v)
        PROVE  RoomOK'
    <3>1. pc'[p] \in {"malloc", "update", "entry"}
      BY <1>1, <2>4 DEF CallStore, CallUpdate, CallEntry, GeneratorReturn
    <3>2. args'[p].nuked = FALSE
      <4>1. CASE CallStore(p, k, v, ttl)
        <5>1. PICK op \in {"store", "add"}:
                args' = [args EXCEPT ![p] = [NoArgs EXCEPT !.key = k, !.val = v, !.ttl = ttl,
                                                           !.ct = now, !.excl = (op = "add")]]
          BY <4>1 DEF CallStore
        <5>2. args'[p] = [NoArgs EXCEPT !.key = k, !.val = v, !.ttl = ttl, !.ct = now,
                                        !.excl = (op = "add")]
          BY <1>1, <5>1
        <5> QED
          BY <5>2 DEF NoArgs
      <4>2. CASE CallUpdate(p, k, ttl)
        <5>1. args'[p] = [NoArgs EXCEPT !.key = k, !.ttl = ttl, !.t = now, !.insert = TRUE]
          BY <1>1, <4>2 DEF CallUpdate
        <5> QED
          BY <5>1 DEF NoArgs
      <4>3. CASE CallEntry(p, k, ttl)
        <5>1. args'[p] = [NoArgs EXCEPT !.key = k, !.ttl = ttl, !.t = now]
          BY <1>1, <4>3 DEF CallEntry
        <5> QED
          BY <5>1 DEF NoArgs
      <4>4. CASE GeneratorReturn(p, v)
        <5>1. args'[p] = [NoArgs EXCEPT !.key = Top(p).key, !.val = v, !.ttl = Top(p).ttl,
                                        !.ct = now, !.excl = TRUE, !.then = "exit"]
          BY <1>1, <4>4 DEF GeneratorReturn
        <5> QED
          BY <5>1 DEF NoArgs
      <4> QED
        BY <2>4, <4>1, <4>2, <4>3, <4>4
    <3> QED
      BY <3>1, <3>2, ElsewhereRoom
  <2> QED
    BY <1>2, <2>2, <2>3, <2>4 DEF Call, CallbackReturn
<1>3. ASSUME NEW p \in Proc, Locking(p)
      PROVE  RoomOK'
  <2>1. CASE ExpungeAll(p) \/ ExpungeExpired(p)
    BY <1>1, <2>1, ExpungeRoom, ExpungeGcRoom
  <2>2. CASE ExpungeSkip(p)
    BY <1>1, <2>2, ElsewhereRoom DEF ExpungeSkip, RoomOK
  <2>3. CASE UpdateInsert(p)
    <3>1. pc[p] = "update" /\ pc'[p] = "malloc" /\ args'[p].nuked = args[p].nuked
      BY <1>1, <2>3 DEF UpdateInsert, Args
    <3> QED
      BY <3>1, ElsewhereRoom DEF RoomOK
  <2>4. CASE \/ InsertRefused(p) \/ Insert(p) \/ FetchHit(p) \/ ExistsHit(p) \/ LookupMiss(p)
             \/ UpdateHit(p) \/ UpdateMiss(p) \/ Delete(p) \/ Clear(p) \/ EntryHit(p)
             \/ EntryMiss(p)
    <3>1. pc'[p] \in {"drop", "release", "user"}
      BY <1>1, <2>4 DEF InsertRefused, Insert, FetchHit, ExistsHit, LookupMiss, UpdateHit,
         UpdateMiss, Delete, Clear, EntryHit, EntryMiss, Return
    <3> QED
      BY <3>1, ElsewhereRoom DEF Expunges
  <2> QED
    BY <1>3, <2>1, <2>2, <2>3, <2>4 DEF Locking
<1>4. ASSUME NEW p \in Proc, Running(p)
      PROVE  RoomOK'
  <2>1. CASE \/ ExpungeShort(p) \/ ExpungeFragmented(p) \/ ExpungeDone(p)
             \/ ExpungeAvail(p) \/ ExpungeDefrag(p)
    BY <1>1, <2>1, ExpungeRoom, ExpungeGcRoom
  <2>2. CASE Resume(p) /\ (MallocFail(p) \/ Release(p) \/ Drop(p))
    <3>1. pc'[p] \in {"user", "update", "exit"} /\ (pc'[p] = "update" => ~args'[p].nuked)
      BY <1>1, <2>2 DEF Resume, Args
    <3> QED
      BY <3>1, ElsewhereRoom DEF Expunges
  <2>3. CASE MallocFail(p) /\ ~Resume(p)
    BY <1>1, <2>3, ElsewhereRoom DEF MallocFail
  <2>4. CASE ReadCleanups(p)
    <3>1. pc[p] = "nomem" /\ pc'[p] = "expunge" /\ args'[p].nuked = args[p].nuked
      BY <1>1, <2>4 DEF ReadCleanups, Args
    <3> QED
      BY <3>1, ElsewhereRoom DEF RoomOK
  <2>5. CASE \/ Malloc(p) \/ EntryExit(p) \/ UnwindFetch(p) \/ UnwindEntry(p) \/ Unwound(p)
    <3>1. pc'[p] \in {"insert", "user", "bail"}
      BY <1>1, <2>5 DEF Malloc, EntryExit, UnwindFetch, UnwindEntry, Unwound
    <3> QED
      BY <3>1, ElsewhereRoom DEF Expunges
  <2> QED
    BY <1>4, <2>1, <2>2, <2>3, <2>4, <2>5 DEF Running, Release, Drop
<1>5. CASE Tick \/ UNCHANGED vars
  BY <1>5 DEF Tick, vars, RoomOK, FreeAddrs
<1> QED
  BY <1>2, <1>3, <1>4, <1>5 DEF Next

LEMMA InitRoom == Init => RoomOK
BY DEF Init, RoomOK

\* A store that gives up for lack of memory has expunged before.
LEMMA FailsAfterExpunge ==
  ASSUME Alone, MemoryInv, RoomOK, [Next]_vars, NEW p \in Proc,
         pc[p] = "malloc", pc'[p] \notin {"malloc", "insert", "nomem", "dead"}
  PROVE  \A a \in Addr: heap[a] # Free /\ heap[a].ref > 0
<1>1. ControlInv /\ pc \in [Proc -> PCs]
  BY MemoryParts DEF ControlInv, ControlTypeOK
<1>2. ~(Tick \/ UNCHANGED vars)
  BY DEF Tick, vars
<1>3. Call(p) \/ Locking(p) \/ Running(p) \/ CallbackReturn(p) \/ Fail(p)
  BY <1>2 DEF Next, Alone
<1>4. ~Call(p) /\ ~CallbackReturn(p)
  BY DEF Call, CallLookup, CallStore, CallUpdate, CallEntry, CallClear, Calls, CallbackReturn,
     FetchReturn, EntryHitReturn, GeneratorReturn, InCallback
<1>5. ~Locking(p)
  BY DEF Locking, ExpungeSkip, ExpungeAll, ExpungeExpired, InsertRefused, Insert, FetchHit,
     ExistsHit, LookupMiss, UpdateHit, UpdateInsert, UpdateMiss, Delete, Clear, EntryHit, EntryMiss
<1>6. ~Fail(p)
  BY <1>1 DEF Fail, PersistBailout, GeneratorThrow, Bailout, Crash, InCallback, Goto
<1>7. Running(p) => MallocFail(p)
  BY <1>1 DEF Running, Malloc, ReadCleanups, ExpungeShort, ExpungeAvail, ExpungeDefrag,
     ExpungeFragmented, ExpungeDone, Release, Drop, EntryExit, UnwindFetch, UnwindEntry, Unwound,
     Goto
<1>8. FreeAddrs = {} /\ args[p].nuked
  BY <1>1, <1>3, <1>4, <1>5, <1>6, <1>7 DEF MallocFail, Goto
<1> QED
  BY <1>8 DEF RoomOK, FreeAddrs

\* A store of a process that is alone fails for lack of memory only if every block is
\* referenced, by its own callbacks or for ever, whatever its operations have done before
\* and however the free blocks are scattered; as long as references are given back within
\* gc_ttl (apc_sma_malloc_ex and apc_cache_default_expunge).
THEOREM AloneFailsOnlyWhenPinned == Alone => (Spec => ([]Timely => FailsOnlyWhenPinned))
<1> SUFFICES ASSUME Alone
             PROVE  Spec => ([]Timely => FailsOnlyWhenPinned)
  OBVIOUS
<1>1. MemoryInv /\ AccountOK /\ RoomOK /\ Timely /\ [Next]_vars =>
        (MemoryInv /\ AccountOK /\ RoomOK)'
  BY NextMemory, NextAccount, NextRoom
<1>2. Init => MemoryInv /\ AccountOK /\ RoomOK
  BY InitMemory, InitAccount, InitRoom
<1>3. MemoryInv /\ RoomOK /\ [Next]_vars =>
        [\A p \in Proc:
           pc[p] = "malloc" /\ pc'[p] \notin {"malloc", "insert", "nomem", "dead"}
             => \A a \in Addr: heap[a] # Free /\ heap[a].ref > 0]_vars
  BY FailsAfterExpunge
<1> QED
  BY <1>1, <1>2, <1>3, PTL DEF Spec, FailsOnlyWhenPinned

-----------------------------------------------------------------------------
(* Holders across a step *)

NoneForgotten == \A a \in Used: heap[a].ref <= Cardinality(Holders(a))

\* Every request ends outside the cache.
Unharmed == lost = {} /\ \A p \in Proc: pc[p] \notin {"bail", "dead"}

\* Holders that a step does not take away are there after it.
LEMMA HoldersStay ==
  ASSUME NEW b, NEW X,
         \A q \in Proc: ptr[q] = b => ptr'[q] = b \/ <<q, 0>> \in X,
         \A q \in Proc: \A i \in 1..Len(stack[q]):
           stack[q][i].kind \in Pinning /\ stack[q][i].addr = b =>
             (i \in 1..Len(stack'[q]) /\ stack'[q][i] = stack[q][i]) \/ <<q, i>> \in X
  PROVE  Holders(b) \subseteq Holders(b)' \cup X
<1>1. ASSUME NEW h \in Holders(b)
      PROVE  h \in Holders(b)' \cup X
  <2>1. /\ h \in Proc \X (0..MaxDepth) /\ h[1] \in Proc /\ h = <<h[1], h[2]>>
        /\ \/ h[2] = 0 /\ ptr[h[1]] = b
           \/ /\ h[2] \in 1..Len(stack[h[1]])
              /\ stack[h[1]][h[2]].kind \in Pinning /\ stack[h[1]][h[2]].addr = b
    BY <1>1 DEF Holders
  <2>2. CASE h[2] = 0 /\ ptr[h[1]] = b
    <3>1. ptr'[h[1]] = b \/ h \in X
      BY <2>1, <2>2
    <3> QED
      BY <2>1, <2>2, <3>1 DEF Holders
  <2>3. CASE /\ h[2] \in 1..Len(stack[h[1]])
             /\ stack[h[1]][h[2]].kind \in Pinning /\ stack[h[1]][h[2]].addr = b
    <3>1. (h[2] \in 1..Len(stack'[h[1]]) /\ stack'[h[1]][h[2]] = stack[h[1]][h[2]]) \/ h \in X
      BY <2>1, <2>3
    <3> QED
      BY <2>1, <2>3, <3>1 DEF Holders
  <2> QED
    BY <2>1, <2>2, <2>3
<1> QED
  BY <1>1

\* Their number does not fall, falls by one, or grows.
LEMMA HoldersFloor ==
  ASSUME NEW b
  PROVE  /\ Cardinality(Holders(b)) \in Nat /\ Cardinality(Holders(b)') \in Nat
         /\ Holders(b) \subseteq Holders(b)' => Cardinality(Holders(b)') >= Cardinality(Holders(b))
         /\ \A x: Holders(b) \subseteq Holders(b)' \cup {x} =>
              Cardinality(Holders(b)') >= Cardinality(Holders(b)) - 1
         /\ \A x \in Holders(b)': Holders(b) \subseteq Holders(b)' /\ x \notin Holders(b) =>
              Cardinality(Holders(b)') >= Cardinality(Holders(b)) + 1
<1>1. IsFiniteSet(Holders(b)) /\ Cardinality(Holders(b)) \in Nat
  BY HoldersSize
<1>2. IsFiniteSet(Holders(b)') /\ Cardinality(Holders(b)') \in Nat
  <2>1. IsFiniteSet(0..MaxDepth)
    BY BoundAssumption, FS_Interval
  <2>2. IsFiniteSet(Proc \X (0..MaxDepth))
    BY <2>1, ProcAssumption, FS_Product
  <2>3. Holders(b)' \subseteq Proc \X (0..MaxDepth)
    BY DEF Holders
  <2> QED
    BY <2>2, <2>3, FS_Subset, FS_CardinalityType
<1>3. Holders(b) \subseteq Holders(b)' => Cardinality(Holders(b)') >= Cardinality(Holders(b))
  BY <1>1, <1>2, FS_Subset
<1>4. ASSUME NEW x, Holders(b) \subseteq Holders(b)' \cup {x}
      PROVE  Cardinality(Holders(b)') >= Cardinality(Holders(b)) - 1
  <2>1. /\ IsFiniteSet(Holders(b)' \cup {x})
        /\ Cardinality(Holders(b)' \cup {x}) =
             IF x \in Holders(b)' THEN Cardinality(Holders(b)') ELSE Cardinality(Holders(b)') + 1
    BY <1>2, FS_AddElement
  <2>2. Cardinality(Holders(b)) <= Cardinality(Holders(b)' \cup {x})
    BY <1>4, <2>1, FS_Subset
  <2> QED
    BY <1>1, <1>2, <2>1, <2>2
<1>5. ASSUME NEW x \in Holders(b)', Holders(b) \subseteq Holders(b)', x \notin Holders(b)
      PROVE  Cardinality(Holders(b)') >= Cardinality(Holders(b)) + 1
  <2>1. IsFiniteSet(Holders(b) \cup {x}) /\ Cardinality(Holders(b) \cup {x}) = Cardinality(Holders(b)) + 1
    BY <1>1, <1>5, FS_AddElement
  <2>2. Holders(b) \cup {x} \subseteq Holders(b)'
    BY <1>5
  <2> QED
    BY <1>1, <1>2, <2>1, <2>2, FS_Subset
<1> QED
  BY <1>1, <1>2, <1>3, <1>4, <1>5

\* Whatever a step does to the count of a block, it does at least as much to its holders.
LEMMA PinsStep ==
  ASSUME HeapOK, NoneForgotten,
         \A a \in Used':
           /\ a \in Used
           /\ \/ heap'[a].ref = heap[a].ref /\ Holders(a) \subseteq Holders(a)'
              \/ heap'[a].ref = heap[a].ref - 1 /\ \E x: Holders(a) \subseteq Holders(a)' \cup {x}
              \/ /\ heap'[a].ref = heap[a].ref + 1
                 /\ Holders(a) \subseteq Holders(a)' /\ \E x \in Holders(a)': x \notin Holders(a)
  PROVE  NoneForgotten'
<1>1. ASSUME NEW a \in Used'
      PROVE  heap'[a].ref <= Cardinality(Holders(a)')
  <2>1. a \in Used /\ heap[a].ref <= Cardinality(Holders(a))
    BY DEF NoneForgotten
  <2>2. heap[a].ref \in Int
    BY <2>1, UsedEntry DEF HeapOK, Used
  <2>3. Cardinality(Holders(a)) \in Nat /\ Cardinality(Holders(a)') \in Nat
    BY HoldersFloor
  <2>4. CASE heap'[a].ref = heap[a].ref /\ Holders(a) \subseteq Holders(a)'
    <3>1. Cardinality(Holders(a)') >= Cardinality(Holders(a))
      BY <2>4, HoldersFloor
    <3> QED
      BY <2>1, <2>2, <2>3, <2>4, <3>1
  <2>5. CASE heap'[a].ref = heap[a].ref - 1 /\ \E x: Holders(a) \subseteq Holders(a)' \cup {x}
    <3>1. Cardinality(Holders(a)') >= Cardinality(Holders(a)) - 1
      BY <2>5, HoldersFloor
    <3> QED
      BY <2>1, <2>2, <2>3, <2>5, <3>1
  <2>6. CASE /\ heap'[a].ref = heap[a].ref + 1
             /\ Holders(a) \subseteq Holders(a)' /\ \E x \in Holders(a)': x \notin Holders(a)
    <3>1. Cardinality(Holders(a)') >= Cardinality(Holders(a)) + 1
      BY <2>6, HoldersFloor
    <3> QED
      BY <2>1, <2>2, <2>3, <2>6, <3>1
  <2> QED
    BY <2>4, <2>5, <2>6
<1> QED
  BY <1>1 DEF NoneForgotten

\* A step in which nobody gets or gives back a reference.
LEMMA PinsSame ==
  ASSUME HeapOK, NoneForgotten, UNCHANGED <<ptr, stack>>,
         \A a \in Addr: heap'[a] # Free => heap[a] # Free /\ heap'[a].ref = heap[a].ref
  PROVE  NoneForgotten'
<1>1. \A a: Holders(a)' = Holders(a)
  BY DEF Holders
<1>2. \A a \in Used': a \in Used /\ heap'[a].ref = heap[a].ref
  BY DEF Used, FreeAddrs
<1> QED
  BY <1>1, <1>2, PinsStep

LEMMA PinsCollected ==
  ASSUME HeapOK, NoneForgotten, UNCHANGED <<ptr, stack>>, NEW l, Collected(heap', l, gc')
  PROVE  NoneForgotten'
BY PinsSame DEF Collected

-----------------------------------------------------------------------------
(* Callbacks *)

\* A callback ends: its pin goes together with its reference.
LEMMA PinsPop ==
  ASSUME ControlInv, HeapOK, NoneForgotten, NEW p \in Proc, Pop(p), stack[p] # <<>>, ptr' = ptr,
         \/ Top(p).kind \notin Pinning /\ heap' = heap
         \/ Top(p).kind \in Pinning /\ heap' = Decref(heap, Top(p).addr)
  PROVE  NoneForgotten'
<1> DEFINE n == Len(stack[p])
<1>1. /\ n \in Nat \ {0} /\ Len(stack'[p]) = n - 1
      /\ \A q \in Proc: q # p => stack'[q] = stack[q]
      /\ \A i \in 1..Len(stack'[p]): stack'[p][i] = stack[p][i]
  BY PopStack, TopType DEF ControlInv
<1>2. Top(p) = stack[p][n]
  BY DEF Top
<1>3. heap \in [Addr -> Entry \cup {Free}]
  BY DEF HeapOK
<1> HIDE DEF n
<1>4. ASSUME NEW b
      PROVE  /\ Holders(b) \subseteq Holders(b)' \cup {<<p, n>>}
             /\ ~(Top(p).kind \in Pinning /\ Top(p).addr = b) => Holders(b) \subseteq Holders(b)'
  <2>1. ASSUME NEW q \in Proc, NEW i \in 1..Len(stack[q]), ~(q = p /\ i = n)
        PROVE  i \in 1..Len(stack'[q]) /\ stack'[q][i] = stack[q][i]
    <3>1. CASE q # p
      BY <1>1, <3>1
    <3>2. CASE q = p
      <4>1. i \in 1..n /\ i # n
        BY <2>1, <3>2 DEF n
      <4>2. i \in 1..Len(stack'[p])
        BY <1>1, <4>1
      <4> QED
        BY <1>1, <3>2, <4>2
    <3> QED
      BY <3>1, <3>2
  <2>2. Holders(b) \subseteq Holders(b)' \cup {<<p, n>>}
    <3> DEFINE X == {<<p, n>>}
    <3>1. \A q \in Proc: \A i \in 1..Len(stack[q]):
             stack[q][i].kind \in Pinning /\ stack[q][i].addr = b =>
               (i \in 1..Len(stack'[q]) /\ stack'[q][i] = stack[q][i]) \/ <<q, i>> \in X
      BY <2>1
    <3>2. \A q \in Proc: ptr[q] = b => ptr'[q] = b \/ <<q, 0>> \in X
      OBVIOUS
    <3> HIDE DEF X
    <3>3. Holders(b) \subseteq Holders(b)' \cup X
      BY <3>1, <3>2, HoldersStay
    <3> QED
      BY <3>3 DEF X
  <2>3. ASSUME ~(Top(p).kind \in Pinning /\ Top(p).addr = b)
        PROVE  Holders(b) \subseteq Holders(b)' \cup {}
    <3>1. \A q \in Proc: \A i \in 1..Len(stack[q]):
             stack[q][i].kind \in Pinning /\ stack[q][i].addr = b =>
               i \in 1..Len(stack'[q]) /\ stack'[q][i] = stack[q][i]
      BY <1>2, <2>1, <2>3
    <3> QED
      BY <3>1, HoldersStay
  <2> QED
    BY <2>2, <2>3
<1>5. CASE Top(p).kind \notin Pinning /\ heap' = heap
  BY <1>4, <1>5, PinsStep DEF Used, FreeAddrs
<1>6. CASE Top(p).kind \in Pinning /\ heap' = Decref(heap, Top(p).addr)
  <2>1. PICK a \in Addr: a = Top(p).addr
    <3>1. n \in 1..Len(stack[p])
      BY <1>1 DEF n
    <3>2. Top(p).addr \in Listed
      BY <1>2, <1>6, <3>1 DEF HeapOK, ListsOK
    <3> QED
      BY <3>2 DEF HeapOK, ListsOK, Used
  <2>2. /\ \A b \in Addr: heap'[b] = Free <=> heap[b] = Free
        /\ \A b \in Used: b # a => heap'[b].ref = heap[b].ref
        /\ a \in Used => heap'[a].ref = heap[a].ref - 1
    BY <1>3, <1>6, <2>1, DecrefEntry
  <2>3. Used' = Used
    BY <2>2 DEF Used, FreeAddrs
  <2>4. ASSUME NEW b \in Used
        PROVE  \/ heap'[b].ref = heap[b].ref /\ Holders(b) \subseteq Holders(b)'
               \/ heap'[b].ref = heap[b].ref - 1 /\ \E x: Holders(b) \subseteq Holders(b)' \cup {x}
    BY <1>4, <2>1, <2>2
  <2> QED
    BY <2>3, <2>4, PinsStep
<1> QED
  BY <1>5, <1>6

\* A callback starts: a hit pins its entry once.
LEMMA PinsPush ==
  ASSUME ControlInv, ControlInv', HeapOK, NoneForgotten, NEW p \in Proc, NEW f \in Frame,
         Push(p, f), ptr' = ptr,
         \/ f.kind \notin Pinning /\ heap' = heap
         \/ /\ f.kind \in Pinning
            /\ f.addr \in linked /\ heap' = Touched(heap, f.addr, args[p].t, 1)
  PROVE  NoneForgotten'
<1> DEFINE n == Len(stack[p])
<1>1. /\ n \in Nat /\ Len(stack'[p]) = n + 1 /\ stack'[p][n + 1] = f
      /\ \A q \in Proc: q # p => stack'[q] = stack[q]
      /\ \A i \in 1..n: stack'[p][i] = stack[p][i]
  BY PushStack DEF ControlInv
<1>2. n + 1 <= MaxDepth
  BY <1>1 DEF ControlInv, ControlOK
<1>3. heap \in [Addr -> Entry \cup {Free}] /\ args[p].t \in Nat
  BY DEF HeapOK, ControlInv, ControlTypeOK, Args
<1>4. ASSUME NEW b
      PROVE  Holders(b) \subseteq Holders(b)'
  <2>1. \A q \in Proc: \A i \in 1..Len(stack[q]):
           i \in 1..Len(stack'[q]) /\ stack'[q][i] = stack[q][i]
    <3>1. ASSUME NEW q \in Proc, NEW i \in 1..Len(stack[q])
          PROVE  i \in 1..Len(stack'[q]) /\ stack'[q][i] = stack[q][i]
      <4>1. CASE q # p
        BY <1>1, <4>1
      <4>2. CASE q = p
        BY <1>1, <4>2
      <4> QED
        BY <4>1, <4>2
    <3> QED
      BY <3>1
  <2>2. Holders(b) \subseteq Holders(b)' \cup {}
    BY <2>1, HoldersStay
  <2> QED
    BY <2>2
<1>5. CASE f.kind \notin Pinning /\ heap' = heap
  BY <1>4, <1>5, PinsStep DEF Used, FreeAddrs
<1>6. CASE f.kind \in Pinning /\ f.addr \in linked /\ heap' = Touched(heap, f.addr, args[p].t, 1)
  <2>1. PICK a \in linked: a = f.addr
    BY <1>6
  <2>2. a \in Addr /\ heap[a] # Free /\ 1 \in Nat
    BY HeldReferenced DEF ControlInv, ControlTypeOK, Listed
  <2>3. \E e \in Entry: /\ Touched(heap, a, args[p].t, 1) = [heap EXCEPT ![a] = e]
                        /\ e.key = heap[a].key /\ e.ref = heap[a].ref + 1
    BY <1>3, <2>2, TouchedEntry, Zenon
  <2>4. /\ \A b \in Addr: heap'[b] = Free <=> heap[b] = Free
        /\ \A b \in Addr: b # a => heap'[b] = heap[b]
        /\ heap'[a].ref = heap[a].ref + 1
    BY <1>3, <1>6, <2>1, <2>2, <2>3, FreeAssumption
  <2>5. Used' = Used /\ Used \subseteq Addr
    BY <2>4 DEF Used, FreeAddrs
  <2>6. <<p, n + 1>> \in Holders(a)' /\ <<p, n + 1>> \notin Holders(a)
    <3>1. n + 1 \in 0..MaxDepth /\ n + 1 \in 1..Len(stack'[p]) /\ n + 1 # 0
      BY <1>1, <1>2, BoundAssumption
    <3>2. n + 1 \notin 1..Len(stack[p])
      BY <1>1
    <3> HIDE DEF n
    <3>3. <<p, n + 1>> \in Holders(a)'
      BY <1>1, <1>6, <2>1, <3>1 DEF Holders
    <3>4. <<p, n + 1>> \notin Holders(a)
      BY <3>1, <3>2 DEF Holders
    <3> QED
      BY <3>3, <3>4
  <2>7. ASSUME NEW b \in Used
        PROVE  \/ heap'[b].ref = heap[b].ref /\ Holders(b) \subseteq Holders(b)'
               \/ /\ heap'[b].ref = heap[b].ref + 1
                  /\ Holders(b) \subseteq Holders(b)' /\ \E x \in Holders(b)': x \notin Holders(b)
    BY <1>4, <2>4, <2>5, <2>6
  <2> QED
    BY <2>5, <2>7, PinsStep
<1> QED
  BY <1>5, <1>6

-----------------------------------------------------------------------------
(* Stores and defragmentation *)

\* The other holders of a block when p gets, gives back or frees the block a.
LEMMA PtrHolders ==
  ASSUME NEW p \in Proc, NEW b, \A q \in Proc: q # p => ptr'[q] = ptr[q], stack' = stack
  PROVE  /\ Holders(b) \subseteq Holders(b)' \cup {<<p, 0>>}
         /\ ptr[p] # b => Holders(b) \subseteq Holders(b)'
<1> DEFINE X == {<<p, 0>>}
<1>1. \A q \in Proc: ptr[q] = b => ptr'[q] = b \/ <<q, 0>> \in X
  OBVIOUS
<1> HIDE DEF X
<1>2. Holders(b) \subseteq Holders(b)' \cup X
  BY <1>1, HoldersStay
<1>3. ASSUME ptr[p] # b
      PROVE  Holders(b) \subseteq Holders(b)' \cup {}
  <2>1. \A q \in Proc: ptr[q] = b => ptr'[q] = b
    BY <1>3
  <2> QED
    BY <2>1, HoldersStay
<1> QED
  BY <1>2, <1>3 DEF X

\* A store is born with the one reference its block has, and gives it back.
LEMMA PinsStore ==
  ASSUME ControlInv, ControlInv', HeapOK, NoneForgotten, NEW p \in Proc,
         Malloc(p) \/ Release(p) \/ Drop(p)
  PROVE  NoneForgotten'
<1>1. /\ heap \in [Addr -> Entry \cup {Free}] /\ stack' = stack
      /\ \A q \in Proc: q # p => ptr'[q] = ptr[q]
  BY DEF HeapOK, Malloc, Release, Drop, ControlInv, ControlTypeOK
<1>2. \A a: /\ a \in Used <=> a \in Addr /\ heap[a] # Free
            /\ a \in Used' <=> a \in Addr /\ heap'[a] # Free
  BY DEF Used, FreeAddrs
<1>3. CASE Malloc(p)
  <2> DEFINE e == [key |-> args[p].key, val |-> args[p].val, ttl |-> args[p].ttl, ref |-> 1,
                   ctime |-> args[p].ct, atime |-> args[p].ct, dtime |-> 0]
  <2>1. PICK a \in FreeAddrs: heap' = [heap EXCEPT ![a] = e] /\ ptr' = [ptr EXCEPT ![p] = a]
    BY <1>3 DEF Malloc, InitialRef
  <2>2. e.ref = 1
    OBVIOUS
  <2> HIDE DEF e
  <2>3. a \in Addr /\ heap'[a].ref = 1 /\ \A b \in Addr: b # a => heap'[b] = heap[b]
    BY <1>1, <2>1, <2>2 DEF FreeAddrs
  <2>4. ptr'[p] = a /\ ptr[p] = Null
    BY <1>3, <2>1 DEF Malloc, ControlInv, ControlTypeOK, ControlOK
  <2>5. ASSUME NEW b \in Used', b # a
        PROVE  heap'[b].ref <= Cardinality(Holders(b)')
    <3>1. b \in Addr /\ b \in Used /\ heap'[b] = heap[b] /\ b # Null
      BY <1>2, <2>3, <2>5 DEF Addr, Null
    <3>2. Holders(b) \subseteq Holders(b)'
      BY <1>1, <2>4, <3>1, PtrHolders
    <3>3. Cardinality(Holders(b)') >= Cardinality(Holders(b)) /\ Cardinality(Holders(b)') \in Nat
          /\ Cardinality(Holders(b)) \in Nat
      BY <3>2, HoldersFloor
    <3>4. heap[b].ref \in Int /\ heap[b].ref <= Cardinality(Holders(b))
      BY <1>1, <3>1, UsedEntry DEF NoneForgotten
    <3> QED
      BY <3>1, <3>3, <3>4
  <2>6. heap'[a].ref <= Cardinality(Holders(a)')
    <3>1. <<p, 0>> \in Holders(a)'
      BY <2>4, BoundAssumption DEF Holders
    <3>2. Holders(a) = {}
      <4>1. a \notin Used
        BY <2>1 DEF Used
      <4> QED
        BY <2>3, <4>1, HeldEntry
    <3>3. Cardinality(Holders(a)') >= Cardinality(Holders(a)) + 1
      BY <3>1, <3>2, HoldersFloor
    <3>4. Cardinality(Holders(a)) \in Nat /\ Cardinality(Holders(a)') \in Nat
      BY HoldersFloor
    <3> QED
      BY <2>3, <3>3, <3>4
  <2> QED
    BY <2>5, <2>6 DEF NoneForgotten
<1>4. CASE Release(p)
  <2>1. PICK a \in Addr: a = ptr[p]
    BY <1>4 DEF Release, ControlInv, ControlTypeOK, ControlOK
  <2>2. heap' = Decref(heap, a)
    BY <1>4, <2>1 DEF Release
  <2>3. /\ \A b \in Addr: heap'[b] = Free <=> heap[b] = Free
        /\ \A b \in Used: b # a => heap'[b].ref = heap[b].ref
        /\ a \in Used => heap'[a].ref = heap[a].ref - 1
    BY <1>1, <2>2, DecrefEntry
  <2>4. Used' = Used
    BY <1>2, <2>3
  <2>5. ASSUME NEW b \in Used
        PROVE  \/ heap'[b].ref = heap[b].ref /\ Holders(b) \subseteq Holders(b)'
               \/ heap'[b].ref = heap[b].ref - 1 /\ \E x: Holders(b) \subseteq Holders(b)' \cup {x}
    BY <1>1, <2>1, <2>3, PtrHolders
  <2> QED
    BY <2>4, <2>5, PinsStep
<1>5. CASE Drop(p)
  <2>1. /\ ptr[p] \in Addr
        /\ heap' = [heap EXCEPT ![ptr[p]] = Free]
    BY <1>5 DEF Drop, ControlInv, ControlTypeOK, ControlOK
  <2>2. \A b \in Used': b # ptr[p] /\ b \in Used /\ heap'[b] = heap[b]
    BY <1>1, <1>2, <2>1
  <2>3. \A b \in Used': Holders(b) \subseteq Holders(b)'
    BY <1>1, <2>2, PtrHolders
  <2> QED
    BY <2>2, <2>3, PinsStep
<1> QED
  BY <1>3, <1>4, <1>5

\* Defragmentation leaves what is held where it is, and moves nothing on top of it.
LEMMA PinsDefrag ==
  ASSUME ControlInv, HeapOK, NoneForgotten, NEW p \in Proc, ExpungeDefrag(p)
  PROVE  NoneForgotten'
<1>1. PICK f \in [Used -> Addr]:
        /\ Compacts(f)
        /\ \A a, b \in Used: f[a] = f[b] => a = b
        /\ \A a \in Used: heap'[f[a]] = heap[a]
        /\ \A b \in Addr: heap'[b] # Free => \E a \in Used: f[a] = b
  BY DefragMap
<1>2. UNCHANGED <<ptr, stack>> /\ heap \in [Addr -> Entry \cup {Free}]
  BY DEF ExpungeDefrag, HeapOK
<1>3. \A a: Holders(a)' = Holders(a)
  BY <1>2 DEF Holders
<1>4. ASSUME NEW a \in Addr, Holders(a) # {}
      PROVE  a \in Used /\ f[a] = a
  <2>1. a \in Used /\ heap[a].ref >= 1 /\ heap[a].ref \in Int
    BY <1>2, <1>4, HeldEntry, UsedEntry
  <2>2. ~Movable(heap[a])
    BY <2>1 DEF Movable
  <2> QED
    BY <1>1, <2>1, <2>2 DEF Compacts
<1>5. ASSUME NEW c \in Used'
      PROVE  heap'[c].ref <= Cardinality(Holders(c)')
  <2>1. c \in Addr /\ heap'[c] # Free
    BY DEF Used, FreeAddrs
  <2>2. PICK a \in Used: c = f[a]
    BY <1>1, <2>1
  <2>3. /\ heap'[c] = heap[a] /\ a \in Addr /\ heap[a].ref \in Int
        /\ heap[a].ref <= Cardinality(Holders(a))
    BY <1>1, <1>2, <2>2, UsedEntry DEF NoneForgotten, Used
  <2>4. Holders(c) = Holders(a)
    <3>1. CASE Holders(a) # {}
      BY <1>4, <2>2, <2>3, <3>1
    <3>2. CASE Holders(a) = {}
      <4>1. ASSUME Holders(c) # {}
            PROVE  FALSE
        <5>1. c \in Used /\ f[c] = c
          BY <1>4, <2>1, <4>1
        <5>2. c = a
          BY <1>1, <2>2, <5>1
        <5> QED
          BY <3>2, <4>1, <5>2
      <4> QED
        BY <3>2, <4>1
    <3> QED
      BY <3>1, <3>2
  <2> QED
    BY <1>3, <2>3, <2>4
<1> QED
  BY <1>5 DEF NoneForgotten

-----------------------------------------------------------------------------
(* Reference counts: every step *)

\* Steps that wait for the lock.
LEMMA PinsLocking ==
  ASSUME ControlInv, ControlInv', HeapOK, NoneForgotten, Timely, NEW p \in Proc, Locking(p)
  PROVE  NoneForgotten'
<1>1. CASE ExpungeAll(p) \/ ExpungeExpired(p) \/ Clear(p) \/ Delete(p)
  <2>1. UNCHANGED <<ptr, stack>>
    BY <1>1 DEF ExpungeAll, ExpungeExpired, Clear, Delete, ExpungeEnd
  <2>2. Collected(heap', linked', gc')
    BY <1>1, ExpungeCollected, DeleteCollected
  <2> QED
    BY <2>1, <2>2, PinsCollected
<1>2. CASE InsertRefused(p) \/ Insert(p)
  <2>1. UNCHANGED <<ptr, stack>>
    BY <1>2 DEF InsertRefused, Insert
  <2>2. \E l: Collected(heap', l, gc')
    BY <1>2, InsertCollected
  <2> QED
    BY <2>1, <2>2, PinsCollected
<1>3. CASE FetchHit(p) \/ EntryHit(p)
  <2>1. PICK a \in Found(args[p].key, args[p].t), kind \in {"fetch", "hit"}:
          /\ heap' = Touched(heap, a, args[p].t, 1)
          /\ Push(p, [kind |-> kind, addr |-> a, key |-> args[p].key])
    BY <1>3 DEF FetchHit, EntryHit
  <2>2. a \in linked /\ a \in Addr /\ args[p].key \in Key /\ ptr' = ptr
    BY <1>3 DEF Found, Matches, ControlInv, ControlTypeOK, Args, FetchHit, EntryHit
  <2> DEFINE f == [kind |-> kind, addr |-> a, key |-> args[p].key]
  <2>3. f \in Frame /\ f.kind \in Pinning /\ f.addr = a
    BY <2>2 DEF Frame, Pinning
  <2>4. Push(p, f)
    BY <2>1
  <2> HIDE DEF f
  <2> QED
    BY <2>1, <2>2, <2>3, <2>4, PinsPush
<1>4. CASE ExistsHit(p)
  <2>1. PICK a \in linked: heap' = Touched(heap, a, args[p].t, 0) /\ UNCHANGED <<ptr, stack>>
    BY <1>4 DEF ExistsHit, Found, Matches
  <2>2. a \in Addr /\ heap[a] # Free /\ heap[a].ref \in Int /\ 0 \in Nat
    BY HeldReferenced DEF ControlInv, ControlTypeOK, Listed, Entry
  <2>3. args[p].t \in Nat /\ heap \in [Addr -> Entry \cup {Free}]
    BY DEF ControlInv, ControlTypeOK, Args, HeapOK
  <2>4. \E e \in Entry: /\ Touched(heap, a, args[p].t, 0) = [heap EXCEPT ![a] = e]
                        /\ e.key = heap[a].key /\ e.ref = heap[a].ref + 0
    BY <2>2, <2>3, TouchedEntry, Zenon
  <2>5. PICK e \in Entry: heap' = [heap EXCEPT ![a] = e] /\ e.ref = heap[a].ref + 0
    BY <2>1, <2>4
  <2>6. \A b \in Addr: heap'[b] # Free => heap[b] # Free /\ heap'[b].ref = heap[b].ref
    BY <2>2, <2>3, <2>5
  <2> QED
    BY <2>1, <2>6, PinsSame
<1>5. CASE UpdateHit(p)
  <2>1. PICK a \in linked: heap' = [heap EXCEPT ![a].val = Incremented(@)] /\ UNCHANGED <<ptr, stack>>
    BY <1>5 DEF UpdateHit, Found, Matches
  <2>2. a \in Addr /\ heap[a] \in Entry /\ heap[a] # Free /\ heap \in [Addr -> Entry \cup {Free}]
    BY HeldReferenced DEF ControlInv, ControlTypeOK, Listed, HeapOK
  <2>3. heap' = [heap EXCEPT ![a] = [heap[a] EXCEPT !.val = Incremented(heap[a].val)]]
    BY <2>1
  <2>4. [heap[a] EXCEPT !.val = Incremented(heap[a].val)].ref = heap[a].ref
    BY <2>2 DEF Entry
  <2>5. \A b \in Addr: heap'[b] # Free => heap[b] # Free /\ heap'[b].ref = heap[b].ref
    BY <2>2, <2>3, <2>4
  <2> QED
    BY <2>1, <2>5, PinsSame
<1>6. CASE EntryMiss(p)
  <2> DEFINE f == [kind |-> "gen", key |-> args[p].key, ttl |-> args[p].ttl]
  <2>1. Push(p, f) /\ UNCHANGED <<heap, ptr>>
    BY <1>6 DEF EntryMiss, shared
  <2>2. f \in Frame /\ f.kind \notin Pinning
    BY FrameTypes DEF ControlInv, Pinning
  <2> HIDE DEF f
  <2> QED
    BY <2>1, <2>2, PinsPush
<1>7. CASE ExpungeSkip(p) \/ LookupMiss(p) \/ UpdateInsert(p) \/ UpdateMiss(p)
  <2>1. UNCHANGED <<heap, ptr, stack>>
    BY <1>7 DEF ExpungeSkip, LookupMiss, UpdateInsert, UpdateMiss, shared
  <2> QED
    BY <2>1, PinsSame
<1> QED
  BY <1>1, <1>2, <1>3, <1>4, <1>5, <1>6, <1>7 DEF Locking

\* Steps that wait for nothing; apcu_entry() leaves a generator behind, never a hit.
LEMMA PinsRunning ==
  ASSUME ControlInv, ControlInv', ExitOK, HeapOK, NoneForgotten, Unharmed, Timely,
         NEW p \in Proc, Running(p)
  PROVE  NoneForgotten'
<1>1. CASE Malloc(p) \/ Release(p) \/ Drop(p)
  BY <1>1, PinsStore
<1>2. CASE ExpungeShort(p) \/ ExpungeFragmented(p)
  <2>1. UNCHANGED <<ptr, stack>>
    BY <1>2 DEF ExpungeShort, ExpungeFragmented, ExpungeEnd
  <2>2. Collected(heap', linked', gc')
    BY <1>2, ExpungeCollected
  <2> QED
    BY <2>1, <2>2, PinsCollected
<1>3. CASE ExpungeDefrag(p)
  BY <1>3, PinsDefrag
<1>4. CASE EntryExit(p)
  <2>1. Pop(p) /\ UNCHANGED <<heap, ptr>> /\ stack[p] # <<>> /\ Top(p).kind \notin Pinning
    BY <1>4 DEF EntryExit, shared, ExitOK, Pinning
  <2> QED
    BY <2>1, PinsPop
<1>5. CASE UnwindFetch(p) \/ UnwindEntry(p) \/ Unwound(p)
  BY <1>5 DEF UnwindFetch, UnwindEntry, Unwound, Unharmed
<1>6. CASE MallocFail(p) \/ ReadCleanups(p) \/ ExpungeAvail(p) \/ ExpungeDone(p)
  <2>1. UNCHANGED <<heap, ptr, stack>>
    BY <1>6 DEF MallocFail, ReadCleanups, ExpungeAvail, ExpungeDone, ExpungeEnd, shared
  <2> QED
    BY <2>1, PinsSame
<1> QED
  BY <1>1, <1>2, <1>3, <1>4, <1>5, <1>6 DEF Running

\* Without failures but exceptions, no count is ever above the number of holders.
LEMMA NextPins ==
  ASSUME Failures \subseteq {"throw"}
  PROVE  LockInv /\ MemoryInv /\ NoneForgotten /\ Unharmed /\ Timely /\ [Next]_vars => NoneForgotten'
<1> SUFFICES ASSUME LockInv, MemoryInv, NoneForgotten, Unharmed, Timely, [Next]_vars
             PROVE  NoneForgotten'
  OBVIOUS
<1>1. ControlInv /\ HeapOK /\ ControlInv' /\ ExitOK
  BY MemoryParts, NextControl DEF LockInv
<1>2. ASSUME NEW p \in Proc, Call(p)
      PROVE  NoneForgotten'
  <2>1. UNCHANGED <<heap, ptr, stack>>
    BY <1>2 DEF Call, CallLookup, CallStore, CallUpdate, CallEntry, CallClear, shared
  <2> QED
    BY <1>1, <2>1, PinsSame
<1>3. ASSUME NEW p \in Proc, CallbackReturn(p)
      PROVE  NoneForgotten'
  <2>1. CASE FetchReturn(p) \/ EntryHitReturn(p)
    <3>1. /\ stack[p] # <<>> /\ Pop(p) /\ ptr' = ptr
          /\ Top(p).kind \in Pinning /\ heap' = Decref(heap, Top(p).addr)
      BY <2>1 DEF FetchReturn, EntryHitReturn, InCallback, Pinning
    <3> QED
      BY <1>1, <3>1, PinsPop
  <2>2. CASE \E v \in Values: GeneratorReturn(p, v)
    <3>1. UNCHANGED <<heap, ptr, stack>>
      BY <2>2 DEF GeneratorReturn, shared
    <3> QED
      BY <1>1, <3>1, PinsSame
  <2> QED
    BY <1>3, <2>1, <2>2 DEF CallbackReturn
<1>4. ASSUME NEW p \in Proc, Fail(p)
      PROVE  NoneForgotten'
  <2>1. GeneratorThrow(p)
    BY <1>4 DEF Fail, PersistBailout, Bailout, Crash, FailureOf
  <2>2. UNCHANGED <<heap, ptr, stack>>
    BY <2>1 DEF GeneratorThrow, shared
  <2> QED
    BY <1>1, <2>2, PinsSame
<1>5. CASE Tick \/ UNCHANGED vars
  <2>1. UNCHANGED <<heap, ptr, stack>>
    BY <1>5 DEF Tick, vars, shared
  <2> QED
    BY <1>1, <2>1, PinsSame
<1> QED
  BY <1>1, <1>2, <1>3, <1>4, <1>5, PinsLocking, PinsRunning DEF Next

\* And no request ends inside the cache.
LEMMA NextUnharmed ==
  ASSUME Failures \subseteq {"throw"}
  PROVE  ControlInv /\ Unharmed /\ [Next]_vars => Unharmed'
<1> SUFFICES ASSUME ControlInv, Unharmed, [Next]_vars
             PROVE  Unharmed'
  OBVIOUS
<1>1. ASSUME NEW p \in Proc, Call(p) \/ CallbackReturn(p)
      PROVE  Unharmed'
  <2>1. CASE Call(p)
    BY <2>1 DEF Call, CallLookup, CallStore, CallUpdate, CallEntry, CallClear, Goto, history,
       Unharmed, ControlInv, ControlTypeOK
  <2>2. CASE CallbackReturn(p)
    BY <2>2 DEF CallbackReturn, FetchReturn, EntryHitReturn, GeneratorReturn, Goto, history,
       Unharmed, ControlInv, ControlTypeOK
  <2> QED
    BY <1>1, <2>1, <2>2
<1>2. ASSUME NEW p \in Proc, Locking(p)
      PROVE  Unharmed'
  BY <1>2 DEF Locking, ExpungeSkip, ExpungeAll, ExpungeExpired, ExpungeEnd, InsertRefused, Insert,
     FetchHit, ExistsHit, LookupMiss, UpdateHit, UpdateInsert, UpdateMiss, Delete, Clear, EntryHit,
     EntryMiss, Return, Goto, history, Unharmed, ControlInv, ControlTypeOK
<1>3. ASSUME NEW p \in Proc, Running(p)
      PROVE  Unharmed'
  <2>1. lost' = lost
    BY <1>3 DEF Running, Malloc, MallocFail, ReadCleanups, ExpungeShort, ExpungeAvail,
       ExpungeDefrag, ExpungeFragmented, ExpungeDone, ExpungeEnd, Release, Drop, EntryExit,
       UnwindFetch, UnwindEntry, Unwound, history
  <2>2. \E l \in PCs \ {"bail", "dead"}: pc' = [pc EXCEPT ![p] = l]
    <3>1. CASE MallocFail(p) \/ Release(p) \/ Drop(p)
      BY <3>1, ResumeType DEF MallocFail, Release, Drop, Goto, ControlInv, PCs
    <3>2. CASE \/ Malloc(p) \/ ReadCleanups(p) \/ ExpungeShort(p) \/ ExpungeAvail(p)
               \/ ExpungeDefrag(p) \/ ExpungeFragmented(p) \/ ExpungeDone(p) \/ EntryExit(p)
      BY <3>2 DEF Malloc, ReadCleanups, ExpungeShort, ExpungeAvail, ExpungeDefrag,
         ExpungeFragmented, ExpungeDone, ExpungeEnd, EntryExit, Goto, PCs
    <3>3. CASE UnwindFetch(p) \/ UnwindEntry(p) \/ Unwound(p)
      BY <3>3 DEF UnwindFetch, UnwindEntry, Unwound, Unharmed
    <3> QED
      BY <1>3, <3>1, <3>2, <3>3 DEF Running
  <2> QED
    BY <2>1, <2>2 DEF Unharmed, ControlInv, ControlTypeOK
<1>4. ASSUME NEW p \in Proc, Fail(p)
      PROVE  Unharmed'
  BY <1>4 DEF Fail, PersistBailout, Bailout, Crash, FailureOf, GeneratorThrow, Goto, history,
     Unharmed, ControlInv, ControlTypeOK
<1>5. CASE Tick \/ UNCHANGED vars
  BY <1>5 DEF Tick, vars, history, Unharmed
<1> QED
  BY <1>1, <1>2, <1>3, <1>4, <1>5 DEF Next

\* An empty cache, and idle processes.
LEMMA InitPins == Init => NoneForgotten /\ Unharmed
BY DEF Init, NoneForgotten, Unharmed, Used, FreeAddrs

-----------------------------------------------------------------------------
(* Reference counts: theorems *)

\* If the only failures are exceptions in generators, the reference count of every entry is
\* the number of its holders: none is forgotten by a return, an exception, a refused store or
\* an expunge, so that every entry can be freed in the end (apc_cache_entry_release).
THEOREM PinsAreExact == Failures \subseteq {"throw"} => (Spec => ([]Timely => []RefExact))
<1> SUFFICES ASSUME Failures \subseteq {"throw"} PROVE Spec => ([]Timely => []RefExact)
  OBVIOUS
<1> DEFINE Inv == LockInv /\ MemoryInv /\ NoneForgotten /\ Unharmed
<1>1. Init => Inv
  BY InitControl, InitLock, InitMemory, InitPins DEF LockInv
<1>2. Inv /\ Timely /\ [Next]_vars => Inv'
  BY NextLock, NextMemory, NextPins, NextUnharmed DEF LockInv
<1>3. Inv => RefExact
  <2> SUFFICES ASSUME Inv PROVE RefExact
    OBVIOUS
  <2>1. RefCovers /\ heap \in [Addr -> Entry \cup {Free}]
    BY DEF MemoryInv, TypeOK
  <2>2. ASSUME NEW a \in Used
        PROVE  heap[a].ref = Cardinality(Holders(a))
    <3>1. heap[a].ref >= Cardinality(Holders(a)) /\ heap[a].ref <= Cardinality(Holders(a))
      BY <2>1 DEF RefCovers, NoneForgotten
    <3>2. heap[a].ref \in Int /\ Cardinality(Holders(a)) \in Nat
      BY <2>1, UsedEntry, HoldersSize DEF Used
    <3> QED
      BY <3>1, <3>2
  <2> QED
    BY <2>2 DEF RefExact
<1> HIDE DEF Inv
<1>4. Spec /\ []Timely => []Inv
  BY <1>1, <1>2, PTL DEF Spec
<1> QED
  BY <1>3, <1>4, PTL
=============================================================================
