------------------------- MODULE SingleFlightProofs -------------------------
(* SingleFlight serialises work per key for any finite set of threads and   *)
(* keys.  The invariant IInv is inductive; the only delicate step is Check, *)
(* where a reference count of two has to mean that the caller is the slot's *)
(* only holder, so that removing the entry strands nobody.                  *)
EXTENDS SingleFlight, FiniteSetTheorems, TLAPS

\* A set of threads or keys is finite, so its cardinality is a natural number.
LEMMA CountsAreNat ==
  ASSUME NEW s
  PROVE  /\ IsFiniteSet(Holders(s)) /\ Cardinality(Holders(s)) \in Nat
         /\ IsFiniteSet(Entries(s)) /\ Cardinality(Entries(s)) \in Nat
<1>1. IsFiniteSet(Holders(s))
  BY FiniteThreads, FS_Subset, Holders(s) \subseteq Threads DEF Holders
<1>2. IsFiniteSet(Entries(s))
  BY FiniteKeys, FS_Subset, Entries(s) \subseteq Keys DEF Entries
<1>3. QED
  BY <1>1, <1>2, FS_CardinalityType

\* The comment in dedupe, "Two references means the map's and ours": when the
\* entry of the caller's key has a count of two, no other thread refers to it.
LEMMA TwoMeansAlone ==
  ASSUME IInv, NEW t \in Threads, pc[t] = "check", LastCaller(t)
  PROVE  \A u \in Threads : slot[u] = slot[t] => u = t
<1> DEFINE s == inflight[key[t]]
<1>1. s = slot[t] /\ s # NoSlot /\ key[t] \in Keys
  BY DEF IInv, SlotIsCurrent, LastCaller, TypeOK
<1>2. t \in Holders(s) /\ key[t] \in Entries(s)
  BY <1>1 DEF Holders, Entries
<1>3. Cardinality(Holders(s)) # 0 /\ Cardinality(Entries(s)) # 0
  BY <1>2, CountsAreNat, FS_EmptySet
<1>4. Cardinality(Entries(s)) + Cardinality(Holders(s)) = 2
  BY DEF LastCaller, StrongCount
<1>5. Cardinality(Holders(s)) = 1
  <2> DEFINE h == Cardinality(Holders(s))
             e == Cardinality(Entries(s))
  <2>1. h \in Nat /\ e \in Nat /\ h # 0 /\ e # 0 /\ e + h = 2
    BY <1>3, <1>4, CountsAreNat
  <2> HIDE DEF h, e
  <2>2. h = 1
    BY <2>1
  <2>3. QED
    BY <2>2 DEF h
<1>6. \E x : Holders(s) = {x}
  BY Zenon, <1>5, CountsAreNat, FS_Singleton
<1>7. QED
  BY <1>1, <1>2, <1>6 DEF Holders

\* The empty map and threads outside dedupe satisfy the invariant.
LEMMA InitIInv == Init => IInv
  BY NoSlotIsNoSlot
     DEF Init, IInv, TypeOK, SlotIsCurrent, SlotsNotShared, SlotOwnership

\* Enter hands out the current slot of the key, or one nobody refers to.
LEMMA EnterIInv ==
  ASSUME IInv, NEW t \in Threads, NEW k \in Keys, Enter(t, k)
  PROVE  IInv'
<1>1. PICK s \in Slots :
        /\ IF inflight[k] = NoSlot THEN Unreferenced(s) ELSE s = inflight[k]
        /\ inflight' = [inflight EXCEPT ![k] = s]
        /\ slot' = [slot EXCEPT ![t] = s]
  BY Zenon DEF Enter
<1>2. TypeOK'
  BY <1>1 DEF IInv, TypeOK, Enter
<1>3. s # NoSlot
  BY NoSlotIsNoSlot
<1>4. \A j \in Keys : inflight[j] = s => j = k
  BY <1>1, <1>3 DEF Unreferenced, Entries, IInv, SlotsNotShared
<1>5. \A u \in Threads : slot[u] = s => key[u] = k
  <2> SUFFICES ASSUME NEW u \in Threads, slot[u] = s PROVE key[u] = k
    OBVIOUS
  <2>1. s = inflight[k]
    BY <1>1 DEF Unreferenced, Holders
  <2>2. QED
    BY <2>1, <1>3 DEF IInv, SlotOwnership
<1>6. SlotIsCurrent'
  BY <1>1, <1>3, NoSlotIsNoSlot DEF IInv, TypeOK, SlotIsCurrent, SlotOwnership, Enter
<1>7. SlotsNotShared'
  BY <1>1, <1>4 DEF IInv, TypeOK, SlotsNotShared
<1>8. SlotOwnership'
  BY <1>1, <1>3, <1>4, <1>5 DEF IInv, TypeOK, SlotOwnership, Enter
<1>9. QED
  BY <1>2, <1>6, <1>7, <1>8 DEF IInv

\* Lock, Unlock and Drop leave the map alone.
LEMMA LocalStepsIInv ==
  ASSUME IInv, NEW t \in Threads, Lock(t) \/ Unlock(t) \/ Drop(t)
  PROVE  IInv'
<1>1. TypeOK'
  BY DEF IInv, TypeOK, Lock, Unlock, Drop
<1>2. SlotIsCurrent'
  BY DEF IInv, TypeOK, SlotIsCurrent, Lock, Unlock, Drop
<1>3. SlotsNotShared'
  BY DEF IInv, SlotsNotShared, Lock, Unlock, Drop
<1>4. SlotOwnership'
  BY DEF IInv, TypeOK, SlotOwnership, Lock, Unlock, Drop
<1>5. QED
  BY <1>1, <1>2, <1>3, <1>4 DEF IInv

\* Check may remove the entry, but only when the caller is its last holder.
LEMMA CheckIInv ==
  ASSUME IInv, NEW t \in Threads, Check(t)
  PROVE  IInv'
<1>1. pc[t] = "check" /\ pc' = [pc EXCEPT ![t] = "drop"] /\ UNCHANGED <<key, slot>>
  BY DEF Check, CheckWith
<1>2. TypeOK'
  BY DEF IInv, TypeOK, Check, CheckWith
<1>3. SlotIsCurrent'
  <2> SUFFICES ASSUME NEW u \in Threads, pc'[u] \in {"lock", "work", "check"}
               PROVE  inflight'[key'[u]] = slot'[u]
    BY DEF SlotIsCurrent
  <2>1. u # t /\ pc[u] \in {"lock", "work", "check"}
    BY <1>1 DEF IInv, TypeOK
  <2>2. inflight[key[u]] = slot[u]
    BY <2>1 DEF IInv, SlotIsCurrent
  <2>3. CASE LastCaller(t)
    <3>1. slot[u] # slot[t]
      BY <1>1, <2>1, <2>3, TwoMeansAlone
    <3>2. key[u] # key[t]
      BY <1>1, <2>2, <3>1 DEF IInv, SlotIsCurrent
    <3>3. QED
      BY <1>1, <2>2, <2>3, <3>2 DEF Check, CheckWith, IInv, TypeOK
  <2>4. CASE ~LastCaller(t)
    BY <1>1, <2>2, <2>4 DEF Check, CheckWith
  <2>5. QED
    BY <2>3, <2>4
<1>4. SlotsNotShared'
  BY DEF IInv, TypeOK, SlotsNotShared, Check, CheckWith
<1>5. SlotOwnership'
  BY <1>1 DEF IInv, TypeOK, SlotOwnership, Check, CheckWith
<1>6. QED
  BY <1>2, <1>3, <1>4, <1>5 DEF IInv

\* Every step of dedupe preserves the invariant.
LEMMA NextIInv == IInv /\ [Next]_vars => IInv'
<1>1. ASSUME IInv, NEW t \in Threads, NEW k \in Keys, Enter(t, k) PROVE IInv'
  BY <1>1, EnterIInv
<1>2. ASSUME IInv, NEW t \in Threads, Lock(t) \/ Unlock(t) \/ Drop(t) PROVE IInv'
  BY <1>2, LocalStepsIInv
<1>3. ASSUME IInv, NEW t \in Threads, Check(t) PROVE IInv'
  BY <1>3, CheckIInv
<1>4. ASSUME IInv, UNCHANGED vars PROVE IInv'
  BY <1>4 DEF vars, IInv, TypeOK, SlotIsCurrent, SlotsNotShared, SlotOwnership
<1>5. QED
  BY <1>1, <1>2, <1>3, <1>4 DEF Next

\* In every reachable state the slots are typed, current and not shared.
THEOREM SlotsAlwaysCurrent == Spec => []IInv
  BY InitIInv, NextIInv, PTL DEF Spec

\* A caller that gets its slot is alone on its key: any other worker on that
\* key refers to the same slot, whose mutex it would be holding.
LEMMA LockKeepsExclusion ==
  ASSUME IInv, MutualExclusion, [Next]_vars
  PROVE  MutualExclusion'
<1>1. ASSUME NEW t \in Threads, Lock(t) PROVE MutualExclusion'
  <2>1. \A u \in Threads : pc[u] = "work" => key[u] # key[t]
    BY <1>1 DEF IInv, SlotIsCurrent, Lock, Holders
  <2>2. QED
    BY <1>1, <2>1 DEF MutualExclusion, Lock, IInv, TypeOK
<1>2. ASSUME NEW t \in Threads, NEW k \in Keys, Enter(t, k) PROVE MutualExclusion'
  BY <1>2 DEF MutualExclusion, Enter, IInv, TypeOK
<1>3. ASSUME NEW t \in Threads, Unlock(t) \/ Check(t) \/ Drop(t) PROVE MutualExclusion'
  BY <1>3 DEF MutualExclusion, Unlock, Check, CheckWith, Drop, IInv, TypeOK
<1>4. CASE UNCHANGED vars
  BY <1>4 DEF MutualExclusion, vars
<1>5. QED
  BY <1>1, <1>2, <1>3, <1>4 DEF Next

\* "Serializes work per key", for any number of threads, keys and slots.
THEOREM WorkIsSerialized == Spec => []MutualExclusion
<1>1. Init => MutualExclusion
  BY DEF Init, MutualExclusion
<1>2. QED
  BY <1>1, LockKeepsExclusion, SlotsAlwaysCurrent, PTL DEF Spec

\* A caller gets its slot only when nobody works on its key: Lock's guard is
\* about the slot, the abstract Acquire's about the key.
LEMMA LockIsAcquire ==
  ASSUME IInv, NEW t \in Threads, Lock(t)
  PROVE  Abstract!Acquire(t)
<1> DEFINE P(p) == [u \in Threads |-> PhaseOf(p[u])]
<1>1. \A u \in Threads : PhaseOf(pc[u]) = "working" <=> pc[u] = "work"
  BY DEF PhaseOf, IInv, TypeOK
<1>2. \A u \in Threads : pc[u] = "work" => key[u] # key[t]
  BY DEF IInv, SlotIsCurrent, Lock, Holders
<1>3. P(pc') = [P(pc) EXCEPT ![t] = "working"]
  BY Zenon DEF PhaseOf, Lock, IInv, TypeOK
<1>4. P(pc)[t] = "waiting"
  BY DEF PhaseOf, Lock
<1>5. QED
  BY <1>1, <1>2, <1>3, <1>4 DEF Abstract!Acquire, Lock

\* Every step of dedupe is a step of the lock per key, or none at all.
LEMMA StepRefines == IInv /\ [Next]_vars => [Abstract!Next]_(Abstract!vars)
<1> DEFINE P(p) == [u \in Threads |-> PhaseOf(p[u])]
<1> SUFFICES ASSUME IInv, [Next]_vars PROVE [Abstract!Next]_(Abstract!vars)
  OBVIOUS
<1>1. ASSUME NEW t \in Threads, NEW k \in Keys, Enter(t, k) PROVE Abstract!Request(t)
  <2>1. P(pc') = [P(pc) EXCEPT ![t] = "waiting"] /\ P(pc)[t] = "outside"
    BY ZenonT(60), <1>1 DEF PhaseOf, Enter, IInv, TypeOK
  <2>2. QED
    BY Zenon, <1>1, <2>1 DEF Abstract!Request, Enter
<1>2. ASSUME NEW t \in Threads, Unlock(t) PROVE Abstract!Release(t)
  <2>1. P(pc') = [P(pc) EXCEPT ![t] = "done"] /\ P(pc)[t] = "working"
    BY ZenonT(60), <1>2 DEF PhaseOf, Unlock, IInv, TypeOK
  <2>2. QED
    BY <1>2, <2>1 DEF Abstract!Release, Unlock
<1>3. ASSUME NEW t \in Threads, Check(t) PROVE UNCHANGED Abstract!vars
  <2>1. P(pc') = P(pc)
    BY <1>3 DEF PhaseOf, Check, CheckWith, IInv, TypeOK
  <2>2. QED
    BY <1>3, <2>1 DEF Abstract!vars, Check, CheckWith
<1>4. ASSUME NEW t \in Threads, Drop(t) PROVE Abstract!Return(t)
  <2>1. P(pc') = [P(pc) EXCEPT ![t] = "outside"] /\ P(pc)[t] = "done"
    BY Zenon, <1>4 DEF PhaseOf, Drop, IInv, TypeOK
  <2>2. QED
    BY <1>4, <2>1 DEF Abstract!Return, Drop
<1>5. CASE UNCHANGED vars
  BY <1>5 DEF vars, Abstract!vars
<1>6. QED
  BY <1>1, <1>2, <1>3, <1>4, <1>5, LockIsAcquire DEF Next, Abstract!Next

\* dedupe implements a lock per key.
THEOREM RefinesKeyLock == Spec => ImplementsKeyLock
<1>1. Init => Abstract!Init
  BY DEF Init, Abstract!Init, PhaseOf
<1>2. QED
  BY <1>1, StepRefines, SlotsAlwaysCurrent, PTL DEF Spec, ImplementsKeyLock, Abstract!Spec

=============================================================================
