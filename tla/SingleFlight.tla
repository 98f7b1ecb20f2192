---------------------------- MODULE SingleFlight ----------------------------
(* cache.rs, SingleFlight<K>: the map `inflight` from a key to a reference- *)
(* counted mutex (a slot), and the one operation `dedupe`.                  *)
(*                                                                          *)
(* A call is cut where another thread can see the difference: the map lock  *)
(* is taken twice (Enter, Check), the slot's mutex once (Lock .. Unlock),   *)
(* and the caller's own reference to the slot is dropped (Drop) only after  *)
(* the map guard, since locals drop in reverse order of declaration.        *)
EXTENDS Integers, FiniteSets

CONSTANTS Threads,  \* callers of dedupe
          Keys,     \* what the work is about: blob ids, (dat, window) pairs
          Slots,    \* identities of Arc<Mutex<()>> allocations
          NoSlot    \* no entry in the map, no reference in the caller

ASSUME FiniteThreads == IsFiniteSet(Threads)
ASSUME FiniteKeys == IsFiniteSet(Keys)
ASSUME NoSlotIsNoSlot == NoSlot \notin Slots

VARIABLES inflight, \* the map: key -> slot, NoSlot where there is no entry
          pc,       \* where each thread is inside dedupe
          key,      \* the argument of each thread's call
          slot      \* each thread's clone of the Arc

vars == <<inflight, pc, key, slot>>

TypeOK ==
  /\ inflight \in [Keys -> Slots \cup {NoSlot}]
  /\ pc \in [Threads -> {"idle", "lock", "work", "check", "drop"}]
  /\ key \in [Threads -> Keys]
  /\ slot \in [Threads -> Slots \cup {NoSlot}]

Holders(s) == {t \in Threads : slot[t] = s}

Entries(s) == {k \in Keys : inflight[k] = s}

\* Arc::strong_count: one reference per map entry and one per caller.
StrongCount(s) == Cardinality(Entries(s)) + Cardinality(Holders(s))

Init ==
  /\ inflight = [k \in Keys |-> NoSlot]
  /\ pc = [t \in Threads |-> "idle"]
  /\ key \in [Threads -> Keys]
  /\ slot = [t \in Threads |-> NoSlot]

\* An allocation nobody refers to: an Arc freed earlier may be handed out again.
Unreferenced(s) == Holders(s) = {} /\ Entries(s) = {}

\* inflight.lock().entry(key).or_insert_with(new slot).clone()
Enter(t, k) ==
  /\ pc[t] = "idle"
  /\ \E s \in Slots :
       /\ IF inflight[k] = NoSlot THEN Unreferenced(s) ELSE s = inflight[k]
       /\ inflight' = [inflight EXCEPT ![k] = s]
       /\ slot' = [slot EXCEPT ![t] = s]
  /\ key' = [key EXCEPT ![t] = k]
  /\ pc' = [pc EXCEPT ![t] = "lock"]

\* Mutant of Lock: the closure runs without the slot's mutex.
LockMissing(t) ==
  /\ pc[t] = "lock"
  /\ pc' = [pc EXCEPT ![t] = "work"]
  /\ UNCHANGED <<inflight, key, slot>>

\* let _held = slot.lock()
Lock(t) ==
  /\ pc[t] = "lock"
  /\ \A u \in Holders(slot[t]) : pc[u] # "work"
  /\ pc' = [pc EXCEPT ![t] = "work"]
  /\ UNCHANGED <<inflight, key, slot>>

\* f() has returned and _held goes out of scope
Unlock(t) ==
  /\ pc[t] = "work"
  /\ pc' = [pc EXCEPT ![t] = "check"]
  /\ UNCHANGED <<inflight, key, slot>>

CheckWith(t, next, removable) ==
  /\ pc[t] = "check"
  /\ inflight' = IF removable THEN [inflight EXCEPT ![key[t]] = NoSlot] ELSE inflight
  /\ pc' = [pc EXCEPT ![t] = next]
  /\ UNCHANGED <<key, slot>>

LastCaller(t) ==
  LET s == inflight[key[t]] IN s # NoSlot /\ StrongCount(s) = 2

\* Mutant of Check: the entry goes whatever its count.
CheckAlwaysRemoves(t) == CheckWith(t, "drop", TRUE)

\* Mutant of Check: stay until the count has come down to two.
CheckSpins(t) ==
  CheckWith(t, IF LastCaller(t) THEN "drop" ELSE "check", LastCaller(t))

\* under the map lock: drop the entry if its count says "the map's and ours"
Check(t) == CheckWith(t, "drop", LastCaller(t))

\* the map guard is gone; now the caller's Arc goes
Drop(t) ==
  /\ pc[t] = "drop"
  /\ slot' = [slot EXCEPT ![t] = NoSlot]
  /\ pc' = [pc EXCEPT ![t] = "idle"]
  /\ UNCHANGED <<inflight, key>>

Next ==
  \E t \in Threads :
    \/ \E k \in Keys : Enter(t, k)
    \/ Lock(t)
    \/ Unlock(t)
    \/ Check(t)
    \/ Drop(t)

Spec == Init /\ [][Next]_vars

\* parking_lot's mutexes hand over to a waiter sooner or later, so a thread
\* waiting for a slot that is released again and again gets it: strong
\* fairness on Lock.  A running thread keeps running (weak fairness), and the
\* work f() ends.  Nobody is obliged to call dedupe.
Fairness ==
  \A t \in Threads :
    SF_vars(Lock(t)) /\ WF_vars(Unlock(t)) /\ WF_vars(Check(t)) /\ WF_vars(Drop(t))

FairSpec == Spec /\ Fairness

-----------------------------------------------------------------------------
\* "Serializes work per key": no two threads run their closure for one key.
\* The slot's mutex alone does not give this; two callers could be locking two
\* different slots for the same key.
MutualExclusion ==
  \A t, u \in Threads :
    pc[t] = "work" /\ pc[u] = "work" /\ key[t] = key[u] => t = u

\* Why it holds: a caller that has not passed its check refers to the slot the
\* map has for its key, so every later caller of that key queues behind it.
\* An entry removed under a waiter (a wrong reference count) would break it.
SlotIsCurrent ==
  \A t \in Threads :
    pc[t] \in {"lock", "work", "check"} => inflight[key[t]] = slot[t]

\* Two keys never share a slot, so work on one key never waits for another.
SlotsNotShared ==
  \A j, k \in Keys : inflight[j] = inflight[k] /\ inflight[j] # NoSlot => j = k

\* The strengthening that makes these inductive: a caller inside dedupe has a
\* slot, a caller outside has none, and a slot a caller refers to is either
\* its own key's entry or no entry at all.
SlotOwnership ==
  \A t \in Threads :
    /\ pc[t] = "idle" <=> slot[t] = NoSlot
    /\ \A k \in Keys : inflight[k] = slot[t] /\ slot[t] # NoSlot => k = key[t]

IInv == TypeOK /\ SlotIsCurrent /\ SlotsNotShared /\ SlotOwnership

\* The test in cache.rs expects `tracked() == 0` after every caller has
\* returned: "keys are dropped once nobody holds them".
\* Does not hold as it stands: see "Other divergences" in the README.
TrackedDrained ==
  (\A t \in Threads : pc[t] = "idle") => \A k \in Keys : inflight[k] = NoSlot

\* Every call of dedupe returns: nobody waits for ever on a slot.
CallsReturn ==
  \A t \in Threads : pc[t] = "lock" ~> pc[t] = "idle"

-----------------------------------------------------------------------------
PhaseOf(p) ==
  CASE p = "idle" -> "outside"
    [] p = "lock" -> "waiting"
    [] p = "work" -> "working"
    [] p \in {"check", "drop"} -> "done"

\* SingleFlight implements a lock per key; Unlock maps to the
\* release, Drop to the return and Check to a stutter.
Abstract == INSTANCE KeyLock WITH phase <- [t \in Threads |-> PhaseOf(pc[t])],
                                  wanted <- key

\* The callers of dedupe see a lock per key and nothing of the slots.
ImplementsKeyLock == Abstract!Spec

=============================================================================
