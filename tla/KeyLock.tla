------------------------------ MODULE KeyLock ------------------------------
(* What SingleFlight promises its callers, without the map and the slots:  *)
(* a caller states the key it needs worked on, does the work alone, and    *)
(* goes away.  Two callers never work on one key at the same time.         *)

CONSTANTS Threads, Keys

VARIABLES phase,    \* where each thread is: outside, waiting, working, done
          wanted    \* the key the thread's call is about

vars == <<phase, wanted>>

Phases == {"outside", "waiting", "working", "done"}

TypeOK ==
  /\ phase \in [Threads -> Phases]
  /\ wanted \in [Threads -> Keys]

Init ==
  /\ phase = [t \in Threads |-> "outside"]
  /\ wanted \in [Threads -> Keys]

Request(t) ==
  /\ phase[t] = "outside"
  /\ phase' = [phase EXCEPT ![t] = "waiting"]
  /\ \E k \in Keys : wanted' = [wanted EXCEPT ![t] = k]

Acquire(t) ==
  /\ phase[t] = "waiting"
  /\ \A u \in Threads : phase[u] = "working" => wanted[u] # wanted[t]
  /\ phase' = [phase EXCEPT ![t] = "working"]
  /\ UNCHANGED wanted

Release(t) ==
  /\ phase[t] = "working"
  /\ phase' = [phase EXCEPT ![t] = "done"]
  /\ UNCHANGED wanted

Return(t) ==
  /\ phase[t] = "done"
  /\ phase' = [phase EXCEPT ![t] = "outside"]
  /\ UNCHANGED wanted

Next == \E t \in Threads : Request(t) \/ Acquire(t) \/ Release(t) \/ Return(t)

Spec == Init /\ [][Next]_vars

=============================================================================
