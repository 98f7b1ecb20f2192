----------------------------- MODULE WindowCache -----------------------------
(* store.rs, dat_bytes / raw_window / fetch_window: threads read byte ranges *)
(* of one dat through aligned windows, which are fetched from the backend    *)
(* inside a flight and kept in a ByteLru.  window_flight appears as the lock *)
(* per key that SingleFlight implements.                                     *)
(*                                                                           *)
(* A byte of the dat is its position, so a window is known by its index and  *)
(* the number of bytes it holds.                                             *)
EXTENDS Integers, Sequences, FiniteSetsExt

CONSTANTS Threads,
          RAW_WINDOW,     \* bytes per window
          DatSize,        \* DatEntry.size: the length when the dump was indexed
          DiskSizes,      \* lengths the file may really have when it is read
          Capacity,       \* raw_cache_bytes
          Ranges,         \* the ranges <<start, end>> that are read
          MaxEnd          \* bound: no range goes past this position

ASSUME WindowIsPositive == RAW_WINDOW \in Nat \ {0}
ASSUME SizesAreLengths ==
  DatSize \in Nat /\ DiskSizes \subseteq Nat /\ Capacity \in Nat /\ MaxEnd \in Nat
ASSUME RangesAreOrdered ==
  \A r \in Ranges : r \in (0..MaxEnd) \X (0..MaxEnd) /\ r[1] <= r[2]

VARIABLES disk,                       \* the dat's real length
          raw,                        \* Store.raw
          gate, key,                  \* Store.window_flight
          phase,                      \* where each thread is in dat_bytes
          start, end, pos, out,       \* its arguments and locals
          got                         \* the length of the window it was handed

flight == <<gate, key>>
args == <<start, end>>
vars == <<disk, raw, gate, key, phase, start, end, pos, out, got>>

Windows == 0..(MaxEnd \div RAW_WINDOW)

Failed == -1

Length(n) == n

Flight == INSTANCE KeyLock WITH Keys <- Windows, phase <- gate, wanted <- key

Raw == INSTANCE ByteLru WITH cache <- raw, Keys <- Windows,
                             Values <- 0..RAW_WINDOW, Size <- Length

Phases == {"idle", "look", "miss", "wait", "recheck", "fetch", "store", "leave", "take", "done"}

TypeOK ==
  /\ disk \in DiskSizes
  /\ Raw!TypeOK
  /\ Flight!TypeOK
  /\ phase \in [Threads -> Phases]
  /\ start \in [Threads -> 0..MaxEnd] /\ end \in [Threads -> 0..MaxEnd]
  /\ pos \in [Threads -> 0..MaxEnd]
  /\ out \in [Threads -> Seq(0..MaxEnd)]
  /\ got \in [Threads -> (0..RAW_WINDOW) \cup {Failed}]

Init ==
  /\ disk \in DiskSizes
  /\ raw = Raw!New
  /\ Flight!Init /\ key = [t \in Threads |-> 0]
  /\ phase = [t \in Threads |-> "idle"]
  /\ start = [t \in Threads |-> 0] /\ end = [t \in Threads |-> 0]
  /\ pos = [t \in Threads |-> 0]
  /\ out = [t \in Threads |-> <<>>]
  /\ got = [t \in Threads |-> 0]

Index(t) == pos[t] \div RAW_WINDOW

Goto(t, to) == phase' = [phase EXCEPT ![t] = to]

\* A caller (Store::block, Store::probe_key) asks for [start, end).
Request(t, r) ==
  /\ phase[t] = "idle"
  /\ start' = [start EXCEPT ![t] = r[1]] /\ end' = [end EXCEPT ![t] = r[2]]
  /\ pos' = [pos EXCEPT ![t] = r[1]]
  /\ Goto(t, "look")
  /\ UNCHANGED <<disk, raw, flight, out, got>>

\* while pos < end: raw_window's first look at the cache
Look(t) ==
  /\ phase[t] = "look" /\ pos[t] < end[t]
  /\ raw' = Raw!Get(raw, Index(t))
  /\ IF Index(t) \in Raw!Cached(raw)
       THEN Goto(t, "take") /\ got' = [got EXCEPT ![t] = Raw!EntryOf(raw, Index(t)).val]
       ELSE Goto(t, "miss") /\ UNCHANGED got
  /\ UNCHANGED <<disk, flight, args, pos, out>>

Enter(t) ==
  /\ phase[t] = "miss"
  /\ Flight!Request(t) /\ key'[t] = Index(t)
  /\ Goto(t, "wait")
  /\ UNCHANGED <<disk, raw, args, pos, out, got>>

Lock(t) ==
  /\ phase[t] = "wait"
  /\ Flight!Acquire(t)
  /\ Goto(t, "recheck")
  /\ UNCHANGED <<disk, raw, args, pos, out, got>>

\* Mutant of Recheck: the closure does not look again.
RecheckMissing(t) ==
  /\ phase[t] = "recheck"
  /\ Goto(t, "fetch")
  /\ UNCHANGED <<disk, raw, flight, args, pos, out, got>>

\* fetch_window, inside the flight: somebody may have stored it meanwhile
Recheck(t) ==
  /\ phase[t] = "recheck"
  /\ raw' = Raw!Get(raw, key[t])
  /\ IF key[t] \in Raw!Cached(raw)
       THEN Goto(t, "leave") /\ got' = [got EXCEPT ![t] = Raw!EntryOf(raw, key[t]).val]
       ELSE Goto(t, "fetch") /\ UNCHANGED got
  /\ UNCHANGED <<disk, flight, args, pos, out>>

\* Mutant of WantedLen: every window is asked for, and kept, at full length.
WantedLenUnclipped(i) == RAW_WINDOW

\* RAW_WINDOW.min(entry.size.saturating_sub(idx * RAW_WINDOW))
WantedLen(i) == Min({RAW_WINDOW, Max({0, DatSize - i * RAW_WINDOW})})

\* Backend::read_at: as many of the bytes asked for as the file has.
ReadAt(from, len) == Min({len, Max({0, disk - from})})

\* What there is of a window.
WindowLen(i) == ReadAt(i * RAW_WINDOW, WantedLen(i))

\* An empty window needs no backend call and so cannot fail.
Fetch(t) ==
  /\ phase[t] = "fetch"
  /\ \/ /\ got' = [got EXCEPT ![t] = WindowLen(key[t])]
        /\ Goto(t, "store")
     \/ /\ WantedLen(key[t]) > 0
        /\ got' = [got EXCEPT ![t] = Failed]
        /\ Goto(t, "leave")
  /\ UNCHANGED <<disk, raw, flight, args, pos, out>>

Store(t) ==
  /\ phase[t] = "store"
  /\ raw' = Raw!Insert(raw, key[t], got[t])
  /\ Goto(t, "leave")
  /\ UNCHANGED <<disk, flight, args, pos, out, got>>

\* The closure has returned; the rest of dedupe.
Leave(t) ==
  /\ phase[t] = "leave"
  /\ \/ Flight!Release(t) /\ UNCHANGED phase
     \/ Flight!Return(t) /\ Goto(t, IF got[t] = Failed THEN "done" ELSE "take")
  /\ UNCHANGED <<disk, raw, args, pos, out, got>>

TakeBytes(t, skip, n) ==
  LET base == Index(t) * RAW_WINDOW + skip
  IN  /\ out' = [out EXCEPT ![t] = @ \o [i \in 1..n |-> base + i - 1]]
      /\ pos' = [pos EXCEPT ![t] = @ + n]

\* Mutant of Take: a window that ends early is asked for again.
TakeRetriesShort(t) ==
  LET skip == pos[t] - Index(t) * RAW_WINDOW
  IN  /\ phase[t] = "take"
      /\ IF skip >= got[t] THEN UNCHANGED <<pos, out>>
         ELSE TakeBytes(t, skip, Min({end[t] - pos[t], got[t] - skip}))
      /\ Goto(t, "look")
      /\ UNCHANGED <<disk, raw, flight, args, got>>

\* Copy what the window has of the range; a window that ends before `pos` ends
\* the read, with what there is so far.
Take(t) ==
  LET skip == pos[t] - Index(t) * RAW_WINDOW
  IN  /\ phase[t] = "take"
      /\ IF skip >= got[t]
           THEN Goto(t, "done") /\ UNCHANGED <<pos, out>>
           ELSE /\ TakeBytes(t, skip, Min({end[t] - pos[t], got[t] - skip}))
                /\ Goto(t, "look")
      /\ UNCHANGED <<disk, raw, flight, args, got>>

\* pos has reached end: Ok(out)
Finish(t) ==
  /\ phase[t] = "look" /\ pos[t] >= end[t]
  /\ Goto(t, "done")
  /\ UNCHANGED <<disk, raw, flight, args, pos, out, got>>

\* The caller has its bytes or its error; the locals go out of scope.
Return(t) ==
  /\ phase[t] = "done"
  /\ start' = [start EXCEPT ![t] = 0] /\ end' = [end EXCEPT ![t] = 0]
  /\ pos' = [pos EXCEPT ![t] = 0]
  /\ out' = [out EXCEPT ![t] = <<>>]
  /\ got' = [got EXCEPT ![t] = 0]
  /\ Goto(t, "idle")
  /\ UNCHANGED <<disk, raw, flight>>

Step(t) ==
  Look(t) \/ Enter(t) \/ Lock(t) \/ Recheck(t) \/ Fetch(t) \/ Store(t) \/ Leave(t)
    \/ Take(t) \/ Finish(t) \/ Return(t)

Next ==
  \E t \in Threads : Step(t) \/ \E r \in Ranges : Request(t, r)

Spec == Init /\ [][Next]_vars

\* A running thread keeps running and the backend answers, with bytes or with
\* an error; parking_lot hands a contended slot to every waiter in the end.
Fairness == \A t \in Threads : WF_vars(Step(t)) /\ SF_vars(Lock(t))

FairSpec == Spec /\ Fairness

-----------------------------------------------------------------------------
\* The bytes gathered so far are exactly bytes start .. pos-1 of the dat, in
\* order: nothing skipped, repeated or taken from another window, whatever was
\* evicted and fetched again while the loop ran.  A read that returned without
\* an error is only short when the dat is: it stops at the end of the range or
\* of the file.  Store::block tells a short read from a complete one by nothing
\* but this length.
OutIsExact ==
  /\ TypeOK
  /\ \A t \in Threads :
       LET avail == Min({end[t], DatSize, disk})
       IN  /\ out[t] = [i \in 1..(pos[t] - start[t]) |-> start[t] + i - 1]
           /\ phase[t] = "done" /\ got[t] # Failed => Len(out[t]) = Max({0, avail - start[t]})

\* Two threads never fetch one window at the same time, and a window being
\* fetched is in nobody's reach already: "two threads reading neighbouring
\* blocks should not fetch it twice".  So a window is fetched again only after
\* an eviction or a failure.
NoDuplicateFetch ==
  \A t \in Threads :
    phase[t] \in {"fetch", "store"} =>
      /\ key[t] \notin Raw!Cached(raw)
      /\ \A u \in Threads \ {t} : phase[u] \in {"fetch", "store"} => key[u] # key[t]

\* Every read comes to an end: the loop makes progress with every window, and
\* nobody waits for ever in the flight.
ReadsReturn == \A t \in Threads : phase[t] = "look" ~> phase[t] = "idle"

=============================================================================
