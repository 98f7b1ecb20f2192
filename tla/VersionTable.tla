---------------------------- MODULE VersionTable ----------------------------
(* store.rs, parent / chain / table / build_table / own_table / FileTable:  *)
(* the file table of a version, built by walking its chain of parent blobs  *)
(* to the root and layering each blob's records over its parent's table.    *)
(*                                                                          *)
(* A table is the sequence of blobs whose records it consists of, its own   *)
(* first; <<>> is no table.  table_flight appears as the lock per key that  *)
(* SingleFlight implements.  `parsed` either gives a blob's contents, which *)
(* never change, or fails.                                                  *)
EXTENDS Integers, SequencesExt, FiniteSets

CONSTANTS Threads,
          Blobs,      \* the blobs of one depot
          NoBlob,
          Version,    \* [Blobs -> Nat]: version number in the blob's name
          Crc,        \* [Blobs -> Nat]: crc in the blob's name
          Prev,       \* [Blobs -> [version, crc] or NoPrev]: keys 11 and 12
          NoPrev,
          Files,      \* file ids
          Records,    \* [Blobs -> SUBSET Files]: what the blob introduced
          TableCap,   \* capacity of `tables`
          MaxChain,   \* chain gives up beyond this length
          MaxLayers   \* bound: no build starts over a cached table of more layers

ASSUME BlobsAssumption == NoBlob \notin Blobs /\ IsFiniteSet(Blobs) /\ Blobs # {}
ASSUME RecordsAssumption == Records \in [Blobs -> SUBSET Files]
ASSUME BoundsAssumption == TableCap \in Nat \ {0} /\ MaxChain \in Nat /\ MaxLayers \in Nat

VARIABLES tables,       \* Store.tables
          gate, want,   \* Store.table_flight
          pc,           \* where each thread is inside `table`
          id,           \* the version it wants the table of
          out,          \* chain's result so far, the oldest blob last
          acc,          \* build_table's `parent`: the layers built so far
          res           \* the table the call returns

vars == <<tables, gate, want, pc, id, out, acc, res>>
flight == <<gate, want>>

NoTable == <<>>
Error == <<NoBlob>>

TableFlight == INSTANCE KeyLock WITH Keys <- Blobs, phase <- gate, wanted <- want

TypeOK ==
  /\ tables \in [Blobs -> Seq(Blobs)]
  /\ TableFlight!TypeOK
  /\ pc \in [Threads -> {"idle", "miss", "wait", "recheck", "walk", "layer", "build",
                         "release", "leave", "done"}]
  /\ id \in [Threads -> Blobs]
  /\ out \in [Threads -> Seq(Blobs)]
  /\ acc \in [Threads -> Seq(Blobs)]
  /\ res \in [Threads -> Seq(Blobs) \cup {Error}]

SomeBlob == CHOOSE b \in Blobs : TRUE

Init ==
  /\ tables = [b \in Blobs |-> NoTable]
  /\ TableFlight!Init /\ want = [t \in Threads |-> SomeBlob]
  /\ pc = [t \in Threads |-> "idle"]
  /\ id = [t \in Threads |-> SomeBlob]
  /\ out = [t \in Threads |-> <<>>]
  /\ acc = [t \in Threads |-> NoTable]
  /\ res = [t \in Threads |-> NoTable]

SameVersion(v) == {p \in Blobs : Version[p] = v}

\* The blob with the recorded version and crc, or else the only blob with that
\* version, or else none.
Parent(b) ==
  IF Prev[b] = NoPrev THEN NoBlob
  ELSE LET same == SameVersion(Prev[b].version)
           exact == {p \in same : Crc[p] = Prev[b].crc}
       IN  IF exact # {} THEN CHOOSE p \in exact : TRUE
           ELSE IF Cardinality(same) = 1 THEN CHOOSE p \in same : TRUE
           ELSE NoBlob

Goto(t, to) == pc' = [pc EXCEPT ![t] = to]

Finish(t, at, table) == Goto(t, at) /\ res' = [res EXCEPT ![t] = table]

\* In a dump whose blobs point at each other a table is built over an older one
\* of the same version, so it gets longer with every eviction: hence the bound.
Call(t, b) ==
  /\ pc[t] = "idle"
  /\ tables[b] = NoTable => \A c \in Blobs : Len(tables[c]) <= MaxLayers
  /\ id' = [id EXCEPT ![t] = b]
  /\ IF tables[b] # NoTable THEN Finish(t, "done", tables[b])
                            ELSE Goto(t, "miss") /\ UNCHANGED res
  /\ UNCHANGED <<tables, flight, out, acc>>

Enter(t) ==
  /\ pc[t] = "miss"
  /\ TableFlight!Request(t) /\ want'[t] = id[t]
  /\ Goto(t, "wait")
  /\ UNCHANGED <<tables, id, out, acc, res>>

Acquire(t) ==
  /\ pc[t] = "wait"
  /\ TableFlight!Acquire(t)
  /\ Goto(t, "recheck")
  /\ UNCHANGED <<tables, id, out, acc, res>>

\* build_table looks again, then starts the chain at the version itself
Recheck(t) ==
  /\ pc[t] = "recheck"
  /\ IF tables[id[t]] # NoTable
       THEN Finish(t, "release", tables[id[t]]) /\ UNCHANGED out
       ELSE Goto(t, "walk") /\ out' = [out EXCEPT ![t] = <<id[t]>>] /\ UNCHANGED res
  /\ UNCHANGED <<tables, flight, id, acc>>

\* `parsed` failed on the way: the whole call fails.
Fail(t) ==
  /\ pc[t] \in {"walk", "build"}
  /\ Finish(t, "release", Error)
  /\ UNCHANGED <<tables, flight, id, out, acc>>

\* Mutant of Walk: a parent that the chain has already is passed over, and the
\* loop goes on.
WalkSpins(t) ==
  /\ pc[t] = "walk"
  /\ LET p == Parent(Last(out[t]))
     IN  IF p = NoBlob \/ Len(out[t]) > MaxChain THEN Goto(t, "layer") /\ UNCHANGED out
         ELSE /\ out' = [out EXCEPT ![t] = IF Contains(@, p) THEN @ ELSE Append(@, p)]
              /\ UNCHANGED pc
  /\ UNCHANGED <<tables, flight, id, acc, res>>

\* Mutant of Walk: one version short of the root.
WalkStopsEarly(t) ==
  /\ pc[t] = "walk"
  /\ LET p == Parent(Last(out[t]))
     IN  IF p = NoBlob \/ Parent(p) = NoBlob THEN Goto(t, "layer") /\ UNCHANGED out
         ELSE out' = [out EXCEPT ![t] = Append(@, p)] /\ UNCHANGED pc
  /\ UNCHANGED <<tables, flight, id, acc, res>>

\* chain: one more parent, unless there is none, it closes a cycle, or the
\* chain is too long
Walk(t) ==
  /\ pc[t] = "walk"
  /\ LET p == Parent(Last(out[t]))
     IN  IF p = NoBlob \/ Contains(out[t], p) \/ Len(out[t]) > MaxChain
           THEN Goto(t, "layer") /\ UNCHANGED out
           ELSE out' = [out EXCEPT ![t] = Append(@, p)] /\ UNCHANGED pc
  /\ UNCHANGED <<tables, flight, id, acc, res>>

\* build_table, the oldest blob first: a layer that is cached is taken as it is
Layer(t) ==
  /\ pc[t] = "layer"
  /\ IF out[t] = <<>> THEN Finish(t, "release", acc[t]) /\ UNCHANGED <<out, acc>>
     ELSE LET b == Last(out[t])
          IN  IF tables[b] # NoTable
                THEN /\ acc' = [acc EXCEPT ![t] = tables[b]]
                     /\ out' = [out EXCEPT ![t] = Front(@)]
                     /\ UNCHANGED <<pc, res>>
                ELSE Goto(t, "build") /\ UNCHANGED <<out, acc, res>>
  /\ UNCHANGED <<tables, flight, id>>

TablesHeld == {b \in Blobs : tables[b] # NoTable}

\* tables.put: some other table goes when the cache is full.  The LRU order
\* decides which; nothing here depends on it.
Put(b, table) ==
  LET others == TablesHeld \ {b}
      with == [tables EXCEPT ![b] = table]
  IN  IF Cardinality(others) < TableCap THEN tables' = with
      ELSE \E victim \in others : tables' = [with EXCEPT ![victim] = NoTable]

BuildOver(t, below) ==
  LET b == Last(out[t])
      layered == <<b>> \o below
  IN  /\ pc[t] = "build"
      /\ Put(b, layered)
      /\ acc' = [acc EXCEPT ![t] = layered]
      /\ out' = [out EXCEPT ![t] = Front(@)]
      /\ Goto(t, "layer")
      /\ UNCHANGED <<flight, id, res>>

\* Mutant of Build: built over whatever the cache has for the parent.
BuildOverCached(t) ==
  LET p == Parent(Last(out[t]))
  IN  BuildOver(t, IF p = NoBlob THEN NoTable ELSE tables[p])

\* own_table(b, parent) and put
Build(t) == BuildOver(t, acc[t])

Release(t) ==
  /\ pc[t] = "release"
  /\ TableFlight!Release(t)
  /\ Goto(t, "leave")
  /\ UNCHANGED <<tables, id, out, acc, res>>

Leave(t) ==
  /\ pc[t] = "leave"
  /\ TableFlight!Return(t)
  /\ Goto(t, "done")
  /\ UNCHANGED <<tables, id, out, acc, res>>

\* The caller has its table or its error; the locals are gone.
Done(t) ==
  /\ pc[t] = "done"
  /\ Goto(t, "idle")
  /\ out' = [out EXCEPT ![t] = <<>>] /\ acc' = [acc EXCEPT ![t] = NoTable]
  /\ res' = [res EXCEPT ![t] = NoTable] /\ id' = [id EXCEPT ![t] = SomeBlob]
  /\ UNCHANGED <<tables, flight>>

Step(t) ==
  \/ Enter(t) \/ Acquire(t) \/ Recheck(t) \/ Walk(t) \/ Layer(t) \/ Build(t)
  \/ Release(t) \/ Leave(t) \/ Done(t)

Next == \E t \in Threads : Step(t) \/ Fail(t) \/ \E b \in Blobs : Call(t, b)

Spec == Init /\ [][Next]_vars

\* Running threads keep running, without having to fail; the flight lets every
\* waiter in some time.
Fairness == \A t \in Threads : WF_vars(Step(t)) /\ SF_vars(Acquire(t))

FairSpec == Spec /\ Fairness

-----------------------------------------------------------------------------
\* FileTable::get: the first layer that has the file.
Get(table, f) ==
  LET having == {i \in 1..Len(table) : f \in Records[table[i]]}
  IN  IF having = {} THEN NoBlob ELSE table[Min(having)]

\* How far each blob is from the end of its chain of parents; MaxChain + 1 is a
\* blob whose chain never ends, since it comes back to where it was.
Ranks ==
  {d \in [Blobs -> 0..(MaxChain + 1)] :
     \A b \in Blobs :
       IF d[b] <= MaxChain THEN Parent(b) = NoBlob \/ d[Parent(b)] < d[b]
       ELSE Parent(b) # NoBlob /\ d[Parent(b)] > MaxChain}

\* No chain of parents that ends is longer than `chain` goes.
ASSUME ChainsFit == Ranks # {}

Depth == CHOOSE d \in Ranks : TRUE

\* The blobs whose chain of parents ends.
Ending == {b \in Blobs : Depth[b] <= MaxChain}

\* b's own records over its parent's, over its parent's parent's, and so on.
IsChain(table, b) ==
  /\ table # NoTable /\ table[1] = b
  /\ \A i \in 1..(Len(table) - 1) : Parent(table[i]) = table[i + 1]

\* A chain that goes on to a blob that has no parent in the dump, if there is
\* one to be reached.
IsAncestry(table, b) ==
  /\ IsChain(table, b)
  /\ b \in Ending => Parent(table[Len(table)]) = NoBlob

Returned(t) == pc[t] = "done" /\ res[t] # Error

\* "File id -> location, as of version `id`: the records it introduced layered
\* over its parent's table": whatever was cached, evicted or being built by
\* others, the table of a version is its chain of ancestors in order, complete
\* if the chain has an end.  Where blobs point at each other it is still a piece
\* of that chain.
TableIsAncestry ==
  /\ \A b \in Blobs : tables[b] # NoTable => IsAncestry(tables[b], b)
  /\ \A t \in Threads : Returned(t) => IsAncestry(res[t], id[t])

\* The rest of this block is the inductive invariant behind it.  The chain so
\* far starts at b and follows the parents; once it can end it gets nearer to
\* the end, which also keeps it from coming back or getting too long.
IsWalk(chain, b) ==
  /\ IsChain(chain, b)
  /\ \A i, j \in 1..Len(chain) :
       i < j /\ chain[j] \in Ending => Depth[chain[j]] < Depth[chain[i]]
  /\ \A i \in 1..Len(chain) : chain[i] \in Ending => Depth[chain[i]] + i <= MaxChain + 1

\* what is below blob b in a table: its parent's table, or nothing if it has no
\* parent or its chain was cut where it came back
IsBelow(table, b) ==
  IF table = NoTable THEN b \in Ending => Parent(b) = NoBlob
  ELSE Parent(b) # NoBlob /\ IsAncestry(table, Parent(b))

\* where each thread is in building its table
Progress(t) ==
  /\ pc[t] \in {"idle", "miss", "wait", "recheck", "walk"} => acc[t] = NoTable
  /\ pc[t] = "walk" => IsWalk(out[t], id[t])
  /\ pc[t] = "build" => out[t] # <<>>
  /\ pc[t] \in {"layer", "build"} =>
       IF out[t] = <<>> THEN IsAncestry(acc[t], id[t])
       ELSE IsWalk(out[t], id[t]) /\ IsBelow(acc[t], out[t][Len(out[t])])
  /\ pc[t] \in {"release", "leave", "done"} /\ res[t] # Error => IsAncestry(res[t], id[t])

IInv ==
  /\ TypeOK
  /\ \A b \in Blobs : tables[b] # NoTable => IsAncestry(tables[b], b)
  /\ \A t \in Threads : Progress(t)

ParentEdges == {e \in Blobs \X Blobs : Parent(e[1]) = e[2]}

\* Ancestors by closure, not by walking: b and the parents of everything in it.
Ancestors ==
  LET Closed(S) == \A e \in ParentEdges : e[1] \in S => e[2] \in S
      ClosedWith(b) == {S \in SUBSET Blobs : b \in S /\ Closed(S)}
  IN  [b \in Blobs |-> {a \in Blobs : \A S \in ClosedWith(b) : a \in S}]

\* README: "a version's file table is the union of its ancestors' records".  No
\* file is ever found that no ancestor introduced, and the version's own records
\* are always found; all ancestors' records are if their chain ends.
TableIsUnion ==
  \A t \in Threads :
    Returned(t) =>
      LET found == {f \in Files : Get(res[t], f) # NoBlob}
          introduced == UNION {Records[a] : a \in Ancestors[id[t]]}
      IN  /\ Records[id[t]] \subseteq found /\ found \subseteq introduced
          /\ id[t] \in Ending => found = introduced

\* Store's comment on its flights: "Keeps concurrent misses from parsing the
\* same blob, rebuilding the same file table, or fetching the same dat window
\* twice over."
\* Does not hold as it stands: see "Other divergences" in the README.
NoDuplicateBuild ==
  \A t, u \in Threads :
    pc[t] = "build" /\ pc[u] = "build" /\ Last(out[t]) = Last(out[u]) => t = u

\* "a dump whose blobs point at each other cannot overflow the stack", and it
\* does not keep the loop going either: every call for a table returns, the walk
\* and the builds come to an end, and nobody waits for ever in the flight.
CallsReturn == \A t \in Threads : pc[t] = "miss" ~> pc[t] = "idle"

=============================================================================
