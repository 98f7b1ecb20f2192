------------------------- MODULE VersionTableProofs -------------------------
(* Every file table that is cached or returned is the version's own records *)
(* over those of all its ancestors, in order, whatever other threads build, *)
(* cache and evict; over a piece of that chain where blobs point at each    *)
(* other.                                                                   *)
EXTENDS VersionTable, FiniteSetTheorems, SequenceTheorems, WellFoundedInduction, TLAPS

\* Zenon proves the leaves that name no prover.
USE ZenonT(60)

\* A parent is a blob of the dump or none.
LEMMA ParentType == \A b \in Blobs : Parent(b) \in Blobs \cup {NoBlob}
<1> SUFFICES ASSUME NEW b \in Blobs PROVE Parent(b) \in Blobs \cup {NoBlob}
  OBVIOUS
<1> DEFINE same == SameVersion(Prev[b].version)
           exact == {p \in same : Crc[p] = Prev[b].crc}
<1>1. same \subseteq Blobs /\ exact \subseteq same
  BY DEF SameVersion
<1>2. Cardinality(same) = 1 => same # {}
  BY SMTT(30), FS_EmptySet
<1> HIDE DEF same
<1>3. exact # {} => (CHOOSE p \in exact : TRUE) \in Blobs
  BY <1>1
<1>4. Cardinality(same) = 1 => (CHOOSE p \in same : TRUE) \in Blobs
  BY <1>1, <1>2
<1>5. Parent(b) \in {NoBlob, CHOOSE p \in exact : TRUE, CHOOSE p \in same : TRUE}
  BY DEF Parent, same
<1>6. QED
  BY <1>3, <1>4 DEF Parent, same

\* Depth really is a measure.
LEMMA DepthFalls ==
  /\ MaxChain \in Nat
  /\ \A b \in Blobs : Depth[b] \in 0..(MaxChain + 1)
  /\ \A b \in Blobs : b \in Ending <=> Depth[b] <= MaxChain
  /\ \A b \in Ending : Parent(b) # NoBlob => Depth[Parent(b)] < Depth[b]
  /\ \A b \in Blobs \ Ending : Parent(b) # NoBlob /\ Parent(b) \notin Ending
<1>1. Depth \in Ranks
  BY ChainsFit DEF Depth
<1>2. MaxChain \in Nat
  BY BoundsAssumption
<1>3. /\ Depth \in [Blobs -> 0..(MaxChain + 1)]
      /\ \A b \in Blobs :
           IF Depth[b] <= MaxChain THEN Parent(b) = NoBlob \/ Depth[Parent(b)] < Depth[b]
           ELSE Parent(b) # NoBlob /\ Depth[Parent(b)] > MaxChain
  BY <1>1 DEF Ranks
<1>4. \A b \in Blobs : Depth[b] \in 0..(MaxChain + 1)
  BY <1>3
<1>5. \A b \in Blobs : b \in Ending <=> Depth[b] <= MaxChain
  BY DEF Ending
<1>6. \A b \in Ending : Parent(b) # NoBlob => Depth[Parent(b)] < Depth[b]
  BY <1>3 DEF Ending
<1>7. ASSUME NEW b \in Blobs \ Ending PROVE Parent(b) # NoBlob /\ Parent(b) \notin Ending
  <2>1. Parent(b) # NoBlob /\ Depth[Parent(b)] > MaxChain
    BY <1>3, <1>5
  <2>2. Parent(b) \in Blobs
    BY <2>1, ParentType
  <2>3. ~(Depth[Parent(b)] <= MaxChain)
    BY SMTT(30), <1>2, <1>4, <2>1, <2>2
  <2> QED
    BY <2>1, <2>3 DEF Ending
<1> QED
  BY <1>2, <1>4, <1>5, <1>6, <1>7

\* The parent of a blob whose chain ends is one whose chain ends, and the other
\* way round.
LEMMA EndingParent ==
  ASSUME NEW b \in Blobs, Parent(b) # NoBlob
  PROVE  Parent(b) \in Blobs /\ (b \in Ending <=> Parent(b) \in Ending)
<1>1. Parent(b) \in Blobs
  BY ParentType
<1>2. ASSUME b \in Ending PROVE Parent(b) \in Ending
  <2>1. Depth[Parent(b)] < Depth[b] /\ Depth[b] <= MaxChain
    BY <1>2, DepthFalls
  <2>2. Depth[Parent(b)] <= MaxChain
    BY SMTT(30), <1>1, <2>1, DepthFalls
  <2> QED
    BY <1>1, <2>2, DepthFalls
<1> QED
  BY <1>1, <1>2, DepthFalls

\* own_table: one layer over the parent's table is the table of the blob.
LEMMA LayerOverBelow ==
  ASSUME NEW b \in Blobs, NEW below \in Seq(Blobs), IsBelow(below, b)
  PROVE  /\ <<b>> \o below \in Seq(Blobs)
         /\ IsAncestry(<<b>> \o below, b)
<1> DEFINE t == <<b>> \o below
<1>1. t \in Seq(Blobs) /\ Len(t) = Len(below) + 1 /\ t[1] = b /\ Len(below) \in Nat
  BY SMTT(30)
<1>2. \A i \in 1..Len(below) : t[i + 1] = below[i]
  BY SMTT(30)
<1>3. t # NoTable
  BY SMTT(30), <1>1 DEF NoTable
<1>4. CASE below = NoTable
  <2>1. Len(below) = 0
    BY SMTT(30), <1>4 DEF NoTable
  <2>2. Len(t) = 1
    BY SMTT(30), <1>1, <2>1
  <2>3. b \in Ending => Parent(b) = NoBlob
    BY <1>4 DEF IsBelow
  <2> HIDE DEF t
  <2>4. QED
    BY SMTT(30), <1>1, <1>3, <2>2, <2>3 DEF IsAncestry, IsChain, t
<1>5. CASE below # NoTable
  <2>1. Parent(b) # NoBlob /\ IsAncestry(below, Parent(b))
    BY <1>5 DEF IsBelow
  <2>2. Len(below) # 0
    BY SMTT(30), <1>5 DEF NoTable
  <2>3. below[1] = Parent(b) /\ (b \in Ending => Parent(below[Len(below)]) = NoBlob)
    BY <2>1, EndingParent DEF IsAncestry, IsChain
  <2>4. \A i \in 1..(Len(below) - 1) : Parent(below[i]) = below[i + 1]
    BY <2>1 DEF IsAncestry, IsChain
  <2> HIDE DEF t
  <2>5. t[Len(t)] = below[Len(below)]
    BY SMTT(30), <1>1, <1>2, <2>2
  <2>6. ASSUME NEW i \in 1..(Len(t) - 1) PROVE Parent(t[i]) = t[i + 1]
    <3>1. CASE i = 1
      BY SMTT(60), <3>1, <1>1, <1>2, <2>2, <2>3
    <3>2. CASE i # 1
      <4>1. i - 1 \in 1..(Len(below) - 1) /\ i - 1 \in 1..Len(below) /\ i \in 1..Len(below)
        BY SMTT(30), <3>2, <1>1
      <4>2. t[i] = below[i - 1] /\ t[i + 1] = below[i]
        <5>1. t[(i - 1) + 1] = below[i - 1]
          BY <4>1, <1>2
        <5>2. QED
          BY SMTT(30), <5>1, <4>1, <1>2
      <4>3. Parent(below[i - 1]) = below[(i - 1) + 1]
        BY <4>1, <2>4
      <4>4. QED
        BY SMTT(30), <4>2, <4>3
    <3>3. QED
      BY <3>1, <3>2
  <2>7. QED
    BY SMTT(60), <1>1, <1>3, <2>3, <2>5, <2>6 DEF IsAncestry, IsChain, t
<1>6. QED
  BY <1>1, <1>4, <1>5

\* `chain`: one parent further it is still a walk, and where the chain can end
\* the parent is never one it has already and the length limit is never met.
LEMMA WalkGrows ==
  ASSUME NEW b \in Blobs, NEW chain \in Seq(Blobs), IsWalk(chain, b),
         Parent(chain[Len(chain)]) # NoBlob
  PROVE  LET last == chain[Len(chain)]
             p == Parent(last)
         IN  /\ p \in Blobs
             /\ last \in Ending => ~Contains(chain, p) /\ ~(Len(chain) > MaxChain)
             /\ IsWalk(Append(chain, p), b)
<1> DEFINE n == Len(chain)
           last == chain[n]
           p == Parent(last)
           longer == Append(chain, p)
<1>1. n \in Nat \ {0} /\ last \in Blobs /\ \A i \in 1..n : chain[i] \in Blobs
  <2>1. n \in Nat /\ \A i \in 1..n : chain[i] \in Blobs
    BY SMTT(30)
  <2>2. n # 0
    BY SMTT(30) DEF IsWalk, IsChain, NoTable
  <2>3. QED
    BY SMTT(30), <2>1, <2>2
<1>2. p \in Blobs /\ (last \in Ending <=> p \in Ending)
  BY <1>1, EndingParent
<1>3. /\ \A c \in Blobs : Depth[c] \in 0..(MaxChain + 1)
      /\ last \in Ending => Depth[p] < Depth[last]
  BY <1>1, DepthFalls
<1>4. MaxChain \in Nat
  BY BoundsAssumption
<1>5. /\ chain[1] = b
      /\ \A i \in 1..(n - 1) : Parent(chain[i]) = chain[i + 1]
      /\ \A i, j \in 1..n : i < j /\ chain[j] \in Ending => Depth[chain[j]] < Depth[chain[i]]
      /\ \A i \in 1..n : chain[i] \in Ending => Depth[chain[i]] + i <= MaxChain + 1
  BY DEF IsWalk, IsChain
<1>6. /\ Len(longer) = n + 1 /\ longer # <<>> /\ longer[n + 1] = p
      /\ \A i \in 1..n : longer[i] = chain[i]
  BY SMTT(30), <1>2
<1> HIDE DEF n, p, last, longer
<1>7. ASSUME last \in Ending PROVE \A i \in 1..n : Depth[p] < Depth[chain[i]]
  <2> TAKE i \in 1..n
  <2>1. Depth[chain[i]] \in Nat /\ Depth[last] \in Nat /\ Depth[p] \in Nat
    BY SMTT(60), <1>1, <1>2, <1>3, <1>4
  <2>2. i < n => Depth[last] < Depth[chain[i]]
    BY SMTT(30), <1>1, <1>5, <1>7 DEF last
  <2>3. QED
    BY SMTT(60), <1>1, <1>3, <1>7, <2>1, <2>2 DEF last
<1>8. last \in Ending => ~Contains(chain, p)
  <2> SUFFICES ASSUME last \in Ending PROVE ~Contains(chain, p)
    OBVIOUS
  <2>1. \A i \in 1..n : chain[i] # p
    BY SMTT(60), <1>1, <1>2, <1>3, <1>4, <1>7
  <2>2. QED
    BY <2>1 DEF Contains, n
<1>9. last \in Ending => ~(n > MaxChain) /\ Depth[p] + (n + 1) <= MaxChain + 1
  <2> SUFFICES ASSUME last \in Ending
               PROVE  ~(n > MaxChain) /\ Depth[p] + (n + 1) <= MaxChain + 1
    OBVIOUS
  <2>1. Depth[last] + n <= MaxChain + 1
    BY SMTT(30), <1>1, <1>5 DEF last
  <2>2. QED
    BY SMTT(60), <1>1, <1>2, <1>3, <1>4, <2>1
<1>10. \A i \in 1..n : Parent(longer[i]) = longer[i + 1]
  <2> TAKE i \in 1..n
  <2>1. CASE i = n
    BY <2>1, <1>6 DEF p, last
  <2>2. CASE i # n
    BY SMTT(60), <2>2, <1>1, <1>5, <1>6
  <2>3. QED
    BY <2>1, <2>2
<1>11. \A i, j \in 1..(n + 1) :
         i < j /\ longer[j] \in Ending => Depth[longer[j]] < Depth[longer[i]]
  <2> TAKE i, j \in 1..(n + 1)
  <2>1. CASE j = n + 1
    BY SMTT(60), <2>1, <1>1, <1>2, <1>6, <1>7
  <2>2. CASE j # n + 1
    BY SMTT(60), <2>2, <1>1, <1>5, <1>6
  <2>3. QED
    BY <2>1, <2>2
<1>12. \A i \in 1..(n + 1) : longer[i] \in Ending => Depth[longer[i]] + i <= MaxChain + 1
  <2> TAKE i \in 1..(n + 1)
  <2>1. CASE i = n + 1
    BY SMTT(60), <2>1, <1>2, <1>6, <1>9
  <2>2. CASE i # n + 1
    BY SMTT(60), <2>2, <1>1, <1>5, <1>6
  <2>3. QED
    BY <2>1, <2>2
<1>13. longer[1] = b
  BY SMTT(60), <1>1, <1>5, <1>6
<1>14. IsWalk(longer, b)
  BY SMTT(60), <1>1, <1>6, <1>10, <1>11, <1>12, <1>13 DEF IsWalk, IsChain, NoTable
<1>15. QED
  BY <1>2, <1>8, <1>9, <1>14 DEF n, p, last, longer

\* The oldest blob comes off the chain once its table is known: what is left
\* is a chain that waits for exactly that table, or the table is the result.
LEMMA WalkShrinks ==
  ASSUME NEW b \in Blobs, NEW chain \in Seq(Blobs), IsWalk(chain, b),
         NEW table \in Seq(Blobs), IsAncestry(table, chain[Len(chain)])
  PROVE  LET rest == Front(chain)
         IN  /\ rest \in Seq(Blobs)
             /\ IF rest = <<>> THEN IsAncestry(table, b)
                ELSE IsWalk(rest, b) /\ IsBelow(table, rest[Len(rest)])
<1> DEFINE n == Len(chain)
           rest == Front(chain)
<1>1. n \in Nat \ {0} /\ \A i \in 1..n : chain[i] \in Blobs
  <2>1. n \in Nat /\ \A i \in 1..n : chain[i] \in Blobs
    BY SMTT(30)
  <2>2. n # 0
    BY SMTT(30) DEF IsWalk, IsChain, NoTable
  <2>3. QED
    BY <2>1, <2>2
<1>2. /\ rest \in Seq(Blobs) /\ Len(rest) = n - 1
      /\ \A i \in 1..(n - 1) : rest[i] = chain[i]
  <2>1. \A i \in 1..(n - 1) : chain[i] \in Blobs
    BY SMTT(30), <1>1
  <2>2. /\ SubSeq(chain, 1, n - 1) \in Seq(Blobs)
        /\ Len(SubSeq(chain, 1, n - 1)) = IF 1 <= n - 1 THEN (n - 1) - 1 + 1 ELSE 0
        /\ \A i \in 1..((n - 1) - 1 + 1) : SubSeq(chain, 1, n - 1)[i] = chain[1 + i - 1]
    BY SMTT(30), <1>1, <2>1, SubSeqProperties
  <2>3. rest = SubSeq(chain, 1, n - 1)
    BY DEF Front
  <2> HIDE DEF rest, n
  <2>4. Len(rest) = n - 1
    BY SMTT(30), <1>1, <2>2, <2>3
  <2>5. \A i \in 1..(n - 1) : rest[i] = chain[i]
    <3> TAKE i \in 1..(n - 1)
    <3>1. i \in 1..((n - 1) - 1 + 1) /\ 1 + i - 1 = i
      BY SMTT(30), <1>1
    <3>2. QED
      BY <2>2, <2>3, <3>1
  <2>6. QED
    BY SMTT(60), <2>2, <2>3, <2>4, <2>5
<1>3. /\ chain[1] = b
      /\ \A i \in 1..(n - 1) : Parent(chain[i]) = chain[i + 1]
      /\ \A i, j \in 1..n : i < j /\ chain[j] \in Ending => Depth[chain[j]] < Depth[chain[i]]
      /\ \A i \in 1..n : chain[i] \in Ending => Depth[chain[i]] + i <= MaxChain + 1
  BY DEF IsWalk, IsChain
<1>4. IsAncestry(table, chain[n]) /\ table # NoTable
  BY DEF IsAncestry, IsChain
<1> HIDE DEF n, rest
<1>6. CASE n = 1
  <2>1. rest = <<>>
    BY SMTT(60), <1>2, <1>6
  <2>2. QED
    BY SMTT(60), <2>1, <1>2, <1>3, <1>4, <1>6 DEF rest
<1>7. CASE n # 1
  <2>1. rest # <<>> /\ n - 1 \in 1..n /\ n - 1 \in 1..(n - 1)
    BY SMTT(30), <1>1, <1>2, <1>7
  <2>2. rest[n - 1] = chain[n - 1] /\ Parent(chain[n - 1]) = chain[n] /\ chain[n] \in Blobs
    <3>1. Parent(chain[n - 1]) = chain[(n - 1) + 1]
      BY <1>3, <2>1
    <3>2. QED
      BY SMTT(60), <1>1, <1>2, <2>1, <3>1
  <2>3. IsBelow(table, rest[Len(rest)])
    BY SMTT(60), <1>2, <1>4, <2>2, BlobsAssumption DEF IsBelow
  <2>4. rest[1] = b
    BY SMTT(60), <1>1, <1>2, <1>3, <1>7
  <2>5. \A i \in 1..(Len(rest) - 1) : Parent(rest[i]) = rest[i + 1]
    BY SMTT(60), <1>1, <1>2, <1>3
  <2>6. \A i, j \in 1..Len(rest) :
          i < j /\ rest[j] \in Ending => Depth[rest[j]] < Depth[rest[i]]
    <3> TAKE i, j \in 1..Len(rest)
    <3>1. i \in 1..n /\ j \in 1..n /\ rest[i] = chain[i] /\ rest[j] = chain[j]
      BY SMTT(30), <1>1, <1>2
    <3>2. QED
      BY <1>3, <3>1
  <2>7. \A i \in 1..Len(rest) : rest[i] \in Ending => Depth[rest[i]] + i <= MaxChain + 1
    BY SMTT(60), <1>1, <1>2, <1>3
  <2>8. QED
    BY SMTT(60), <1>2, <2>1, <2>3, <2>4, <2>5, <2>6, <2>7 DEF IsWalk, IsChain, NoTable, rest
<1>8. QED
  BY <1>6, <1>7

-----------------------------------------------------------------------------
\* A thread that does not move keeps its place in the argument.
LEMMA OthersKeepProgress ==
  ASSUME NEW u \in Threads, Progress(u),
         pc'[u] = pc[u], id'[u] = id[u], out'[u] = out[u], acc'[u] = acc[u], res'[u] = res[u]
  PROVE  Progress(u)'
  BY DEF Progress

\* At the start nothing is cached and nobody is building.
LEMMA InitIInv == Init => IInv
<1> SUFFICES ASSUME Init PROVE IInv
  OBVIOUS
<1>1. SomeBlob \in Blobs
  BY BlobsAssumption DEF SomeBlob
<1>2. <<>> \in Seq(Blobs)
  BY SMTT(30)
<1>3. TypeOK
  BY <1>1, <1>2 DEF Init, TypeOK, NoTable, TableFlight!Init, TableFlight!TypeOK, TableFlight!Phases
<1>4. \A b \in Blobs : tables[b] = NoTable
  BY DEF Init
<1>5. \A t \in Threads : Progress(t)
  BY DEF Init, Progress
<1>6. QED
  BY <1>3, <1>4, <1>5 DEF IInv

\* The moves in and out of the flight, and the end of a call, build nothing.
LEMMA GateStepsIInv ==
  ASSUME IInv, NEW t \in Threads,
         \/ Enter(t) \/ Acquire(t) \/ Release(t) \/ Leave(t) \/ Done(t) \/ Fail(t)
  PROVE  IInv'
<1>1. <<>> \in Seq(Blobs)
  BY SMTT(30)
<1>2. TypeOK'
  <2>1. CASE Enter(t)
    BY <2>1 DEF IInv, TypeOK, Enter, Goto, TableFlight!Request, TableFlight!TypeOK, TableFlight!Phases
  <2>2. CASE Acquire(t)
    BY <2>2 DEF IInv, TypeOK, Acquire, Goto, TableFlight!Acquire, TableFlight!TypeOK, TableFlight!Phases
  <2>3. CASE Release(t)
    BY <2>3 DEF IInv, TypeOK, Release, Goto, TableFlight!Release, TableFlight!TypeOK, TableFlight!Phases
  <2>4. CASE Leave(t)
    BY <2>4 DEF IInv, TypeOK, Leave, Goto, TableFlight!Return, TableFlight!TypeOK, TableFlight!Phases
  <2>5. CASE Done(t)
    BY SMTT(60), <2>5, <1>1, BlobsAssumption DEF SomeBlob, IInv, TypeOK, Done, Goto, NoTable, flight, TableFlight!TypeOK
  <2>6. CASE Fail(t)
    BY <2>6 DEF IInv, TypeOK, Fail, Finish, Goto, flight, TableFlight!TypeOK
  <2>7. QED
    BY SMTT(60), <2>1, <2>2, <2>3, <2>4, <2>5, <2>6
<1>3. tables' = tables
  BY DEF Enter, Acquire, Release, Leave, Done, Fail
<1>4. ASSUME NEW u \in Threads PROVE Progress(u)'
  <2>1. Progress(u)
    BY DEF IInv
  <2>2. CASE u # t
    BY SMTT(60), <2>1, <2>2, OthersKeepProgress
       DEF IInv, TypeOK, Enter, Acquire, Release, Leave, Done, Fail, Finish, Goto
  <2>3. CASE u = t
    BY <2>1, <2>3 DEF Progress, IInv, TypeOK, Enter, Acquire, Release, Leave, Done, Fail, Finish, Goto
  <2>4. QED
    BY <2>2, <2>3
<1>5. QED
  BY <1>2, <1>3, <1>4 DEF IInv

\* `table` and build_table's second look: what they find is already right.
LEMMA LookStepsIInv ==
  ASSUME IInv, NEW t \in Threads, Recheck(t) \/ \E b \in Blobs : Call(t, b)
  PROVE  IInv'
<1>1. TypeOK'
  <2>1. CASE Recheck(t)
    <3>1. <<id[t]>> \in Seq(Blobs) /\ tables[id[t]] \in Seq(Blobs)
      BY SMTT(30) DEF IInv, TypeOK
    <3>2. QED
      BY ZenonT(60), <2>1, <3>1 DEF IInv, TypeOK, Recheck, Finish, Goto, flight, TableFlight!TypeOK
  <2>2. ASSUME NEW b \in Blobs, Call(t, b) PROVE TypeOK'
    <3>1. id' \in [Threads -> Blobs] /\ tables[b] \in Seq(Blobs)
      BY <2>2 DEF IInv, TypeOK, Call
    <3>2. CASE tables[b] # NoTable
      BY ZenonT(60), <2>2, <3>1, <3>2 DEF IInv, TypeOK, Call, Finish, Goto, flight, TableFlight!TypeOK
    <3>3. CASE tables[b] = NoTable
      BY ZenonT(60), <2>2, <3>1, <3>3 DEF IInv, TypeOK, Call, Goto, flight, TableFlight!TypeOK
    <3>4. QED
      BY <3>2, <3>3
  <2>3. QED
    BY <2>1, <2>2
<1>2. tables' = tables
  BY DEF Recheck, Call
<1>3. ASSUME NEW u \in Threads PROVE Progress(u)'
  <2>1. Progress(u)
    BY DEF IInv
  <2>2. CASE u # t
    BY SMTT(60), <2>1, <2>2, OthersKeepProgress DEF IInv, TypeOK, Recheck, Call, Finish, Goto
  <2>3. CASE u = t /\ Recheck(t)
    <3>1. IsWalk(<<id[t]>>, id[t])
      BY SMTT(30), DepthFalls DEF IsWalk, IsChain, NoTable, IInv, TypeOK
    <3>2. tables[id[t]] # NoTable => IsAncestry(tables[id[t]], id[t])
      BY DEF IInv, TypeOK
    <3>3. QED
      BY ZenonT(60), <2>1, <2>3, <3>1, <3>2 DEF Progress, IInv, TypeOK, Recheck, Finish, Goto
  <2>4. ASSUME u = t, NEW b \in Blobs, Call(t, b) PROVE Progress(u)'
    BY SMTT(30), <2>1, <2>4 DEF Progress, IInv, TypeOK, Call, Finish, Goto
  <2>5. QED
    BY <2>2, <2>3, <2>4
<1>4. QED
  BY <1>1, <1>2, <1>3 DEF IInv

\* chain: every step is one parent further, or stops below a root or where the
\* chain has no end.
LEMMA WalkIInv ==
  ASSUME IInv, NEW t \in Threads, Walk(t)
  PROVE  IInv'
<1> DEFINE last == out[t][Len(out[t])]
           p == Parent(last)
           stops == p = NoBlob \/ Contains(out[t], p) \/ Len(out[t]) > MaxChain
<1>1. out[t] \in Seq(Blobs) /\ id[t] \in Blobs /\ pc[t] = "walk"
  BY SMTT(60) DEF IInv, TypeOK, Walk
<1>2. IsWalk(out[t], id[t]) /\ acc[t] = NoTable /\ out[t] # <<>>
  BY <1>1 DEF IInv, Progress, IsWalk, IsChain, NoTable
<1>3. p # NoBlob => /\ p \in Blobs
                    /\ last \in Ending => ~Contains(out[t], p) /\ ~(Len(out[t]) > MaxChain)
                    /\ IsWalk(Append(out[t], p), id[t])
  BY <1>1, <1>2, WalkGrows
<1>4. /\ IF stops THEN pc' = [pc EXCEPT ![t] = "layer"] /\ out' = out
         ELSE out' = [out EXCEPT ![t] = Append(out[t], p)] /\ pc' = pc
      /\ tables' = tables /\ gate' = gate /\ want' = want
      /\ id' = id /\ acc' = acc /\ res' = res
  BY DEF Walk, Goto, Last, flight
<1>5. stops => IsBelow(NoTable, last)
  BY <1>3 DEF IsBelow
<1>6. ~stops => p # NoBlob
  OBVIOUS
<1> HIDE DEF p, last, stops
<1>7. ~stops => Append(out[t], p) \in Seq(Blobs)
  BY SMTT(30), <1>1, <1>3, <1>6
<1>8. TypeOK'
  BY ZenonT(60), <1>4, <1>7 DEF IInv, TypeOK, TableFlight!TypeOK
<1>9. ASSUME NEW u \in Threads PROVE Progress(u)'
  <2>1. Progress(u)
    BY DEF IInv
  <2>2. CASE u # t
    BY <1>4, <2>1, <2>2, OthersKeepProgress DEF IInv, TypeOK
  <2>3. CASE u = t /\ stops
    <3>1. IsBelow(acc[t], out[t][Len(out[t])])
      BY <1>2, <1>5, <2>3 DEF last
    <3>2. QED
      BY SMTT(60), <1>1, <1>2, <1>4, <2>3, <3>1 DEF Progress, IInv, TypeOK
  <2>4. CASE u = t /\ ~stops
    <3>1. out'[t] = Append(out[t], p) /\ pc'[t] = "walk" /\ acc'[t] = acc[t] /\ id'[t] = id[t]
      BY SMTT(60), <1>1, <1>4, <2>4 DEF IInv, TypeOK
    <3>2. QED
      BY SMTT(60), <1>2, <1>3, <1>6, <2>4, <3>1 DEF Progress
  <2>5. QED
    BY <2>2, <2>3, <2>4
<1>10. QED
  BY SMTT(60), <1>4, <1>8, <1>9 DEF IInv

\* build_table on a layer that is cached, and at the end of the chain.
LEMMA LayerIInv ==
  ASSUME IInv, NEW t \in Threads, Layer(t)
  PROVE  IInv'
<1> DEFINE b == out[t][Len(out[t])]
<1>1. out[t] \in Seq(Blobs) /\ id[t] \in Blobs /\ acc[t] \in Seq(Blobs) /\ pc[t] = "layer"
  BY DEF IInv, TypeOK, Layer
<1>2. Progress(t)
  BY DEF IInv
<1>3. tables' = tables /\ gate' = gate /\ want' = want /\ id' = id
  BY DEF Layer, flight
<1>4. ASSUME NEW u \in Threads, u # t PROVE Progress(u)'
  BY <1>4, OthersKeepProgress DEF IInv, TypeOK, Layer, Finish, Goto
<1>5. CASE out[t] = <<>>
  <2>1. IsAncestry(acc[t], id[t])
    BY SMTT(60), <1>1, <1>2, <1>5 DEF Progress
  <2>2. TypeOK'
    BY ZenonT(60), <1>1, <1>5 DEF IInv, TypeOK, Layer, Finish, Goto, flight, TableFlight!TypeOK
  <2>3. Progress(t)'
    BY <1>1, <1>5, <2>1 DEF IInv, TypeOK, Layer, Finish, Goto, Progress
  <2>4. QED
    BY SMTT(60), <1>3, <1>4, <2>2, <2>3 DEF IInv
<1>6. CASE out[t] # <<>> /\ tables[b] = NoTable
  <2>1. pc' = [pc EXCEPT ![t] = "build"] /\ out' = out /\ acc' = acc /\ res' = res
    BY <1>6 DEF Layer, Goto, Last
  <2>2. TypeOK'
    BY SMTT(60), <1>3, <2>1 DEF IInv, TypeOK, TableFlight!TypeOK
  <2>3. Progress(t)'
    BY SMTT(60), <1>1, <1>2, <1>3, <1>6, <2>1 DEF IInv, TypeOK, Progress
  <2>4. QED
    BY <1>3, <1>4, <2>2, <2>3 DEF IInv
<1>7. CASE out[t] # <<>> /\ tables[b] # NoTable
  <2>1. /\ acc' = [acc EXCEPT ![t] = tables[b]] /\ out' = [out EXCEPT ![t] = Front(out[t])]
        /\ pc' = pc /\ res' = res
    BY <1>7 DEF Layer, Last
  <2>2. b \in Blobs
    <3>1. Len(out[t]) \in 1..Len(out[t])
      BY SMTT(30), <1>1, <1>7
    <3>2. QED
      BY SMTT(30), <1>1, <3>1
  <2>3. tables[b] \in Seq(Blobs) /\ IsAncestry(tables[b], b)
    BY SMTT(60), <1>7, <2>2 DEF IInv, TypeOK
  <2>4. IsWalk(out[t], id[t])
    BY SMTT(60), <1>1, <1>2, <1>7 DEF Progress
  <2>5. /\ Front(out[t]) \in Seq(Blobs)
        /\ IF Front(out[t]) = <<>> THEN IsAncestry(tables[b], id[t])
           ELSE /\ IsWalk(Front(out[t]), id[t])
                /\ IsBelow(tables[b], Front(out[t])[Len(Front(out[t]))])
    BY SMTT(60), <1>1, <2>3, <2>4, WalkShrinks
  <2> HIDE DEF b
  <2>6. TypeOK'
    BY SMTT(60), <1>3, <2>1, <2>3, <2>5 DEF IInv, TypeOK, TableFlight!TypeOK
  <2>7. /\ acc'[t] = tables[b] /\ out'[t] = Front(out[t]) /\ pc'[t] = "layer"
        /\ id'[t] = id[t]
    BY SMTT(60), <1>1, <1>3, <2>1 DEF IInv, TypeOK
  <2>8. Progress(t)'
    BY <2>5, <2>7 DEF Progress
  <2>9. QED
    BY <1>3, <1>4, <2>6, <2>8 DEF IInv
<1>8. QED
  BY SMTT(60), <1>5, <1>6, <1>7

\* tables.put: the new table is in, the others stay or one of them is evicted.
LEMMA PutKeepsTables ==
  ASSUME tables \in [Blobs -> Seq(Blobs)], NEW b \in Blobs, NEW table \in Seq(Blobs),
         Put(b, table)
  PROVE  /\ tables' \in [Blobs -> Seq(Blobs)]
         /\ \A c \in Blobs : tables'[c] \in {tables[c], NoTable} \/ (c = b /\ tables'[c] = table)
<1>1. NoTable \in Seq(Blobs)
  BY SMTT(30) DEF NoTable
<1>2. CASE tables' = [tables EXCEPT ![b] = table]
  BY <1>2
<1>3. ASSUME NEW v \in Blobs \ {b},
             tables' = [[tables EXCEPT ![b] = table] EXCEPT ![v] = NoTable]
      PROVE  /\ tables' \in [Blobs -> Seq(Blobs)]
             /\ \A c \in Blobs :
                  tables'[c] \in {tables[c], NoTable} \/ (c = b /\ tables'[c] = table)
  BY ZenonT(60), <1>1, <1>3
<1>4. QED
  BY <1>2, <1>3 DEF Put, TablesHeld

\* own_table and the put: the layer over the parent's table is the blob's.
LEMMA BuildIInv ==
  ASSUME IInv, NEW t \in Threads, Build(t)
  PROVE  IInv'
<1> DEFINE b == out[t][Len(out[t])]
           layered == <<b>> \o acc[t]
<1>1. out[t] \in Seq(Blobs) /\ id[t] \in Blobs /\ acc[t] \in Seq(Blobs) /\ pc[t] = "build"
  BY DEF IInv, TypeOK, Build, BuildOver
<1>2. out[t] # <<>> /\ IsWalk(out[t], id[t]) /\ IsBelow(acc[t], b)
  BY <1>1 DEF IInv, Progress
<1>3. b \in Blobs
  <2>1. Len(out[t]) \in 1..Len(out[t])
    BY SMTT(60), <1>1, <1>2
  <2>2. QED
    BY SMTT(60), <1>1, <2>1
<1>4. layered \in Seq(Blobs) /\ IsAncestry(layered, b)
  BY SMTT(60), <1>1, <1>2, <1>3, LayerOverBelow
<1>5. /\ Put(b, layered)
      /\ acc' = [acc EXCEPT ![t] = layered] /\ out' = [out EXCEPT ![t] = Front(out[t])]
      /\ pc' = [pc EXCEPT ![t] = "layer"]
      /\ gate' = gate /\ want' = want /\ id' = id /\ res' = res
  BY SMTT(60) DEF Build, BuildOver, Last, Goto, flight
<1>6. /\ Front(out[t]) \in Seq(Blobs)
      /\ IF Front(out[t]) = <<>> THEN IsAncestry(layered, id[t])
         ELSE IsWalk(Front(out[t]), id[t]) /\ IsBelow(layered, Front(out[t])[Len(Front(out[t]))])
  BY ZenonT(60), <1>1, <1>2, <1>4, WalkShrinks
<1> HIDE DEF b, layered
<1>7. /\ tables' \in [Blobs -> Seq(Blobs)]
      /\ \A c \in Blobs : tables'[c] \in {tables[c], NoTable} \/ (c = b /\ tables'[c] = layered)
  <2>1. tables \in [Blobs -> Seq(Blobs)]
    BY DEF IInv, TypeOK
  <2>2. QED
    BY <1>3, <1>4, <1>5, <2>1, PutKeepsTables
<1>8. TypeOK'
  BY SMTT(60), <1>4, <1>5, <1>6, <1>7 DEF IInv, TypeOK, TableFlight!TypeOK
<1>9. \A c \in Blobs : tables'[c] # NoTable => IsAncestry(tables'[c], c)
  BY SMTT(60), <1>4, <1>7 DEF IInv
<1>10. ASSUME NEW u \in Threads, u # t PROVE Progress(u)'
  <2>1. Progress(u)
    BY DEF IInv
  <2>2. QED
    BY SMTT(60), <1>5, <1>10, <2>1, OthersKeepProgress DEF IInv, TypeOK
<1>11. Progress(t)'
  <2>1. acc'[t] = layered /\ out'[t] = Front(out[t]) /\ pc'[t] = "layer" /\ id'[t] = id[t]
    BY <1>5 DEF IInv, TypeOK
  <2>2. QED
    BY SMTT(60), <1>6, <2>1 DEF Progress
<1>12. QED
  BY <1>8, <1>9, <1>10, <1>11 DEF IInv

\* Every step of every thread keeps the invariant.
LEMMA NextIInv == IInv /\ [Next]_vars => IInv'
<1> SUFFICES ASSUME IInv, [Next]_vars PROVE IInv'
  OBVIOUS
<1>1. CASE UNCHANGED vars
  BY <1>1 DEF IInv, vars, TypeOK, Progress, TableFlight!TypeOK
<1>2. ASSUME NEW t \in Threads, Step(t) PROVE IInv'
  BY SMTT(60), <1>2, GateStepsIInv, LookStepsIInv, WalkIInv, LayerIInv, BuildIInv DEF Step
<1>3. ASSUME NEW t \in Threads, NEW b \in Blobs, Call(t, b) PROVE IInv'
  BY <1>3, LookStepsIInv
<1>4. ASSUME NEW t \in Threads, Fail(t) PROVE IInv'
  BY <1>4, GateStepsIInv
<1>5. QED
  BY SMTT(60), <1>1, <1>2, <1>3, <1>4 DEF Next

\* Whatever is cached, evicted or built by other threads meanwhile, every table
\* that Store::table caches or returns is the version's ancestry in order, all
\* of it where the chain of parents ends.
THEOREM TablesAreAncestries == Spec => []TableIsAncestry
<1>1. IInv => TableIsAncestry
  BY DEF IInv, Progress, TableIsAncestry, Returned
<1>2. QED
  BY <1>1, InitIInv, NextIInv, PTL DEF Spec

\* The inductive invariant itself, type correctness of the module included.
THEOREM BuildsStayOnChain == Spec => []IInv
  BY InitIInv, NextIInv, PTL DEF Spec

-----------------------------------------------------------------------------
(* What a program finds in a version: the records of its ancestors, no more  *)
(* and no less.                                                              *)

\* A set of naturals has a least element.
LEMMA LeastOf ==
  ASSUME NEW T \in SUBSET Nat, T # {}
  PROVE  Min(T) \in T /\ \A y \in T : Min(T) <= y
<1> DEFINE R == {ss \in Nat \X Nat : ss[1] < ss[2]}
<1>1. IsWellFoundedOn(R, Nat)
  BY NatLessThanWellFounded DEF OpToRel
<1>2. \A x, y \in Nat : y < x => <<y, x>> \in R
  OBVIOUS
<1> HIDE DEF R
<1>3. PICK x \in T : \A y \in T : <<y, x>> \notin R
  BY <1>1, WFMin
<1>4. ASSUME NEW y \in T PROVE x <= y
  <2>1. x \in Nat /\ y \in Nat /\ <<y, x>> \notin R
    BY <1>3
  <2> QED
    BY SMTT(30), <1>2, <2>1
<1> QED
  BY <1>4 DEF Min

\* FileTable::get finds a file exactly if some layer has it.
LEMMA GetFinds ==
  ASSUME NEW table \in Seq(Blobs), NEW f
  PROVE  Get(table, f) # NoBlob <=> \E i \in 1..Len(table) : f \in Records[table[i]]
<1> DEFINE having == {i \in 1..Len(table) : f \in Records[table[i]]}
<1>1. having # {} => Min(having) \in having
  BY SMTT(30), LeastOf
<1>2. \A i \in 1..Len(table) : table[i] \in Blobs /\ table[i] # NoBlob
  BY SMTT(30), BlobsAssumption
<1> QED
  BY <1>1, <1>2 DEF Get

\* The layers of a version's table are ancestors of it, and all of them if they
\* come to an end: then they include their own parents.
LEMMA LayersAreAncestors ==
  ASSUME NEW b \in Blobs, NEW table \in Seq(Blobs), IsAncestry(table, b)
  PROVE  LET layers == {table[i] : i \in 1..Len(table)}
         IN  /\ layers \subseteq Ancestors[b]
             /\ b \in Ending => Ancestors[b] = layers
<1> DEFINE layers == {table[i] : i \in 1..Len(table)}
           Closed(S) == \A e \in ParentEdges : e[1] \in S => e[2] \in S
           with == {S \in SUBSET Blobs : b \in S /\ Closed(S)}
<1>1. Ancestors[b] = {a \in Blobs : \A S \in with : a \in S}
  BY DEF Ancestors
<1>2. /\ Len(table) \in Nat /\ Len(table) >= 1 /\ table[1] = b
      /\ \A i \in 1..Len(table) : table[i] \in Blobs
      /\ \A i \in 1..(Len(table) - 1) : Parent(table[i]) = table[i + 1]
      /\ b \in Ending => Parent(table[Len(table)]) = NoBlob
  BY SMTT(30) DEF IsAncestry, IsChain, NoTable
<1>3. ASSUME b \in Ending PROVE layers \in with
  <2>1. layers \in SUBSET Blobs /\ b \in layers
    BY SMTT(30), <1>2
  <2>2. ASSUME NEW x \in Blobs, NEW y \in Blobs, Parent(x) = y, x \in layers
        PROVE  y \in layers
    <3>1. PICK i \in 1..Len(table) : x = table[i]
      BY <2>2
    <3>2. i # Len(table)
      BY <1>2, <1>3, <2>2, <3>1, BlobsAssumption
    <3>3. i \in 1..(Len(table) - 1) /\ i + 1 \in 1..Len(table)
      BY SMTT(30), <1>2, <3>2
    <3> QED
      BY <1>2, <2>2, <3>1, <3>3
  <2>3. Closed(layers)
    BY <2>2 DEF ParentEdges
  <2> QED
    BY <2>1, <2>3
<1>4. ASSUME NEW S \in with PROVE \A i \in 1..Len(table) : table[i] \in S
  <2> DEFINE left == {i \in 1..Len(table) : table[i] \notin S}
  <2> SUFFICES ASSUME left # {} PROVE FALSE
    OBVIOUS
  <2>1. PICK i \in left : \A j \in left : i <= j
    <3>1. left \in SUBSET Nat
      BY SMTT(30)
    <3> HIDE DEF left
    <3> QED
      BY <3>1, LeastOf
  <2>2. i # 1
    BY <1>2, <2>1
  <2>3. i - 1 \in 1..(Len(table) - 1) /\ i - 1 \notin left /\ i - 1 \in 1..Len(table)
    BY SMTT(30), <1>2, <2>1, <2>2
  <2>4. table[i - 1] \in S /\ Parent(table[i - 1]) = table[i]
    BY SMTT(30), <1>2, <2>3
  <2>5. table[i - 1] \in Blobs /\ table[i] \in Blobs
    BY <1>2, <2>1, <2>3
  <2>6. <<table[i - 1], table[i]>> \in ParentEdges
    BY <2>4, <2>5 DEF ParentEdges
  <2> QED
    BY <2>1, <2>4, <2>6
<1> HIDE DEF with
<1>5. layers \subseteq Ancestors[b]
  BY <1>1, <1>2, <1>4
<1>6. b \in Ending => Ancestors[b] \subseteq layers
  BY <1>1, <1>3
<1> QED
  BY <1>5, <1>6

\* The file table of a version, as FileTable::get walks it, answers for its own
\* files and for none that neither it nor an ancestor introduced; where the
\* chain of parents ends, for all of those.
THEOREM TablesAreUnions == Spec => []TableIsUnion
<1>1. IInv => TableIsUnion
  <2> SUFFICES ASSUME IInv, NEW t \in Threads, Returned(t)
               PROVE  LET found == {f \in Files : Get(res[t], f) # NoBlob}
                          introduced == UNION {Records[a] : a \in Ancestors[id[t]]}
                      IN  /\ Records[id[t]] \subseteq found /\ found \subseteq introduced
                          /\ id[t] \in Ending => found = introduced
    BY DEF TableIsUnion
  <2>1. id[t] \in Blobs /\ res[t] \in Seq(Blobs) /\ IsAncestry(res[t], id[t])
    BY DEF IInv, TypeOK, Progress, Returned
  <2>2. PICK table \in Seq(Blobs) : table = res[t]
    BY <2>1
  <2> DEFINE layers == {table[i] : i \in 1..Len(table)}
             found == {f \in Files : Get(table, f) # NoBlob}
  <2>3. layers \subseteq Ancestors[id[t]] /\ (id[t] \in Ending => Ancestors[id[t]] = layers)
    BY <2>1, <2>2, LayersAreAncestors
  <2>4. \A a \in layers : Records[a] \subseteq Files
    BY SMTT(30), RecordsAssumption
  <2>5. \A f : Get(table, f) # NoBlob <=> \E i \in 1..Len(table) : f \in Records[table[i]]
    BY GetFinds
  <2>6. found = UNION {Records[a] : a \in layers}
    BY <2>4, <2>5
  <2>7. id[t] \in layers
    BY SMTT(30), <2>1, <2>2 DEF IsAncestry, IsChain, NoTable
  <2> HIDE DEF layers
  <2> QED
    BY <2>2, <2>3, <2>6, <2>7
<1> QED
  BY <1>1, BuildsStayOnChain, PTL

=============================================================================
