-------------------------- MODULE WindowCacheProofs --------------------------
(* Proofs about WindowCache, for any number of threads, any window and cache *)
(* size, any length of the dat and any ranges: what a read gathers is the    *)
(* dat's bytes, and no window is fetched twice at once.                      *)
EXTENDS WindowCache, TLAPS

\* Zenon proves the leaves that name no prover.
USE ZenonT(60)

\* The gate a thread is at, by where it is in dat_bytes.
AtGate(t) ==
  /\ phase[t] \in {"idle", "look", "miss", "take", "done"} => gate[t] = "outside"
  /\ phase[t] = "wait" => gate[t] = "waiting"
  /\ phase[t] \in {"recheck", "fetch", "store"} => gate[t] = "working"
  /\ phase[t] = "leave" => gate[t] \in {"working", "done"}

\* What one read has so far.
Gathered(t) ==
  /\ start[t] <= pos[t] /\ pos[t] <= end[t]
  /\ phase[t] = "idle" => pos[t] = start[t]
  /\ out[t] = [i \in 1..(pos[t] - start[t]) |-> start[t] + i - 1]
  /\ pos[t] > start[t] => pos[t] <= DatSize /\ pos[t] <= disk
  /\ phase[t] = "done" /\ got[t] # Failed =>
       pos[t] = end[t] \/ pos[t] >= DatSize \/ pos[t] >= disk

\* What it knows of the window it is at.
Knows(t) ==
  /\ phase[t] \notin {"idle", "look", "done"} => pos[t] < end[t]
  /\ phase[t] \in {"wait", "recheck", "fetch", "store", "leave"} => key[t] = Index(t)
  /\ phase[t] \in {"store", "take"} => got[t] = WindowLen(Index(t))
  /\ phase[t] = "leave" => got[t] \in {WindowLen(Index(t)), Failed}

Reading(t) == AtGate(t) /\ Gathered(t) /\ Knows(t)

\* Every cached window is as long as the dat makes it.
Genuine == \A e \in Raw!Entries(raw) : e.val = WindowLen(e.key)

Exclusive ==
  \A t, u \in Threads : gate[t] = "working" /\ gate[u] = "working" /\ key[t] = key[u] => t = u

Missing == \A t \in Threads : phase[t] \in {"fetch", "store"} => key[t] \notin Raw!Cached(raw)

\* The inductive invariant: the cache is in order and holds what the dat does;
\* a window being fetched is not there and is fetched by one thread; every read
\* is on its way.
FetchInv ==
  /\ TypeOK /\ Raw!Sound(raw)
  /\ Genuine /\ Exclusive /\ Missing
  /\ \A t \in Threads : Reading(t)

-----------------------------------------------------------------------------
\* The least of two numbers.
LEMMA MinOfTwo ==
  ASSUME NEW a \in Int, NEW b \in Int
  PROVE  Min({a, b}) = IF a <= b THEN a ELSE b
BY SMTT(30) DEF Min

\* The greatest of two numbers.
LEMMA MaxOfTwo ==
  ASSUME NEW a \in Int, NEW b \in Int
  PROVE  Max({a, b}) = IF a >= b THEN a ELSE b
BY SMTT(30) DEF Max

\* The least of three numbers.
LEMMA MinOfThree ==
  ASSUME NEW a \in Int, NEW b \in Int, NEW c \in Int
  PROVE  Min({a, b, c}) = IF a <= b /\ a <= c THEN a ELSE IF b <= c THEN b ELSE c
BY SMTT(30) DEF Min

\* A position lies in the window with its index.
LEMMA InItsWindow ==
  ASSUME NEW p \in Nat
  PROVE  LET i == p \div RAW_WINDOW
         IN  i \in Nat /\ i * RAW_WINDOW \in Nat
             /\ i * RAW_WINDOW <= p /\ p < i * RAW_WINDOW + RAW_WINDOW
BY SMTT(30), WindowIsPositive

\* The index of a position up to MaxEnd is one of the windows.
LEMMA IndexIsWindow ==
  ASSUME NEW p \in 0..MaxEnd
  PROVE  p \div RAW_WINDOW \in Windows
<1> DEFINE a == p \div RAW_WINDOW
           b == MaxEnd \div RAW_WINDOW
           w == RAW_WINDOW
<1>1. w \in Nat \ {0} /\ MaxEnd \in Nat /\ p \in Nat /\ p <= MaxEnd
  BY SMTT(30), WindowIsPositive, SizesAreLengths
<1>2. a \in Nat /\ b \in Nat /\ a * w <= p /\ MaxEnd < b * w + w
  BY <1>1, InItsWindow
<1> HIDE DEF a, b, w
<1>3. a * w \in Nat /\ b * w \in Nat
  BY SMTT(30), <1>1, <1>2
<1>4. ~(b < a)
  <2> SUFFICES ASSUME b < a PROVE FALSE
    OBVIOUS
  <2>1. b * w + w <= a * w
    BY SMTT(30), <1>1, <1>2
  <2> QED
    BY SMTT(30), <1>1, <1>2, <1>3, <2>1
<1>5. a \in 0..b
  BY SMTT(30), <1>2, <1>4
<1> QED
  BY <1>5 DEF Windows, a, b

\* A window has a byte exactly where the index and the file say it does.
LEMMA WindowLenFacts ==
  ASSUME disk \in DiskSizes, NEW i \in Nat
  PROVE  LET x == i * RAW_WINDOW
         IN  /\ WindowLen(i) \in 0..RAW_WINDOW
             /\ WindowLen(i) > 0 => x + WindowLen(i) <= DatSize /\ x + WindowLen(i) <= disk
             /\ \/ WindowLen(i) = RAW_WINDOW
                \/ x + WindowLen(i) >= DatSize
                \/ x + WindowLen(i) >= disk
<1> DEFINE x == i * RAW_WINDOW
           a == Max({0, DatSize - x})
           b == Max({0, disk - x})
           m == Min({RAW_WINDOW, a})
<1>1. RAW_WINDOW \in Nat /\ RAW_WINDOW > 0 /\ DatSize \in Nat /\ disk \in Nat /\ x \in Nat
  BY SMTT(30), WindowIsPositive, SizesAreLengths
<1>2. WindowLen(i) = Min({m, b})
  BY DEF WindowLen, ReadAt, WantedLen
<1> HIDE DEF x
<1>3. /\ a = IF 0 >= DatSize - x THEN 0 ELSE DatSize - x
      /\ b = IF 0 >= disk - x THEN 0 ELSE disk - x
  BY SMTT(30), <1>1, MaxOfTwo
<1> HIDE DEF a, b
<1>4. a \in Nat /\ b \in Nat /\ m = IF RAW_WINDOW <= a THEN RAW_WINDOW ELSE a
  BY SMTT(30), <1>1, <1>3, MinOfTwo
<1> HIDE DEF m
<1>5. m \in Nat /\ WindowLen(i) = IF m <= b THEN m ELSE b
  BY SMTT(30), <1>1, <1>2, <1>4, MinOfTwo
<1> QED
  BY SMTT(30), <1>1, <1>3, <1>4, <1>5 DEF x

\* The cache's buffers have lengths.
LEMMA RawSized ==
  Raw!Sized
BY SMTT(30), WindowIsPositive, SizesAreLengths DEF Raw!Sized, Length

\* Nothing of a thread's read has changed.
Untouched(u) ==
  /\ phase'[u] = phase[u] /\ gate'[u] = gate[u] /\ key'[u] = key[u]
  /\ start'[u] = start[u] /\ end'[u] = end[u] /\ pos'[u] = pos[u]
  /\ out'[u] = out[u] /\ got'[u] = got[u]

\* A step of one thread leaves the reads of the others.
LEMMA OthersRead ==
  ASSUME FetchInv, NEW t \in Threads, disk' = disk,
         \A u \in Threads \ {t} : Untouched(u), Reading(t)'
  PROVE  \A u \in Threads : Reading(u)'
<1>1. \A i : WindowLen(i)' = WindowLen(i)
  BY DEF WindowLen, ReadAt
<1> SUFFICES ASSUME NEW u \in Threads \ {t} PROVE Reading(u)'
  OBVIOUS
<1>2. Reading(u) /\ Untouched(u)
  BY DEF FetchInv
<1>3. Index(u)' = Index(u)
  BY <1>2 DEF Index, Untouched
<1> QED
  BY <1>1, <1>2, <1>3 DEF Reading, AtGate, Gathered, Knows, Untouched

\* What is left to show of a step that neither stores nor evicts: the thread's
\* own read, that the lock it has was free, that the window it fetches is not
\* there.
LEMMA QuietStep ==
  ASSUME FetchInv, NEW t \in Threads, disk' = disk, TypeOK',
         Raw!Sound(raw)', Raw!Entries(raw') = Raw!Entries(raw),
         \A u \in Threads \ {t} : Untouched(u), Reading(t)',
         gate'[t] = "working" =>
           \A u \in Threads \ {t} : gate[u] = "working" => key[u] # key'[t],
         phase'[t] \in {"fetch", "store"} => key'[t] \notin Raw!Cached(raw)
  PROVE  FetchInv'
<1>1. \A i : WindowLen(i)' = WindowLen(i)
  BY DEF WindowLen, ReadAt
<1>2. Genuine'
  BY <1>1 DEF FetchInv, Genuine
<1>3. Raw!Cached(raw)' = Raw!Cached(raw)
  BY DEF Raw!Cached
<1>4. Missing'
  BY <1>3 DEF FetchInv, Missing, Untouched
<1>5. Exclusive'
  BY SMTT(30) DEF FetchInv, Exclusive, Untouched
<1> QED
  BY <1>2, <1>4, <1>5, OthersRead DEF FetchInv

\* The types, spelt out for one thread.
LEMMA Typing ==
  ASSUME FetchInv, NEW t \in Threads
  PROVE  /\ start[t] \in 0..MaxEnd /\ end[t] \in 0..MaxEnd /\ pos[t] \in 0..MaxEnd
         /\ pos[t] \in Nat /\ Index(t) \in Windows /\ Index(t) \in Nat /\ key[t] \in Windows
         /\ disk \in DiskSizes /\ disk \in Nat /\ MaxEnd \in Nat /\ Raw!Sized
         /\ phase \in [Threads -> Phases] /\ gate \in [Threads -> Flight!Phases]
         /\ key \in [Threads -> Windows]
         /\ Reading(t)
<1>1. TypeOK /\ Reading(t)
  BY DEF FetchInv
<1>2. pos[t] \in 0..MaxEnd /\ MaxEnd \in Nat
  BY <1>1, SizesAreLengths DEF TypeOK
<1>3. Index(t) \in Windows /\ Index(t) \in Nat
  BY SMTT(30), <1>2, IndexIsWindow, InItsWindow DEF Index
<1> QED
  BY SMTT(30), <1>1, <1>2, <1>3, RawSized, SizesAreLengths DEF TypeOK, Flight!TypeOK

\* The bytes of a read so far are positions.
LEMMA OutTyped ==
  ASSUME NEW a \in 0..MaxEnd, NEW b \in 0..MaxEnd, a <= b
  PROVE  [i \in 1..(b - a) |-> a + i - 1] \in Seq(0..MaxEnd)
<1>1. MaxEnd \in Nat /\ b - a \in Nat
  BY SMTT(30), SizesAreLengths
<1>2. \A i \in 1..(b - a) : a + i - 1 \in 0..MaxEnd
  BY SMTT(30), <1>1
<1> QED
  BY SMTT(30), <1>1, <1>2

\* Nothing is read and nothing cached.
LEMMA InitFetchInv ==
  Init => FetchInv
<1> SUFFICES ASSUME Init PROVE FetchInv
  OBVIOUS
<1>1. Raw!Sound(raw) /\ Raw!Entries(raw) = {}
  BY RawSized, Raw!NewIsSound DEF Init
<1>2. 0 \in 0..MaxEnd /\ 0 \in Windows /\ 0 \in 0..RAW_WINDOW
  <2>1. MaxEnd \in Nat /\ RAW_WINDOW \in Nat
    BY SizesAreLengths, WindowIsPositive
  <2>2. 0 \in 0..MaxEnd
    BY SMTT(30), <2>1
  <2>3. 0 \div RAW_WINDOW = 0
    BY SMTT(30), WindowIsPositive
  <2> QED
    BY SMTT(30), <2>1, <2>2, <2>3, IndexIsWindow
<1>3. TypeOK
  BY SMTT(30), <1>1, <1>2 DEF Init, TypeOK, Raw!TypeOK, Raw!Sound, Flight!TypeOK, Flight!Init,
                    Flight!Phases, Phases
<1>4. \A t \in Threads : Reading(t)
  <2>1. [i \in 1..(0 - 0) |-> 0 + i - 1] = <<>>
    BY SMTT(30)
  <2> QED
    BY SMTT(30), <1>2, <2>1 DEF Init, Flight!Init, Reading, AtGate, Gathered, Knows, Failed
<1>5. Exclusive
  BY DEF Exclusive, Init, Flight!Init
<1> QED
  BY <1>1, <1>3, <1>4, <1>5 DEF FetchInv, Genuine, Missing, Init

\* A read starts with nothing gathered.
LEMMA RequestFetchInv ==
  ASSUME FetchInv, NEW t \in Threads, NEW r \in Ranges, Request(t, r)
  PROVE  FetchInv'
<1>1. r[1] \in 0..MaxEnd /\ r[2] \in 0..MaxEnd /\ r[1] <= r[2]
  BY RangesAreOrdered
<1>2. TypeOK /\ Raw!Sound(raw) /\ Reading(t) /\ phase[t] = "idle"
  BY DEF FetchInv, Request
<1>3. out[t] = <<>> /\ r[1] - r[1] = 0
  <2>1. pos[t] = start[t] /\ pos[t] \in 0..MaxEnd /\ MaxEnd \in Nat
    BY <1>2, Typing DEF Reading, Gathered
  <2>2. out[t] = [i \in 1..0 |-> start[t] + i - 1]
    BY SMTT(30), <1>2, <2>1 DEF Reading, Gathered
  <2> QED
    BY SMTT(30), <1>1, <2>1, <2>2
<1>4. TypeOK'
  BY <1>1, <1>2 DEF Request, Goto, TypeOK, Phases, Raw!TypeOK, Raw!Typed, flight, Flight!TypeOK
<1>5. Reading(t)'
  <2>1. /\ phase'[t] = "look" /\ start'[t] = r[1] /\ end'[t] = r[2] /\ pos'[t] = r[1]
        /\ gate'[t] = gate[t] /\ out'[t] = out[t]
    BY <1>2 DEF Request, Goto, TypeOK, flight
  <2>2. AtGate(t)' /\ Knows(t)'
    BY <1>2, <2>1 DEF Reading, AtGate, Knows
  <2>3. Gathered(t)'
    <3>1. out'[t] = [i \in 1..(r[1] - r[1]) |-> r[1] + i - 1]
      BY SMTT(30), <1>3, <2>1
    <3> QED
      BY SMTT(30), <1>1, <2>1, <3>1 DEF Gathered
  <2> QED
    BY <2>2, <2>3 DEF Reading
<1>6. \A u \in Threads \ {t} : Untouched(u)
  BY <1>2 DEF Request, Goto, TypeOK, flight, Untouched
<1>7. phase'[t] = "look" /\ gate'[t] = gate[t] /\ gate[t] = "outside"
  BY <1>2 DEF Request, Goto, TypeOK, flight, Reading, AtGate
<1> QED
  BY <1>2, <1>4, <1>5, <1>6, <1>7, QuietStep DEF Request

\* A cached window has the length the dat gives it.
LEMMA HitIsGenuine ==
  ASSUME FetchInv, NEW i \in Raw!Cached(raw)
  PROVE  Raw!EntryOf(raw, i).val = WindowLen(i) /\ WindowLen(i) \in 0..RAW_WINDOW
<1>1. /\ Raw!EntryOf(raw, i) \in Raw!Entries(raw) /\ Raw!EntryOf(raw, i).key = i
      /\ Raw!EntryOf(raw, i) \in Raw!Entry
  BY Raw!PositionFacts DEF FetchInv
<1> QED
  BY <1>1 DEF FetchInv, Genuine, Raw!Entry

\* The first look: a hit takes the window, a miss goes for it.
LEMMA LookFetchInv ==
  ASSUME FetchInv, NEW t \in Threads, Look(t)
  PROVE  FetchInv'
<1>1. TypeOK /\ Raw!Sound(raw) /\ Reading(t) /\ phase[t] = "look" /\ gate[t] = "outside"
  BY DEF FetchInv, Look, Reading, AtGate
<1>2. Raw!Sound(raw)' /\ Raw!Entries(raw') = Raw!Entries(raw)
  BY <1>1, RawSized, Raw!GetKeeps DEF Look
<1>3. /\ phase'[t] \in {"take", "miss"} /\ got'[t] \in (0..RAW_WINDOW) \cup {Failed}
      /\ phase'[t] = "take" => got'[t] = WindowLen(Index(t))
      /\ phase' \in [Threads -> Phases] /\ got' \in [Threads -> (0..RAW_WINDOW) \cup {Failed}]
      /\ \A u \in Threads \ {t} : phase'[u] = phase[u] /\ got'[u] = got[u]
  <2>1. CASE Index(t) \in Raw!Cached(raw)
    BY <1>1, <2>1, HitIsGenuine DEF Look, Goto, TypeOK, Phases
  <2>2. CASE Index(t) \notin Raw!Cached(raw)
    BY <1>1, <2>2 DEF Look, Goto, TypeOK, Phases
  <2> QED
    BY <2>1, <2>2
<1>4. UNCHANGED <<disk, gate, key, start, end, pos, out>> /\ pos[t] < end[t]
  BY DEF Look, flight, args
<1>5. TypeOK'
  BY <1>1, <1>2, <1>3, <1>4 DEF TypeOK, Raw!TypeOK, Raw!Sound, Flight!TypeOK
<1>6. Reading(t)'
  <2>1. WindowLen(Index(t))' = WindowLen(Index(t)) /\ Index(t)' = Index(t)
    BY <1>4 DEF WindowLen, ReadAt, Index
  <2> QED
    BY <1>1, <1>3, <1>4, <2>1 DEF Reading, AtGate, Gathered, Knows
<1>7. \A u \in Threads \ {t} : Untouched(u)
  BY <1>3, <1>4 DEF Untouched
<1> QED
  BY <1>1, <1>2, <1>3, <1>4, <1>5, <1>6, <1>7, QuietStep

\* dedupe is called for the window at `pos`.
LEMMA EnterFetchInv ==
  ASSUME FetchInv, NEW t \in Threads, Enter(t)
  PROVE  FetchInv'
<1>1. TypeOK /\ Raw!Sound(raw) /\ Reading(t) /\ phase[t] = "miss" /\ pos[t] < end[t]
  BY DEF FetchInv, Enter, Reading, Knows
<1>2. PICK k \in Windows : key' = [key EXCEPT ![t] = k]
  BY DEF Enter, Flight!Request
<1>3. /\ phase' = [phase EXCEPT ![t] = "wait"] /\ gate' = [gate EXCEPT ![t] = "waiting"]
      /\ key'[t] = Index(t) /\ UNCHANGED <<disk, raw, start, end, pos, out, got>>
  BY DEF Enter, Flight!Request, Goto, args
<1>4. TypeOK'
  BY <1>1, <1>2, <1>3 DEF TypeOK, Raw!TypeOK, Flight!TypeOK, Flight!Phases, Phases
<1>5. phase'[t] = "wait" /\ gate'[t] = "waiting" /\ \A u \in Threads \ {t} : Untouched(u)
  BY <1>1, <1>2, <1>3 DEF TypeOK, Flight!TypeOK, Untouched
<1>6. Reading(t)'
  <2>1. Index(t)' = Index(t)
    BY <1>3 DEF Index
  <2> QED
    BY <1>1, <1>3, <1>5, <2>1 DEF Reading, AtGate, Gathered, Knows
<1> QED
  BY <1>1, <1>3, <1>4, <1>5, <1>6, QuietStep

\* The slot's mutex is taken: nobody else works on the window.
LEMMA LockFetchInv ==
  ASSUME FetchInv, NEW t \in Threads, Lock(t)
  PROVE  FetchInv'
<1>1. TypeOK /\ Raw!Sound(raw) /\ Reading(t) /\ phase[t] = "wait"
  BY DEF FetchInv, Lock
<1>2. /\ phase' = [phase EXCEPT ![t] = "recheck"] /\ gate' = [gate EXCEPT ![t] = "working"]
      /\ UNCHANGED <<disk, raw, key, start, end, pos, out, got>>
      /\ \A u \in Threads : gate[u] = "working" => key[u] # key[t]
  BY DEF Lock, Flight!Acquire, Goto, args
<1>3. TypeOK'
  BY <1>1, <1>2 DEF TypeOK, Raw!TypeOK, Flight!TypeOK, Flight!Phases, Phases
<1>4. phase'[t] = "recheck" /\ gate'[t] = "working" /\ \A u \in Threads \ {t} : Untouched(u)
  BY <1>1, <1>2 DEF TypeOK, Flight!TypeOK, Untouched
<1>5. Reading(t)'
  <2>1. Index(t)' = Index(t)
    BY <1>2 DEF Index
  <2> QED
    BY <1>1, <1>2, <1>4, <2>1 DEF Reading, AtGate, Gathered, Knows
<1> QED
  BY <1>1, <1>2, <1>3, <1>4, <1>5, QuietStep

\* The second look, inside the flight.
LEMMA RecheckFetchInv ==
  ASSUME FetchInv, NEW t \in Threads, Recheck(t)
  PROVE  FetchInv'
<1>1. /\ TypeOK /\ Raw!Sound(raw) /\ Reading(t) /\ phase[t] = "recheck"
      /\ gate[t] = "working" /\ key[t] = Index(t)
  BY DEF FetchInv, Recheck, Reading, AtGate, Knows
<1>2. Raw!Sound(raw)' /\ Raw!Entries(raw') = Raw!Entries(raw)
  BY <1>1, RawSized, Raw!GetKeeps DEF Recheck
<1>3. /\ phase'[t] \in {"leave", "fetch"}
      /\ phase'[t] = "leave" => got'[t] = WindowLen(Index(t))
      /\ phase'[t] = "fetch" => key[t] \notin Raw!Cached(raw)
      /\ phase' \in [Threads -> Phases] /\ got' \in [Threads -> (0..RAW_WINDOW) \cup {Failed}]
      /\ \A u \in Threads \ {t} : phase'[u] = phase[u] /\ got'[u] = got[u]
  <2>1. CASE key[t] \in Raw!Cached(raw)
    BY <1>1, <2>1, HitIsGenuine DEF Recheck, Goto, TypeOK, Phases
  <2>2. CASE key[t] \notin Raw!Cached(raw)
    BY <1>1, <2>2 DEF Recheck, Goto, TypeOK, Phases
  <2> QED
    BY <2>1, <2>2
<1>4. UNCHANGED <<disk, gate, key, start, end, pos, out>>
  BY DEF Recheck, flight, args
<1>5. TypeOK'
  BY <1>1, <1>2, <1>3, <1>4 DEF TypeOK, Raw!TypeOK, Raw!Sound, Flight!TypeOK
<1>6. Reading(t)'
  <2>1. WindowLen(Index(t))' = WindowLen(Index(t)) /\ Index(t)' = Index(t)
    BY <1>4 DEF WindowLen, ReadAt, Index
  <2> QED
    BY <1>1, <1>3, <1>4, <2>1 DEF Reading, AtGate, Gathered, Knows
<1>7. \A u \in Threads \ {t} : Untouched(u)
  BY <1>3, <1>4 DEF Untouched
<1>8. \A u \in Threads \ {t} : gate[u] = "working" => key[u] # key[t]
  BY <1>1 DEF FetchInv, Exclusive
<1> QED
  BY <1>1, <1>2, <1>3, <1>4, <1>5, <1>6, <1>7, <1>8, QuietStep

\* The backend answers with what there is of the window, or fails.
LEMMA FetchFetchInv ==
  ASSUME FetchInv, NEW t \in Threads, Fetch(t)
  PROVE  FetchInv'
<1>1. /\ TypeOK /\ Raw!Sound(raw) /\ Reading(t) /\ phase[t] = "fetch"
      /\ gate[t] = "working" /\ key[t] = Index(t) /\ key[t] \notin Raw!Cached(raw)
  BY DEF FetchInv, Fetch, Reading, AtGate, Knows, Missing
<1>2. WindowLen(key[t]) \in 0..RAW_WINDOW
  BY <1>1, Typing, WindowLenFacts
<1>3. /\ \/ phase'[t] = "store" /\ got'[t] = WindowLen(key[t])
         \/ phase'[t] = "leave" /\ got'[t] = Failed
      /\ phase' \in [Threads -> Phases] /\ got' \in [Threads -> (0..RAW_WINDOW) \cup {Failed}]
      /\ \A u \in Threads \ {t} : phase'[u] = phase[u] /\ got'[u] = got[u]
  <2>1. CASE got' = [got EXCEPT ![t] = WindowLen(key[t])] /\ Goto(t, "store")
    BY <1>1, <1>2, <2>1 DEF Goto, TypeOK, Phases
  <2>2. CASE got' = [got EXCEPT ![t] = Failed] /\ Goto(t, "leave")
    BY <1>1, <2>2 DEF Goto, TypeOK, Phases
  <2> QED
    BY <2>1, <2>2 DEF Fetch
<1>4. UNCHANGED <<disk, raw, gate, key, start, end, pos, out>>
  BY DEF Fetch, flight, args
<1>5. TypeOK'
  BY <1>1, <1>3, <1>4 DEF TypeOK, Raw!TypeOK, Flight!TypeOK
<1>6. Reading(t)'
  <2>1. WindowLen(Index(t))' = WindowLen(Index(t)) /\ Index(t)' = Index(t)
    BY <1>4 DEF WindowLen, ReadAt, Index
  <2> QED
    BY <1>1, <1>3, <1>4, <2>1 DEF Reading, AtGate, Gathered, Knows
<1>7. \A u \in Threads \ {t} : Untouched(u)
  BY <1>3, <1>4 DEF Untouched
<1>8. \A u \in Threads \ {t} : gate[u] = "working" => key[u] # key[t]
  BY <1>1 DEF FetchInv, Exclusive
<1> QED
  BY <1>1, <1>3, <1>4, <1>5, <1>6, <1>7, <1>8, QuietStep

\* The window is stored; what it pushes out is no window being fetched.
LEMMA StoreFetchInv ==
  ASSUME FetchInv, NEW t \in Threads, Store(t)
  PROVE  FetchInv'
<1> DEFINE new == [key |-> key[t], val |-> got[t]]
<1>1. /\ TypeOK /\ Raw!Sound(raw) /\ Reading(t) /\ phase[t] = "store"
      /\ gate[t] = "working" /\ key[t] = Index(t) /\ got[t] = WindowLen(key[t])
  BY DEF FetchInv, Store, Reading, AtGate, Knows
<1>2. got[t] \in 0..RAW_WINDOW /\ key[t] \in Windows
  BY <1>1, Typing, WindowLenFacts
<1>3. Raw!Sound(raw') /\ Raw!Entries(raw') \subseteq Raw!Entries(raw) \cup {new}
  BY <1>1, <1>2, RawSized, Raw!InsertKeeps DEF Store
<1>4. /\ phase' = [phase EXCEPT ![t] = "leave"]
      /\ UNCHANGED <<disk, gate, key, start, end, pos, out, got>>
  BY DEF Store, Goto, flight, args
<1>5. TypeOK'
  BY <1>1, <1>3, <1>4 DEF TypeOK, Raw!TypeOK, Raw!Sound, Flight!TypeOK, Phases
<1>6. phase'[t] = "leave" /\ \A u \in Threads \ {t} : Untouched(u)
  BY <1>1, <1>4 DEF TypeOK, Untouched
<1>7. \A i : WindowLen(i)' = WindowLen(i)
  BY <1>4 DEF WindowLen, ReadAt
<1>8. Reading(t)'
  <2>1. Index(t)' = Index(t)
    BY <1>4 DEF Index
  <2> QED
    BY <1>1, <1>4, <1>6, <1>7, <2>1 DEF Reading, AtGate, Gathered, Knows
<1>9. \A u \in Threads : Reading(u)'
  BY <1>4, <1>6, <1>8, OthersRead
<1>10. Genuine'
  BY SMTT(30), <1>1, <1>3, <1>7 DEF FetchInv, Genuine
<1>11. Exclusive'
  BY <1>4 DEF FetchInv, Exclusive
<1>12. Missing'
  <2> SUFFICES ASSUME NEW u \in Threads, phase'[u] \in {"fetch", "store"}
               PROVE  key[u] \notin Raw!Cached(raw')
    BY <1>4 DEF Missing
  <2>1. u # t /\ phase[u] \in {"fetch", "store"}
    BY <1>6 DEF Untouched
  <2>2. gate[u] = "working" /\ key[u] \notin Raw!Cached(raw) /\ key[u] # key[t]
    BY <1>1, <2>1 DEF FetchInv, Reading, AtGate, Missing, Exclusive
  <2> QED
    BY SMTT(30), <1>3, <2>2 DEF Raw!Cached
<1> QED
  BY <1>3, <1>5, <1>9, <1>10, <1>11, <1>12 DEF FetchInv

\* dedupe returns, with the window or the error.
LEMMA LeaveFetchInv ==
  ASSUME FetchInv, NEW t \in Threads, Leave(t)
  PROVE  FetchInv'
<1>1. /\ TypeOK /\ Raw!Sound(raw) /\ Reading(t) /\ phase[t] = "leave"
      /\ UNCHANGED <<disk, raw, key, start, end, pos, out, got>>
  BY DEF FetchInv, Leave, Flight!Release, Flight!Return, args
<1>2. WindowLen(Index(t))' = WindowLen(Index(t)) /\ Index(t)' = Index(t)
  BY <1>1 DEF WindowLen, ReadAt, Index
<1>3. CASE Flight!Release(t) /\ UNCHANGED phase
  <2>1. TypeOK'
    BY <1>1, <1>3 DEF Flight!Release, TypeOK, Raw!TypeOK, Flight!TypeOK, Flight!Phases
  <2>2. gate'[t] = "done" /\ \A u \in Threads \ {t} : Untouched(u)
    BY <1>1, <1>3 DEF Flight!Release, TypeOK, Flight!TypeOK, Untouched
  <2>3. Reading(t)'
    BY <1>1, <1>2, <1>3, <2>2 DEF Reading, AtGate, Gathered, Knows
  <2> QED
    BY <1>1, <1>3, <2>1, <2>2, <2>3, QuietStep
<1>4. CASE Flight!Return(t) /\ Goto(t, IF got[t] = Failed THEN "done" ELSE "take")
  <2>1. TypeOK'
    BY <1>1, <1>4 DEF Flight!Return, Goto, TypeOK, Raw!TypeOK, Flight!TypeOK, Flight!Phases, Phases
  <2>2. /\ gate'[t] = "outside" /\ phase'[t] = IF got[t] = Failed THEN "done" ELSE "take"
        /\ \A u \in Threads \ {t} : Untouched(u)
    BY <1>1, <1>4 DEF Flight!Return, Goto, TypeOK, Flight!TypeOK, Untouched
  <2>3. Reading(t)'
    BY <1>1, <1>2, <2>2 DEF Reading, AtGate, Gathered, Knows
  <2> QED
    BY <1>1, <2>1, <2>2, <2>3, QuietStep
<1> QED
  BY <1>3, <1>4 DEF Leave

\* The loop ends at the end of the range.
LEMMA FinishFetchInv ==
  ASSUME FetchInv, NEW t \in Threads, Finish(t)
  PROVE  FetchInv'
<1>1. /\ TypeOK /\ Raw!Sound(raw) /\ Reading(t) /\ phase[t] = "look" /\ pos[t] >= end[t]
      /\ phase' = [phase EXCEPT ![t] = "done"]
      /\ UNCHANGED <<disk, raw, gate, key, start, end, pos, out, got>>
  BY DEF FetchInv, Finish, Goto, flight, args
<1>2. TypeOK'
  BY <1>1 DEF TypeOK, Raw!TypeOK, Flight!TypeOK, Phases
<1>3. phase'[t] = "done" /\ \A u \in Threads \ {t} : Untouched(u)
  BY <1>1 DEF TypeOK, Untouched
<1>4. pos[t] = end[t]
  <2>1. pos[t] \in Int /\ end[t] \in Int
    BY SMTT(30), Typing
  <2>2. pos[t] <= end[t]
    BY <1>1 DEF Reading, Gathered
  <2> QED
    BY SMTT(30), <1>1, <2>1, <2>2
<1>5. Reading(t)'
  BY <1>1, <1>3, <1>4 DEF Reading, AtGate, Gathered, Knows
<1> QED
  BY <1>1, <1>2, <1>3, <1>5, QuietStep DEF Reading, AtGate

\* The caller goes away with its bytes.
LEMMA ReturnFetchInv ==
  ASSUME FetchInv, NEW t \in Threads, Return(t)
  PROVE  FetchInv'
<1>1. /\ TypeOK /\ Raw!Sound(raw) /\ Reading(t) /\ phase[t] = "done" /\ gate[t] = "outside"
      /\ UNCHANGED <<disk, raw, gate, key>>
  BY DEF FetchInv, Return, Reading, AtGate, flight
<1>2. 0 \in 0..MaxEnd /\ 0 \in 0..RAW_WINDOW
  BY SMTT(30), SizesAreLengths, WindowIsPositive
<1>3. TypeOK'
  BY SMTT(30), <1>1, <1>2 DEF Return, Goto, TypeOK, Raw!TypeOK, Flight!TypeOK, Phases
<1>4. /\ phase'[t] = "idle" /\ start'[t] = 0 /\ end'[t] = 0 /\ pos'[t] = 0 /\ out'[t] = <<>>
      /\ \A u \in Threads \ {t} : Untouched(u)
  BY <1>1 DEF Return, Goto, TypeOK, Untouched
<1>5. Reading(t)'
  <2>1. [i \in 1..(0 - 0) |-> 0 + i - 1] = <<>>
    BY SMTT(30)
  <2> QED
    BY SMTT(30), <1>1, <1>4, <2>1 DEF Reading, AtGate, Gathered, Knows
<1> QED
  BY <1>1, <1>3, <1>4, <1>5, QuietStep

\* The bytes a .. b-1 followed by the n bytes from b on.
LEMMA Continued ==
  ASSUME NEW a \in Nat, NEW b \in Nat, a <= b, NEW n \in Nat
  PROVE  [i \in 1..(b - a) |-> a + i - 1] \o [i \in 1..n |-> b + i - 1]
           = [i \in 1..((b + n) - a) |-> a + i - 1]
<1> DEFINE f == [i \in 1..(b - a) |-> a + i - 1]
           g == [i \in 1..n |-> b + i - 1]
           h == [i \in 1..((b + n) - a) |-> a + i - 1]
<1>1. f \in Seq(Nat) /\ g \in Seq(Nat) /\ h \in Seq(Nat)
  BY SMTT(30)
<1>2. Len(f) = b - a /\ Len(g) = n /\ Len(h) = (b + n) - a
  BY SMTT(30)
<1> QED
  BY SMTT(30), <1>1, <1>2

\* A window that ends before `pos` ends the read at the end of the dat.
LEMMA TakeNothing ==
  ASSUME FetchInv, NEW t \in Threads, phase[t] = "take",
         pos[t] - Index(t) * RAW_WINDOW >= got[t]
  PROVE  pos[t] >= DatSize \/ pos[t] >= disk
<1> DEFINE x == Index(t) * RAW_WINDOW
           p == pos[t]
           g == WindowLen(Index(t))
<1>1. got[t] = g /\ p \in Nat /\ Index(t) \in Nat /\ disk \in DiskSizes
  BY Typing DEF Reading, Knows
<1>2. x \in Nat /\ p < x + RAW_WINDOW
  BY <1>1, InItsWindow DEF Index
<1>3. g \in 0..RAW_WINDOW /\ (g = RAW_WINDOW \/ x + g >= DatSize \/ x + g >= disk)
  BY <1>1, WindowLenFacts
<1>4. RAW_WINDOW \in Nat /\ DatSize \in Nat /\ disk \in Nat /\ p - x >= g
  BY <1>1, WindowIsPositive, SizesAreLengths
<1> HIDE DEF x, p, g
<1>5. p >= DatSize \/ p >= disk
  BY SMTT(30), <1>1, <1>2, <1>3, <1>4
<1> QED
  BY <1>5 DEF p

\* What is taken of a window is a stretch of the range that the dat has.
LEMMA TakeSome ==
  ASSUME FetchInv, NEW t \in Threads, phase[t] = "take",
         NEW skip, skip = pos[t] - Index(t) * RAW_WINDOW, skip < got[t],
         NEW n, n = Min({end[t] - pos[t], got[t] - skip})
  PROVE  /\ n \in Nat /\ n > 0 /\ pos[t] + n <= end[t]
         /\ pos[t] + n <= DatSize /\ pos[t] + n <= disk
         /\ Index(t) * RAW_WINDOW + skip = pos[t]
<1> DEFINE x == Index(t) * RAW_WINDOW
           p == pos[t]
           e == end[t]
           g == WindowLen(Index(t))
<1>1. /\ got[t] = g /\ p \in Nat /\ e \in Nat /\ p < e
      /\ Index(t) \in Nat /\ disk \in DiskSizes
  BY SMTT(30), Typing DEF Reading, Knows
<1>2. x \in Nat /\ x <= p
  BY <1>1, InItsWindow DEF Index
<1>3. g \in 0..RAW_WINDOW /\ (g > 0 => x + g <= DatSize /\ x + g <= disk)
  BY <1>1, WindowLenFacts
<1>4. /\ RAW_WINDOW \in Nat /\ DatSize \in Nat /\ disk \in Nat
      /\ skip = p - x /\ skip < g /\ n = Min({e - p, g - skip})
  BY <1>1, WindowIsPositive, SizesAreLengths
<1> HIDE DEF x, p, e, g
<1>5. skip \in Nat /\ g \in Nat
  BY SMTT(30), <1>1, <1>2, <1>3, <1>4
<1>6. n = IF e - p <= g - skip THEN e - p ELSE g - skip
  BY SMTT(30), <1>1, <1>4, <1>5, MinOfTwo
<1>7. /\ n \in Nat /\ n > 0 /\ p + n <= e
      /\ p + n <= DatSize /\ p + n <= disk /\ x + skip = p
  BY SMTT(30), <1>1, <1>2, <1>3, <1>4, <1>5, <1>6
<1> QED
  BY <1>7 DEF p, e, x

\* A window's bytes are copied, or the read ends there.
LEMMA TakeFetchInv ==
  ASSUME FetchInv, NEW t \in Threads, Take(t)
  PROVE  FetchInv'
<1> DEFINE skip == pos[t] - Index(t) * RAW_WINDOW
           n == Min({end[t] - pos[t], got[t] - skip})
<1>1. /\ TypeOK /\ Raw!Sound(raw) /\ Reading(t) /\ phase[t] = "take" /\ gate[t] = "outside"
      /\ UNCHANGED <<disk, raw, gate, key, start, end, got>>
  BY DEF FetchInv, Take, Reading, AtGate, flight, args
<1>2. CASE skip >= got[t]
  <2>1. phase' = [phase EXCEPT ![t] = "done"] /\ UNCHANGED <<pos, out>>
    BY <1>2 DEF Take, Goto
  <2>2. TypeOK'
    BY <1>1, <2>1 DEF TypeOK, Raw!TypeOK, Flight!TypeOK, Phases
  <2>3. phase'[t] = "done" /\ \A u \in Threads \ {t} : Untouched(u)
    BY <1>1, <2>1 DEF TypeOK, Untouched
  <2>4. pos[t] >= DatSize \/ pos[t] >= disk
    BY <1>1, <1>2, TakeNothing
  <2>5. Reading(t)'
    BY <1>1, <2>1, <2>3, <2>4 DEF Reading, AtGate, Gathered, Knows
  <2> QED
    BY <1>1, <2>1, <2>2, <2>3, <2>5, QuietStep
<1>3. CASE ~(skip >= got[t])
  <2>1. /\ phase' = [phase EXCEPT ![t] = "look"]
        /\ out' = [out EXCEPT ![t] = out[t] \o [i \in 1..n |-> Index(t) * RAW_WINDOW + skip + i - 1]]
        /\ pos' = [pos EXCEPT ![t] = pos[t] + n]
    BY <1>3 DEF Take, Goto, TakeBytes
  <2>2. skip < got[t]
    <3>1. pos[t] \in Nat /\ Index(t) * RAW_WINDOW \in Nat
      BY Typing, InItsWindow DEF Index
    <3>2. got[t] \in Int
      BY SMTT(30), <1>1, WindowIsPositive DEF TypeOK, Failed
    <3> DEFINE x == Index(t) * RAW_WINDOW
    <3> HIDE DEF x
    <3>3. x \in Nat /\ ~(pos[t] - x >= got[t])
      BY <1>3, <3>1 DEF x
    <3>4. pos[t] - x < got[t]
      BY SMTT(30), <3>1, <3>2, <3>3
    <3> QED
      BY <3>4 DEF x
  <2>3. /\ n \in Nat /\ n > 0 /\ pos[t] + n <= end[t]
        /\ pos[t] + n <= DatSize /\ pos[t] + n <= disk
        /\ Index(t) * RAW_WINDOW + skip = pos[t]
    BY <1>1, <2>2, TakeSome
  <2>4. out' = [out EXCEPT ![t] = out[t] \o [i \in 1..n |-> pos[t] + i - 1]]
    BY <2>1, <2>3
  <2> HIDE DEF n, skip
  <2>5. /\ start[t] \in 0..MaxEnd /\ pos[t] \in 0..MaxEnd /\ end[t] \in 0..MaxEnd
        /\ MaxEnd \in Nat /\ start[t] <= pos[t]
        /\ out[t] = [i \in 1..(pos[t] - start[t]) |-> start[t] + i - 1]
    BY <1>1, Typing DEF Reading, Gathered
  <2>6. pos[t] + n \in 0..MaxEnd /\ start[t] <= pos[t] + n /\ start[t] \in Nat /\ pos[t] \in Nat
    BY SMTT(30), <2>3, <2>5
  <2>7. out[t] \o [i \in 1..n |-> pos[t] + i - 1]
          = [i \in 1..((pos[t] + n) - start[t]) |-> start[t] + i - 1]
    <3>1. [i \in 1..(pos[t] - start[t]) |-> start[t] + i - 1] \o [i \in 1..n |-> pos[t] + i - 1]
            = [i \in 1..((pos[t] + n) - start[t]) |-> start[t] + i - 1]
      BY <2>3, <2>5, <2>6, Continued
    <3> QED
      BY <2>5, <3>1
  <2>8. out[t] \o [i \in 1..n |-> pos[t] + i - 1] \in Seq(0..MaxEnd)
    <3>1. [i \in 1..((pos[t] + n) - start[t]) |-> start[t] + i - 1] \in Seq(0..MaxEnd)
      BY <2>5, <2>6, OutTyped
    <3> QED
      BY <2>7, <3>1
  <2>9. TypeOK'
    BY <1>1, <2>1, <2>4, <2>6, <2>8 DEF TypeOK, Raw!TypeOK, Flight!TypeOK, Phases
  <2>10. /\ phase'[t] = "look" /\ pos'[t] = pos[t] + n
         /\ out'[t] = [i \in 1..((pos[t] + n) - start[t]) |-> start[t] + i - 1]
         /\ \A u \in Threads \ {t} : Untouched(u)
    BY <1>1, <2>1, <2>4, <2>7 DEF TypeOK, Untouched
  <2>11. Reading(t)'
    BY <1>1, <2>3, <2>6, <2>10 DEF Reading, AtGate, Gathered, Knows
  <2> QED
    BY <1>1, <2>9, <2>10, <2>11, QuietStep
<1> QED
  BY <1>2, <1>3

\* Every step keeps the invariant.
LEMMA NextFetchInv ==
  FetchInv /\ [Next]_vars => FetchInv'
<1> SUFFICES ASSUME FetchInv, [Next]_vars PROVE FetchInv'
  OBVIOUS
<1>1. ASSUME NEW t \in Threads, NEW r \in Ranges, Request(t, r) PROVE FetchInv'
  BY <1>1, RequestFetchInv
<1>2. ASSUME NEW t \in Threads, Step(t) PROVE FetchInv'
  BY <1>2, LookFetchInv, EnterFetchInv, LockFetchInv, RecheckFetchInv, FetchFetchInv,
     StoreFetchInv, LeaveFetchInv, TakeFetchInv, FinishFetchInv, ReturnFetchInv DEF Step
<1>3. CASE UNCHANGED vars
  <2>1. \A i : WindowLen(i)' = WindowLen(i)
    BY <1>3 DEF WindowLen, ReadAt, vars
  <2>2. \A t : Index(t)' = Index(t)
    BY <1>3 DEF Index, vars
  <2> QED
    BY SMTT(30), <1>3, <2>1, <2>2 DEF vars, FetchInv, TypeOK, Raw!TypeOK, Flight!TypeOK, Genuine,
                            Exclusive, Missing, Reading, AtGate, Gathered, Knows
<1> QED
  BY <1>1, <1>2, <1>3 DEF Next

\* The inductive invariant holds in every reachable state of dat_bytes,
\* raw_window and fetch_window.
THEOREM FetchInvAlways == Spec => []FetchInv
BY InitFetchInv, NextFetchInv, PTL DEF Spec

\* What dat_bytes has gathered is the dat's bytes start .. pos-1 in order, and a
\* read that ends without an error has all the dat has of the range, whatever
\* the other threads stored and evicted meanwhile.
THEOREM ReadsAreExact == Spec => []OutIsExact
<1>1. FetchInv => OutIsExact
  <2> SUFFICES ASSUME FetchInv, NEW t \in Threads,
                      NEW avail, avail = Min({end[t], DatSize, disk})
               PROVE  /\ out[t] = [i \in 1..(pos[t] - start[t]) |-> start[t] + i - 1]
                      /\ phase[t] = "done" /\ got[t] # Failed =>
                           Len(out[t]) = Max({0, avail - start[t]})
    BY DEF OutIsExact, FetchInv
  <2> DEFINE p == pos[t]
             e == end[t]
             s == start[t]
  <2>1. /\ p \in Nat /\ e \in Nat /\ s \in Nat /\ disk \in Nat /\ DatSize \in Nat
        /\ Gathered(t)
    BY SMTT(30), Typing, SizesAreLengths DEF Reading
  <2>2. out[t] = [i \in 1..(p - s) |-> s + i - 1] /\ s <= p /\ p <= e
        /\ (p > s => p <= DatSize /\ p <= disk)
    BY <2>1 DEF Gathered
  <2>3. ASSUME phase[t] = "done", got[t] # Failed
        PROVE  Len(out[t]) = Max({0, avail - s})
    <3>1. p = e \/ p >= DatSize \/ p >= disk
      BY <2>1, <2>3 DEF Gathered
    <3>2. Len(out[t]) = p - s
      BY SMTT(30), <2>1, <2>2
    <3> HIDE DEF p, e, s
    <3>3. avail = IF e <= DatSize /\ e <= disk THEN e ELSE IF DatSize <= disk THEN DatSize ELSE disk
      BY SMTT(30), <2>1, MinOfThree DEF e
    <3>4. avail \in Nat /\ Max({0, avail - s}) = IF 0 >= avail - s THEN 0 ELSE avail - s
      BY SMTT(30), <2>1, <3>3, MaxOfTwo
    <3>5. p - s = IF 0 >= avail - s THEN 0 ELSE avail - s
      BY SMTT(30), <2>1, <2>2, <3>1, <3>3
    <3> QED
      BY <3>2, <3>4, <3>5
  <2> QED
    BY <2>2, <2>3
<1> QED
  BY <1>1, FetchInvAlways, PTL

\* fetch_window never runs for a window that is cached, nor twice at once for
\* one window: the second look inside the flight and the flight's lock.
THEOREM WindowsFetchedOnce == Spec => []NoDuplicateFetch
<1>1. FetchInv => NoDuplicateFetch
  BY DEF FetchInv, NoDuplicateFetch, Missing, Exclusive, Reading, AtGate
<1> QED
  BY <1>1, FetchInvAlways, PTL
=============================================================================
