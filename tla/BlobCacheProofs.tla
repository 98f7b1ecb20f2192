-------------------------- MODULE BlobCacheProofs --------------------------
(* Proofs about BlobCache: for any number of mounts and threads, any length  *)
(* of the blob, any faults and whatever becomes of the cache directory, a    *)
(* blob is worked on once per mount at a time, what is parsed is the blob,   *)
(* and only the backend makes a call fail.                                   *)
EXTENDS BlobCache, FiniteSetTheorems, WellFoundedInduction, TLAPS

\* Zenon proves the leaves that name no prover.
USE ZenonT(60)

\* Before the first call nobody is inside blob_flight.
LEMMA InitFlightInv ==
  Init => FlightInv
BY SMTT(30), MountsAssumption DEF Init, FlightInv, CallOK, GateAt, Busy, BlobFlight!Phases

\* A step of one thread that leaves its mount's parsed blob alone, or that is
\* inside blob_flight, keeps what holds of the other threads' calls.
LEMMA OthersKeep ==
  ASSUME FlightInv, NEW t \in Threads,
         \A u \in Threads \ {t} :
           /\ pc'[u] = pc[u] /\ gate'[u] = gate[u] /\ bytes'[u] = bytes[u]
           /\ fromCache'[u] = fromCache[u] /\ backendFailed'[u] = backendFailed[u]
           /\ res'[u] = res[u]
           /\ pc[u] \in Busy => parsed'[MountOf[u]] = parsed[MountOf[u]],
         CallOK(t)'
  PROVE  \A u \in Threads : CallOK(u)'
<1>1. \A u \in Threads \ {t} : CallOK(u)
  BY DEF FlightInv
<1>2. \A u \in Threads \ {t} : CallOK(u)'
  BY SMTT(30), <1>1 DEF CallOK
<1> QED
  BY <1>2

\* A hit returns what is parsed; a miss goes on to blob_flight.
LEMMA CallFlightInv ==
  ASSUME FlightInv, NEW t \in Threads, Call(t)
  PROVE  FlightInv'
<1>1. parsed[MountOf[t]] \in {"none", "genuine"} /\ CallOK(t) /\ pc[t] = "idle"
  BY MountsAssumption DEF FlightInv, Call
<1>2. CallOK(t)'
  BY SMTT(30), <1>1 DEF FlightInv, CallOK, Call, Finish, Goto, GateAt, Busy, flight
<1>3. \A u \in Threads : CallOK(u)'
  BY <1>2, OthersKeep DEF FlightInv, Call, Finish, Goto, flight
<1> QED
  BY SMTT(30), <1>1, <1>3 DEF FlightInv, Call, Finish, Goto, flight

\* The second look: what another thread has parsed meanwhile is returned.
LEMMA RecheckFlightInv ==
  ASSUME FlightInv, NEW t \in Threads, Recheck(t)
  PROVE  FlightInv'
<1>1. parsed[MountOf[t]] \in {"none", "genuine"} /\ CallOK(t) /\ pc[t] = "recheck"
  BY MountsAssumption DEF FlightInv, Recheck
<1>2. CallOK(t)'
  BY SMTT(30), <1>1 DEF FlightInv, CallOK, Recheck, Finish, Goto, GateAt, Busy, flight
<1>3. \A u \in Threads : CallOK(u)'
  BY <1>2, OthersKeep DEF FlightInv, Recheck, Finish, Goto, flight
<1> QED
  BY SMTT(30), <1>1, <1>3 DEF FlightInv, Recheck, Finish, Goto, Busy, flight

\* Waiting for blob_flight, and leaving it, disturb nobody.
LEMMA QueueFlightInv ==
  ASSUME FlightInv, NEW t \in Threads, Enter(t) \/ Release(t) \/ Leave(t)
  PROVE  FlightInv'
<1> USE DEF Enter, Release, Leave, Goto, disk, writing,
            BlobFlight!Request, BlobFlight!Release, BlobFlight!Return
<1>1. CallOK(t) /\ want = MountOf
  BY DEF FlightInv
<1>2. CallOK(t)'
  BY SMTT(30), <1>1 DEF FlightInv, CallOK, GateAt, Busy
<1>3. \A u \in Threads : CallOK(u)'
  BY <1>2, OthersKeep DEF FlightInv
<1>4. want' = MountOf
  BY <1>1, MountsAssumption
<1>5. /\ gate' \in [Threads -> BlobFlight!Phases]
      /\ \A u \in Threads : gate'[u] = "working" => gate[u] = "working"
  BY SMTT(30) DEF FlightInv, BlobFlight!Phases
<1> QED
  BY SMTT(30), <1>3, <1>4, <1>5 DEF FlightInv

\* blob_flight lets in one thread of a mount at a time.
LEMMA AcquireFlightInv ==
  ASSUME FlightInv, NEW t \in Threads, Acquire(t)
  PROVE  FlightInv'
<1> USE DEF Acquire, Goto, disk, writing, BlobFlight!Acquire
<1>1. CallOK(t)'
  BY DEF FlightInv, CallOK, GateAt, Busy
<1>2. \A u \in Threads : CallOK(u)'
  BY <1>1, OthersKeep DEF FlightInv
<1>3. /\ gate' \in [Threads -> BlobFlight!Phases]
      /\ \A u \in Threads \ {t} : gate'[u] = "working" => gate[u] = "working" /\ MountOf[u] # MountOf[t]
  BY DEF FlightInv, BlobFlight!Phases
<1>4. \A x, y \in Threads :
        gate'[x] = "working" /\ gate'[y] = "working" /\ MountOf[x] = MountOf[y] => x = y
  BY SMTT(30), <1>3 DEF FlightInv
<1> QED
  BY <1>2, <1>3, <1>4 DEF FlightInv

\* The cached file, or a miss.
LEMMA OpenEntryFlightInv ==
  ASSUME FlightInv, NEW t \in Threads, OpenEntry(t)
  PROVE  FlightInv'
<1> USE DEF OpenEntry, Hold, Goto, flight
<1>1. CallOK(t)'
  BY SMTT(30) DEF FlightInv, CallOK, GateAt, Busy
<1>2. \A u \in Threads : CallOK(u)'
  BY SMTT(30), <1>1, OthersKeep DEF FlightInv
<1> QED
  BY <1>2 DEF FlightInv, Busy

\* Bytes that get past fetch_blob are the blob's, unless the backend is to
\* blame; and it is for every refusal.
LEMMA FetchFlightInv ==
  ASSUME FlightInv, NEW t \in Threads, Fetch(t)
  PROVE  FlightInv'
<1>1. PICK d \in Deliveries :
        LET refused == d \in {"error", "short"} \/ (HasSha /\ d = "bad")
        IN  /\ backendFailed' = [backendFailed EXCEPT ![t] = @ \/ d # "good"]
            /\ IF refused THEN Finish(t, "release", "error") /\ Hold(t, <<>>, FALSE)
               ELSE Hold(t, Delivered(d), FALSE) /\ Goto(t, "create") /\ UNCHANGED res
  BY DEF Fetch
<1>2. /\ UNCHANGED <<parsed, gate, want>> /\ pc[t] = "fetch" /\ CallOK(t)
      /\ d = "good" => Delivered(d) = Whole
  BY DEF FlightInv, Fetch, flight, Delivered
<1>3. /\ backendFailed' \in [Threads -> BOOLEAN]
      /\ backendFailed[t] \/ d # "good" => backendFailed'[t]
      /\ \A u \in Threads \ {t} : backendFailed'[u] = backendFailed[u]
  <2>1. (backendFailed[t] \/ d # "good") \in BOOLEAN
    OBVIOUS
  <2> QED
    BY <1>1, <2>1 DEF FlightInv
<1>4. CallOK(t)'
  BY SMTT(30), <1>1, <1>2, <1>3 DEF FlightInv, CallOK, Finish, Hold, Goto, GateAt, Busy
<1>5. \A u \in Threads : CallOK(u)'
  BY SMTT(30), <1>1, <1>2, <1>3, <1>4, OthersKeep DEF FlightInv, Finish, Hold, Goto
<1> QED
  <2>1. /\ pc' \in [Threads -> Busy \cup {"idle", "miss", "wait", "recheck", "release", "leave",
                                         "done"}]
        /\ res' \in [Threads -> {"none", "genuine", "error"}]
        /\ DOMAIN bytes' = Threads /\ fromCache' \in [Threads -> BOOLEAN]
    BY <1>1 DEF FlightInv, Finish, Hold, Goto, Busy
  <2> QED
    BY <1>2, <1>3, <1>5, <2>1 DEF FlightInv

\* Whatever becomes of the files, the steps on the cache directory keep the
\* bytes a thread holds.
LEMMA DiskStepsFlightInv ==
  ASSUME FlightInv, NEW t \in Threads,
         CreateTmp(t) \/ WritePiece(t) \/ Rename(t) \/ Cleanup(t) \/ DropEntry(t)
  PROVE  FlightInv'
<1>1. /\ UNCHANGED <<parsed, gate, want, bytes, fromCache, backendFailed, res>>
      /\ pc[t] \in {"create", "write", "rename", "cleanup", "drop"}
      /\ \E to \in {"write", "rename", "cleanup", "parse", "fetch"} :
           /\ pc' = [pc EXCEPT ![t] = to] \/ (UNCHANGED pc /\ to = pc[t])
           /\ pc[t] = "drop" => to = "fetch"
  BY DEF CreateTmp, CreateAs, WritePiece, Rename, Cleanup, DropEntry, Goto, flight
<1>2. CallOK(t)'
  BY SMTT(30), <1>1 DEF FlightInv, CallOK, GateAt, Busy
<1>3. \A u \in Threads : CallOK(u)'
  BY <1>1, <1>2, OthersKeep DEF FlightInv
<1> QED
  BY SMTT(30), <1>1, <1>3 DEF FlightInv, Busy

\* What does not parse is refetched if it came from the cache; the one thread
\* that parses is alone in its mount.
LEMMA ParseFlightInv ==
  ASSUME FlightInv, NEW t \in Threads, Parse(t)
  PROVE  FlightInv'
<1> USE DEF Parse, ParseOr, Hold, Finish, Goto, flight
<1>1. CallOK(t) /\ pc[t] = "parse" /\ gate[t] = "working" /\ MountOf[t] \in Mounts
  BY MountsAssumption DEF FlightInv, CallOK, GateAt, Busy
<1>2. CallOK(t)'
  BY SMTT(30), <1>1 DEF FlightInv, CallOK, GateAt, Busy
<1>3. \A u \in Threads \ {t} : pc[u] \in Busy => MountOf[u] # MountOf[t]
  <2>1. \A u \in Threads : pc[u] \in Busy => gate[u] = "working"
    BY DEF FlightInv, CallOK, GateAt, Busy
  <2> QED
    BY <1>1, <2>1 DEF FlightInv
<1>4. \A u \in Threads \ {t} : pc[u] \in Busy => parsed'[MountOf[u]] = parsed[MountOf[u]]
  <2>1. parsed' = parsed \/ parsed' = [parsed EXCEPT ![MountOf[t]] = "genuine"]
    OBVIOUS
  <2>2. \A m \in Mounts \ {MountOf[t]} : parsed'[m] = parsed[m]
    BY <2>1 DEF FlightInv
  <2> QED
    BY <1>3, <2>2, MountsAssumption
<1>5. \A u \in Threads : CallOK(u)'
  BY <1>2, <1>4, OthersKeep DEF FlightInv
<1> QED
  BY SMTT(30), <1>1, <1>5 DEF FlightInv, Busy

\* A thread that starts over, or a mount that is killed, leaves the others.
LEMMA ForgetFlightInv ==
  ASSUME FlightInv, NEW T \in SUBSET Threads, Forget(T),
         \A t \in T : gate'[t] = "outside",
         \A t \in Threads \ T : gate'[t] = gate[t],
         gate' \in [Threads -> BlobFlight!Phases], UNCHANGED want,
         parsed' \in [Mounts -> {"none", "genuine"}],
         \A m \in Mounts : parsed[m] = "none" => parsed'[m] = "none"
  PROVE  FlightInv'
<1>1. \A t \in T : pc'[t] = "idle" /\ res'[t] = "none"
  BY DEF Forget
<1>2. \A t \in Threads \ T :
        /\ pc'[t] = pc[t] /\ bytes'[t] = bytes[t] /\ fromCache'[t] = fromCache[t]
        /\ backendFailed'[t] = backendFailed[t] /\ res'[t] = res[t]
  BY DEF Forget
<1>3. \A t \in T : CallOK(t)'
  BY <1>1 DEF CallOK, GateAt, Busy
<1>4. \A t \in Threads \ T : CallOK(t)'
  BY SMTT(30), <1>2, MountsAssumption DEF FlightInv, CallOK
<1>5. /\ pc' \in [Threads -> Busy \cup {"idle", "miss", "wait", "recheck", "release", "leave", "done"}]
      /\ DOMAIN bytes' = Threads
      /\ res' \in [Threads -> {"none", "genuine", "error"}]
  BY DEF FlightInv, Forget
<1>6. fromCache' \in [Threads -> BOOLEAN] /\ backendFailed' \in [Threads -> BOOLEAN]
  BY DEF FlightInv, Forget
<1>7. \A t, u \in Threads :
        gate'[t] = "working" /\ gate'[u] = "working" /\ MountOf[t] = MountOf[u] => t = u
  BY SMTT(30) DEF FlightInv
<1> QED
  BY <1>3, <1>4, <1>5, <1>6, <1>7 DEF FlightInv

\* The caller has its result.
LEMMA DoneFlightInv ==
  ASSUME FlightInv, NEW t \in Threads, Done(t)
  PROVE  FlightInv'
<1>1. gate[t] = "outside"
  BY DEF FlightInv, CallOK, GateAt, Busy, Done
<1> QED
  BY <1>1, ForgetFlightInv DEF FlightInv, Done, flight

\* A killed mount forgets what it has parsed, and its threads their calls.
LEMMA CrashFlightInv ==
  ASSUME FlightInv, NEW m \in Mounts, Crash(m)
  PROVE  FlightInv'
<1> DEFINE its == {t \in Threads : MountOf[t] = m}
<1>1. /\ its \in SUBSET Threads /\ Forget(its) /\ UNCHANGED want
      /\ \A t \in its : gate'[t] = "outside"
      /\ \A t \in Threads \ its : gate'[t] = gate[t]
      /\ gate' \in [Threads -> BlobFlight!Phases]
      /\ parsed' \in [Mounts -> {"none", "genuine"}]
      /\ \A x \in Mounts : parsed[x] = "none" => parsed'[x] = "none"
  BY DEF FlightInv, Crash, BlobFlight!Phases
<1> HIDE DEF its
<1> QED
  BY <1>1, ForgetFlightInv

\* Every step keeps the invariant.
LEMMA NextFlightInv ==
  ASSUME FlightInv, [Next]_vars
  PROVE  FlightInv'
<1>1. CASE UNCHANGED vars
  BY <1>1 DEF vars, FlightInv, CallOK
<1>2. CASE \E t \in Threads : Call(t) \/ Step(t)
  BY <1>2, CallFlightInv, RecheckFlightInv, QueueFlightInv, AcquireFlightInv,
     OpenEntryFlightInv, FetchFlightInv, DiskStepsFlightInv, ParseFlightInv, DoneFlightInv
     DEF Step
<1>3. CASE \E m \in Mounts : Crash(m)
  BY <1>3, CrashFlightInv
<1>4. CASE \E m \in Mounts : Evict(m)
  <2>1. /\ UNCHANGED <<gate, want, pc, bytes, fromCache, backendFailed, res>>
        /\ parsed' \in [Mounts -> {"none", "genuine"}]
        /\ \A x \in Mounts : parsed[x] = "none" => parsed'[x] = "none"
    BY <1>4 DEF FlightInv, Evict, flight
  <2>2. \A t \in Threads : CallOK(t)'
    BY SMTT(30), <2>1, MountsAssumption DEF FlightInv, CallOK
  <2> QED
    BY <2>1, <2>2 DEF FlightInv
<1>5. CASE Rot
  BY <1>5 DEF Rot, flight, FlightInv, CallOK
<1> QED
  BY <1>1, <1>2, <1>3, <1>4, <1>5 DEF Next

\* The invariant of blob_flight holds throughout.
LEMMA FlightInvAlways ==
  Spec => []FlightInv
BY InitFlightInv, NextFlightInv, PTL DEF Spec

\* Store::parsed with blob_flight: in any mount at most one thread works on the
\* blob, and only while the mount has not parsed it.
THEOREM BlobsAreParsedOnce ==
  Spec => []NoDuplicateParse
<1>1. FlightInv => NoDuplicateParse
  BY SMTT(30) DEF FlightInv, CallOK, GateAt, Busy, NoDuplicateParse
<1> QED
  BY <1>1, FlightInvAlways, PTL

\* Store::parse_uncached: no content of the cache directory, no other mount and
\* no crash makes a call fail that the backend has served well.
THEOREM OnlyTheBackendFails ==
  Spec => []CacheNeverToBlame
<1>1. FlightInv => CacheNeverToBlame
  BY DEF FlightInv, CallOK, CacheNeverToBlame
<1> QED
  BY <1>1, FlightInvAlways, PTL

-----------------------------------------------------------------------------
(* The cache directory: the types, and what is in it at rest.                *)

\* A blob's bytes are a sequence of at most Pieces pieces.
LEMMA ContentFacts ==
  ASSUME NEW c \in Contents
  PROVE  Len(c) \in 0..Pieces /\ DOMAIN c = 1..Len(c) /\ \A j \in 1..Len(c) : c[j] \in {"ok", "bad"}
<1>1. PICK n \in 0..Pieces : c \in [1..n -> {"ok", "bad"}]
  BY DEF Contents
<1>2. n \in Nat
  BY SMTT(30), <1>1, MountsAssumption
<1>3. c \in Seq({"ok", "bad"}) /\ Len(c) = n
  BY SMTT(30), <1>1, <1>2
<1> QED
  BY <1>1, <1>3

\* A sequence of no more than Pieces pieces is a content.
LEMMA IsContent ==
  ASSUME NEW n \in 0..Pieces, NEW c \in [1..n -> {"ok", "bad"}]
  PROVE  c \in Contents
BY DEF Contents

\* The fixed contents.
LEMMA FixedContents ==
  /\ Pieces \in Nat /\ Pieces > 0
  /\ Whole \in Contents /\ Len(Whole) = Pieces /\ \A j \in 1..Pieces : Whole[j] = "ok"
  /\ Damaged \in Contents /\ Len(Damaged) = Pieces
  /\ <<>> \in Contents /\ Len(<<>>) = 0
<1>1. Pieces \in Nat /\ Pieces > 0 /\ 0 \in 0..Pieces /\ Pieces \in 0..Pieces
  BY SMTT(30), MountsAssumption
<1>2. Whole \in [1..Pieces -> {"ok", "bad"}] /\ Damaged \in [1..Pieces -> {"ok", "bad"}]
  BY DEF Whole, Damaged
<1>3. <<>> \in [1..0 -> {"ok", "bad"}]
  BY SMTT(30)
<1>4. Whole \in Contents /\ Damaged \in Contents /\ <<>> \in Contents
  BY <1>1, <1>2, <1>3, IsContent
<1>5. Len(Whole) = Pieces /\ Len(Damaged) = Pieces /\ Len(<<>>) = 0
  BY SMTT(30), <1>1 DEF Whole, Damaged
<1> QED
  BY <1>1, <1>4, <1>5 DEF Whole

\* A content that is ok throughout is the blob.
LEMMA AllOkIsWhole ==
  ASSUME NEW c \in Contents, Len(c) = Pieces, \A j \in 1..Pieces : c[j] = "ok"
  PROVE  c = Whole
BY ContentFacts DEF Whole, Contents

\* w is c with a piece more, or another one, after the n-th.
PieceLater(w, c, n, piece) ==
  /\ w \in Contents
  /\ Len(w) = IF Len(c) > n THEN Len(c) ELSE n + 1
  /\ w[n + 1] = piece
  /\ \A j \in 1..Len(c) : j # n + 1 => w[j] = c[j]

\* What a write leaves in the file.
LEMMA WrittenFacts ==
  ASSUME NEW c \in Contents, NEW n \in 0..(Pieces - 1), NEW piece \in {"ok", "bad"}
  PROVE  PieceLater(Written(c, n, piece), c, n, piece)
<1> DEFINE L == IF Len(c) > n THEN Len(c) ELSE n + 1
           w == Written(c, n, piece)
<1>1. Pieces \in Nat /\ Len(c) \in 0..Pieces /\ \A j \in 1..Len(c) : c[j] \in {"ok", "bad"}
  BY ContentFacts, FixedContents
<1>2. L \in 0..Pieces /\ L \in Nat /\ n + 1 \in 1..L /\ \A j \in 1..Len(c) : j \in 1..L
  BY SMTT(30), <1>1
<1>3. w = [i \in 1..L |-> IF i = n + 1 THEN piece ELSE IF i <= Len(c) THEN c[i] ELSE "bad"]
  BY DEF Written
<1>4. /\ \A i \in 1..L : w[i] = IF i = n + 1 THEN piece ELSE IF i <= Len(c) THEN c[i] ELSE "bad"
      /\ DOMAIN w = 1..L
  BY <1>3
<1> HIDE DEF L, w
<1>5. \A i \in 1..L : w[i] \in {"ok", "bad"}
  BY SMTT(30), <1>1, <1>2, <1>4
<1>6. w \in [1..L -> {"ok", "bad"}]
  BY <1>3, <1>4, <1>5
<1>7. w \in Contents
  BY <1>2, <1>6, IsContent
<1>8. Len(w) = L
  BY SMTT(30), <1>2, <1>6
<1> QED
  BY SMTT(30), <1>1, <1>2, <1>4, <1>7, <1>8 DEF L, w, PieceLater

\* Every nonempty set of natural numbers has a least element.
LEMMA LeastOf ==
  ASSUME NEW T \in SUBSET Nat, T # {}
  PROVE  Min(T) \in T
<1> DEFINE R == {ss \in Nat \X Nat : ss[1] < ss[2]}
<1>1. IsWellFoundedOn(R, Nat)
  BY NatLessThanWellFounded DEF OpToRel
<1>2. \A x, y \in Nat : y < x => <<y, x>> \in R
  OBVIOUS
<1> HIDE DEF R
<1>3. PICK x \in T : \A y \in T : <<y, x>> \notin R
  BY <1>1, WFMin
<1>4. ASSUME NEW y \in T PROVE x <= y
  <2>1. x \in Nat /\ y \in Nat /\ <<y, x>> \notin R
    BY <1>3
  <2> QED
    BY SMTT(30), <1>2, <2>1
<1> QED
  BY <1>4 DEF Min

\* There is a file left to create: at most every other thread has one open.
LEMMA FreeInode ==
  ASSUME DirInv, NEW t \in Threads, pc[t] = "create", link["tmp"] = NoInode
  PROVE  Min(Inodes \ InUse(link, fd)) \in Inodes \ InUse(link, fd)
<1> DEFINE f == [i \in Inodes |-> IF i = link["entry"] THEN t ELSE CHOOSE u \in Threads : fd[u] = i]
<1>1. fd[t] = NoInode /\ NoInode \notin Inodes
  BY MountsAssumption DEF DirInv, WriterOK
<1>2. Inodes \ InUse(link, fd) # {}
  <2> SUFFICES ASSUME Inodes \subseteq InUse(link, fd) PROVE FALSE
    OBVIOUS
  <2>1. \A i \in Inodes : i # link["entry"] => \E u \in Threads : fd[u] = i
    BY <1>1 DEF InUse
  <2>2. f \in [Inodes -> Threads]
    BY <2>1
  <2>3. /\ \A i \in Inodes : i = link["entry"] => f[i] = t
        /\ \A i \in Inodes : i # link["entry"] => fd[f[i]] = i
    BY <2>1
  <2> HIDE DEF f
  <2>4. PICK x, y \in Inodes : x # y /\ f[x] = f[y]
    <3>1. Cardinality(Threads) < Cardinality(Inodes) /\ IsFiniteSet(Threads) /\ IsFiniteSet(Inodes)
      <4>1. Cardinality(Threads) \in Nat /\ Cardinality(Inodes) \in Nat
        BY FS_CardinalityType, MountsAssumption
      <4> QED
        BY <4>1, MountsAssumption
    <3> QED
      BY SMTT(30), <2>2, <3>1, FS_PigeonHole
  <2> QED
    BY <1>1, <2>3, <2>4
<1>3. Inodes \ InUse(link, fd) \in SUBSET Nat
  BY MountsAssumption
<1> QED
  BY <1>2, <1>3, LeastOf

\* Nothing is cached before the first call.
LEMMA InitDirInv ==
  Init => DirInv
<1> SUFFICES ASSUME Init PROVE DirInv
  OBVIOUS
<1>1. DiskTypes
  BY SMTT(30), FixedContents, MountsAssumption DEF Init, DiskTypes
<1>2. \A t \in Threads : WriterOK(t)
  BY DEF Init, WriterOK
<1>3. Tidy
  BY DEF Init, Tidy
<1> QED
  BY <1>1, <1>2, <1>3 DEF DirInv

\* A step that leaves the files, and of no writer, leaves them tidy.
LEMMA FilesKept ==
  ASSUME DirInv, NEW t \in Threads, DiskTypes', WriterOK(t)',
         UNCHANGED <<link, data, fd, at>>, faults' = 0 => faults = 0,
         \A u \in Threads \ {t} : pc'[u] = pc[u] /\ bytes'[u] = bytes[u],
         pc[t] \notin {"write", "rename", "cleanup"}
  PROVE  DirInv'
<1>1. \A u \in Threads : WriterOK(u)'
  BY DEF DirInv, WriterOK
<1>2. ASSUME faults' = 0 PROVE Tidy'
  <2>1. Tidy /\ faults = 0
    BY <1>2 DEF DirInv
  <2>2. \A u \in Threads : \A i : Fills(u, i) => Fills(u, i)'
    BY DEF Fills
  <2>3. \A u \in Writers : u \in Writers'
    BY DEF Writers
  <2> QED
    BY <2>1, <2>2, <2>3 DEF Tidy
<1> QED
  BY <1>1, <1>2 DEF DirInv

\* Counting a fault, or not.
LEMMA FaultCount ==
  ASSUME DirInv, Fault \/ UNCHANGED faults
  PROVE  faults' \in 0..MaxFaults /\ (faults' = 0 => faults = 0 /\ ~Fault)
BY SMTT(30), MountsAssumption DEF DirInv, DiskTypes, Fault

\* The steps that do not touch the cache directory, but for reading it.
LEMMA QuietDirInv ==
  ASSUME FlightInv, DirInv, NEW t \in Threads,
         \/ Call(t) \/ Enter(t) \/ Acquire(t) \/ Recheck(t) \/ OpenEntry(t) \/ Parse(t)
         \/ Release(t) \/ Leave(t)
  PROVE  DirInv'
<1> USE DEF Call, Enter, Acquire, Recheck, OpenEntry, Parse, ParseOr, Release, Leave,
            Finish, Goto, Hold
<1>1. /\ UNCHANGED <<link, data, fd, at>> /\ (Fault \/ UNCHANGED faults)
      /\ pc[t] \in {"idle", "miss", "wait", "recheck", "open", "parse", "release", "leave"}
  BY DEF disk, writing
<1>2. PICK to \in {"done", "miss", "wait", "recheck", "open", "release", "parse", "fetch",
                   "drop", "leave"} : pc' = [pc EXCEPT ![t] = to]
  OBVIOUS
<1>3. PICK c \in Contents : bytes' = bytes \/ bytes' = [bytes EXCEPT ![t] = c]
  <2>1. CASE OpenEntry(t)
    <3>1. link["entry"] # NoInode => data[link["entry"]] \in Contents
      BY DEF DirInv, DiskTypes
    <3> QED
      BY <2>1, <3>1, FixedContents
  <2>2. CASE Parse(t)
    BY <2>2, FixedContents
  <2>3. CASE UNCHANGED bytes
    BY <2>3, FixedContents
  <2> QED
    BY <2>1, <2>2, <2>3
<1> HIDE DEF Call, Enter, Acquire, Recheck, OpenEntry, Parse, ParseOr, Release, Leave,
             Finish, Goto, Hold
<1>4. /\ bytes' \in [Threads -> Contents] /\ pc'[t] = to
      /\ \A u \in Threads \ {t} : pc'[u] = pc[u] /\ bytes'[u] = bytes[u]
  <2>1. DOMAIN pc = Threads /\ bytes \in [Threads -> Contents]
    BY DEF FlightInv, DirInv, DiskTypes
  <2> QED
    BY <1>2, <1>3, <2>1
<1>5. DiskTypes'
  BY <1>1, <1>4, FaultCount DEF DirInv, DiskTypes
<1>6. WriterOK(t)'
  BY <1>1, <1>4 DEF DirInv, WriterOK
<1> QED
  BY <1>1, <1>4, <1>5, <1>6, FaultCount, FilesKept

\* What fetch_blob lets through has the blob's size.
LEMMA FetchDirInv ==
  ASSUME FlightInv, DirInv, NEW t \in Threads, Fetch(t)
  PROVE  DirInv'
<1>1. PICK d \in Deliveries :
        LET refused == d \in {"error", "short"} \/ (HasSha /\ d = "bad")
        IN  /\ IF d = "good" THEN UNCHANGED faults ELSE Fault
            /\ IF refused THEN Finish(t, "release", "error") /\ Hold(t, <<>>, FALSE)
               ELSE Hold(t, Delivered(d), FALSE) /\ Goto(t, "create") /\ UNCHANGED res
  BY DEF Fetch
<1>2. UNCHANGED <<link, data, fd, at>> /\ pc[t] = "fetch"
  BY DEF Fetch, disk, writing
<1>3. d \in {"good", "bad", "short", "error"} /\ (d = "good" => Delivered(d) = Whole)
      /\ (d = "bad" => Delivered(d) = Damaged)
  BY MountsAssumption DEF Delivered
<1>4. faults' \in 0..MaxFaults /\ (faults' = 0 => faults = 0 /\ d = "good")
  BY <1>1, FaultCount
<1>5. CASE d \in {"error", "short"} \/ (HasSha /\ d = "bad")
  <2>1. pc' = [pc EXCEPT ![t] = "release"] /\ bytes' = [bytes EXCEPT ![t] = <<>>]
    BY <1>1, <1>5 DEF Finish, Goto, Hold
  <2>2. /\ pc'[t] = "release" /\ bytes' \in [Threads -> Contents]
        /\ \A u \in Threads \ {t} : pc'[u] = pc[u] /\ bytes'[u] = bytes[u]
    BY <2>1, FixedContents DEF FlightInv, DirInv, DiskTypes
  <2>3. DiskTypes' /\ WriterOK(t)'
    BY <1>2, <1>4, <2>2 DEF DirInv, DiskTypes, WriterOK
  <2> QED
    BY <1>2, <1>4, <2>2, <2>3, FilesKept
<1>6. CASE ~(d \in {"error", "short"} \/ (HasSha /\ d = "bad"))
  <2>1. pc' = [pc EXCEPT ![t] = "create"] /\ bytes' = [bytes EXCEPT ![t] = Delivered(d)]
    BY <1>1, <1>6 DEF Goto, Hold
  <2>2. /\ Delivered(d) \in Contents /\ Len(Delivered(d)) = Pieces
        /\ d = "good" => Delivered(d) = Whole
    BY <1>3, <1>6, FixedContents
  <2>3. /\ pc'[t] = "create" /\ bytes' \in [Threads -> Contents] /\ bytes'[t] = Delivered(d)
        /\ \A u \in Threads \ {t} : pc'[u] = pc[u] /\ bytes'[u] = bytes[u]
    BY <2>1, <2>2 DEF FlightInv, DirInv, DiskTypes
  <2>4. DiskTypes' /\ WriterOK(t)'
    BY <1>2, <1>4, <2>2, <2>3 DEF DirInv, DiskTypes, WriterOK
  <2> QED
    BY <1>2, <1>4, <2>3, <2>4, FilesKept
<1> QED
  BY <1>5, <1>6

\* The other writers are left at what they were doing.
LEMMA OthersWrite ==
  ASSUME DirInv, NEW t \in Threads, WriterOK(t)', faults' = 0 => faults = 0,
         \A u \in Threads \ {t} :
           pc'[u] = pc[u] /\ bytes'[u] = bytes[u] /\ fd'[u] = fd[u] /\ at'[u] = at[u]
  PROVE  \A u \in Threads : WriterOK(u)'
BY DEF DirInv, WriterOK

\* A new temporary file, or the one that is there emptied: who emptied it last
\* fills it.
LEMMA CreateTmpDirInv ==
  ASSUME FlightInv, DirInv, NEW t \in Threads, CreateTmp(t)
  PROVE  DirInv'
<1> DEFINE file == IF link["tmp"] # NoInode THEN link["tmp"] ELSE Min(Inodes \ InUse(link, fd))
<1>1. /\ pc[t] = "create" /\ UNCHANGED bytes /\ WriterOK(t) /\ DiskTypes
      /\ pc \in [Threads -> Busy \cup {"idle", "miss", "wait", "recheck", "release", "leave", "done"}]
  BY DEF CreateTmp, CreateAs, FlightInv, DirInv
<1>2. CASE Fault /\ Goto(t, "cleanup") /\ UNCHANGED <<disk, writing>>
  <2>1. /\ pc'[t] = "cleanup" /\ UNCHANGED <<link, data, fd, at>>
        /\ \A u \in Threads \ {t} : pc'[u] = pc[u] /\ bytes'[u] = bytes[u]
    BY <1>1, <1>2 DEF Goto, disk, writing
  <2>2. faults' \in 0..MaxFaults /\ (faults' = 0 => faults = 0)
    BY <1>2, FaultCount
  <2>3. DiskTypes' /\ WriterOK(t)'
    BY <1>1, <2>1, <2>2 DEF DiskTypes, WriterOK
  <2> QED
    BY <1>1, <2>1, <2>2, <2>3, FilesKept
<1>3. CASE /\ link' = [link EXCEPT !["tmp"] = file]
           /\ data' = [data EXCEPT ![file] = <<>>]
           /\ fd' = [fd EXCEPT ![t] = file] /\ at' = [at EXCEPT ![t] = 0]
           /\ Goto(t, "write") /\ UNCHANGED faults
  <2>1. PICK f \in Inodes : f = file
    <3>1. file \in Inodes
      BY <1>1, FreeInode DEF DiskTypes
    <3> QED
      BY <3>1
  <2> HIDE DEF file
  <2>2. /\ pc'[t] = "write" /\ fd'[t] = f /\ at'[t] = 0
        /\ link'["tmp"] = f /\ link'["entry"] = link["entry"]
        /\ data'[f] = <<>> /\ \A i \in Inodes \ {f} : data'[i] = data[i]
        /\ \A u \in Threads \ {t} :
             pc'[u] = pc[u] /\ bytes'[u] = bytes[u] /\ fd'[u] = fd[u] /\ at'[u] = at[u]
    BY <1>1, <1>3, <2>1 DEF Goto, DiskTypes
  <2>3. DiskTypes'
    BY SMTT(30), <1>1, <1>3, <2>1, FixedContents DEF DiskTypes
  <2>4. WriterOK(t)'
    BY <1>1, <1>3, <2>1, <2>2, FixedContents DEF WriterOK
  <2>5. ASSUME faults' = 0 PROVE Tidy'
    <3>1. Tidy
      BY <1>3, <2>5 DEF DirInv
    <3>2. Fills(t, f)'
      BY SMTT(30), <2>2, FixedContents DEF Fills
    <3>3. ASSUME link["entry"] # NoInode, link["entry"] # f
          PROVE  data'[link["entry"]] = Whole \/ \E u \in Threads : Fills(u, link["entry"])'
      <4> DEFINE i == link["entry"]
      <4>1. i \in Inodes /\ data'[i] = data[i]
        BY <1>1, <2>2, <3>3 DEF DiskTypes
      <4>2. CASE data[i] = Whole
        BY <4>1, <4>2
      <4>3. ASSUME NEW u \in Threads, Fills(u, i) PROVE Fills(u, i)'
        <5>1. u # t
          BY <1>1, <4>3 DEF Fills
        <5> QED
          BY SMTT(30), <2>2, <4>1, <4>3, <5>1 DEF Fills
      <4> QED
        BY <3>1, <3>3, <4>2, <4>3 DEF Tidy
    <3>4. t \in Writers'
      BY <2>2 DEF Writers
    <3> QED
      BY SMTT(30), <2>2, <3>2, <3>3, <3>4 DEF Tidy
  <2> QED
    BY <1>3, <2>2, <2>3, <2>4, <2>5, OthersWrite DEF DirInv
<1> QED
  BY <1>2, <1>3 DEF CreateTmp, CreateAs

\* The file of an inode is whole, or being made so.
Sure(i) == data[i] = Whole \/ \E u \in Threads : Fills(u, i)

\* Tidy, with the inodes named.
LEMMA TidyIs ==
  ASSUME NEW e, NEW m, link["entry"] = e, link["tmp"] = m
  PROVE  Tidy <=> /\ m # NoInode => Writers # {}
                  /\ e # NoInode => Sure(e)
                  /\ m # NoInode => Sure(m)
BY DEF Tidy, Sure

\* The same of the next state.
LEMMA TidyNext ==
  ASSUME NEW e, NEW m, link'["entry"] = e, link'["tmp"] = m,
         m # NoInode => Writers' # {}, e # NoInode => Sure(e)', m # NoInode => Sure(m)'
  PROVE  Tidy'
BY DEF Tidy, Sure

\* A step of a thread that is not writing leaves a file in the making there.
LEMMA StaysSure ==
  ASSUME NEW t \in Threads, NEW i, Sure(i), data'[i] = data[i], pc[t] # "write",
         \A u \in Threads \ {t} : pc'[u] = pc[u] /\ fd'[u] = fd[u] /\ at'[u] = at[u]
  PROVE  Sure(i)'
<1>1. CASE data[i] = Whole
  BY <1>1 DEF Sure
<1>2. ASSUME NEW u \in Threads, Fills(u, i) PROVE Fills(u, i)'
  BY <1>2 DEF Fills
<1> QED
  BY <1>1, <1>2 DEF Sure

\* The directory settles: what has a name keeps its contents.
LEMMA Settled ==
  ASSUME NEW names \in [{"entry", "tmp"} -> Inodes \cup {NoInode}],
         NEW fds \in [Threads -> Inodes \cup {NoInode}], NEW contents \in [Inodes -> Contents],
         Settle(names, fds, contents)
  PROVE  /\ link' = names /\ fd' = fds /\ data' \in [Inodes -> Contents]
         /\ \A n \in {"entry", "tmp"} : names[n] \in Inodes => data'[names[n]] = contents[names[n]]
<1>1. link' = names /\ fd' = fds
  BY DEF Settle
<1>2. \A i \in Inodes : data'[i] = IF i \in InUse(names, fds) THEN contents[i] ELSE <<>>
  BY DEF Settle
<1>3. data' \in [Inodes -> Contents]
  <2>1. DOMAIN data' = Inodes /\ data' = [i \in DOMAIN data' |-> data'[i]]
    BY DEF Settle
  <2> QED
    BY <1>2, <2>1, FixedContents
<1>4. names["entry"] \in InUse(names, fds) /\ names["tmp"] \in InUse(names, fds)
  BY DEF InUse
<1> QED
  BY <1>1, <1>2, <1>3, <1>4

\* A thread that is not writing changes the names.
LEMMA NamesChange ==
  ASSUME FlightInv, DirInv, NEW t \in Threads, pc[t] \in {"rename", "cleanup", "drop"},
         NEW to \in {"parse", "cleanup", "fetch"}, pc' = [pc EXCEPT ![t] = to],
         UNCHANGED <<bytes, at, faults>>,
         NEW names \in [{"entry", "tmp"} -> Inodes \cup {NoInode}], Settle(names, fd, data),
         names["entry"] \in {link["entry"], link["tmp"], NoInode},
         names["tmp"] \in {link["tmp"], NoInode},
         names["tmp"] = NoInode \/ pc[t] = "drop"
  PROVE  DirInv'
<1>1. DiskTypes /\ WriterOK(t) /\ DOMAIN pc = Threads /\ NoInode \notin Inodes
  BY MountsAssumption DEF FlightInv, DirInv
<1>2. /\ link' = names /\ fd' = fd /\ data' \in [Inodes -> Contents]
      /\ \A n \in {"entry", "tmp"} : names[n] \in Inodes => data'[names[n]] = data[names[n]]
  BY <1>1, Settled DEF DiskTypes
<1>3. pc'[t] = to /\ \A u \in Threads \ {t} : pc'[u] = pc[u]
  BY <1>1
<1>4. DiskTypes' /\ WriterOK(t)'
  BY <1>1, <1>2, <1>3 DEF DiskTypes, WriterOK
<1>5. ASSUME faults' = 0 PROVE Tidy'
  <2>1. Tidy
    BY <1>5 DEF DirInv
  <2>2. PICK e, m : e = link["entry"] /\ m = link["tmp"]
    OBVIOUS
  <2>3. /\ m # NoInode => Writers # {}
        /\ e # NoInode => Sure(e)
        /\ m # NoInode => Sure(m)
    BY <2>1, <2>2, TidyIs
  <2>4. ASSUME NEW n \in {"entry", "tmp"}, NEW i, i = names[n], i # NoInode PROVE Sure(i)'
    <3>1. Sure(i) /\ i \in Inodes /\ data'[i] = data[i] /\ pc[t] # "write"
      BY <1>1, <1>2, <2>2, <2>3, <2>4
    <3> QED
      BY <1>2, <1>3, <3>1, StaysSure
  <2>5. names["tmp"] # NoInode => Writers' # {}
    <3> SUFFICES ASSUME names["tmp"] # NoInode PROVE Writers' # {}
      OBVIOUS
    <3>1. PICK u \in Writers : TRUE
      BY <2>2, <2>3
    <3>2. u \in Threads \ {t} /\ pc[u] \in {"write", "rename", "cleanup"}
      BY <3>1 DEF Writers
    <3> QED
      BY <1>3, <3>2 DEF Writers
  <2>6. PICK x, y : x = names["entry"] /\ y = names["tmp"]
    OBVIOUS
  <2>7. (x # NoInode => Sure(x)') /\ (y # NoInode => Sure(y)')
    BY <2>4, <2>6
  <2> QED
    BY <1>2, <2>5, <2>6, <2>7, TidyNext
<1>6. \A u \in Threads : WriterOK(u)'
  BY <1>2, <1>3, <1>4, OthersWrite
<1> QED
  BY <1>4, <1>5, <1>6 DEF DirInv

\* A step fails, or finds no temporary file, and leaves the directory.
LEMMA NamesStay ==
  ASSUME FlightInv, DirInv, NEW t \in Threads, pc[t] \in {"rename", "cleanup", "drop"},
         NEW to \in {"parse", "cleanup", "fetch"}, pc' = [pc EXCEPT ![t] = to],
         UNCHANGED <<link, data, fd, at, bytes>>,
         Fault \/ (UNCHANGED faults /\ link["tmp"] = NoInode)
  PROVE  DirInv'
<1>1. DiskTypes /\ WriterOK(t) /\ DOMAIN pc = Threads
  BY DEF FlightInv, DirInv
<1>2. faults' \in 0..MaxFaults /\ (faults' = 0 => faults = 0 /\ link["tmp"] = NoInode)
  BY FaultCount
<1>3. pc'[t] = to /\ \A u \in Threads \ {t} : pc'[u] = pc[u]
  BY <1>1
<1>4. DiskTypes' /\ WriterOK(t)'
  BY <1>1, <1>2, <1>3 DEF DiskTypes, WriterOK
<1>5. ASSUME faults' = 0 PROVE Tidy'
  <2>1. PICK e : e = link["entry"]
    OBVIOUS
  <2>2. e # NoInode => Sure(e)
    BY <1>2, <1>5, <2>1, TidyIs DEF DirInv
  <2>3. e # NoInode => Sure(e)'
    BY <1>3, <2>2, StaysSure
  <2> QED
    BY <1>2, <1>5, <2>1, <2>3, TidyNext
<1>6. \A u \in Threads : WriterOK(u)'
  BY <1>2, <1>3, <1>4, OthersWrite
<1> QED
  BY <1>4, <1>5, <1>6 DEF DirInv

\* Rename: whatever has the temporary name becomes the entry.
LEMMA RenameDirInv ==
  ASSUME FlightInv, DirInv, NEW t \in Threads, Rename(t)
  PROVE  DirInv'
<1>1. pc[t] = "rename" /\ UNCHANGED <<bytes, at>>
  BY DEF Rename
<1>2. CASE /\ link["tmp"] # NoInode
           /\ Settle([entry |-> link["tmp"], tmp |-> NoInode], fd, data)
           /\ Goto(t, "parse") /\ UNCHANGED faults
  <2> DEFINE names == [entry |-> link["tmp"], tmp |-> NoInode]
  <2>1. /\ names \in [{"entry", "tmp"} -> Inodes \cup {NoInode}]
        /\ names["entry"] = link["tmp"] /\ names["tmp"] = NoInode /\ Settle(names, fd, data)
    BY SMTT(30), <1>2 DEF DirInv, DiskTypes
  <2> HIDE DEF names
  <2> QED
    BY <1>1, <1>2, <2>1, NamesChange DEF Goto
<1>3. CASE /\ IF link["tmp"] = NoInode THEN UNCHANGED faults ELSE Fault
           /\ Goto(t, "cleanup") /\ UNCHANGED <<disk, fd>>
  BY <1>1, <1>3, NamesStay DEF Goto, disk
<1> QED
  BY <1>2, <1>3 DEF Rename

\* remove_file of either name.
LEMMA RemoveDirInv ==
  ASSUME FlightInv, DirInv, NEW t \in Threads, Cleanup(t) \/ DropEntry(t)
  PROVE  DirInv'
<1>1. PICK to \in {"parse", "fetch"}, name \in {"entry", "tmp"} :
        /\ pc[t] \in {"cleanup", "drop"} /\ (name = "tmp" \/ pc[t] = "drop")
        /\ pc' = [pc EXCEPT ![t] = to] /\ UNCHANGED <<bytes, at>>
        /\ \/ Unlink(name) /\ UNCHANGED faults
           \/ Fault /\ UNCHANGED <<disk, fd>>
  BY DEF Cleanup, DropEntry, Goto
<1>2. CASE Unlink(name) /\ UNCHANGED faults
  <2> DEFINE names == [link EXCEPT ![name] = NoInode]
  <2>1. /\ names \in [{"entry", "tmp"} -> Inodes \cup {NoInode}]
        /\ names["entry"] \in {link["entry"], NoInode}
        /\ names["tmp"] \in {link["tmp"], NoInode}
        /\ names["tmp"] = NoInode \/ pc[t] = "drop"
        /\ Settle(names, fd, data)
    BY <1>1, <1>2 DEF DirInv, DiskTypes, Unlink
  <2> HIDE DEF names
  <2> QED
    BY <1>1, <1>2, <2>1, NamesChange
<1>3. CASE Fault /\ UNCHANGED <<disk, fd>>
  BY <1>1, <1>3, NamesStay DEF disk
<1> QED
  BY <1>1, <1>2, <1>3

\* With w for its contents the file is as whole, and every stretch of it that
\* was in order is; the thread's own has grown by a piece.
GrowsInOrder(t, i, n, w) ==
  /\ data[i] = Whole => w = Whole
  /\ \A u \in Threads : Fills(u, i) => at[u] <= Len(w) /\ \A j \in 1..at[u] : w[j] = "ok"
  /\ Fills(t, i) => n + 1 <= Len(w) /\ \A j \in 1..(n + 1) : w[j] = "ok"

\* A writer's next piece does no damage.
LEMMA WriteFills ==
  ASSUME DirInv, NEW t \in Threads, pc[t] = "write",
         NEW i, i = fd[t], NEW n, n = at[t], NEW w, w = Written(data[i], n, bytes[t][n + 1])
  PROVE  /\ i \in Inodes /\ n \in 0..(Pieces - 1) /\ w \in Contents
         /\ faults = 0 => GrowsInOrder(t, i, n, w)
<1> DEFINE c == data[i]
           piece == bytes[t][n + 1]
<1>1. i \in Inodes /\ c \in Contents /\ bytes[t] \in Contents /\ n \in 0..Pieces /\ n < Pieces
      /\ Pieces \in Nat /\ Pieces > 0 /\ Len(bytes[t]) = Pieces
  BY FixedContents DEF DirInv, DiskTypes, WriterOK
<1>2. n \in 0..(Pieces - 1) /\ n + 1 \in 1..Pieces
  BY SMTT(30), <1>1
<1>3. piece \in {"ok", "bad"} /\ Len(c) \in 0..Pieces
  BY <1>1, <1>2, ContentFacts
<1>4. faults = 0 => piece = "ok"
  BY <1>2, FixedContents DEF DirInv, WriterOK
<1>5. w = Written(c, n, piece)
  OBVIOUS
<1> HIDE DEF c, piece
<1>6. /\ w \in Contents
      /\ Len(w) = IF Len(c) > n THEN Len(c) ELSE n + 1
      /\ w[n + 1] = piece
      /\ \A j \in 1..Len(c) : j # n + 1 => w[j] = c[j]
  <2>1. PieceLater(w, c, n, piece)
    BY <1>1, <1>2, <1>3, <1>5, WrittenFacts
  <2> QED
    BY <2>1 DEF PieceLater
<1>7. ASSUME faults = 0, c = Whole PROVE w = Whole
  <2>1. Len(c) = Pieces /\ \A j \in 1..Pieces : c[j] = "ok"
    BY <1>7, FixedContents
  <2>2. Len(w) = Pieces /\ \A j \in 1..Pieces : w[j] = "ok"
    BY <1>1, <1>4, <1>6, <1>7, <2>1
  <2> QED
    BY <1>6, <2>2, AllOkIsWhole
<1>8. ASSUME faults = 0, NEW u \in Threads, Fills(u, i)
      PROVE  at[u] <= Len(w) /\ \A j \in 1..at[u] : w[j] = "ok"
  <2>1. at[u] \in 0..Pieces /\ at[u] <= Len(c) /\ \A j \in 1..at[u] : c[j] = "ok"
    BY <1>8 DEF Fills, DirInv, DiskTypes, c
  <2>2. Len(c) <= Len(w)
    BY SMTT(30), <1>1, <1>2, <1>3, <1>6
  <2>3. at[u] <= Len(w)
    BY SMTT(30), <1>1, <1>2, <1>3, <1>6, <2>1, <2>2
  <2>4. ASSUME NEW j \in 1..at[u] PROVE w[j] = "ok"
    <3>1. j \in 1..Len(c) /\ c[j] = "ok"
      BY SMTT(30), <1>1, <1>3, <2>1
    <3> QED
      BY <1>4, <1>6, <1>8, <3>1
  <2> QED
    BY <2>3, <2>4
<1>9. ASSUME faults = 0, Fills(t, i)
      PROVE  n + 1 <= Len(w) /\ \A j \in 1..(n + 1) : w[j] = "ok"
  <2>1. n <= Len(c) /\ \A j \in 1..n : c[j] = "ok"
    BY <1>9 DEF Fills, c
  <2>2. n + 1 <= Len(w)
    BY SMTT(30), <1>1, <1>3, <1>6
  <2>3. ASSUME NEW j \in 1..(n + 1) PROVE w[j] = "ok"
    <3>1. CASE j = n + 1
      BY <1>4, <1>6, <1>9, <3>1
    <3>2. CASE j # n + 1
      <4>1. j \in 1..n /\ j \in 1..Len(c)
        BY SMTT(30), <1>1, <1>3, <2>1, <3>2
      <4> QED
        BY <1>6, <2>1, <3>2, <4>1
    <3> QED
      BY <3>1, <3>2
  <2> QED
    BY <2>2, <2>3
<1> QED
  BY <1>1, <1>2, <1>6, <1>7, <1>8, <1>9 DEF c, GrowsInOrder

\* A piece is written, the last one perhaps: who has filled its file has made
\* it whole.
LEMMA PieceDirInv ==
  ASSUME FlightInv, DirInv, NEW t \in Threads, pc[t] = "write", UNCHANGED <<bytes, faults>>,
         NEW i, i = fd[t], NEW n, n = at[t], NEW w, w = Written(data[i], n, bytes[t][n + 1]),
         NEW fds, Settle(link, fds, [data EXCEPT ![i] = w]),
         \/ fds = fd /\ n + 1 < Pieces /\ UNCHANGED pc /\ at' = [at EXCEPT ![t] = n + 1]
         \/ /\ fds = [fd EXCEPT ![t] = NoInode] /\ n + 1 = Pieces
            /\ pc' = [pc EXCEPT ![t] = "rename"] /\ at' = [at EXCEPT ![t] = 0]
  PROVE  DirInv'
<1>1. DiskTypes /\ WriterOK(t) /\ DOMAIN pc = Threads /\ NoInode \notin Inodes
      /\ Pieces \in Nat /\ Pieces > 0
  BY SMTT(30), MountsAssumption DEF FlightInv, DirInv
<1>2. i \in Inodes /\ n \in 0..(Pieces - 1) /\ w \in Contents
  BY WriteFills
<1>3. fds \in [Threads -> Inodes \cup {NoInode}] /\ [data EXCEPT ![i] = w] \in [Inodes -> Contents]
  BY <1>1, <1>2 DEF DiskTypes
<1>4. /\ link' = link /\ fd' = fds /\ data' \in [Inodes -> Contents]
      /\ \A k \in {"entry", "tmp"} : link[k] \in Inodes =>
           data'[link[k]] = IF link[k] = i THEN w ELSE data[link[k]]
  <2> DEFINE grown == [data EXCEPT ![i] = w]
  <2>1. \A x \in Inodes : grown[x] = IF x = i THEN w ELSE data[x]
    BY <1>1, <1>2 DEF DiskTypes
  <2>2. grown \in [Inodes -> Contents] /\ Settle(link, fds, grown)
    BY <1>3
  <2> HIDE DEF grown
  <2>3. /\ link' = link /\ fd' = fds /\ data' \in [Inodes -> Contents]
        /\ \A k \in {"entry", "tmp"} : link[k] \in Inodes => data'[link[k]] = grown[link[k]]
    BY <1>1, <1>3, <2>2, Settled DEF DiskTypes
  <2> QED
    BY <2>1, <2>3
<1>5. /\ \A u \in Threads \ {t} : pc'[u] = pc[u] /\ fd'[u] = fd[u] /\ at'[u] = at[u]
      /\ \/ n + 1 < Pieces /\ pc'[t] = "write" /\ fd'[t] = i /\ at'[t] = n + 1
         \/ n + 1 = Pieces /\ pc'[t] = "rename" /\ fd'[t] = NoInode /\ at'[t] = 0
  BY SMTT(30), <1>1, <1>4 DEF DiskTypes
<1>6. at' \in [Threads -> 0..Pieces]
  <2>1. n + 1 \in 0..Pieces /\ 0 \in 0..Pieces
    BY SMTT(30), <1>1, <1>2
  <2> QED
    BY <1>1, <2>1 DEF DiskTypes
<1>7. DiskTypes'
  BY <1>1, <1>3, <1>4, <1>6 DEF DiskTypes
<1>8. WriterOK(t)'
  BY <1>1, <1>2, <1>5 DEF WriterOK
<1>9. ASSUME faults' = 0, NEW k \in {"entry", "tmp"}, NEW x, x = link[k], x \in Inodes, Sure(x)
      PROVE  Sure(x)'
  <2>1. CASE x # i
    <3>1. data'[x] = data[x]
      BY <1>4, <1>9, <2>1
    <3>2. CASE data[x] = Whole
      BY <3>1, <3>2 DEF Sure
    <3>3. ASSUME NEW u \in Threads, Fills(u, x) PROVE Fills(u, x)'
      <4>1. u # t
        BY <2>1, <3>3 DEF Fills
      <4> QED
        BY SMTT(30), <1>5, <3>1, <3>3, <4>1 DEF Fills
    <3> QED
      BY <1>9, <3>2, <3>3 DEF Sure
  <2>2. CASE x = i
    <3>1. /\ data'[x] = w
          /\ data[i] = Whole => w = Whole
          /\ \A u \in Threads : Fills(u, i) => at[u] <= Len(w) /\ \A j \in 1..at[u] : w[j] = "ok"
          /\ Fills(t, i) => n + 1 <= Len(w) /\ \A j \in 1..(n + 1) : w[j] = "ok"
      <4>1. data'[x] = w
        BY <1>4, <1>9, <2>2
      <4>2. GrowsInOrder(t, i, n, w)
        BY <1>9, WriteFills
      <4> QED
        BY <4>1, <4>2 DEF GrowsInOrder
    <3>2. CASE data[i] = Whole
      BY <2>2, <3>1, <3>2 DEF Sure
    <3>3. ASSUME NEW u \in Threads \ {t}, Fills(u, i) PROVE Fills(u, x)'
      BY SMTT(30), <1>5, <2>2, <3>1, <3>3 DEF Fills
    <3>4. ASSUME Fills(t, i) PROVE Sure(x)'
      <4>1. n + 1 <= Len(w) /\ \A j \in 1..(n + 1) : w[j] = "ok"
        BY <3>1, <3>4
      <4>2. CASE n + 1 < Pieces
        <5>1. at'[t] = n + 1 /\ pc'[t] = "write" /\ fd'[t] = x
          BY SMTT(30), <1>1, <1>2, <1>5, <2>2, <4>2
        <5>2. Fills(t, x)'
          BY <3>1, <4>1, <5>1 DEF Fills
        <5> QED
          BY <5>2 DEF Sure
      <4>3. CASE n + 1 = Pieces
        <5>1. Len(w) = Pieces
          BY SMTT(30), <1>1, <1>2, <4>1, <4>3, ContentFacts
        <5>2. w = Whole
          BY <1>2, <4>1, <4>3, <5>1, AllOkIsWhole
        <5> QED
          BY <3>1, <5>2 DEF Sure
      <4> QED
        BY <1>5, <4>2, <4>3
    <3> QED
      BY SMTT(30), <1>9, <2>2, <3>2, <3>3, <3>4 DEF Sure
  <2> QED
    BY <2>1, <2>2
<1>10. ASSUME faults' = 0 PROVE Tidy'
  <2>1. PICK e, m : e = link["entry"] /\ m = link["tmp"]
    OBVIOUS
  <2>2. (e # NoInode => Sure(e)) /\ (m # NoInode => Sure(m))
    BY <1>10, <2>1, TidyIs DEF DirInv
  <2>3. (e # NoInode => e \in Inodes) /\ (m # NoInode => m \in Inodes)
    BY <1>1, <2>1 DEF DiskTypes
  <2>4. (e # NoInode => Sure(e)') /\ (m # NoInode => Sure(m)')
    BY <1>9, <1>10, <2>1, <2>2, <2>3
  <2>5. t \in Writers'
    BY <1>5 DEF Writers
  <2> QED
    BY <1>4, <2>1, <2>4, <2>5, TidyNext
<1>11. \A u \in Threads : WriterOK(u)'
  BY <1>5, <1>8, OthersWrite
<1> QED
  BY <1>7, <1>10, <1>11 DEF DirInv

\* std::fs::write, one piece of it or its failure.
LEMMA WritePieceDirInv ==
  ASSUME FlightInv, DirInv, NEW t \in Threads, WritePiece(t)
  PROVE  DirInv'
<1>1. PICK i, n, w : i = fd[t] /\ n = at[t] /\ w = Written(data[i], n, bytes[t][n + 1])
  OBVIOUS
<1>2. pc[t] = "write" /\ UNCHANGED bytes /\ DiskTypes /\ WriterOK(t) /\ DOMAIN pc = Threads
  BY DEF WritePiece, DirInv, FlightInv
<1>3. [data EXCEPT ![fd[t]] = Written(@, at[t], bytes[t][at[t] + 1])] = [data EXCEPT ![i] = w]
  BY <1>1
<1>4. CASE n + 1 < Pieces /\ at' = [at EXCEPT ![t] = n + 1]
           /\ Settle(link, fd, [data EXCEPT ![i] = w]) /\ UNCHANGED <<pc, faults>>
  BY <1>1, <1>2, <1>4, PieceDirInv
<1>5. CASE /\ n + 1 = Pieces /\ Settle(link, [fd EXCEPT ![t] = NoInode], [data EXCEPT ![i] = w])
           /\ at' = [at EXCEPT ![t] = 0] /\ Goto(t, "rename") /\ UNCHANGED faults
  BY <1>1, <1>2, <1>5, PieceDirInv DEF Goto
<1>6. CASE /\ Fault /\ Settle(link, [fd EXCEPT ![t] = NoInode], data)
           /\ at' = [at EXCEPT ![t] = 0] /\ Goto(t, "cleanup")
  <2> DEFINE fds == [fd EXCEPT ![t] = NoInode]
  <2>1. fds \in [Threads -> Inodes \cup {NoInode}] /\ Settle(link, fds, data)
    BY <1>2, <1>6 DEF DiskTypes
  <2>2. link' = link /\ fd' = fds /\ data' \in [Inodes -> Contents]
    <3> HIDE DEF fds
    <3> QED
      BY <1>2, <2>1, Settled DEF DiskTypes
  <2>3. faults' \in 0..MaxFaults /\ faults' # 0
    BY <1>6, FaultCount
  <2>4. at' \in [Threads -> 0..Pieces]
    BY SMTT(30), <1>2, <1>6, MountsAssumption DEF DiskTypes
  <2>5. DiskTypes'
    BY <1>2, <2>1, <2>2, <2>3, <2>4 DEF DiskTypes
  <2>6. /\ pc'[t] = "cleanup" /\ fd'[t] = NoInode /\ at'[t] = 0
        /\ \A u \in Threads \ {t} :
             pc'[u] = pc[u] /\ bytes'[u] = bytes[u] /\ fd'[u] = fd[u] /\ at'[u] = at[u]
    BY <1>2, <1>6, <2>2 DEF Goto, DiskTypes
  <2>7. WriterOK(t)'
    BY <2>6 DEF WriterOK
  <2> QED
    BY <2>3, <2>5, <2>6, <2>7, OthersWrite DEF DirInv
<1> QED
  BY <1>1, <1>3, <1>4, <1>5, <1>6 DEF WritePiece

\* Threads that start over leave the files of the others.
LEMMA ForgetDirInv ==
  ASSUME FlightInv, DirInv, NEW T \in SUBSET Threads, Forget(T),
         \/ Fault
         \/ UNCHANGED faults /\ \A t \in T : pc[t] = "done"
  PROVE  DirInv'
<1> DEFINE fds == [t \in Threads |-> IF t \in T THEN NoInode ELSE fd[t]]
<1>1. DiskTypes /\ DOMAIN pc = Threads /\ NoInode \notin Inodes
  BY MountsAssumption DEF FlightInv, DirInv
<1>2. /\ fds \in [Threads -> Inodes \cup {NoInode}] /\ Settle(link, fds, data)
      /\ \A t \in T : pc'[t] = "idle" /\ bytes'[t] = <<>> /\ at'[t] = 0 /\ fds[t] = NoInode
      /\ \A t \in Threads \ T : pc'[t] = pc[t] /\ bytes'[t] = bytes[t] /\ at'[t] = at[t] /\ fds[t] = fd[t]
  BY <1>1 DEF Forget, DiskTypes
<1>3. bytes' \in [Threads -> Contents] /\ at' \in [Threads -> 0..Pieces]
  BY SMTT(30), <1>1, FixedContents DEF Forget, DiskTypes
<1> HIDE DEF fds
<1>4. /\ link' = link /\ fd' = fds /\ data' \in [Inodes -> Contents]
      /\ \A n \in {"entry", "tmp"} : link[n] \in Inodes => data'[link[n]] = data[link[n]]
  BY <1>1, <1>2, Settled DEF DiskTypes
<1>5. faults' \in 0..MaxFaults /\ (faults' = 0 => faults = 0 /\ \A t \in T : pc[t] = "done")
  BY FaultCount
<1>6. DiskTypes'
  BY <1>1, <1>2, <1>3, <1>4, <1>5 DEF DiskTypes
<1>7. \A t \in Threads : WriterOK(t)'
  BY SMTT(30), <1>2, <1>4, <1>5 DEF DirInv, WriterOK
<1>8. ASSUME faults' = 0 PROVE Tidy'
  <2>1. PICK e, m : e = link["entry"] /\ m = link["tmp"]
    OBVIOUS
  <2>2. /\ e # NoInode => Sure(e)
        /\ m # NoInode => Sure(m) /\ Writers # {}
    BY <1>5, <1>8, <2>1, TidyIs DEF DirInv
  <2>3. ASSUME NEW x \in {e, m}, x # NoInode PROVE Sure(x)'
    <3>1. data'[x] = data[x] /\ Sure(x)
      BY SMTT(30), <1>1, <1>4, <2>1, <2>2, <2>3 DEF DiskTypes
    <3>2. ASSUME NEW u \in Threads, Fills(u, x) PROVE Fills(u, x)'
      <4>1. u \notin T
        BY <1>5, <1>8, <3>2 DEF Fills
      <4> QED
        BY SMTT(30), <1>2, <1>4, <3>1, <3>2, <4>1 DEF Fills
    <3> QED
      BY <3>1, <3>2 DEF Sure
  <2>4. m # NoInode => Writers' # {}
    <3> SUFFICES ASSUME m # NoInode PROVE Writers' # {}
      OBVIOUS
    <3>1. PICK u \in Writers : TRUE
      BY <2>2
    <3>2. u \in Threads \ T /\ pc'[u] \in {"write", "rename", "cleanup"}
      BY <1>2, <1>5, <1>8, <3>1 DEF Writers
    <3> QED
      BY <3>2 DEF Writers
  <2> QED
    BY <1>4, <2>1, <2>3, <2>4, TidyNext
<1> QED
  BY <1>6, <1>7, <1>8 DEF DirInv

\* A cached file goes bad.
LEMMA RotDirInv ==
  ASSUME FlightInv, DirInv, Rot
  PROVE  DirInv'
<1> DEFINE e == link["entry"]
           bad == [i \in DOMAIN data[e] |-> "bad"]
<1>1. e \in Inodes /\ data[e] \in Contents
  BY DEF Rot, DirInv, DiskTypes
<1>2. bad \in Contents
  BY <1>1 DEF Contents
<1>3. data' = [data EXCEPT ![e] = bad] /\ UNCHANGED <<link, pc, bytes, fd, at>> /\ Fault
  BY DEF Rot, writing
<1> HIDE DEF bad, e
<1>4. DiskTypes' /\ faults' # 0
  BY <1>1, <1>2, <1>3, FaultCount DEF DirInv, DiskTypes
<1>5. \A t \in Threads : WriterOK(t)'
  BY <1>3, <1>4 DEF DirInv, WriterOK
<1> QED
  BY <1>4, <1>5 DEF DirInv

\* Every step keeps the directory's invariant.
LEMMA NextDirInv ==
  ASSUME FlightInv, DirInv, [Next]_vars
  PROVE  DirInv'
<1>1. CASE UNCHANGED vars
  BY SMTT(30), <1>1 DEF vars, DirInv, DiskTypes, WriterOK, Tidy, Fills, Writers
<1>2. ASSUME NEW t \in Threads, Call(t) \/ Step(t) PROVE DirInv'
  <2>1. CASE Done(t)
    BY <2>1, ForgetDirInv DEF Done
  <2> QED
    BY <1>2, <2>1, QuietDirInv, FetchDirInv, CreateTmpDirInv, WritePieceDirInv, RenameDirInv,
       RemoveDirInv DEF Step
<1>3. ASSUME NEW m \in Mounts, Crash(m) PROVE DirInv'
  <2>1. {t \in Threads : MountOf[t] = m} \in SUBSET Threads
    OBVIOUS
  <2> QED
    BY <1>3, <2>1, ForgetDirInv DEF Crash
<1>4. ASSUME NEW m \in Mounts, Evict(m) PROVE DirInv'
  BY SMTT(30), <1>4 DEF Evict, disk, writing, DirInv, DiskTypes, WriterOK, Tidy, Fills, Writers
<1>5. CASE Rot
  BY <1>5, RotDirInv
<1> QED
  BY <1>1, <1>2, <1>3, <1>4, <1>5 DEF Next

\* The invariant of the cache directory holds throughout.
LEMMA DirInvAlways ==
  Spec => []DirInv
BY InitDirInv, NextDirInv, FlightInvAlways, PTL DEF Spec

\* blob_bytes_cached: mounts that write one blob at once, truncating and renaming
\* each other's temporary file, leave a whole entry and no temporary file.
THEOREM DirectoryWholeAtRest ==
  Spec => []WholeAtRest
<1>1. FlightInv /\ DirInv => TypeOK
  BY MountsAssumption DEF FlightInv, DirInv, DiskTypes, TypeOK, BlobFlight!TypeOK, Busy
<1>2. FlightInv /\ DirInv => WholeAtRest
  BY <1>1 DEF DirInv, Tidy, Fills, WholeAtRest, Writers
<1> QED
  BY <1>2, FlightInvAlways, DirInvAlways, PTL

-----------------------------------------------------------------------------
\* Every step but the creation and the removal of a name, and the rename, leaves
\* the names.
LEMMA WhoRenames ==
  ASSUME [Next]_vars
  PROVE  \/ UNCHANGED link
         \/ \E t \in Threads : CreateTmp(t) \/ Rename(t) \/ Cleanup(t) \/ DropEntry(t)
BY DEF Next, vars, Call, Step, Enter, Acquire, Recheck, OpenEntry, Fetch, WritePiece, Parse, ParseOr,
       Release, Leave, Done, Crash, Forget, Settle, Evict, Rot, disk

\* A temporary file is created apart from the entry.
LEMMA CreatedApart ==
  ASSUME FlightInv, DirInv, LinksApart, NEW t \in Threads, CreateTmp(t)
  PROVE  \/ UNCHANGED <<link, data>>
         \/ \E f \in Inodes : /\ f # link["entry"] /\ link' = [link EXCEPT !["tmp"] = f]
                              /\ data' = [data EXCEPT ![f] = <<>>]
<1> DEFINE file == IF link["tmp"] # NoInode THEN link["tmp"] ELSE Min(Inodes \ InUse(link, fd))
<1>1. pc[t] = "create" /\ DiskTypes
  BY DEF CreateTmp, CreateAs, DirInv
<1>2. file \in Inodes /\ file # link["entry"]
  <2>1. CASE link["tmp"] # NoInode
    BY <1>1, <2>1 DEF DiskTypes, LinksApart
  <2>2. CASE link["tmp"] = NoInode
    <3>1. Min(Inodes \ InUse(link, fd)) \in Inodes \ InUse(link, fd)
      BY <1>1, <2>2, FreeInode
    <3> QED
      BY <2>2, <3>1 DEF InUse
  <2> QED
    BY <2>1, <2>2
<1>3. \/ UNCHANGED <<link, data>>
      \/ link' = [link EXCEPT !["tmp"] = file] /\ data' = [data EXCEPT ![file] = <<>>]
  BY DEF CreateTmp, CreateAs, disk
<1> HIDE DEF file
<1> QED
  BY <1>2, <1>3

\* Every step keeps the names apart.
LEMMA NextLinksApart ==
  ASSUME FlightInv, DirInv, LinksApart, [Next]_vars
  PROVE  LinksApart'
<1>1. link \in [{"entry", "tmp"} -> Inodes \cup {NoInode}]
  BY DEF DirInv, DiskTypes
<1>2. CASE UNCHANGED link
  BY <1>2 DEF LinksApart
<1>3. ASSUME NEW t \in Threads, CreateTmp(t) PROVE LinksApart'
  <2>1. CASE UNCHANGED <<link, data>>
    BY <2>1 DEF LinksApart
  <2>2. ASSUME NEW f \in Inodes, f # link["entry"], link' = [link EXCEPT !["tmp"] = f]
        PROVE  LinksApart'
    BY <1>1, <2>2 DEF LinksApart
  <2> QED
    BY <1>3, <2>1, <2>2, CreatedApart
<1>4. ASSUME NEW t \in Threads, Rename(t) PROVE LinksApart'
  <2>1. UNCHANGED link \/ link' = [entry |-> link["tmp"], tmp |-> NoInode]
    BY <1>4 DEF Rename, Settle, disk
  <2>2. CASE link' = [entry |-> link["tmp"], tmp |-> NoInode]
    <3>1. link'["tmp"] = NoInode
      BY SMTT(30), <2>2
    <3> QED
      BY <3>1 DEF LinksApart
  <2> QED
    BY <1>2, <2>1, <2>2
<1>5. ASSUME NEW t \in Threads, Cleanup(t) \/ DropEntry(t) PROVE LinksApart'
  BY <1>1, <1>5 DEF Cleanup, DropEntry, Unlink, Settle, LinksApart, disk
<1> QED
  BY <1>2, <1>3, <1>4, <1>5, WhoRenames

\* A piece of the blob written into the whole blob changes nothing.
LEMMA SamePiece ==
  ASSUME DirInv, NEW t \in Threads, pc[t] = "write", bytes[t] = Whole, data[fd[t]] = Whole
  PROVE  Written(data[fd[t]], at[t], bytes[t][at[t] + 1]) = Whole
<1> DEFINE n == at[t]
           w == Written(Whole, n, "ok")
<1>1. n \in 0..Pieces /\ n < Pieces
  BY DEF DirInv, DiskTypes, WriterOK
<1>2. n \in 0..(Pieces - 1) /\ n + 1 \in 1..Pieces
  BY SMTT(30), <1>1, FixedContents
<1>3. Whole[n + 1] = "ok" /\ Whole \in Contents /\ Len(Whole) = Pieces /\ Pieces \in Nat
  BY <1>2, FixedContents
<1>4. PieceLater(w, Whole, n, "ok")
  BY <1>2, <1>3, WrittenFacts
<1> HIDE DEF w
<1>5. w \in Contents /\ Len(w) = Pieces /\ \A j \in 1..Pieces : w[j] = "ok"
  BY SMTT(30), <1>2, <1>3, <1>4, FixedContents DEF PieceLater
<1>6. w = Whole
  BY <1>5, AllOkIsWhole
<1> QED
  BY <1>3, <1>6 DEF w

\* Every step keeps a whole entry whole.
LEMMA NextEntryKept ==
  ASSUME FlightInv, DirInv, LinksApart, [Next]_vars
  PROVE  EntryKept
<1> SUFFICES ASSUME NEW i \in Inodes, i = link["entry"], data[i] = Whole, link'["entry"] = i,
                    ~Rot, \A t \in Threads : fd[t] = i => bytes[t] = Whole
             PROVE  data'[i] = Whole
  BY DEF EntryKept, DirInv, DiskTypes
<1>1. /\ link \in [{"entry", "tmp"} -> Inodes \cup {NoInode}] /\ data \in [Inodes -> Contents]
      /\ fd \in [Threads -> Inodes \cup {NoInode}]
  BY DEF DirInv, DiskTypes
<1>2. CASE UNCHANGED data
  BY <1>2
<1>3. ASSUME NEW names, NEW fds, NEW contents, Settle(names, fds, contents), contents[i] = Whole
      PROVE  data'[i] = Whole
  BY <1>3 DEF Settle, InUse
<1>4. ASSUME NEW t \in Threads, CreateTmp(t) PROVE data'[i] = Whole
  <2>1. ASSUME NEW f \in Inodes, f # i, data' = [data EXCEPT ![f] = <<>>] PROVE data'[i] = Whole
    BY <1>1, <2>1
  <2> QED
    BY <1>2, <1>4, <2>1, CreatedApart
<1>5. ASSUME NEW t \in Threads, WritePiece(t) PROVE data'[i] = Whole
  <2> DEFINE w == Written(data[fd[t]], at[t], bytes[t][at[t] + 1])
             grown == [data EXCEPT ![fd[t]] = w]
  <2>1. pc[t] = "write" /\ fd[t] \in Inodes
    BY <1>5 DEF WritePiece, DirInv, WriterOK
  <2>2. fd[t] = i => w = Whole
    BY <2>1, SamePiece
  <2>3. \E fds : Settle(link, fds, grown) \/ Settle(link, fds, data)
    BY <1>5 DEF WritePiece
  <2> HIDE DEF w
  <2>4. grown[i] = Whole
    BY <1>1, <2>1, <2>2
  <2> HIDE DEF grown
  <2> QED
    BY <1>3, <2>3, <2>4
<1>6. ASSUME NEW t \in Threads, Rename(t) \/ Cleanup(t) \/ DropEntry(t) PROVE data'[i] = Whole
  <2>1. UNCHANGED data \/ \E names, fds : Settle(names, fds, data)
    BY <1>6 DEF Rename, Cleanup, DropEntry, Unlink, disk
  <2> QED
    BY <1>2, <1>3, <2>1
<1>7. ASSUME NEW T, Forget(T) PROVE data'[i] = Whole
  <2>1. \E fds : Settle(link, fds, data)
    BY <1>7 DEF Forget
  <2> QED
    BY <1>3, <2>1
<1>8. \/ UNCHANGED data \/ \E T : Forget(T)
      \/ \E t \in Threads : CreateTmp(t) \/ WritePiece(t) \/ Rename(t) \/ Cleanup(t) \/ DropEntry(t)
  BY DEF Next, vars, Call, Step, Enter, Acquire, Recheck, OpenEntry, Fetch, Parse, ParseOr,
         Release, Leave, Done, Crash, Evict, disk
<1> QED
  BY <1>2, <1>4, <1>5, <1>6, <1>7, <1>8

\* blob_bytes_cached: only a rename replaces an entry, so no mount that is still
\* writing, or starts over, damages a whole one in place.
THEOREM EntriesStayWhole ==
  Spec => EntryStaysWhole
<1>1. Init => LinksApart
  BY DEF Init, LinksApart
<1>2. FlightInv /\ DirInv /\ LinksApart /\ [Next]_vars => LinksApart'
  BY NextLinksApart
<1>3. FlightInv /\ DirInv /\ LinksApart /\ [Next]_vars => [EntryKept]_vars
  BY NextEntryKept
<1> QED
  BY <1>1, <1>2, <1>3, FlightInvAlways, DirInvAlways, PTL DEF Spec, EntryStaysWhole

=============================================================================
