------------------------------ MODULE BlobCache ------------------------------
(* store.rs, parsed / parse_uncached / blob_bytes_cached / fetch_blob: one    *)
(* blob on its way from the backend, through a cache directory that several   *)
(* mounts share, into each mount's cache of parsed blobs.                     *)
(*                                                                            *)
(* A blob is a sequence of pieces, "ok" or "bad" (a hole, rot, or damage in   *)
(* transfer); it parses when every piece is ok, for parse_blob checks the     *)
(* crc of the whole blob.  Damage here is damage that parse_blob refuses with *)
(* an error.  Damage of the manifest's unpacked size can make it panic, and   *)
(* then nothing is dropped or fetched: that is left to Formats.               *)
(*                                                                            *)
(* The cache directory has two names for the blob, the entry and the          *)
(* temporary file; all mounts use the same two.  blob_flight appears as the   *)
(* lock per key that SingleFlight implements, one per mount.                  *)
EXTENDS Integers, Sequences, FiniteSetsExt

CONSTANTS Threads,
          Mounts,         \* processes that share --cache-dir
          MountOf,        \* [Threads -> Mounts]
          Inodes,         \* files of the cache directory's file system
          NoInode,        \* no such file
          Pieces,         \* length of the blob: BlobEntry.size
          HasSha,         \* the name carries a 64-digit sha256
          Deliveries,     \* what read_all may give: "good", "bad", "short", "error"
          MaxFaults       \* bound: how many of the following happen: a local read
                          \* or write fails, a cached file goes bad on disk, a
                          \* mount is killed, the backend delivers badly

ASSUME MountsAssumption ==
  /\ MountOf \in [Threads -> Mounts]
  /\ Pieces \in Nat \ {0} /\ MaxFaults \in Nat
  /\ Inodes \subseteq Nat /\ NoInode \notin Inodes
  /\ IsFiniteSet(Threads) /\ IsFiniteSet(Inodes)
  /\ Cardinality(Inodes) > Cardinality(Threads)
  /\ Deliveries \subseteq {"good", "bad", "short", "error"}

VARIABLES parsed,       \* Store.parsed of each mount, for this blob
          gate, want,   \* Store.blob_flight of each mount
          link,         \* the cache directory: entry and temporary file
          data,         \* contents of the files
          pc,           \* where each thread is inside `parsed`
          bytes,        \* the blob bytes it holds
          fromCache,    \* they came from the cache directory
          fd,           \* the file it is writing
          at,           \* how far it has written
          backendFailed,\* the backend let this call down
          res,          \* what the call returned
          faults

vars == <<parsed, gate, want, link, data, pc, bytes, fromCache, fd, at, backendFailed,
          res, faults>>
flight == <<gate, want>>
disk == <<link, data>>
writing == <<fd, at>>

BlobFlight == INSTANCE KeyLock WITH Keys <- Mounts, phase <- gate, wanted <- want

Contents == UNION {[1..n -> {"ok", "bad"}] : n \in 0..Pieces}
Whole == [i \in 1..Pieces |-> "ok"]
Damaged == [i \in 1..Pieces |-> "bad"]
Delivered(d) == CASE d = "good"  -> Whole
                  [] d = "bad"   -> Damaged
                  [] d = "short" -> SubSeq(Whole, 1, Pieces - 1)

TypeOK ==
  /\ parsed \in [Mounts -> {"none", "genuine"}]
  /\ BlobFlight!TypeOK
  /\ link \in [{"entry", "tmp"} -> Inodes \cup {NoInode}]
  /\ data \in [Inodes -> Contents]
  /\ pc \in [Threads -> {"idle", "miss", "wait", "recheck", "open", "parse", "drop", "fetch",
                         "create", "write", "rename", "cleanup", "release", "leave", "done"}]
  /\ bytes \in [Threads -> Contents]
  /\ fromCache \in [Threads -> BOOLEAN]
  /\ fd \in [Threads -> Inodes \cup {NoInode}]
  /\ at \in [Threads -> 0..Pieces]
  /\ backendFailed \in [Threads -> BOOLEAN]
  /\ res \in [Threads -> {"none", "genuine", "error"}]
  /\ faults \in 0..MaxFaults

Init ==
  /\ parsed = [m \in Mounts |-> "none"]
  /\ gate = [t \in Threads |-> "outside"] /\ want = MountOf
  /\ link = [n \in {"entry", "tmp"} |-> NoInode]
  /\ data = [i \in Inodes |-> <<>>]
  /\ pc = [t \in Threads |-> "idle"]
  /\ bytes = [t \in Threads |-> <<>>]
  /\ fromCache = [t \in Threads |-> FALSE]
  /\ fd = [t \in Threads |-> NoInode]
  /\ at = [t \in Threads |-> 0]
  /\ backendFailed = [t \in Threads |-> FALSE]
  /\ res = [t \in Threads |-> "none"]
  /\ faults = 0

\* One of the things that may go wrong does.
Fault == faults < MaxFaults /\ faults' = faults + 1

Goto(t, to) == pc' = [pc EXCEPT ![t] = to]

Finish(t, to, r) == Goto(t, to) /\ res' = [res EXCEPT ![t] = r]

Hold(t, content, cached) ==
  /\ bytes' = [bytes EXCEPT ![t] = content]
  /\ fromCache' = [fromCache EXCEPT ![t] = cached]

InUse(names, fds) == {names["entry"], names["tmp"]} \cup {fds[t] : t \in Threads}

\* The directory and the open files become these; a file with no name left and
\* nobody writing it is gone.
Settle(names, fds, contents) ==
  /\ link' = names /\ fd' = fds
  /\ data' = [i \in Inodes |-> IF i \in InUse(names, fds) THEN contents[i] ELSE <<>>]

Unlink(name) == Settle([link EXCEPT ![name] = NoInode], fd, data)

Call(t) ==
  LET p == parsed[MountOf[t]]
  IN  /\ pc[t] = "idle"
      /\ IF p # "none" THEN Finish(t, "done", p) ELSE Goto(t, "miss") /\ UNCHANGED res
      /\ UNCHANGED <<parsed, flight, disk, bytes, fromCache, writing, backendFailed, faults>>

Enter(t) ==
  /\ pc[t] = "miss"
  /\ BlobFlight!Request(t) /\ want'[t] = MountOf[t]
  /\ Goto(t, "wait")
  /\ UNCHANGED <<parsed, disk, bytes, fromCache, writing, backendFailed, res, faults>>

Acquire(t) ==
  /\ pc[t] = "wait"
  /\ BlobFlight!Acquire(t)
  /\ Goto(t, "recheck")
  /\ UNCHANGED <<parsed, disk, bytes, fromCache, writing, backendFailed, res, faults>>

\* Mutant of Recheck: parse_uncached does not look again.
RecheckMissing(t) ==
  /\ pc[t] = "recheck"
  /\ Goto(t, "open")
  /\ UNCHANGED <<parsed, flight, disk, bytes, fromCache, writing, backendFailed, res, faults>>

Recheck(t) ==
  LET p == parsed[MountOf[t]]
  IN  /\ pc[t] = "recheck"
      /\ IF p # "none" THEN Finish(t, "release", p) ELSE Goto(t, "open") /\ UNCHANGED res
      /\ UNCHANGED <<parsed, flight, disk, bytes, fromCache, writing, backendFailed, faults>>

\* blob_bytes_cached: the cached file if it can be read and has the right size
OpenEntry(t) ==
  LET i == link["entry"]
      use == /\ Hold(t, data[i], TRUE) /\ Goto(t, "parse")
      miss == /\ Goto(t, "fetch") /\ UNCHANGED <<bytes, fromCache>>
  IN  /\ pc[t] = "open"
      /\ \/ /\ IF i # NoInode /\ Len(data[i]) = Pieces THEN use ELSE miss
            /\ UNCHANGED faults
         \/ i # NoInode /\ miss /\ Fault
      /\ UNCHANGED <<parsed, flight, disk, writing, backendFailed, res>>

\* fetch_blob: read_all, then the sha256 of the name, or else the size
Fetch(t) ==
  /\ pc[t] = "fetch"
  /\ \E d \in Deliveries :
       LET refused == d \in {"error", "short"} \/ (HasSha /\ d = "bad")
       IN  /\ IF d = "good" THEN UNCHANGED faults ELSE Fault
           /\ backendFailed' = [backendFailed EXCEPT ![t] = @ \/ d # "good"]
           /\ IF refused THEN Finish(t, "release", "error") /\ Hold(t, <<>>, FALSE)
              ELSE Hold(t, Delivered(d), FALSE) /\ Goto(t, "create") /\ UNCHANGED res
  /\ UNCHANGED <<parsed, flight, disk, writing>>

CreateAs(t, name) ==
  LET file == IF link[name] # NoInode THEN link[name] ELSE Min(Inodes \ InUse(link, fd))
  IN  /\ pc[t] = "create"
      /\ \/ /\ link' = [link EXCEPT ![name] = file]
            /\ data' = [data EXCEPT ![file] = <<>>]
            /\ fd' = [fd EXCEPT ![t] = file] /\ at' = [at EXCEPT ![t] = 0]
            /\ Goto(t, "write") /\ UNCHANGED faults
         \/ Fault /\ Goto(t, "cleanup") /\ UNCHANGED <<disk, writing>>
      /\ UNCHANGED <<parsed, flight, bytes, fromCache, backendFailed, res>>

\* Mutant of CreateTmp: the blob is written under the name of the entry.
CreateEntry(t) == CreateAs(t, "entry")

\* std::fs::write, its open: the temporary file is created, or truncated under
\* whoever else is writing it
CreateTmp(t) == CreateAs(t, "tmp")

\* A write past the end leaves a hole.
Written(file, n, piece) ==
  [i \in 1..(IF Len(file) > n THEN Len(file) ELSE n + 1) |->
     IF i = n + 1 THEN piece ELSE IF i <= Len(file) THEN file[i] ELSE "bad"]

\* std::fs::write, one write(2) of it; each writer has its own position
WritePiece(t) ==
  LET n == at[t]
      grown == [data EXCEPT ![fd[t]] = Written(@, n, bytes[t][n + 1])]
      closed == [fd EXCEPT ![t] = NoInode]
      rewind == at' = [at EXCEPT ![t] = 0]
  IN  /\ pc[t] = "write"
      /\ \/ /\ n + 1 < Pieces
            /\ at' = [at EXCEPT ![t] = n + 1] /\ Settle(link, fd, grown)
            /\ UNCHANGED <<pc, faults>>
         \/ /\ n + 1 = Pieces
            /\ Settle(link, closed, grown) /\ rewind /\ Goto(t, "rename")
            /\ UNCHANGED faults
         \/ Fault /\ Settle(link, closed, data) /\ rewind /\ Goto(t, "cleanup")
      /\ UNCHANGED <<parsed, flight, bytes, fromCache, backendFailed, res>>

\* Mutant of Rename: the temporary file is linked, and its own name stays.
RenameKeepsTmp(t) ==
  /\ pc[t] = "rename"
  /\ link' = IF link["tmp"] # NoInode THEN [link EXCEPT !["entry"] = link["tmp"]] ELSE link
  /\ Goto(t, "parse")
  /\ UNCHANGED <<parsed, flight, data, bytes, fromCache, writing, backendFailed, res, faults>>

\* rename(tmp, entry): whatever file has the temporary name by now
Rename(t) ==
  /\ pc[t] = "rename"
  /\ \/ /\ link["tmp"] # NoInode
        /\ Settle([entry |-> link["tmp"], tmp |-> NoInode], fd, data)
        /\ Goto(t, "parse") /\ UNCHANGED faults
     \/ /\ IF link["tmp"] = NoInode THEN UNCHANGED faults ELSE Fault
        /\ Goto(t, "cleanup") /\ UNCHANGED <<disk, fd>>
  /\ UNCHANGED <<parsed, flight, bytes, fromCache, at, backendFailed, res>>

\* remove_file(tmp) after any of these failed; the bytes are good regardless
Cleanup(t) ==
  /\ pc[t] = "cleanup"
  /\ \/ Unlink("tmp") /\ UNCHANGED faults
     \/ Fault /\ UNCHANGED <<disk, fd>>
  /\ Goto(t, "parse")
  /\ UNCHANGED <<parsed, flight, bytes, fromCache, at, backendFailed, res>>

ParseOr(t, unreadable) ==
  LET m == MountOf[t]
  IN  /\ pc[t] = "parse"
      /\ IF bytes[t] = Whole
           THEN parsed' = [parsed EXCEPT ![m] = "genuine"] /\ Finish(t, "release", "genuine")
           ELSE unreadable
      /\ Hold(t, <<>>, FALSE)
      /\ UNCHANGED <<flight, disk, writing, backendFailed, faults>>

\* Mutant of Parse: what does not parse is an error wherever it came from.
ParseBlamesCache(t) == ParseOr(t, Finish(t, "release", "error") /\ UNCHANGED parsed)

\* parse_blob; a cached blob that does not parse is dropped and fetched
Parse(t) ==
  ParseOr(t, /\ IF fromCache[t] THEN Goto(t, "drop") /\ UNCHANGED res
                                ELSE Finish(t, "release", "error")
             /\ UNCHANGED parsed)

\* remove_file(entry), whatever is there by now
DropEntry(t) ==
  /\ pc[t] = "drop"
  /\ \/ Unlink("entry") /\ UNCHANGED faults
     \/ Fault /\ UNCHANGED <<disk, fd>>
  /\ Goto(t, "fetch")
  /\ UNCHANGED <<parsed, flight, bytes, fromCache, at, backendFailed, res>>

Release(t) ==
  /\ pc[t] = "release"
  /\ BlobFlight!Release(t)
  /\ Goto(t, "leave")
  /\ UNCHANGED <<parsed, disk, bytes, fromCache, writing, backendFailed, res, faults>>

Leave(t) ==
  /\ pc[t] = "leave"
  /\ BlobFlight!Return(t)
  /\ Goto(t, "done")
  /\ UNCHANGED <<parsed, disk, bytes, fromCache, writing, backendFailed, res, faults>>

\* The locals of the threads in T are gone, and their files closed.
Forget(T) ==
  LET reset(f, v) == [t \in Threads |-> IF t \in T THEN v ELSE f[t]]
  IN  /\ pc' = reset(pc, "idle") /\ bytes' = reset(bytes, <<>>)
      /\ fromCache' = reset(fromCache, FALSE) /\ at' = reset(at, 0)
      /\ Settle(link, reset(fd, NoInode), data)
      /\ backendFailed' = reset(backendFailed, FALSE) /\ res' = reset(res, "none")

Done(t) ==
  /\ pc[t] = "done"
  /\ Forget({t})
  /\ UNCHANGED <<parsed, flight, faults>>

\* The mount is killed, and started again with nothing in memory.
Crash(m) ==
  LET its == {t \in Threads : MountOf[t] = m}
  IN  /\ Fault
      /\ Forget(its)
      /\ gate' = [t \in Threads |-> IF t \in its THEN "outside" ELSE gate[t]]
      /\ parsed' = [parsed EXCEPT ![m] = "none"]
      /\ UNCHANGED want

\* 512 other blobs push this one out of the mount's cache.
Evict(m) ==
  /\ parsed[m] # "none"
  /\ parsed' = [parsed EXCEPT ![m] = "none"]
  /\ UNCHANGED <<flight, disk, pc, bytes, fromCache, writing, backendFailed, res, faults>>

Rot ==
  /\ link["entry"] # NoInode /\ Fault
  /\ data' = [data EXCEPT ![link["entry"]] = [i \in DOMAIN @ |-> "bad"]]
  /\ UNCHANGED <<parsed, flight, link, pc, bytes, fromCache, writing, backendFailed, res>>

Step(t) ==
  \/ Enter(t) \/ Acquire(t) \/ Recheck(t) \/ OpenEntry(t) \/ Fetch(t) \/ CreateTmp(t)
  \/ WritePiece(t) \/ Rename(t) \/ Cleanup(t) \/ Parse(t) \/ DropEntry(t)
  \/ Release(t) \/ Leave(t) \/ Done(t)

Next ==
  \/ \E t \in Threads : Call(t) \/ Step(t)
  \/ \E m \in Mounts : Crash(m) \/ Evict(m)
  \/ Rot

Spec == Init /\ [][Next]_vars

-----------------------------------------------------------------------------
\* "Drop it and refetch, rather than failing the same way on every mount from
\* now on": a call only fails when the backend failed it, never for what the
\* cache directory holds.
CacheNeverToBlame ==
  \A t \in Threads : pc[t] = "done" /\ res[t] = "error" => backendFailed[t]

\* Between the second look and the result.
Busy == {"open", "parse", "drop", "fetch", "create", "write", "rename", "cleanup"}

\* blob_flight and the second look: nobody reads, fetches or writes a blob that
\* its mount has parsed, or that another thread of the mount is working on.
NoDuplicateParse ==
  LET working == {t \in Threads : pc[t] \in Busy}
  IN  /\ \A t \in working : parsed[MountOf[t]] = "none"
      /\ \A t, u \in working : MountOf[t] = MountOf[u] => t = u

\* Where a thread is in blob_flight, by where it is in `parsed`.
GateAt(p) ==
  CASE p \in {"idle", "miss", "done"} -> "outside"
    [] p = "wait"                     -> "waiting"
    [] p = "leave"                    -> "done"
    [] p \in Busy \cup {"recheck", "release"} -> "working"

\* What holds of a call wherever it is: a busy one has found its mount without
\* the blob, and only bytes that the backend delivered badly make it fail.
CallOK(t) ==
  /\ gate[t] = GateAt(pc[t])
  /\ pc[t] \in Busy => parsed[MountOf[t]] = "none"
  /\ res[t] = "error" => backendFailed[t]
  /\ pc[t] \in {"create", "write", "rename", "cleanup", "parse"} /\ ~fromCache[t]
       => bytes[t] = Whole \/ backendFailed[t]

\* The inductive invariant behind the properties that do not look at the disk:
\* at most one thread of a mount is inside blob_flight.
FlightInv ==
  /\ parsed \in [Mounts -> {"none", "genuine"}]
  /\ pc \in [Threads -> Busy \cup {"idle", "miss", "wait", "recheck", "release", "leave", "done"}]
  /\ gate \in [Threads -> BlobFlight!Phases] /\ want = MountOf
  /\ DOMAIN bytes = Threads /\ fromCache \in [Threads -> BOOLEAN]
  /\ backendFailed \in [Threads -> BOOLEAN]
  /\ res \in [Threads -> {"none", "genuine", "error"}]
  /\ \A t \in Threads : CallOK(t)
  /\ \A t, u \in Threads :
       gate[t] = "working" /\ gate[u] = "working" /\ MountOf[t] = MountOf[u] => t = u

\* Threads between the creation of the temporary file and the end of it.
Writers == {t \in Threads : pc[t] \in {"write", "rename", "cleanup"}}

\* Mounts that write the same blob at the same time, through the one temporary
\* name, truncate and rename each other's file; once they are all finished, and
\* if nothing failed, the entry is whole all the same and no temporary file is
\* left.
WholeAtRest ==
  /\ TypeOK
  /\ faults = 0 /\ Writers = {} =>
       /\ link["tmp"] = NoInode
       /\ link["entry"] # NoInode => data[link["entry"]] = Whole

\* The file of the entry stays whole while it is the entry.
EntryKept ==
  LET i == link["entry"]
  IN  /\ i # NoInode /\ data[i] = Whole /\ link'["entry"] = i
      /\ ~Rot /\ \A t \in Threads : fd[t] = i => bytes[t] = Whole
      => data'[i] = Whole

\* Only a rename replaces an entry: a whole one is never truncated or written
\* over in place, by a mount that still writes the file another has renamed, by
\* one that starts over after a crash or by one whose write fails.  Exempt are
\* the disk itself and a writer whose own bytes are bad, which writes them over
\* the entry if another mount has renamed their common file.
EntryStaysWhole ==
  [][EntryKept]_vars

DiskTypes ==
  /\ link \in [{"entry", "tmp"} -> Inodes \cup {NoInode}]
  /\ data \in [Inodes -> Contents]
  /\ bytes \in [Threads -> Contents]
  /\ fd \in [Threads -> Inodes \cup {NoInode}]
  /\ at \in [Threads -> 0..Pieces]
  /\ faults \in 0..MaxFaults

\* A thread has a file open exactly while it writes it, is not yet at its end,
\* and has a whole blob to write if nothing went wrong.
WriterOK(t) ==
  /\ pc[t] = "write" => fd[t] \in Inodes /\ at[t] < Pieces
  /\ pc[t] # "write" => fd[t] = NoInode /\ at[t] = 0
  /\ pc[t] \in {"create", "write"} => Len(bytes[t]) = Pieces /\ (faults = 0 => bytes[t] = Whole)

\* The thread has written the beginning of the file, and nobody has damaged it.
Fills(t, i) ==
  /\ pc[t] = "write" /\ fd[t] = i
  /\ at[t] <= Len(data[i]) /\ \A j \in 1..at[t] : data[i][j] = "ok"

\* A named file is whole, or somebody is making it so; and somebody will take
\* the temporary name away.
Tidy ==
  /\ link["tmp"] # NoInode => Writers # {}
  /\ \A name \in {"entry", "tmp"} :
       link[name] # NoInode =>
         data[link[name]] = Whole \/ \E t \in Threads : Fills(t, link[name])

\* The inductive invariant behind WholeAtRest: as long as nothing failed, the
\* last to truncate a file writes all of it.
DirInv ==
  /\ DiskTypes
  /\ \A t \in Threads : WriterOK(t)
  /\ faults = 0 => Tidy

\* The two names of the directory never stand for one file.
LinksApart == link["entry"] = link["tmp"] => link["entry"] = NoInode

=============================================================================
