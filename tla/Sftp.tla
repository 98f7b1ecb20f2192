-------------------------------- MODULE Sftp --------------------------------
(* backend/sftp.rs, handle / read_range / read_at / read_all: reads of remote *)
(* files by threads that share one SSH session and one cache of open file     *)
(* handles.  Every request to the server is an await; other threads run       *)
(* meanwhile.                                                                 *)
(*                                                                            *)
(* The server is external.  It names open files by ids that it uses again     *)
(* after a close, answers every read with some bytes of whatever file the id  *)
(* stands for at that moment, with EOF, or with an error if it is not open,   *)
(* and in any order.  The byte at offset n of file f is <<f, n>>.             *)
EXTENDS Integers, SequencesExt, FiniteSets

CONSTANTS Threads,
          Files,
          NoFile,
          SizeOf,          \* [Files -> Nat]
          Ids,             \* the handles the server can give out
          NoId,
          Ranges,          \* <<offset, len>> of the reads asked for
          HANDLE_CACHE, MAX_READ, MAX_IN_FLIGHT,
          MaxFaults        \* bound: how many requests time out or are refused

ASSUME SftpAssumption ==
  /\ Files # {} /\ SizeOf \in [Files -> Nat] /\ NoFile \notin Files /\ NoId \notin Ids
  /\ Ranges \subseteq Nat \X Nat
  /\ {HANDLE_CACHE, MAX_READ, MAX_IN_FLIGHT} \subseteq Nat \ {0}
  /\ MaxFaults \in Nat

VARIABLES handles,   \* the handle cache, most recently used first
          opened,    \* server: the file each id stands for
          pc,        \* where each thread is inside read_range
          file, range,
          hid,       \* the handle the thread has
          doomed,    \* the handle it evicted and has to close
          out,       \* bytes it has so far
          replies,   \* replies of the batch in flight
          lost,      \* history: another thread closed the handle the thread has
          faults

vars == <<handles, opened, pc, file, range, hid, doomed, out, replies, lost, faults>>

Sent == [tag |-> "sent"]
Eof == [tag |-> "eof"]
Failed == [tag |-> "error"]
Data(f, at, n) == [tag |-> "data", bytes |-> [i \in 1..n |-> <<f, at + i - 1>>]]

Bytes == Files \X Nat

TypeOK ==
  /\ handles \in Seq([file : Files, id : Ids]) /\ Len(handles) <= HANDLE_CACHE
  /\ opened \in [Ids -> Files \cup {NoFile}]
  /\ pc \in [Threads -> {"idle", "open", "push", "close", "batch", "replies", "done", "failed"}]
  /\ file \in [Threads -> Files]
  /\ range \in [Threads -> Nat \X Nat]
  /\ hid \in [Threads -> Ids \cup {NoId}]
  /\ doomed \in [Threads -> Ids \cup {NoId}]
  /\ out \in [Threads -> Seq(Bytes)]
  /\ \A t \in Threads : Len(replies[t]) <= MAX_IN_FLIGHT
  /\ lost \in [Threads -> BOOLEAN]
  /\ faults \in 0..MaxFaults

AnyFile == CHOOSE f \in Files : TRUE

Init ==
  /\ handles = <<>>
  /\ opened = [i \in Ids |-> NoFile]
  /\ pc = [t \in Threads |-> "idle"]
  /\ file = [t \in Threads |-> AnyFile]
  /\ range = [t \in Threads |-> <<0, 0>>]
  /\ hid = [t \in Threads |-> NoId]
  /\ doomed = [t \in Threads |-> NoId]
  /\ out = [t \in Threads |-> <<>>]
  /\ replies = [t \in Threads |-> <<>>]
  /\ lost = [t \in Threads |-> FALSE]
  /\ faults = 0

\* A request times out or is refused.
Fault == faults < MaxFaults /\ faults' = faults + 1

Goto(t, to) == pc' = [pc EXCEPT ![t] = to]

IsCached(f) == \E i \in 1..Len(handles) : handles[i].file = f

PosOf(f) == CHOOSE i \in 1..Len(handles) : handles[i].file = f

IdOf(f) == handles[PosOf(f)].id

Without(f) == IF IsCached(f) THEN RemoveAt(handles, PosOf(f)) ELSE handles

\* read_at, or read_all after its stat; `handle` looks in the cache
Request(t, f, r) ==
  /\ pc[t] = "idle"
  /\ file' = [file EXCEPT ![t] = f] /\ range' = [range EXCEPT ![t] = r]
  /\ IF IsCached(f)
       THEN /\ hid' = [hid EXCEPT ![t] = IdOf(f)]
            /\ handles' = <<[file |-> f, id |-> IdOf(f)]>> \o Without(f)
            /\ Goto(t, "batch")
       ELSE Goto(t, "open") /\ UNCHANGED <<hid, handles>>
  /\ UNCHANGED <<opened, doomed, out, replies, lost, faults>>

Free == {i \in Ids : opened[i] = NoFile}

\* sftp.open: a new handle, a refusal, or an answer that comes after the
\* request has timed out, when the server has the file open all the same
Open(t) ==
  /\ pc[t] = "open"
  /\ \/ \E i \in Free :
          /\ opened' = [opened EXCEPT ![i] = file[t]]
          /\ \/ hid' = [hid EXCEPT ![t] = i] /\ Goto(t, "push") /\ UNCHANGED faults
             \/ Fault /\ Goto(t, "failed") /\ UNCHANGED hid
     \/ /\ IF Free = {} THEN UNCHANGED faults ELSE Fault
        /\ Goto(t, "failed") /\ UNCHANGED <<opened, hid>>
  /\ UNCHANGED <<handles, file, range, doomed, out, replies, lost>>

PushThen(t, evicted) ==
  LET rest == Without(file[t])
      kept == IF Len(rest) >= HANDLE_CACHE THEN Front(rest) ELSE rest
  IN  /\ pc[t] = "push"
      /\ handles' = <<[file |-> file[t], id |-> hid[t]]>> \o kept
      /\ IF evicted = NoId THEN Goto(t, "batch") /\ UNCHANGED doomed
         ELSE doomed' = [doomed EXCEPT ![t] = evicted] /\ Goto(t, "close")
      /\ UNCHANGED <<opened, file, range, hid, out, replies, lost, faults>>

\* Mutant of Push: the new handle is closed in place of the evicted one.
PushClosesNew(t) ==
  PushThen(t, IF ~IsCached(file[t]) /\ Len(handles) >= HANDLE_CACHE THEN hid[t] ELSE NoId)

\* handles.push: a handle of the same file is replaced, and not closed; or else
\* the least recently used one goes when the cache is full
Push(t) ==
  PushThen(t, IF ~IsCached(file[t]) /\ Len(handles) >= HANDLE_CACHE
                THEN Last(handles).id ELSE NoId)

\* sftp.close of the evicted handle; a failure is ignored
Close(t) ==
  /\ pc[t] = "close"
  /\ \/ /\ opened' = [opened EXCEPT ![doomed[t]] = NoFile]
        /\ lost' = [u \in Threads |-> lost[u] \/ hid[u] = doomed[t]]
        /\ UNCHANGED faults
     \/ Fault /\ UNCHANGED <<opened, lost>>
  /\ doomed' = [doomed EXCEPT ![t] = NoId]
  /\ Goto(t, "batch")
  /\ UNCHANGED <<handles, file, range, hid, out, replies>>

\* The reads of the next batch: <<offset, len>> each.
WantsUpTo(t, most) ==
  LET base == range[t][1] + Len(out[t])
      remaining == range[t][2] - Len(out[t])
      count == Min({most, (remaining + MAX_READ - 1) \div MAX_READ})
  IN  [i \in 1..count |-> <<base + (i - 1) * MAX_READ,
                            Min({MAX_READ, remaining - (i - 1) * MAX_READ})>>]

Wants(t) == WantsUpTo(t, MAX_IN_FLIGHT)

\* the outer loop: all reads of the batch are sent at once
SendBatch(t) ==
  /\ pc[t] = "batch"
  /\ IF Len(out[t]) < range[t][2]
       THEN replies' = [replies EXCEPT ![t] = [i \in DOMAIN Wants(t) |-> Sent]] /\ Goto(t, "replies")
       ELSE Goto(t, "done") /\ UNCHANGED replies
  /\ UNCHANGED <<handles, opened, file, range, hid, doomed, out, lost, faults>>

\* The server answers read i, with fewer bytes than asked for if it likes.
Serve(t, i) ==
  LET f == opened[hid[t]]
      at == Wants(t)[i][1]
      most == Min({Wants(t)[i][2], SizeOf[f] - at})
      answers == IF f = NoFile THEN {Failed}
                 ELSE IF at >= SizeOf[f] THEN {Eof}
                 ELSE {Data(f, at, n) : n \in 1..most}
  IN  /\ pc[t] = "replies" /\ replies[t][i] = Sent
      /\ \/ /\ \E a \in answers : replies' = [replies EXCEPT ![t][i] = a]
            /\ UNCHANGED faults
         \/ Fault /\ replies' = [replies EXCEPT ![t][i] = Failed]
      /\ UNCHANGED <<handles, opened, pc, file, range, hid, doomed, out, lost>>

IsFull(t, i) ==
  replies[t][i].tag = "data" /\ Len(replies[t][i].bytes) = Wants(t)[i][2]

AssembleWith(t, Use(_, _)) ==
  LET n == Len(replies[t])
      stop == Min({n + 1} \cup {i \in 1..n : ~IsFull(t, i)})
      full == FlattenSeq([i \in 1..(stop - 1) |-> replies[t][i].bytes])
      tag == IF stop > n THEN "data" ELSE replies[t][stop].tag
      tail == IF stop > n \/ tag # "data" THEN <<>> ELSE replies[t][stop].bytes
  IN  /\ pc[t] = "replies" /\ \A i \in 1..n : replies[t][i] # Sent
      /\ out' = [out EXCEPT ![t] = @ \o Use(full, tail)]
      /\ replies' = [replies EXCEPT ![t] = <<>>]
      /\ Goto(t, CASE tag = "data"  -> "batch"
                   [] tag = "eof"   -> "done"
                   [] OTHER         -> "failed")
      /\ UNCHANGED <<handles, opened, file, range, hid, doomed, lost, faults>>

\* Mutant of Assemble: a short reply is dropped like the ones behind it.
AssembleDropsShort(t) == AssembleWith(t, LAMBDA full, tail : full)

\* Mutant of Assemble: the replies behind a short one are used as well.
AssembleUsesAll(t) ==
  AssembleWith(t, LAMBDA full, tail :
    FlattenSeq([i \in 1..Len(replies[t]) |->
                  IF replies[t][i].tag = "data" THEN replies[t][i].bytes ELSE <<>>]))

\* join_all is done.  The replies are used strictly in order up to the first
\* short one, and the loop asks again from there; EOF ends the read.
Assemble(t) == AssembleWith(t, LAMBDA full, tail : full \o tail)

\* The caller has its bytes or its error; the locals are gone.
Return(t) ==
  /\ pc[t] \in {"done", "failed"}
  /\ Goto(t, "idle")
  /\ file' = [file EXCEPT ![t] = AnyFile] /\ range' = [range EXCEPT ![t] = <<0, 0>>]
  /\ hid' = [hid EXCEPT ![t] = NoId] /\ out' = [out EXCEPT ![t] = <<>>]
  /\ lost' = [lost EXCEPT ![t] = FALSE]
  /\ UNCHANGED <<handles, opened, doomed, replies, faults>>

Step(t) ==
  \/ Open(t) \/ Push(t) \/ Close(t) \/ SendBatch(t) \/ Assemble(t) \/ Return(t)
  \/ \E i \in 1..Len(replies[t]) : Serve(t, i)

Next ==
  \/ \E t \in Threads : Step(t)
  \/ \E t \in Threads, f \in Files, r \in Ranges : Request(t, f, r)

Spec == Init /\ [][Next]_vars

-----------------------------------------------------------------------------
Returned(t) == pc[t] = "done"

IsExact(t) == \A i \in 1..Len(out[t]) : out[t][i] = <<file[t], range[t][1] + i - 1>>

ShortAtEof(t) == Len(out[t]) < range[t][2] => range[t][1] + Len(out[t]) >= SizeOf[file[t]]

\* read_range: what a read returns are the bytes of its own file from its
\* offset on, in order, and all of them up to the end of the file, however the
\* server cut and shuffled the replies and whoever else evicted handles; unless
\* its own handle was closed under it.
ReadIsExact ==
  /\ TypeOK
  /\ \A t \in Threads : Returned(t) /\ ~lost[t] => IsExact(t) /\ ShortAtEof(t)

\* Reply i of the batch in flight is still to come, is an error, or is what
\* the server has of the bytes asked for in the file of the read.
ReplyOK(t, i) ==
  LET at == Wants(t)[i][1]
      len == Wants(t)[i][2]
  IN  \/ replies[t][i] \in {Sent, Failed}
      \/ replies[t][i] = Eof /\ (~lost[t] => at >= SizeOf[file[t]])
      \/ \E f \in Files, n \in 1..len :
           replies[t][i] = Data(f, at, n) /\ (~lost[t] => f = file[t])

\* What is true of a read under way: its handle is open for its file and what
\* it has so far is exact, unless the handle was closed under it.
ReadOK(t) ==
  /\ pc[t] \in {"push", "close", "batch", "replies"} =>
       hid[t] \in Ids /\ (~lost[t] => opened[hid[t]] = file[t])
  /\ pc[t] = "idle" => out[t] = <<>>
  /\ pc[t] # "replies" => replies[t] = <<>>
  /\ pc[t] = "replies" =>
       /\ Len(out[t]) < range[t][2]
       /\ replies[t] = [i \in DOMAIN Wants(t) |-> replies[t][i]]
       /\ \A i \in DOMAIN Wants(t) : ReplyOK(t, i)
  /\ ~lost[t] => IsExact(t) /\ (pc[t] = "done" => ShortAtEof(t))

\* The inductive invariant behind ReadIsExact, beside HandleInv.
ReadInv == TypeOK /\ DOMAIN replies = Threads /\ \A t \in Threads : ReadOK(t)

\* Backend::read_at: "Short reads only happen at EOF."
ShortOnlyAtEof == \A t \in Threads : Returned(t) => ShortAtEof(t)

\* A handle in the cache is open on the server, for the file it is cached
\* under, and cached once: closing an evicted one never hits another.
CachedHandlesOpen ==
  /\ \A i \in 1..Len(handles) : opened[handles[i].id] = handles[i].file
  /\ \A i, j \in 1..Len(handles) :
       handles[i].id = handles[j].id \/ handles[i].file = handles[j].file => i = j

\* The handle a thread answers for: one it has opened and not yet cached, or
\* one it has evicted and not yet closed.
Claimed(t) ==
  CASE pc[t] = "push"  -> hid[t]
    [] pc[t] = "close" -> doomed[t]
    [] OTHER           -> NoId

\* A claimed handle is open, is no longer or not yet in the cache, and is
\* nobody else's.
ClaimOK(t) ==
  Claimed(t) # NoId =>
    /\ opened[Claimed(t)] # NoFile
    /\ pc[t] = "push" => opened[hid[t]] = file[t]
    /\ \A i \in 1..Len(handles) : handles[i].id # Claimed(t)
    /\ \A u \in Threads \ {t} : Claimed(u) # Claimed(t)

\* The inductive invariant behind CachedHandlesOpen: a handle id is in one
\* place only, the cache or the hands of one thread.
HandleInv ==
  /\ handles \in Seq([file : Files, id : Ids])
  /\ opened \in [Ids -> Files \cup {NoFile}]
  /\ pc \in [Threads -> {"idle", "open", "push", "close", "batch", "replies", "done", "failed"}]
  /\ DOMAIN file = Threads /\ DOMAIN hid = Threads /\ DOMAIN doomed = Threads
  /\ \A t \in Threads :
       /\ pc[t] # "idle" => file[t] \in Files
       /\ pc[t] \in {"push", "close"} => Claimed(t) \in Ids
       /\ ClaimOK(t)
  /\ CachedHandlesOpen

\* handle's doc: "Evicting a handle closes it, so a long mount over many dats
\* does not leave the server holding thousands of open files."  Besides the
\* cache's, only handles on their way in or out are open.
\* Does not hold as it stands: see "Other divergences" in the README.
HandlesBounded ==
  Cardinality(Ids \ Free) <= HANDLE_CACHE + Cardinality({t \in Threads : pc[t] \in {"push", "close"}})

\* The loop of read_range gets somewhere: it asks again only when the last
\* batch brought bytes, so that no way the server cuts its replies keeps a read
\* going round for ever.
EveryRoundAdvances ==
  [][\A t \in Threads :
       pc[t] = "replies" /\ pc'[t] = "batch" => Len(out'[t]) > Len(out[t])]_vars

=============================================================================
