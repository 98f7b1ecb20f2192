------------------------------ MODULE FuseView ------------------------------
(* fs.rs: the FUSE handlers that hand out inode numbers and directory         *)
(* listings (lookup, getattr, opendir, readdir, readdirplus, releasedir), run *)
(* by several session threads over one inode table and one table of open      *)
(* directories.                                                               *)
(*                                                                            *)
(* The tree is fixed; a call into it can fail, for it may have to read a blob *)
(* again.  The kernel is external: it asks about inodes it was told of, pages *)
(* through a directory by offset, one request at a time per open directory,   *)
(* and answers a stat itself while the attributes it was given are fresh.     *)
EXTENDS Integers, Sequences, FiniteSets

CONSTANTS Threads,     \* session threads (--threads)
          Readers,     \* directories user programs have open
          Keys,        \* tree::Key of every node
          Root,
          NoKey, NoReader,
          Kids,        \* [Keys -> Seq(Keys)]: Tree::entries
          Dirs,        \* the keys that are directories
          ParentOf,    \* [Keys -> Keys]: Tree::parent
          MaxOpens,    \* bound: opendirs in a behaviour
          Stats,       \* bound: keys whose attributes the kernel keeps at all
          TreeFails    \* calls into the tree may fail

ASSUME TreeAssumption ==
  /\ Root \in Dirs /\ Dirs \subseteq Keys /\ NoKey \notin Keys
  /\ Kids \in [Keys -> Seq(Keys)] /\ ParentOf \in [Keys -> Keys]
  /\ MaxOpens \in Nat /\ Stats \subseteq Keys /\ TreeFails \in BOOLEAN

VARIABLES keys, byKey,   \* Inodes: keys[n] is what inode n stands for
          next, open,    \* OpenDirs
          pc, op,        \* what each thread is doing, and for which request
          key,           \* the key it has to find the inode of
          list, at,      \* readdir: the listing and where in it the thread is
          sent,          \* readdir: the keys in the reply so far
          meta,          \* readdirplus: the attributes that go with them
          reader,        \* readdir and opendir: for whom
          rd,            \* kernel: the open directories
          known,         \* kernel: the inodes it was told of
          attr           \* kernel: attributes it holds, "real" or "zero", or none

inodes == <<keys, byKey>>
dirs == <<next, open>>
local == <<op, key, list, at, sent, meta, reader>>
vars == <<inodes, dirs, pc, local, rd, known, attr>>

Ino(k) == byKey[k]

Opened(d, h) == [dir |-> d, fh |-> h, pos |-> 0, seen |-> <<>>, busy |-> FALSE]

Closed == Opened(NoKey, 0)

Handles ==
  [dir : Dirs \cup {NoKey}, fh : Nat, pos : Nat, seen : Seq(Keys), busy : BOOLEAN]

TypeOK ==
  /\ keys \in Seq(Keys) /\ byKey \in [Keys -> Nat]
  /\ next \in Nat
  /\ DOMAIN open \subseteq 1..next /\ \A h \in DOMAIN open : open[h] \in Seq(Keys)
  /\ pc \in [Threads -> {"idle", "meta", "ino", "intern", "reply", "list", "insert"}]
  /\ op \in [Threads -> {"none", "lookup", "getattr", "opendir", "readdir", "readdirplus"}]
  /\ key \in [Threads -> Keys]
  /\ list \in [Threads -> Seq(Keys)] /\ at \in [Threads -> Nat]
  /\ sent \in [Threads -> Seq(Keys)]
  /\ rd \in [Readers -> Handles]
  /\ known \subseteq 1..Len(keys)

\* Inodes::new: the root is inode 1
Init ==
  /\ keys = <<Root>> /\ byKey = [k \in Keys |-> IF k = Root THEN 1 ELSE 0]
  /\ next = 0 /\ open = <<>>
  /\ pc = [t \in Threads |-> "idle"]
  /\ op = [t \in Threads |-> "none"]
  /\ key = [t \in Threads |-> Root]
  /\ list = [t \in Threads |-> <<>>]
  /\ at = [t \in Threads |-> 0]
  /\ sent = [t \in Threads |-> <<>>]
  /\ meta = [t \in Threads |-> <<>>]
  /\ reader = [t \in Threads |-> NoReader]
  /\ rd = [r \in Readers |-> Closed]
  /\ known = {1}
  /\ attr = [k \in Keys |-> "none"]

\* dir_entries: ".", "..", and the children
Listing(d) == <<d, ParentOf[d]>> \o Kids[d]

Goto(t, to) == pc' = [pc EXCEPT ![t] = to]

\* The reply is sent and the handler returns.
EndRequest(t) ==
  /\ Goto(t, "idle")
  /\ op' = [op EXCEPT ![t] = "none"] /\ key' = [key EXCEPT ![t] = Root]
  /\ list' = [list EXCEPT ![t] = <<>>] /\ at' = [at EXCEPT ![t] = 0]
  /\ sent' = [sent EXCEPT ![t] = <<>>] /\ meta' = [meta EXCEPT ![t] = <<>>]
  /\ reader' = [reader EXCEPT ![t] = NoReader]

Begin(t, o, k, to) ==
  /\ pc[t] = "idle"
  /\ Goto(t, to)
  /\ op' = [op EXCEPT ![t] = o] /\ key' = [key EXCEPT ![t] = k]

Children(d) == {Kids[d][i] : i \in DOMAIN Kids[d]}

\* lookup of a name in a directory the kernel knows; of the names that are not
\* there, only that they get ENOENT
Lookup(t, n, k) ==
  /\ n \in known /\ keys[n] \in Dirs /\ k \in Children(keys[n])
  /\ Begin(t, "lookup", k, "meta")
  /\ UNCHANGED <<inodes, dirs, list, at, sent, meta, reader, rd, known, attr>>

\* stat of an inode whose attributes the kernel does not hold
GetAttr(t, n) ==
  /\ n \in known /\ attr[keys[n]] = "none"
  /\ Begin(t, "getattr", keys[n], "meta")
  /\ UNCHANGED <<inodes, dirs, list, at, sent, meta, reader, rd, known, attr>>

\* attr_for: tree.meta, for which a failure is the reply, except that a listing
\* shows the entry all the same, with no size and no time
TreeMeta(t) ==
  /\ pc[t] = "meta"
  /\ \/ /\ op[t] # "readdirplus"
        /\ Goto(t, "ino")
        /\ UNCHANGED local
     \/ /\ op[t] = "readdirplus"
        /\ Goto(t, "reply")
        /\ \E a \in {"real"} \cup IF TreeFails /\ key[t] \in Stats THEN {"zero"} ELSE {} :
             meta' = [meta EXCEPT ![t] = Append(@, a)]
        /\ UNCHANGED <<op, key, list, at, sent, reader>>
     \/ TreeFails /\ op[t] # "readdirplus" /\ EndRequest(t)
  /\ UNCHANGED <<inodes, dirs, rd, known, attr>>

AfterIno(t) == IF op[t] = "readdirplus" THEN "meta" ELSE "reply"

\* Steam2Fs::ino, under the read lock
InoLookup(t) ==
  /\ pc[t] = "ino"
  /\ Goto(t, IF Ino(key[t]) # 0 THEN AfterIno(t) ELSE "intern")
  /\ UNCHANGED <<inodes, dirs, local, rd, known, attr>>

\* Mutant of Interned: off by one, over the last inode given.
InternedOverLast(t) ==
  /\ keys' = [keys EXCEPT ![Len(keys)] = key[t]]
  /\ byKey' = [byKey EXCEPT ![key[t]] = Len(keys)]

\* the rest of Inodes::intern: the next number
Interned(t) ==
  /\ keys' = Append(keys, key[t])
  /\ byKey' = [byKey EXCEPT ![key[t]] = Len(keys) + 1]

\* Mutant of Intern: not looked up again under the write lock.
InternBlindly(t) ==
  /\ pc[t] = "intern"
  /\ Interned(t)
  /\ Goto(t, AfterIno(t))
  /\ UNCHANGED <<dirs, local, rd, known, attr>>

\* Steam2Fs::ino, under the write lock: Inodes::intern looks again
Intern(t) ==
  /\ pc[t] = "intern"
  /\ IF Ino(key[t]) # 0 THEN UNCHANGED inodes ELSE Interned(t)
  /\ Goto(t, AfterIno(t))
  /\ UNCHANGED <<dirs, local, rd, known, attr>>

ReplyAttr(t) ==
  /\ pc[t] = "reply" /\ op[t] \in {"lookup", "getattr"}
  /\ known' = known \cup {Ino(key[t])}
  /\ attr' = [k \in Keys |-> IF k = key[t] /\ k \in Stats THEN "real" ELSE attr[k]]
  /\ EndRequest(t)
  /\ UNCHANGED <<inodes, dirs, rd>>

\* opendir: the listing is built with no lock held
OpenDir(t, r, n) ==
  /\ rd[r] = Closed
  /\ n \in known /\ keys[n] \in Dirs
  /\ next + Cardinality({u \in Threads : op[u] = "opendir"}) < MaxOpens
  /\ Begin(t, "opendir", keys[n], "list")
  /\ reader' = [reader EXCEPT ![t] = r]
  /\ rd' = [rd EXCEPT ![r].busy = TRUE]
  /\ UNCHANGED <<inodes, dirs, list, at, sent, meta, known, attr>>

\* tree.entries; if it fails, the program gets the error
ListDir(t) ==
  LET r == reader[t]
  IN  /\ pc[t] = "list"
      /\ \/ /\ list' = [list EXCEPT ![t] = Listing(key[t])]
            /\ Goto(t, IF op[t] = "opendir" THEN "insert" ELSE "ino")
            /\ key' = [key EXCEPT ![t] = IF op[t] = "opendir" THEN @
                                         ELSE Listing(@)[at[t] + 1]]
            /\ UNCHANGED <<op, at, sent, meta, reader, rd>>
         \/ /\ TreeFails /\ EndRequest(t)
            /\ rd' = [rd EXCEPT ![r] = IF op[t] = "opendir" THEN Closed
                                       ELSE [@ EXCEPT !.busy = FALSE]]
      /\ UNCHANGED <<inodes, dirs, known, attr>>

\* the listing goes into OpenDirs under a number never used before
InsertDir(t) ==
  LET h == next + 1
  IN  /\ pc[t] = "insert"
      /\ next' = h
      /\ open' = [i \in DOMAIN open \cup {h} |-> IF i = h THEN list[t] ELSE open[i]]
      /\ rd' = [rd EXCEPT ![reader[t]] = Opened(key[t], h)]
      /\ EndRequest(t)
      /\ UNCHANGED <<inodes, known, attr>>

\* A directory that is read without having been opened through us.
OpenElsewhere(r, n) ==
  /\ rd[r] = Closed
  /\ n \in known /\ keys[n] \in Dirs
  /\ rd' = [rd EXCEPT ![r] = Opened(keys[n], 0)]
  /\ UNCHANGED <<inodes, dirs, pc, local, known, attr>>

\* readdir and readdirplus: dir_list takes the listing of the handle, or else
\* builds one from the inode
ReadDir(t, r, o) ==
  LET h == rd[r].fh
      have == h \in DOMAIN open
      found == IF have THEN open[h] ELSE <<>>
      pos == rd[r].pos
  IN  /\ pc[t] = "idle"
      /\ rd[r].dir # NoKey /\ ~rd[r].busy
      /\ pos < Len(Listing(rd[r].dir))
      /\ ~have \/ pos < Len(found)
      /\ op' = [op EXCEPT ![t] = o]
      /\ reader' = [reader EXCEPT ![t] = r] /\ at' = [at EXCEPT ![t] = pos]
      /\ list' = [list EXCEPT ![t] = found]
      /\ key' = [key EXCEPT ![t] = IF have THEN found[pos + 1] ELSE rd[r].dir]
      /\ Goto(t, IF have THEN "ino" ELSE "list")
      /\ rd' = [rd EXCEPT ![r].busy = TRUE]
      /\ UNCHANGED <<inodes, dirs, sent, meta, known, attr>>

\* The reply goes out: the kernel goes on from the last entry in it, and takes
\* over the inodes and attributes in it, but for "." and "..".
PageDone(t, page, pos) ==
  LET r == reader[t]
      plus == {j \in 1..Len(page) : op[t] = "readdirplus" /\ rd[r].pos + j > 2}
      told(k) == {j \in plus : page[j] = k /\ k \in Stats}
  IN  /\ rd' = [rd EXCEPT ![r] = [dir |-> @.dir, fh |-> @.fh, pos |-> pos, seen |-> @.seen \o page,
                               busy |-> FALSE]]
      /\ known' = known \cup {Ino(page[j]) : j \in plus}
      /\ attr' = [k \in Keys |-> IF told(k) = {} THEN attr[k]
                                 ELSE meta[t][CHOOSE j \in told(k) : TRUE]]
      /\ EndRequest(t)

\* reply.add of entry i, whose offset is i + 1; the next entry follows, if any
AddEntry(t) ==
  LET page == Append(sent[t], key[t])
      i == at[t] + 1
  IN  /\ pc[t] = "reply" /\ op[t] \in {"readdir", "readdirplus"}
      /\ \/ /\ i = Len(list[t])
            /\ PageDone(t, page, i)
         \/ /\ i < Len(list[t])
            /\ sent' = [sent EXCEPT ![t] = page] /\ at' = [at EXCEPT ![t] = i]
            /\ key' = [key EXCEPT ![t] = list[t][i + 1]]
            /\ Goto(t, "ino")
            /\ UNCHANGED <<op, list, meta, reader, rd, known, attr>>
      /\ UNCHANGED <<inodes, dirs>>

\* Mutant of BufferFull: the offset is past the entry that did not fit.
BufferFullSkips(t) ==
  /\ pc[t] = "reply" /\ op[t] \in {"readdir", "readdirplus"}
  /\ sent[t] # <<>>
  /\ PageDone(t, sent[t], at[t] + 1)
  /\ UNCHANGED <<inodes, dirs>>

\* reply.add finds no room for entry i, and the reply goes without it.  A
\* buffer holds at least one entry.
BufferFull(t) ==
  /\ pc[t] = "reply" /\ op[t] \in {"readdir", "readdirplus"}
  /\ sent[t] # <<>>
  /\ PageDone(t, sent[t], at[t])
  /\ UNCHANGED <<inodes, dirs>>

ReleaseWith(r, left) ==
  /\ rd[r].dir # NoKey /\ ~rd[r].busy
  /\ open' = [h \in left |-> open[h]]
  /\ rd' = [rd EXCEPT ![r] = Closed]
  /\ UNCHANGED <<inodes, next, pc, local, known, attr>>

\* releasedir
ReleaseDir(r) == ReleaseWith(r, DOMAIN open \ {rd[r].fh})

\* TTL has passed for an inode's attributes.
Expire(k) ==
  /\ attr[k] # "none"
  /\ attr' = [attr EXCEPT ![k] = "none"]
  /\ UNCHANGED <<inodes, dirs, pc, local, rd, known>>

Step(t) ==
  \/ TreeMeta(t) \/ InoLookup(t) \/ Intern(t) \/ ReplyAttr(t) \/ ListDir(t) \/ InsertDir(t)
  \/ AddEntry(t) \/ BufferFull(t)

Next ==
  \/ \E t \in Threads : Step(t)
  \/ \E t \in Threads, n \in known : GetAttr(t, n) \/ \E k \in Keys : Lookup(t, n, k)
  \/ \E t \in Threads, r \in Readers, n \in known : OpenDir(t, r, n)
  \/ \E r \in Readers, n \in known : OpenElsewhere(r, n)
  \/ \E t \in Threads, r \in Readers, o \in {"readdir", "readdirplus"} : ReadDir(t, r, o)
  \/ \E r \in Readers : ReleaseDir(r)
  \/ \E k \in Keys : Expire(k)

Spec == Init /\ [][Next]_vars

-----------------------------------------------------------------------------
\* Steam2Fs::ino looks under the read lock and interns under the write lock:
\* whatever ran in between, a key has one inode and an inode one key.
InodesOneToOne ==
  /\ \A n \in 1..Len(keys) : byKey[keys[n]] = n
  /\ \A k \in Keys : byKey[k] # 0 => byKey[k] <= Len(keys) /\ keys[byKey[k]] = k

\* A thread that has asked for an inode has one, and so has every entry in a
\* reply under way; a listing to be built is one of a directory that reaches
\* as far as the offset asked for.
Progress(t) ==
  /\ pc[t] = "reply" \/ (pc[t] = "meta" /\ op[t] # "lookup") => byKey[key[t]] # 0
  /\ \A j \in 1..Len(sent[t]) : byKey[sent[t][j]] # 0
  /\ pc[t] \in {"list", "insert"} => key[t] \in Dirs
  /\ pc[t] = "list" /\ op[t] # "opendir" => at[t] < Len(Listing(key[t]))

\* The inductive invariant behind InodesOneToOne and InodesStable.
IInv ==
  /\ TypeOK
  /\ InodesOneToOne
  /\ \A t \in Threads : Progress(t)

\* The kernel keeps inode numbers for as long as it likes: none is ever given
\* to another node.
InodesStable ==
  [][\A n \in 1..Len(keys) : n <= Len(keys)' /\ keys'[n] = keys[n]]_vars

\* "paging through a big directory": page after page, a program sees the
\* entries of its own directory in order, none left out and none twice,
\* whichever threads serve the pages and whoever opens and closes others.  And
\* OpenDirs holds the listings of the directories that are open, no others.
ListingExact ==
  /\ \A r \in Readers :
       rd[r].dir # NoKey =>
         rd[r].seen = SubSeq(Listing(rd[r].dir), 1, rd[r].pos)
  /\ \A h \in DOMAIN open : \E r \in Readers : rd[r].fh = h

\* readdirplus: "if it does not, still show the name rather than dropping it
\* from the listing, and let a later stat report the error": what the kernel
\* answers a later stat with is never the made-up size.
StatReportsError ==
  \A n \in known : attr[keys[n]] # "zero"

=============================================================================
