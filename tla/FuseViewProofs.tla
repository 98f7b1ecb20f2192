--------------------------- MODULE FuseViewProofs ---------------------------
(* Proofs about FuseView, for any tree and any number of session threads and  *)
(* open directories: the inode table stays one to one and only grows, and a   *)
(* program that pages through a directory sees its listing in order.          *)
EXTENDS FuseView, TLAPS

\* Zenon proves the leaves that name no prover.
USE ZenonT(60)

\* s is the first p entries of L.
Begins(s, L, p) == Len(s) = p /\ \A j \in 1..p : s[j] = L[j]

\* page is the entries of L from position p up to position i.
Follows(page, L, p, i) ==
  Len(page) = i - p /\ \A j \in 1..Len(page) : page[j] = L[p + j]

\* The length of two sequences in a row.
LEMMA LenOfBoth ==
  ASSUME NEW s \in Seq(Keys), NEW page \in Seq(Keys)
  PROVE  Len(s \o page) = Len(s) + Len(page)
BY SMTT(30)

\* The start of a listing and what follows it are a longer start.
LEMMA GoesOn ==
  ASSUME NEW L, NEW s \in Seq(Keys), NEW page \in Seq(Keys), NEW p \in Nat, NEW i \in Nat,
         Begins(s, L, p), Follows(page, L, p, i)
  PROVE  Begins(s \o page, L, i)
<1> USE DEF Begins, Follows
<1>1. Len(page) \in Nat /\ p + Len(page) = i /\ Len(s \o page) = Len(s) + Len(page)
  BY SMTT(30), LenOfBoth
<1>2. ASSUME NEW j \in 1..i, j <= p PROVE (s \o page)[j] = L[j]
  BY SMTT(30), <1>1, <1>2
<1>3. ASSUME NEW j \in 1..i, j > p PROVE (s \o page)[j] = L[j]
  <2>1. j - p \in 1..Len(page) /\ p + (j - p) = j
    BY SMTT(30), <1>1, <1>3
  <2>2. (s \o page)[j] = page[j - p]
    BY SMTT(30), <1>1, <1>3
  <2> QED
    BY <2>1, <2>2
<1> QED
  BY SMTT(30), <1>1, <1>2, <1>3

\* One more entry of the listing makes a longer page.
LEMMA OneMore ==
  ASSUME NEW L, NEW s \in Seq(Keys), NEW k \in Keys, NEW p \in Nat, NEW i \in Nat,
         p <= i, k = L[i + 1], Follows(s, L, p, i)
  PROVE  Append(s, k) \in Seq(Keys) /\ Follows(Append(s, k), L, p, i + 1)
<1> USE DEF Follows
<1>1. /\ Append(s, k) \in Seq(Keys) /\ Len(Append(s, k)) = Len(s) + 1
      /\ Append(s, k)[Len(s) + 1] = k /\ \A j \in 1..Len(s) : Append(s, k)[j] = s[j]
  BY SMTT(30)
<1>2. Len(s) \in Nat /\ p + (Len(s) + 1) = i + 1 /\ Len(s) + 1 = (i + 1) - p
  BY SMTT(30)
<1>3. \A j \in 1..(Len(s) + 1) : j = Len(s) + 1 \/ j \in 1..Len(s)
  BY SMTT(30), <1>2
<1> QED
  BY <1>1, <1>2, <1>3

\* Equal sequences, position by position.
LEMMA StartOf ==
  ASSUME NEW L \in Seq(Keys), NEW n \in 0..Len(L), NEW s \in Seq(Keys), Len(s) = n,
         \A j \in 1..n : s[j] = L[j]
  PROVE  s = SubSeq(L, 1, n)
<1>1. SubSeq(L, 1, n) \in Seq(Keys) /\ Len(SubSeq(L, 1, n)) = n
      /\ \A j \in 1..n : SubSeq(L, 1, n)[j] = L[j]
  BY SMTT(30)
<1> QED
  BY SMTT(30), <1>1

\* dir_entries lists keys of the tree.
LEMMA ListingType ==
  ASSUME NEW d \in Keys
  PROVE  Listing(d) \in Seq(Keys)
BY SMTT(30), TreeAssumption DEF Listing

\* The types of what the handlers keep of their requests.
LocalType ==
  /\ pc \in [Threads -> {"idle", "meta", "ino", "intern", "reply", "list", "insert"}]
  /\ op \in [Threads -> {"none", "lookup", "getattr", "opendir", "readdir", "readdirplus"}]
  /\ key \in [Threads -> Keys]
  /\ list \in [Threads -> Seq(Keys)] /\ at \in [Threads -> Nat]
  /\ sent \in [Threads -> Seq(Keys)]

\* The types of Inodes.
InodesType == keys \in Seq(Keys) /\ byKey \in [Keys -> Nat]

\* The types of OpenDirs.
DirsType ==
  next \in Nat /\ DOMAIN open \subseteq 1..next /\ \A h \in DOMAIN open : open[h] \in Seq(Keys)

\* The handlers but t's stay where they are.
OthersStay(t) ==
  \A u \in Threads \ {t} :
    pc'[u] = pc[u] /\ op'[u] = op[u] /\ key'[u] = key[u] /\ at'[u] = at[u] /\ sent'[u] = sent[u]

\* A directory is opened at its start.
LEMMA OpenedType ==
  /\ \A d \in Dirs \cup {NoKey}, h \in Nat : Opened(d, h) \in Handles
  /\ Closed \in Handles
BY SMTT(30) DEF Opened, Closed, Handles

\* Marking an open directory busy, or no longer busy, leaves the rest of it.
LEMMA BusyType ==
  ASSUME NEW h \in Handles, NEW b \in BOOLEAN
  PROVE  [h EXCEPT !.busy = b] \in Handles
BY DEF Handles

\* What a thread relies on outlives the steps of the others, for an inode once
\* given stays.
LEMMA OthersKeepProgress ==
  ASSUME IInv, NEW u \in Threads,
         pc'[u] = pc[u], op'[u] = op[u], key'[u] = key[u], at'[u] = at[u], sent'[u] = sent[u],
         \A k \in Keys : byKey[k] # 0 => byKey'[k] # 0
  PROVE  Progress(u)'
<1>1. Progress(u) /\ key[u] \in Keys /\ sent[u] \in Seq(Keys)
  BY DEF IInv, TypeOK
<1>2. \A j \in 1..Len(sent[u]) : sent[u][j] \in Keys
  BY SMTT(30), <1>1
<1> QED
  BY <1>1, <1>2 DEF Progress, Listing

\* Before its first step a mount has one inode, the root's.
LEMMA InitIInv ==
  Init => IInv
<1> SUFFICES ASSUME Init PROVE IInv
  OBVIOUS
<1>1. TypeOK
  <2>1. Closed \in Handles
    BY OpenedType
  <2>2. keys \in Seq(Keys) /\ Len(keys) = 1 /\ byKey \in [Keys -> Nat]
    BY SMTT(30), TreeAssumption DEF Init
  <2>3. DOMAIN open = {}
    BY SMTT(30) DEF Init
  <2> QED
    BY SMTT(30), <2>1, <2>2, <2>3, TreeAssumption DEF Init, TypeOK
<1>2. InodesOneToOne
  BY SMTT(30), TreeAssumption DEF Init, InodesOneToOne
<1>3. \A t \in Threads : Progress(t)
  BY SMTT(30) DEF Init, Progress
<1> QED
  BY <1>1, <1>2, <1>3 DEF IInv

\* A step of one handler, which may give out an inode and takes none away.
LEMMA GrowIInv ==
  ASSUME IInv, NEW t \in Threads, InodesType', InodesOneToOne',
         \A k \in Keys : byKey[k] # 0 => byKey'[k] # 0,
         DirsType', LocalType', rd' \in [Readers -> Handles], known' \subseteq 1..Len(keys'),
         OthersStay(t), Progress(t)'
  PROVE  IInv'
<1>1. TypeOK'
  BY DEF TypeOK, DirsType, LocalType, InodesType
<1>2. \A u \in Threads : Progress(u)'
  BY OthersKeepProgress DEF OthersStay
<1> QED
  BY <1>1, <1>2 DEF IInv

\* A step of one handler that gives out no inode.
LEMMA StepIInv ==
  ASSUME IInv, NEW t \in Threads, UNCHANGED inodes, DirsType', LocalType',
         rd' \in [Readers -> Handles], known' \subseteq 1..Len(keys),
         OthersStay(t), Progress(t)'
  PROVE  IInv'
<1>1. keys' = keys /\ byKey' = byKey
  BY DEF inodes
<1>2. InodesType' /\ InodesOneToOne'
  BY <1>1 DEF IInv, TypeOK, InodesType, InodesOneToOne
<1> QED
  BY <1>1, <1>2, GrowIInv

\* What IInv says of the variables a handler's step leaves.
LEMMA IInvTypes ==
  ASSUME IInv
  PROVE  /\ LocalType /\ DirsType /\ rd \in [Readers -> Handles] /\ known \subseteq 1..Len(keys)
         /\ UNCHANGED dirs => DirsType'
BY DEF IInv, TypeOK, LocalType, DirsType, dirs

\* A handler returns: it keeps no key, no listing and no reply.
LEMMA ReturnIInv ==
  ASSUME IInv, NEW t \in Threads, EndRequest(t), UNCHANGED inodes, DirsType',
         rd' \in [Readers -> Handles], known' \subseteq 1..Len(keys)
  PROVE  IInv'
<1>1. LocalType' /\ OthersStay(t) /\ pc'[t] = "idle" /\ sent'[t] = <<>>
  BY SMTT(30), IInvTypes, TreeAssumption DEF LocalType, OthersStay, EndRequest, Goto
<1>2. Progress(t)'
  BY SMTT(30), <1>1 DEF Progress
<1> QED
  BY <1>1, <1>2, StepIInv

\* lookup and getattr start with a key of the tree; getattr's has an inode.
LEMMA BeginStepsIInv ==
  ASSUME IInv, NEW t \in Threads, NEW n \in known,
         GetAttr(t, n) \/ \E k \in Keys : Lookup(t, n, k)
  PROVE  IInv'
<1>1. keys[n] \in Keys /\ byKey[keys[n]] # 0
  BY SMTT(30) DEF IInv, TypeOK, InodesOneToOne
<1>2. PICK k \in Keys, o \in {"lookup", "getattr"} :
        /\ UNCHANGED <<inodes, dirs, list, at, sent, rd, known>>
        /\ pc' = [pc EXCEPT ![t] = "meta"] /\ key' = [key EXCEPT ![t] = k]
        /\ op' = [op EXCEPT ![t] = o] /\ (o = "getattr" => byKey[k] # 0)
  BY <1>1 DEF GetAttr, Lookup, Begin, Goto
<1>3. /\ LocalType' /\ OthersStay(t)
      /\ pc'[t] = "meta" /\ key'[t] = k /\ op'[t] = o
  BY <1>2, IInvTypes DEF LocalType, OthersStay
<1>4. Progress(t)'
  BY <1>2, <1>3 DEF IInv, Progress, inodes
<1> QED
  BY <1>2, <1>3, <1>4, IInvTypes, StepIInv

\* tree.meta and Steam2Fs::ino under the read lock move one thread along.
LEMMA LookStepsIInv ==
  ASSUME IInv, NEW t \in Threads, TreeMeta(t) \/ InoLookup(t)
  PROVE  IInv'
<1>1. UNCHANGED <<inodes, dirs, rd, known>>
  BY DEF TreeMeta, InoLookup
<1>2. CASE EndRequest(t)
  BY <1>1, <1>2, IInvTypes, ReturnIInv
<1>3. CASE ~EndRequest(t)
  <2>1. PICK to \in {"ino", "reply", "intern", "meta"} :
          /\ UNCHANGED <<op, key, list, at, sent>> /\ pc' = [pc EXCEPT ![t] = to]
          /\ to = "reply" \/ (to = "meta" /\ op[t] # "lookup") => byKey[key[t]] # 0
    <3>1. CASE TreeMeta(t)
      BY <1>3, <3>1 DEF TreeMeta, Goto, local, IInv, Progress
    <3>2. CASE InoLookup(t)
      BY <3>2 DEF InoLookup, AfterIno, Ino, Goto, local
    <3> QED
      BY <3>1, <3>2
  <2>2. LocalType' /\ OthersStay(t) /\ pc'[t] = to
    BY <2>1, IInvTypes DEF LocalType, OthersStay
  <2>3. Progress(t)'
    BY <1>1, <2>1, <2>2 DEF IInv, Progress, inodes
  <2> QED
    BY <1>1, <2>2, <2>3, IInvTypes, StepIInv
<1> QED
  BY <1>2, <1>3

\* Inodes::intern of a key that has no inode: the next number is the key's, and
\* the numbers given before stand for what they stood for.
LEMMA InternedTable ==
  ASSUME InodesType, InodesOneToOne, NEW t \in Threads, key[t] \in Keys, byKey[key[t]] = 0,
         Interned(t)
  PROVE  /\ InodesType' /\ Len(keys') = Len(keys) + 1 /\ byKey'[key[t]] = Len(keys) + 1
         /\ keys'[Len(keys) + 1] = key[t]
         /\ \A n \in 1..Len(keys) : keys'[n] = keys[n] /\ keys[n] \in Keys /\ keys[n] # key[t]
         /\ \A k \in Keys \ {key[t]} : byKey'[k] = byKey[k]
BY SMTT(30) DEF Interned, InodesType, InodesOneToOne

\* So a key still has one inode and an inode one key.
LEMMA InternedOneToOne ==
  ASSUME InodesType, InodesOneToOne, NEW t \in Threads, key[t] \in Keys, byKey[key[t]] = 0,
         Interned(t)
  PROVE  InodesOneToOne'
<1>1. ASSUME NEW n \in 1..Len(keys') PROVE byKey'[keys'[n]] = n
  <2>1. n = Len(keys) + 1 \/ n \in 1..Len(keys)
    BY SMTT(30), InternedTable DEF InodesType
  <2> QED
    BY SMTT(30), <2>1, InternedTable DEF InodesOneToOne
<1>2. ASSUME NEW k \in Keys, byKey'[k] # 0
      PROVE  byKey'[k] <= Len(keys') /\ keys'[byKey'[k]] = k
  <2>1. CASE k = key[t]
    BY SMTT(30), <2>1, InternedTable DEF InodesType
  <2>2. CASE k # key[t]
    <3>1. byKey'[k] = byKey[k] /\ byKey[k] \in 1..Len(keys) /\ keys[byKey[k]] = k
      BY SMTT(30), <1>2, <2>2, InternedTable DEF InodesType, InodesOneToOne
    <3> QED
      BY SMTT(30), <3>1, InternedTable DEF InodesType
  <2> QED
    BY <2>1, <2>2
<1> QED
  BY <1>1, <1>2 DEF InodesOneToOne

\* Intern looks again under the write lock: whatever other threads interned
\* since this one looked under the read lock, its key has an inode now.
LEMMA InternTable ==
  ASSUME InodesType, InodesOneToOne, NEW t \in Threads, key[t] \in Keys, Intern(t)
  PROVE  /\ InodesType' /\ InodesOneToOne' /\ byKey'[key[t]] # 0 /\ Len(keys) <= Len(keys')
         /\ \A k \in Keys : byKey[k] # 0 => byKey'[k] # 0
<1>1. CASE byKey[key[t]] # 0
  <2>1. keys' = keys /\ byKey' = byKey
    BY <1>1 DEF Intern, Ino, inodes
  <2> QED
    BY SMTT(30), <1>1, <2>1 DEF InodesType, InodesOneToOne
<1>2. CASE byKey[key[t]] = 0
  <2>1. Interned(t)
    BY <1>2 DEF Intern, Ino
  <2> QED
    BY SMTT(30), <1>2, <2>1, InternedTable, InternedOneToOne DEF InodesType
<1> QED
  BY <1>1, <1>2 DEF InodesType

\* A handler that interned its key goes on with it.
LEMMA InternIInv ==
  ASSUME IInv, NEW t \in Threads, Intern(t)
  PROVE  IInv'
<1>1. PICK to \in {"meta", "reply"} :
        UNCHANGED <<dirs, op, key, list, at, sent, rd, known>> /\ pc' = [pc EXCEPT ![t] = to]
  BY DEF Intern, AfterIno, Goto, local
<1>2. InodesType /\ InodesOneToOne /\ key[t] \in Keys /\ sent[t] \in Seq(Keys)
  BY DEF IInv, TypeOK, InodesType
<1>3. LocalType' /\ OthersStay(t) /\ pc'[t] = to /\ known' \subseteq 1..Len(keys')
  BY SMTT(30), <1>1, <1>2, IInvTypes, InternTable DEF LocalType, OthersStay, InodesType
<1>4. Progress(t)'
  <2>1. \A j \in 1..Len(sent[t]) : sent[t][j] \in Keys /\ byKey[sent[t][j]] # 0
    BY SMTT(30), <1>2 DEF IInv, Progress
  <2> QED
    BY <1>1, <1>2, <1>3, <2>1, InternTable DEF Progress
<1> QED
  BY <1>1, <1>2, <1>3, <1>4, InternTable, IInvTypes, GrowIInv

\* The replies of lookup and getattr tell the kernel an inode that exists.
LEMMA ReplyAttrIInv ==
  ASSUME IInv, NEW t \in Threads, ReplyAttr(t)
  PROVE  IInv'
<1>1. byKey[key[t]] \in 1..Len(keys)
  BY SMTT(30) DEF ReplyAttr, IInv, TypeOK, InodesOneToOne, Progress
<1>2. EndRequest(t) /\ UNCHANGED <<inodes, dirs, rd>> /\ known' \subseteq 1..Len(keys)
  BY <1>1, IInvTypes DEF ReplyAttr, Ino
<1> QED
  BY <1>2, IInvTypes, ReturnIInv

\* opendir starts on a directory.
LEMMA OpenDirIInv ==
  ASSUME IInv, NEW t \in Threads, NEW r \in Readers, NEW n \in known, OpenDir(t, r, n)
  PROVE  IInv'
<1>1. PICK k \in Dirs :
        /\ UNCHANGED <<inodes, dirs, list, at, sent, known>>
        /\ pc' = [pc EXCEPT ![t] = "list"] /\ op' = [op EXCEPT ![t] = "opendir"]
        /\ key' = [key EXCEPT ![t] = k]
        /\ rd' = [rd EXCEPT ![r].busy = TRUE]
  BY DEF OpenDir, Begin, Goto
<1>2. LocalType' /\ OthersStay(t) /\ pc'[t] = "list" /\ op'[t] = "opendir" /\ key'[t] = k
  BY <1>1, IInvTypes, TreeAssumption DEF LocalType, OthersStay
<1>3. Progress(t)'
  BY <1>1, <1>2 DEF IInv, Progress, inodes
<1>4. rd' \in [Readers -> Handles]
  BY <1>1, IInvTypes, BusyType
<1> QED
  BY <1>1, <1>2, <1>3, <1>4, IInvTypes, StepIInv

\* The directory of a program whose request fails is closed or as it was.
LEMMA ListDirReader ==
  ASSUME IInv, NEW t \in Threads, ListDir(t)
  PROVE  rd' \in [Readers -> Handles]
<1>1. Closed \in Handles /\ rd \in [Readers -> Handles]
  BY OpenedType, IInvTypes
<1>2. rd' = rd \/ \E r \in {reader[t]} : rd' = [rd EXCEPT ![r] = Closed]
              \/ rd' = [rd EXCEPT ![r] = [rd[r] EXCEPT !.busy = FALSE]]
  BY <1>1 DEF ListDir
<1> QED
  BY <1>1, <1>2, BusyType

\* A listing built holds keys of the tree and reaches as far as the offset.
LEMMA ListDirIInv ==
  ASSUME IInv, NEW t \in Threads, ListDir(t)
  PROVE  IInv'
<1>1. UNCHANGED <<inodes, dirs, known>>
  BY DEF ListDir
<1>2. CASE EndRequest(t)
  BY <1>1, <1>2, ListDirReader, IInvTypes, ReturnIInv
<1>3. CASE ~EndRequest(t)
  <2>1. /\ key[t] \in Dirs /\ Listing(key[t]) \in Seq(Keys) /\ at[t] \in Nat
        /\ op[t] # "opendir" => at[t] + 1 \in 1..Len(Listing(key[t]))
    <3>1. /\ key[t] \in Dirs /\ at[t] \in Nat
          /\ op[t] # "opendir" => at[t] < Len(Listing(key[t]))
      BY DEF ListDir, IInv, TypeOK, Progress
    <3> QED
      BY SMTT(30), <3>1, ListingType, TreeAssumption
  <2>2. PICK k \in Keys, to \in {"insert", "ino"} :
          /\ UNCHANGED <<op, at, sent>>
          /\ list' = [list EXCEPT ![t] = Listing(key[t])]
          /\ pc' = [pc EXCEPT ![t] = to] /\ key' = [key EXCEPT ![t] = k]
          /\ to = "insert" => k \in Dirs
    <3>1. op[t] # "opendir" => Listing(key[t])[at[t] + 1] \in Keys
      BY SMTT(30), <2>1
    <3> QED
      BY <1>3, <2>1, <3>1, TreeAssumption DEF ListDir, Goto
  <2>3. LocalType' /\ OthersStay(t) /\ pc'[t] = to /\ key'[t] = k
    BY <2>1, <2>2, IInvTypes DEF LocalType, OthersStay
  <2>4. Progress(t)'
    BY <1>1, <2>2, <2>3 DEF IInv, Progress, inodes
  <2> QED
    BY <1>1, <2>3, <2>4, ListDirReader, IInvTypes, StepIInv
<1> QED
  BY <1>2, <1>3

\* opendir ends with a fresh handle on a listing of keys of the tree.
LEMMA InsertDirIInv ==
  ASSUME IInv, NEW t \in Threads, InsertDir(t)
  PROVE  IInv'
<1>1. EndRequest(t) /\ UNCHANGED <<inodes, known>>
  BY DEF InsertDir
<1>2. DirsType'
  BY SMTT(30), IInvTypes DEF InsertDir, DirsType, LocalType
<1>3. Opened(key[t], next + 1) \in Handles
  BY SMTT(30), OpenedType DEF IInv, TypeOK, Progress, InsertDir
<1>4. rd' \in [Readers -> Handles]
  BY <1>3, IInvTypes DEF InsertDir
<1> QED
  BY <1>1, <1>2, <1>4, IInvTypes, ReturnIInv

\* What dir_list finds for a readdir at an offset: the listing of the handle, or
\* a directory to list.
LEMMA ReadDirFinds ==
  ASSUME IInv, NEW t \in Threads, NEW r \in Readers, NEW o \in {"readdir", "readdirplus"},
         ReadDir(t, r, o)
  PROVE  \E found \in Seq(Keys), k \in Keys, p \in Nat, to \in {"ino", "list"} :
           /\ op' = [op EXCEPT ![t] = o] /\ at' = [at EXCEPT ![t] = p]
           /\ list' = [list EXCEPT ![t] = found] /\ key' = [key EXCEPT ![t] = k]
           /\ pc' = [pc EXCEPT ![t] = to]
           /\ to = "list" => k \in Dirs /\ p < Len(Listing(k))
<1> DEFINE h == rd[r].fh
           have == h \in DOMAIN open
           found == IF have THEN open[h] ELSE <<>>
           pos == rd[r].pos
           k == IF have THEN found[pos + 1] ELSE rd[r].dir
           to == IF have THEN "ino" ELSE "list"
<1>1. rd[r] \in Handles /\ rd[r].dir # NoKey /\ found \in Seq(Keys)
  BY SMTT(30) DEF IInv, TypeOK, ReadDir
<1>2. rd[r].dir \in Dirs /\ rd[r].dir \in Keys /\ pos \in Nat
  BY <1>1, TreeAssumption DEF Handles
<1>3. have => pos < Len(found)
  BY DEF ReadDir
<1>4. k \in Keys
  BY SMTT(30), <1>1, <1>2, <1>3
<1>5. /\ op' = [op EXCEPT ![t] = o] /\ at' = [at EXCEPT ![t] = pos]
      /\ list' = [list EXCEPT ![t] = found] /\ key' = [key EXCEPT ![t] = k]
      /\ pc' = [pc EXCEPT ![t] = to] /\ pos < Len(Listing(rd[r].dir))
  BY DEF ReadDir, Goto
<1>6. to \in {"ino", "list"} /\ (to = "list" => k = rd[r].dir)
  BY DEF k
<1> HIDE DEF h, have, found, pos, k, to
<1> QED
  BY <1>1, <1>2, <1>4, <1>5, <1>6

\* readdir starts at an entry of the listing, or on a directory to list.
LEMMA ReadDirIInv ==
  ASSUME IInv, NEW t \in Threads, NEW r \in Readers, NEW o \in {"readdir", "readdirplus"},
         ReadDir(t, r, o)
  PROVE  IInv'
<1>1. UNCHANGED <<inodes, dirs, sent, known>> /\ rd' = [rd EXCEPT ![r].busy = TRUE]
  BY DEF ReadDir
<1>2. PICK found \in Seq(Keys), k \in Keys, p \in Nat, to \in {"ino", "list"} :
        /\ op' = [op EXCEPT ![t] = o] /\ at' = [at EXCEPT ![t] = p]
        /\ list' = [list EXCEPT ![t] = found] /\ key' = [key EXCEPT ![t] = k]
        /\ pc' = [pc EXCEPT ![t] = to]
        /\ to = "list" => k \in Dirs /\ p < Len(Listing(k))
  BY SMTT(30), ReadDirFinds
<1>3. LocalType' /\ OthersStay(t) /\ pc'[t] = to /\ key'[t] = k /\ at'[t] = p
  BY <1>1, <1>2, IInvTypes DEF LocalType, OthersStay
<1>4. Progress(t)'
  BY <1>1, <1>2, <1>3 DEF IInv, Progress, Listing, inodes
<1>5. rd' \in [Readers -> Handles]
  BY <1>1, IInvTypes, BusyType
<1> QED
  BY <1>1, <1>3, <1>4, <1>5, IInvTypes, StepIInv

\* A page sent tells the kernel inodes that exist and where to go on.
LEMMA PageDoneIInv ==
  ASSUME IInv, NEW t \in Threads, NEW page \in Seq(Keys), NEW i \in Nat,
         PageDone(t, page, i), UNCHANGED <<inodes, dirs>>,
         \A j \in 1..Len(page) : byKey[page[j]] # 0
  PROVE  IInv'
<1>1. \A j \in 1..Len(page) : byKey[page[j]] \in 1..Len(keys)
  BY SMTT(30) DEF IInv, TypeOK, InodesOneToOne
<1>2. EndRequest(t) /\ known' \subseteq 1..Len(keys)
  BY <1>1, IInvTypes DEF PageDone, Ino
<1>3. rd' \in [Readers -> Handles]
  <2> DEFINE r == reader[t]
             paged == [dir |-> rd[r].dir, fh |-> rd[r].fh, pos |-> i, seen |-> rd[r].seen \o page,
                       busy |-> FALSE]
  <2>1. r \in Readers => paged \in Handles
    BY SMTT(30), IInvTypes DEF Handles
  <2> QED
    BY <2>1, IInvTypes DEF PageDone
<1> QED
  BY <1>2, <1>3, IInvTypes, ReturnIInv

\* Every entry in a reply under way has an inode, the one being added too.
LEMMA PageHasInodes ==
  ASSUME IInv, NEW t \in Threads, pc[t] = "reply"
  PROVE  /\ at[t] \in Nat /\ sent[t] \in Seq(Keys) /\ Append(sent[t], key[t]) \in Seq(Keys)
         /\ \A j \in 1..Len(sent[t]) : byKey[sent[t][j]] # 0
         /\ \A j \in 1..Len(Append(sent[t], key[t])) : byKey[Append(sent[t], key[t])[j]] # 0
<1>1. /\ at[t] \in Nat /\ sent[t] \in Seq(Keys) /\ key[t] \in Keys /\ byKey[key[t]] # 0
      /\ \A j \in 1..Len(sent[t]) : byKey[sent[t][j]] # 0
  BY DEF IInv, TypeOK, Progress
<1> QED
  BY SMTT(30), <1>1

\* The next entry follows in the same reply.
LEMMA AddIInv ==
  ASSUME IInv, NEW t \in Threads, AddEntry(t), at[t] + 1 # Len(list[t])
  PROVE  IInv'
<1>1. /\ pc[t] = "reply" /\ list[t] \in Seq(Keys) /\ at[t] \in Nat
      /\ at[t] + 1 < Len(list[t])
  BY DEF AddEntry, IInv, TypeOK
<1>2. PICK k \in Keys, p \in Nat, page \in Seq(Keys) :
        /\ UNCHANGED <<inodes, dirs, op, list, rd, known>>
        /\ sent' = [sent EXCEPT ![t] = page] /\ at' = [at EXCEPT ![t] = p]
        /\ key' = [key EXCEPT ![t] = k] /\ pc' = [pc EXCEPT ![t] = "ino"]
        /\ \A j \in 1..Len(page) : byKey[page[j]] # 0
  <2>1. list[t][at[t] + 1 + 1] \in Keys /\ at[t] + 1 \in Nat
    BY SMTT(30), <1>1
  <2>2. /\ UNCHANGED <<inodes, dirs, op, list, rd, known>>
        /\ sent' = [sent EXCEPT ![t] = Append(sent[t], key[t])]
        /\ at' = [at EXCEPT ![t] = at[t] + 1]
        /\ key' = [key EXCEPT ![t] = list[t][at[t] + 1 + 1]] /\ pc' = [pc EXCEPT ![t] = "ino"]
    BY DEF AddEntry, Goto
  <2> QED
    BY <1>1, <2>1, <2>2, PageHasInodes
<1>3. LocalType' /\ OthersStay(t) /\ pc'[t] = "ino" /\ sent'[t] = page
  BY <1>2, IInvTypes DEF LocalType, OthersStay
<1>4. Progress(t)'
  BY <1>2, <1>3 DEF Progress, inodes
<1> QED
  BY <1>2, <1>3, <1>4, IInvTypes, StepIInv

\* reply.add, with room for the entry or without.
LEMMA AddStepsIInv ==
  ASSUME IInv, NEW t \in Threads, AddEntry(t) \/ BufferFull(t)
  PROVE  IInv'
<1>1. pc[t] = "reply" /\ UNCHANGED <<inodes, dirs>> /\ at[t] \in Nat
  BY DEF AddEntry, BufferFull, IInv, TypeOK
<1>2. CASE BufferFull(t)
  BY <1>1, <1>2, PageHasInodes, PageDoneIInv DEF BufferFull
<1>3. CASE AddEntry(t) /\ at[t] + 1 = Len(list[t])
  <2>1. PageDone(t, Append(sent[t], key[t]), at[t] + 1) /\ at[t] + 1 \in Nat
    BY SMTT(30), <1>1, <1>3 DEF AddEntry
  <2> QED
    BY <1>1, <2>1, PageHasInodes, PageDoneIInv
<1> QED
  BY <1>2, <1>3, AddIInv

\* What only the kernel and releasedir do leaves the inodes and the threads.
LEMMA KernelStepsIInv ==
  ASSUME IInv,
         \/ \E r \in Readers, n \in known : OpenElsewhere(r, n)
         \/ \E r \in Readers : ReleaseDir(r)
         \/ \E k \in Keys : Expire(k)
         \/ UNCHANGED vars
  PROVE  IInv'
<1>1. UNCHANGED <<keys, byKey, next, pc, op, key, list, at, sent, known>>
  BY DEF OpenElsewhere, ReleaseDir, ReleaseWith, Expire, vars, local, dirs, inodes
<1>2. DirsType'
  BY <1>1, IInvTypes DEF OpenElsewhere, ReleaseDir, ReleaseWith, Expire, vars, dirs, DirsType
<1>3. rd' \in [Readers -> Handles]
  <2>1. rd \in [Readers -> Handles] /\ Closed \in Handles /\ \A d \in Dirs : Opened(d, 0) \in Handles
    BY OpenedType, IInvTypes
  <2> QED
    BY <2>1 DEF OpenElsewhere, ReleaseDir, ReleaseWith, Expire, vars
<1>4. TypeOK'
  BY <1>1, <1>2, <1>3 DEF IInv, TypeOK, DirsType
<1>5. InodesOneToOne' /\ \A u \in Threads : Progress(u)'
  BY <1>1, OthersKeepProgress DEF IInv, InodesOneToOne
<1> QED
  BY <1>4, <1>5 DEF IInv

\* Every step of a handler or of the kernel keeps the inductive invariant.
LEMMA NextIInv ==
  IInv /\ [Next]_vars => IInv'
<1> SUFFICES ASSUME IInv, [Next]_vars PROVE IInv'
  OBVIOUS
<1>1. CASE \E t \in Threads : Step(t)
  BY <1>1, LookStepsIInv, InternIInv, ReplyAttrIInv, ListDirIInv, InsertDirIInv, AddStepsIInv
     DEF Step
<1>2. CASE \/ \E t \in Threads, n \in known : GetAttr(t, n) \/ \E k \in Keys : Lookup(t, n, k)
           \/ \E t \in Threads, r \in Readers, n \in known : OpenDir(t, r, n)
           \/ \E t \in Threads, r \in Readers, o \in {"readdir", "readdirplus"} : ReadDir(t, r, o)
  BY <1>2, BeginStepsIInv, OpenDirIInv, ReadDirIInv
<1> QED
  BY <1>1, <1>2, KernelStepsIInv DEF Next

\* With any number of session threads racing between the read lock and the
\* write lock of Steam2Fs::ino, a key has one inode and an inode one key, and
\* the kernel only ever holds inodes of the table.
THEOREM InodesAreOneToOne ==
  Spec => []IInv
BY InitIInv, NextIInv, PTL DEF Spec

\* An inode number, once given, means the same node for the life of the mount.
THEOREM InodesAreStable ==
  Spec => InodesStable
<1>1. IInv /\ [Next]_vars => [\A n \in 1..Len(keys) : n <= Len(keys)' /\ keys'[n] = keys[n]]_vars
  <2> SUFFICES ASSUME IInv, Next
               PROVE  \A n \in 1..Len(keys) : n <= Len(keys)' /\ keys'[n] = keys[n]
    OBVIOUS
  <2>1. keys \in Seq(Keys) /\ key \in [Threads -> Keys]
    BY DEF IInv, TypeOK
  <2>2. UNCHANGED keys \/ \E t \in Threads : Intern(t)
    BY DEF Next, Step, TreeMeta, InoLookup, ReplyAttr, ListDir, InsertDir, AddEntry,
       BufferFull, GetAttr, Lookup, OpenDir, OpenElsewhere, ReadDir, ReleaseDir, ReleaseWith,
       Expire, inodes
  <2>3. UNCHANGED keys \/ \E t \in Threads : keys' = Append(keys, key[t])
    BY <2>2 DEF Intern, Interned, inodes
  <2> QED
    BY SMTT(30), <2>1, <2>3
<1> QED
  BY <1>1, InodesAreOneToOne, PTL DEF Spec, InodesStable

-----------------------------------------------------------------------------
(* Directory listings: what a program reads of its open directory, page by    *)
(* page, is the directory's listing in order.                                 *)

\* The requests a program waits for with a directory of its own.
Serving(t) == op[t] \in {"opendir", "readdir", "readdirplus"}

Paging(t) == op[t] \in {"readdir", "readdirplus"}

\* What a program has seen of its open directory d is the start of the listing,
\* and its handle, if OpenDirs gave one out, stands for that same listing.
Shows(d, o) ==
  IF d.dir = NoKey THEN d.fh = 0
  ELSE /\ Len(d.seen) = d.pos /\ d.pos <= Len(Listing(d.dir))
       /\ \A j \in 1..d.pos : d.seen[j] = Listing(d.dir)[j]
       /\ d.fh # 0 => d.fh \in DOMAIN o /\ o[d.fh] = Listing(d.dir)

\* OpenDirs: a handle is one program's, and none is left over.
HandlesOwned ==
  /\ \A r, q \in Readers : rd[r].fh = rd[q].fh /\ rd[r].fh # 0 => r = q
  /\ \A h \in DOMAIN open : \E r \in Readers : rd[r].fh = h

\* opendir under way
Opening(t) ==
  /\ pc[t] \in {"list", "insert"}
  /\ rd[reader[t]].busy /\ rd[reader[t]].dir = NoKey
  /\ pc[t] = "insert" => list[t] = Listing(key[t])

\* readdir under way: the reply so far goes on from what the program has seen
Page(t) ==
  LET d == rd[reader[t]]
  IN  /\ pc[t] \in {"list", "ino", "intern", "meta", "reply"}
      /\ d.busy /\ d.dir # NoKey
      /\ d.pos <= at[t] /\ at[t] < Len(Listing(d.dir))
      /\ Len(sent[t]) = at[t] - d.pos
      /\ \A j \in 1..Len(sent[t]) : sent[t][j] = Listing(d.dir)[d.pos + j]
      /\ IF pc[t] = "list" THEN key[t] = d.dir /\ at[t] = d.pos
         ELSE list[t] = Listing(d.dir) /\ key[t] = list[t][at[t] + 1]

Serves(t) ==
  /\ op[t] = "none" <=> pc[t] = "idle"
  /\ op[t] \in {"lookup", "getattr"} => pc[t] \in {"ino", "intern", "meta", "reply"}
  /\ ~Paging(t) => sent[t] = <<>>
  /\ Serving(t) => reader[t] \in Readers
  /\ op[t] = "opendir" => Opening(t)
  /\ Paging(t) => Page(t)

\* A program has one request under way at a time.
Alone ==
  \A t, u \in Threads : Serving(t) /\ Serving(u) /\ reader[t] = reader[u] => t = u

\* The inductive invariant behind ListingExact.
PageInv ==
  /\ DOMAIN reader = Threads
  /\ \A r \in Readers : Shows(rd[r], open)
  /\ HandlesOwned
  /\ \A t \in Threads : Serves(t)
  /\ Alone

\* The fields of a directory just opened.
LEMMA OpenedFields ==
  /\ \A d, h : /\ Opened(d, h).dir = d /\ Opened(d, h).fh = h /\ Opened(d, h).pos = 0
               /\ Opened(d, h).seen = <<>> /\ Opened(d, h).busy = FALSE
  /\ Closed.dir = NoKey /\ Closed.fh = 0 /\ Closed.busy = FALSE
BY DEF Opened, Closed

\* Marking a directory busy, or no longer busy, leaves the other fields.
LEMMA BusyFields ==
  ASSUME NEW h \in Handles, NEW b \in BOOLEAN
  PROVE  /\ [h EXCEPT !.busy = b].busy = b /\ [h EXCEPT !.busy = b].dir = h.dir
         /\ [h EXCEPT !.busy = b].fh = h.fh /\ [h EXCEPT !.busy = b].pos = h.pos
         /\ [h EXCEPT !.busy = b].seen = h.seen
BY DEF Handles

\* The types of an open directory's fields.
LEMMA HandleTypes ==
  ASSUME IInv, NEW r \in Readers
  PROVE  /\ rd[r] \in Handles /\ rd[r].dir \in Dirs \cup {NoKey} /\ rd[r].fh \in Nat
         /\ rd[r].pos \in Nat /\ rd[r].seen \in Seq(Keys)
BY DEF IInv, TypeOK, Handles

\* The domains of what a handler keeps; OpenDirs never gives out handle 0.
LEMMA Domains ==
  ASSUME IInv, PageInv
  PROVE  /\ DOMAIN pc = Threads /\ DOMAIN op = Threads /\ DOMAIN key = Threads
         /\ DOMAIN list = Threads /\ DOMAIN at = Threads /\ DOMAIN sent = Threads
         /\ DOMAIN reader = Threads /\ DOMAIN rd = Readers /\ 0 \notin DOMAIN open
BY SMTT(30) DEF IInv, TypeOK, PageInv

\* The types of a request's own variables.
LEMMA LocalTypes ==
  ASSUME IInv, NEW t \in Threads
  PROVE  /\ key[t] \in Keys /\ sent[t] \in Seq(Keys) /\ at[t] \in Nat
         /\ op[t] \in {"none", "lookup", "getattr", "opendir", "readdir", "readdirplus"}
BY DEF IInv, TypeOK

\* Thread u and the directory it serves are as they were.
Aside(u) ==
  /\ pc'[u] = pc[u] /\ op'[u] = op[u] /\ key'[u] = key[u] /\ list'[u] = list[u]
  /\ at'[u] = at[u] /\ sent'[u] = sent[u] /\ reader'[u] = reader[u]
  /\ Serving(u) => rd'[reader[u]] = rd[reader[u]]

\* A thread aside keeps its part of the invariant.
LEMMA AsideServes ==
  ASSUME PageInv, NEW u \in Threads, Aside(u)
  PROVE  Serves(u)' /\ Serving(u)' = Serving(u)
<1>1. Serves(u) /\ Serving(u)' = Serving(u) /\ Paging(u)' = Paging(u)
  BY DEF PageInv, Aside, Serving, Paging
<1>2. op[u] = "opendir" => Opening(u)'
  BY <1>1 DEF Serves, Serving, Aside, Opening
<1>3. ASSUME Paging(u) PROVE Page(u)'
  <2>1. Page(u) /\ reader'[u] = reader[u] /\ rd'[reader[u]] = rd[reader[u]]
    BY <1>1, <1>3 DEF Serves, Serving, Paging, Aside
  <2> QED
    BY SMTT(30), <2>1 DEF Aside, Page
<1> QED
  BY <1>1, <1>2, <1>3 DEF Serves, Aside

\* The threads but one are aside.
LEMMA ThreadsKept ==
  ASSUME PageInv, NEW t \in Threads, \A u \in Threads \ {t} : Aside(u),
         DOMAIN reader' = Threads, Serves(t)',
         Serving(t)' => \A u \in Threads \ {t} : Serving(u) => reader[u] # reader'[t]
  PROVE  DOMAIN reader' = Threads /\ (\A u \in Threads : Serves(u)') /\ Alone'
<1>1. \A u \in Threads \ {t} :
        Serves(u)' /\ Serving(u)' = Serving(u) /\ reader'[u] = reader[u]
  BY AsideServes DEF Aside
<1>2. \A u, v \in Threads : Serving(u)' /\ Serving(v)' /\ reader'[u] = reader'[v] => u = v
  BY <1>1 DEF Alone, PageInv
<1> QED
  BY <1>1, <1>2 DEF Alone, Serving

\* All threads are aside.
LEMMA AllKept ==
  ASSUME PageInv, \A u \in Threads : Aside(u), UNCHANGED reader
  PROVE  DOMAIN reader' = Threads /\ (\A u \in Threads : Serves(u)') /\ Alone'
<1>1. \A u \in Threads : Serves(u)' /\ Serving(u)' = Serving(u)
  BY AsideServes
<1> QED
  BY <1>1 DEF Alone, PageInv, Serving

\* A step at one program's directory keeps the others' as they are.
LEMMA ReadersKept ==
  ASSUME PageInv, NEW r \in Readers,
         \A q \in Readers \ {r} : rd'[q] = rd[q],
         \A h \in DOMAIN open : h # rd[r].fh => h \in DOMAIN open' /\ open'[h] = open[h],
         \A h \in DOMAIN open' : h \in DOMAIN open \ {rd[r].fh} \/ h = rd'[r].fh,
         rd'[r].fh \notin DOMAIN open \ {rd[r].fh},
         Shows(rd'[r], open')
  PROVE  (\A q \in Readers : Shows(rd[q], open)') /\ HandlesOwned'
<1>1. ASSUME NEW q \in Readers \ {r}
      PROVE  /\ Shows(rd[q], open) /\ rd'[q] = rd[q]
             /\ rd[q].fh # 0 => /\ rd[q].fh \in DOMAIN open' /\ rd[q].fh # rd'[r].fh
                                /\ open'[rd[q].fh] = open[rd[q].fh]
  <2>1. rd[q].fh # 0 => rd[q].fh \in DOMAIN open /\ rd[q].fh # rd[r].fh
    BY DEF PageInv, Shows, HandlesOwned
  <2> QED
    BY <2>1 DEF PageInv
<1>2. ASSUME NEW q \in Readers PROVE Shows(rd[q], open)'
  BY SMTT(30), <1>1 DEF Shows
<1>3. \A p, q \in Readers : rd'[p].fh = rd'[q].fh /\ rd'[p].fh # 0 => p = q
  BY SMTT(30), <1>1 DEF PageInv, HandlesOwned
<1>4. \A h \in DOMAIN open' : \E q \in Readers : rd'[q].fh = h
  BY SMTT(30) DEF PageInv, HandlesOwned
<1> QED
  BY <1>2, <1>3, <1>4 DEF HandlesOwned

\* At the start nothing is open.
LEMMA InitPageInv ==
  Init => PageInv
<1> SUFFICES ASSUME Init PROVE PageInv
  OBVIOUS
<1>1. DOMAIN reader = Threads /\ DOMAIN open = {} /\ \A r \in Readers : rd[r] = Closed
  BY SMTT(30) DEF Init
<1>2. (\A r \in Readers : Shows(rd[r], open)) /\ HandlesOwned
  BY <1>1, OpenedFields DEF Shows, HandlesOwned
<1>3. \A t \in Threads : Serves(t) /\ ~Serving(t)
  BY DEF Init, Serves, Serving, Paging
<1> QED
  BY <1>1, <1>2, <1>3 DEF PageInv, Alone

\* A step that leaves every open directory as it is.
LEMMA QuietReaders ==
  ASSUME PageInv, UNCHANGED <<rd, open>>
  PROVE  (\A r \in Readers : Shows(rd[r], open)') /\ HandlesOwned'
BY DEF PageInv, HandlesOwned, Shows

\* A step of one thread that leaves every open directory as it is.
LEMMA QuietPage ==
  ASSUME PageInv, NEW t \in Threads, UNCHANGED <<rd, open>>,
         \A u \in Threads \ {t} : Aside(u), DOMAIN reader' = Threads, Serves(t)',
         Serving(t)' => Serving(t) /\ reader'[t] = reader[t]
  PROVE  PageInv'
<1>1. Serving(t)' => \A u \in Threads \ {t} : Serving(u) => reader[u] # reader'[t]
  BY DEF PageInv, Alone
<1>2. DOMAIN reader' = Threads /\ (\A u \in Threads : Serves(u)') /\ Alone'
  BY <1>1, ThreadsKept
<1> QED
  BY <1>2, QuietReaders DEF PageInv

\* A handler that returns serves nobody any more.
LEMMA EndRequestPage ==
  ASSUME IInv, PageInv, NEW t \in Threads, EndRequest(t),
         \A u \in Threads \ {t} : Serving(u) => rd'[reader[u]] = rd[reader[u]]
  PROVE  /\ \A u \in Threads \ {t} : Aside(u)
         /\ DOMAIN reader' = Threads /\ Serves(t)' /\ ~Serving(t)'
<1>1. /\ pc'[t] = "idle" /\ op'[t] = "none" /\ sent'[t] = <<>> /\ DOMAIN reader' = Threads
      /\ \A u \in Threads \ {t} :
           /\ pc'[u] = pc[u] /\ op'[u] = op[u] /\ key'[u] = key[u] /\ list'[u] = list[u]
           /\ at'[u] = at[u] /\ sent'[u] = sent[u] /\ reader'[u] = reader[u]
  BY Domains DEF EndRequest, Goto
<1> QED
  BY <1>1 DEF Aside, Serves, Serving, Paging

\* A handler that returns and leaves the open directories.
LEMMA QuietReturn ==
  ASSUME IInv, PageInv, NEW t \in Threads, EndRequest(t), UNCHANGED <<rd, open>>
  PROVE  PageInv'
<1>1. /\ \A u \in Threads \ {t} : Aside(u)
      /\ DOMAIN reader' = Threads /\ Serves(t)' /\ ~Serving(t)'
  BY EndRequestPage
<1> QED
  BY <1>1, QuietPage

\* The steps between two entries of a reply change only where the thread is.
LEMMA MovePage ==
  ASSUME IInv, PageInv, NEW t \in Threads, NEW to \in {"ino", "intern", "meta", "reply"},
         pc[t] \in {"ino", "intern", "meta"}, pc' = [pc EXCEPT ![t] = to],
         UNCHANGED <<op, key, list, at, sent, reader, rd, open>>
  PROVE  PageInv'
<1>1. pc'[t] = to /\ DOMAIN reader' = Threads /\ \A u \in Threads \ {t} : Aside(u)
  BY Domains DEF Aside
<1>2. Serves(t)' /\ Serving(t)' = Serving(t)
  BY <1>1 DEF PageInv, Serves, Serving, Paging, Opening, Page
<1> QED
  BY <1>1, <1>2, QuietPage

\* tree.meta, and Steam2Fs::ino under either lock
LEMMA LookStepsPage ==
  ASSUME IInv, PageInv, NEW t \in Threads, TreeMeta(t) \/ InoLookup(t) \/ Intern(t)
  PROVE  PageInv'
<1>1. UNCHANGED <<rd, open>> /\ pc[t] \in {"ino", "intern", "meta"}
  BY DEF TreeMeta, InoLookup, Intern, dirs
<1>2. CASE EndRequest(t)
  BY <1>1, <1>2, QuietReturn
<1>3. CASE ~EndRequest(t)
  <2>1. /\ UNCHANGED <<op, key, list, at, sent, reader>>
        /\ \E to \in {"ino", "intern", "meta", "reply"} : pc' = [pc EXCEPT ![t] = to]
    BY <1>3 DEF TreeMeta, InoLookup, Intern, AfterIno, Goto, local
  <2> QED
    BY <1>1, <2>1, MovePage
<1> QED
  BY <1>2, <1>3

\* lookup and getattr begin
LEMMA BeginAttrPage ==
  ASSUME IInv, PageInv, NEW t \in Threads,
         \E n \in known : GetAttr(t, n) \/ \E k \in Keys : Lookup(t, n, k)
  PROVE  PageInv'
<1>1. /\ UNCHANGED <<list, at, sent, reader, rd, open>> /\ pc[t] = "idle"
      /\ pc' = [pc EXCEPT ![t] = "meta"]
      /\ \E k : key' = [key EXCEPT ![t] = k]
      /\ \E o \in {"lookup", "getattr"} : op' = [op EXCEPT ![t] = o]
  BY DEF GetAttr, Lookup, Begin, Goto, dirs
<1>2. /\ pc'[t] = "meta" /\ op'[t] \in {"lookup", "getattr"} /\ DOMAIN reader' = Threads
      /\ \A u \in Threads \ {t} : Aside(u)
  BY <1>1, Domains DEF Aside
<1>3. Serves(t)' /\ ~Serving(t)'
  BY <1>1, <1>2 DEF PageInv, Serves, Serving, Paging
<1> QED
  BY <1>1, <1>2, <1>3, QuietPage

\* Nobody serves a directory that is not busy.
LEMMA NotServed ==
  ASSUME PageInv, NEW r \in Readers, ~rd[r].busy
  PROVE  \A u \in Threads : Serving(u) => reader[u] # r /\ reader[u] \in Readers
BY DEF PageInv, Serves, Serving, Paging, Opening, Page

\* A step of one thread at one program's directory that keeps its handle.
LEMMA PageStep ==
  ASSUME PageInv, NEW t \in Threads, NEW r \in Readers, NEW d,
         rd' = [rd EXCEPT ![r] = d], DOMAIN rd = Readers, UNCHANGED open,
         d.fh = rd[r].fh, Shows(d, open),
         \A u \in Threads \ {t} : Aside(u), DOMAIN reader' = Threads, Serves(t)',
         Serving(t)' => reader'[t] = r,
         \A u \in Threads \ {t} : Serving(u) => reader[u] # r
  PROVE  PageInv'
<1>1. rd'[r] = d /\ \A q \in Readers \ {r} : rd'[q] = rd[q]
  OBVIOUS
<1>2. Shows(rd'[r], open')
  BY <1>1 DEF Shows
<1>3. (\A q \in Readers : Shows(rd[q], open)') /\ HandlesOwned'
  BY <1>1, <1>2, ReadersKept
<1>4. DOMAIN reader' = Threads /\ (\A u \in Threads : Serves(u)') /\ Alone'
  BY ThreadsKept
<1> QED
  BY <1>3, <1>4 DEF PageInv

\* A handler that returns, and gives the program its directory back as d.
LEMMA ReturnPage ==
  ASSUME IInv, PageInv, NEW t \in Threads, Serving(t), EndRequest(t), UNCHANGED open,
         NEW d, rd' = [rd EXCEPT ![reader[t]] = d], d.fh = rd[reader[t]].fh, Shows(d, open)
  PROVE  PageInv'
<1>1. /\ reader[t] \in Readers /\ DOMAIN rd = Readers
      /\ \A u \in Threads \ {t} :
           Serving(u) => reader[u] # reader[t] /\ rd'[reader[u]] = rd[reader[u]]
  BY Domains DEF PageInv, Alone, Serves
<1>2. /\ \A u \in Threads \ {t} : Aside(u)
      /\ DOMAIN reader' = Threads /\ Serves(t)' /\ ~Serving(t)'
  BY <1>1, EndRequestPage
<1> QED
  BY <1>1, <1>2, PageStep

\* A request that begins on a directory nobody serves, and marks it busy.
LEMMA BeginPage ==
  ASSUME IInv, PageInv, NEW t \in Threads, NEW r \in Readers, ~rd[r].busy, UNCHANGED open,
         rd' = [rd EXCEPT ![r] = [rd[r] EXCEPT !.busy = TRUE]],
         DOMAIN reader' = Threads, reader'[t] = r, Serves(t)',
         \A u \in Threads \ {t} :
           /\ pc'[u] = pc[u] /\ op'[u] = op[u] /\ key'[u] = key[u] /\ list'[u] = list[u]
           /\ at'[u] = at[u] /\ sent'[u] = sent[u] /\ reader'[u] = reader[u]
  PROVE  PageInv'
<1> DEFINE d == [rd[r] EXCEPT !.busy = TRUE]
<1>1. DOMAIN rd = Readers /\ \A u \in Threads \ {t} : Aside(u) /\ (Serving(u) => reader[u] # r)
  BY Domains, NotServed DEF Aside
<1>2. d.dir = rd[r].dir /\ d.fh = rd[r].fh /\ d.pos = rd[r].pos /\ d.seen = rd[r].seen
  BY HandleTypes, BusyFields
<1> HIDE DEF d
<1>3. Shows(d, open)
  BY SMTT(30), <1>2 DEF Shows, PageInv
<1>4. rd' = [rd EXCEPT ![r] = d]
  BY DEF d
<1> QED
  BY <1>1, <1>2, <1>3, <1>4, PageStep

\* opendir starts on a directory nobody serves.
LEMMA OpenDirPage ==
  ASSUME IInv, PageInv, NEW t \in Threads, NEW r \in Readers, NEW n \in known, OpenDir(t, r, n)
  PROVE  PageInv'
<1>1. /\ UNCHANGED <<open, list, at, sent>> /\ pc[t] = "idle" /\ rd[r] = Closed
      /\ pc' = [pc EXCEPT ![t] = "list"] /\ op' = [op EXCEPT ![t] = "opendir"]
      /\ key' = [key EXCEPT ![t] = keys[n]] /\ reader' = [reader EXCEPT ![t] = r]
      /\ rd' = [rd EXCEPT ![r] = [rd[r] EXCEPT !.busy = TRUE]]
  BY DEF OpenDir, Begin, Goto, dirs
<1>2. /\ pc'[t] = "list" /\ op'[t] = "opendir" /\ reader'[t] = r /\ DOMAIN reader' = Threads
      /\ \A u \in Threads \ {t} :
           pc'[u] = pc[u] /\ op'[u] = op[u] /\ key'[u] = key[u] /\ reader'[u] = reader[u]
  BY <1>1, Domains
<1>3. ~rd[r].busy /\ rd'[r].busy /\ rd'[r].dir = NoKey
  BY SMTT(30), <1>1, Domains, HandleTypes, BusyFields, OpenedFields
<1>4. Serves(t)'
  BY <1>1, <1>2, <1>3 DEF PageInv, Serves, Serving, Paging, Opening
<1> QED
  BY <1>1, <1>2, <1>3, <1>4, BeginPage

\* A listing built is the directory's.
LEMMA ListedPage ==
  ASSUME IInv, PageInv, NEW t \in Threads, pc[t] = "list",
         UNCHANGED <<op, at, sent, reader, rd, open>>,
         list' = [list EXCEPT ![t] = Listing(key[t])],
         pc' = [pc EXCEPT ![t] = IF op[t] = "opendir" THEN "insert" ELSE "ino"],
         key' = [key EXCEPT ![t] = IF op[t] = "opendir" THEN key[t]
                                   ELSE Listing(key[t])[at[t] + 1]]
  PROVE  PageInv'
<1>1. /\ list'[t] = Listing(key[t]) /\ DOMAIN reader' = Threads
      /\ pc'[t] = IF op[t] = "opendir" THEN "insert" ELSE "ino"
      /\ key'[t] = IF op[t] = "opendir" THEN key[t] ELSE Listing(key[t])[at[t] + 1]
      /\ \A u \in Threads \ {t} : Aside(u)
  BY Domains DEF Aside
<1>2. /\ Serves(t) /\ Serving(t) /\ Serving(t)'
      /\ op[t] # "none" /\ (Paging(t) <=> op[t] # "opendir") /\ Paging(t)' = Paging(t)
  BY LocalTypes DEF PageInv, Serves, Serving, Paging
<1>3. op[t] = "opendir" => Opening(t)'
  BY <1>1, <1>2 DEF Serves, Opening
<1>4. Paging(t) => Page(t)'
  BY SMTT(30), <1>1, <1>2 DEF Serves, Page
<1>5. Serves(t)'
  BY SMTT(30), <1>1, <1>2, <1>3, <1>4 DEF Serves
<1> QED
  BY <1>1, <1>2, <1>5, QuietPage

\* tree.entries, the listing or the error; with the error the program gets its
\* directory back as it was.
LEMMA ListDirPage ==
  ASSUME IInv, PageInv, NEW t \in Threads, ListDir(t)
  PROVE  PageInv'
<1> DEFINE r == reader[t]
           d == IF op[t] = "opendir" THEN Closed ELSE [rd[r] EXCEPT !.busy = FALSE]
<1>1. UNCHANGED open /\ pc[t] = "list"
  BY DEF ListDir, dirs
<1>2. CASE EndRequest(t) /\ rd' = [rd EXCEPT ![r] = d]
  <2>1. Serving(t) /\ r \in Readers /\ Shows(rd[r], open)
        /\ (op[t] = "opendir" => rd[r].dir = NoKey)
    BY <1>1, LocalTypes DEF PageInv, Serves, Serving, Opening
  <2>2. d.fh = rd[r].fh /\ Shows(d, open)
    <3>1. CASE op[t] = "opendir"
      BY <2>1, <3>1, OpenedFields DEF Shows
    <3>2. CASE op[t] # "opendir"
      BY SMTT(30), <2>1, <3>2, HandleTypes, BusyFields DEF Shows
    <3> QED
      BY <3>1, <3>2
  <2> QED
    BY <1>1, <1>2, <2>1, <2>2, ReturnPage
<1>3. CASE /\ UNCHANGED <<op, at, sent, reader, rd>>
           /\ list' = [list EXCEPT ![t] = Listing(key[t])]
           /\ pc' = [pc EXCEPT ![t] = IF op[t] = "opendir" THEN "insert" ELSE "ino"]
           /\ key' = [key EXCEPT ![t] = IF op[t] = "opendir" THEN key[t]
                                        ELSE Listing(key[t])[at[t] + 1]]
  BY <1>1, <1>3, ListedPage
<1> QED
  BY <1>2, <1>3 DEF ListDir, Goto

\* The listing of an open directory has a length.
LEMMA ListingLen ==
  ASSUME NEW k \in Keys
  PROVE  Len(Listing(k)) \in Nat /\ k # NoKey
BY SMTT(30), ListingType, TreeAssumption

\* A directory just opened shows the beginning of its listing, if its handle
\* stands for that.
LEMMA OpenedShows ==
  ASSUME NEW k \in Keys, NEW h, NEW o, h # 0 => h \in DOMAIN o /\ o[h] = Listing(k)
  PROVE  Shows(Opened(k, h), o) /\ Opened(k, h).fh = h
<1> DEFINE d == Opened(k, h)
<1>1. d.dir = k /\ d.fh = h /\ d.pos = 0 /\ d.seen = <<>>
  BY OpenedFields
<1> HIDE DEF d
<1>2. Shows(d, o) /\ d.fh = h
  BY SMTT(30), <1>1, ListingLen DEF Shows
<1> QED
  BY <1>2 DEF d

\* opendir ends with a handle that nobody has.
LEMMA InsertDirPage ==
  ASSUME IInv, PageInv, NEW t \in Threads, InsertDir(t)
  PROVE  PageInv'
<1> DEFINE r == reader[t]
<1>1. PICK h : h = next + 1
  OBVIOUS
<1>2. /\ EndRequest(t) /\ pc[t] = "insert" /\ rd' = [rd EXCEPT ![r] = Opened(key[t], h)]
      /\ open' = [i \in DOMAIN open \cup {h} |-> IF i = h THEN list[t] ELSE open[i]]
  BY <1>1 DEF InsertDir
<1>3. h \notin DOMAIN open /\ 0 \notin DOMAIN open /\ DOMAIN rd = Readers /\ key[t] \in Keys
  BY SMTT(30), <1>1 DEF IInv, TypeOK
<1>4. r \in Readers /\ Serving(t) /\ rd[r].fh = 0 /\ list[t] = Listing(key[t])
  <2>1. op[t] = "opendir"
    BY <1>2, LocalTypes DEF PageInv, Serves, Paging, Page
  <2> QED
    BY <1>2, <2>1 DEF PageInv, Serves, Serving, Opening, Shows
<1>5. \A u \in Threads \ {t} : Serving(u) => reader[u] # r /\ rd'[reader[u]] = rd[reader[u]]
  BY <1>2, <1>3, <1>4 DEF PageInv, Alone, Serves
<1>6. /\ \A u \in Threads \ {t} : Aside(u)
      /\ DOMAIN reader' = Threads /\ Serves(t)' /\ ~Serving(t)'
  BY <1>2, <1>5, EndRequestPage
<1>7. DOMAIN reader' = Threads /\ (\A u \in Threads : Serves(u)') /\ Alone'
  BY <1>6, ThreadsKept
<1>8. /\ \A i \in DOMAIN open : i \in DOMAIN open' /\ open'[i] = open[i]
      /\ DOMAIN open' = DOMAIN open \cup {h} /\ open'[h] = Listing(key[t])
      /\ rd'[r] = Opened(key[t], h) /\ \A q \in Readers \ {r} : rd'[q] = rd[q]
  BY <1>2, <1>3, <1>4
<1>9. Shows(rd'[r], open') /\ rd'[r].fh = h
  BY SMTT(30), <1>3, <1>8, OpenedShows
<1>10. (\A q \in Readers : Shows(rd[q], open)') /\ HandlesOwned'
  BY <1>3, <1>4, <1>8, <1>9, ReadersKept
<1> QED
  BY <1>7, <1>10 DEF PageInv

\* A step of the kernel at a directory nobody serves leaves the threads.
LEMMA KernelPage ==
  ASSUME PageInv, NEW r \in Readers, ~rd[r].busy, UNCHANGED <<pc, local>>,
         \A q \in Readers \ {r} : rd'[q] = rd[q]
  PROVE  DOMAIN reader' = Threads /\ (\A u \in Threads : Serves(u)') /\ Alone'
<1>1. UNCHANGED reader /\ \A u \in Threads : Aside(u)
  BY NotServed DEF Aside, local
<1> QED
  BY <1>1, AllKept

\* A directory opened elsewhere starts at its beginning, without a handle.
LEMMA OpenElsewherePage ==
  ASSUME IInv, PageInv, NEW r \in Readers, NEW n \in known, OpenElsewhere(r, n)
  PROVE  PageInv'
<1>1. /\ UNCHANGED <<open, pc, local>> /\ rd[r] = Closed
      /\ rd' = [rd EXCEPT ![r] = Opened(keys[n], 0)] /\ keys[n] \in Keys
  BY SMTT(30) DEF OpenElsewhere, dirs, IInv, TypeOK
<1>2. rd'[r] = Opened(keys[n], 0) /\ \A q \in Readers \ {r} : rd'[q] = rd[q]
  BY <1>1, Domains
<1>3. rd[r].fh = 0 /\ ~rd[r].busy /\ 0 \notin DOMAIN open
  BY <1>1, OpenedFields, Domains
<1>4. Shows(rd'[r], open') /\ rd'[r].fh = 0
  BY <1>1, <1>2, OpenedShows
<1>5. (\A q \in Readers : Shows(rd[q], open)') /\ HandlesOwned'
  BY <1>1, <1>2, <1>3, <1>4, ReadersKept
<1> QED
  BY <1>1, <1>2, <1>3, <1>5, KernelPage DEF PageInv

\* releasedir takes the program's own handle out of OpenDirs, and no other.
LEMMA ReleaseDirPage ==
  ASSUME IInv, PageInv, NEW r \in Readers, ReleaseDir(r)
  PROVE  PageInv'
<1>1. /\ UNCHANGED <<pc, local>> /\ rd' = [rd EXCEPT ![r] = Closed] /\ ~rd[r].busy
      /\ open' = [h \in DOMAIN open \ {rd[r].fh} |-> open[h]]
  BY DEF ReleaseDir, ReleaseWith
<1>2. /\ rd'[r] = Closed /\ \A q \in Readers \ {r} : rd'[q] = rd[q]
      /\ DOMAIN open' = DOMAIN open \ {rd[r].fh} /\ 0 \notin DOMAIN open
      /\ \A h \in DOMAIN open : h # rd[r].fh => h \in DOMAIN open' /\ open'[h] = open[h]
  BY <1>1, Domains
<1>3. Shows(rd'[r], open') /\ rd'[r].fh = 0
  BY <1>2, OpenedFields DEF Shows
<1>4. (\A q \in Readers : Shows(rd[q], open)') /\ HandlesOwned'
  BY <1>2, <1>3, ReadersKept
<1> QED
  BY <1>1, <1>2, <1>4, KernelPage DEF PageInv

\* readdir starts where the program has got to, with the listing of its handle
\* or on the directory itself.
LEMMA ReadDirPage ==
  ASSUME IInv, PageInv, NEW t \in Threads, NEW r \in Readers, NEW o \in {"readdir", "readdirplus"},
         ReadDir(t, r, o)
  PROVE  PageInv'
<1> DEFINE have == rd[r].fh \in DOMAIN open
           found == IF have THEN open[rd[r].fh] ELSE <<>>
           k == IF have THEN found[rd[r].pos + 1] ELSE rd[r].dir
<1>1. /\ UNCHANGED <<open, sent>> /\ pc[t] = "idle"
      /\ op' = [op EXCEPT ![t] = o] /\ at' = [at EXCEPT ![t] = rd[r].pos]
      /\ list' = [list EXCEPT ![t] = found] /\ key' = [key EXCEPT ![t] = k]
      /\ reader' = [reader EXCEPT ![t] = r]
      /\ pc' = [pc EXCEPT ![t] = IF have THEN "ino" ELSE "list"]
      /\ rd' = [rd EXCEPT ![r] = [rd[r] EXCEPT !.busy = TRUE]]
      /\ rd[r].dir # NoKey /\ ~rd[r].busy /\ rd[r].pos < Len(Listing(rd[r].dir))
  BY DEF ReadDir, Goto, dirs
<1>2. /\ rd[r].pos \in Nat /\ sent[t] = <<>>
      /\ have => found = Listing(rd[r].dir) /\ k = found[rd[r].pos + 1]
      /\ ~have => k = rd[r].dir
  BY <1>1, HandleTypes, Domains DEF PageInv, Shows, Serves, Paging
<1> HIDE DEF have, found, k
<1>3. /\ op'[t] = o /\ at'[t] = rd[r].pos /\ list'[t] = found /\ key'[t] = k /\ reader'[t] = r
      /\ pc'[t] = (IF have THEN "ino" ELSE "list") /\ DOMAIN reader' = Threads
      /\ \A u \in Threads \ {t} :
           /\ op'[u] = op[u] /\ at'[u] = at[u] /\ list'[u] = list[u] /\ key'[u] = key[u]
           /\ reader'[u] = reader[u] /\ pc'[u] = pc[u] /\ sent'[u] = sent[u]
  BY <1>1, Domains
<1>4. rd'[r].busy /\ rd'[r].dir = rd[r].dir /\ rd'[r].pos = rd[r].pos
  BY <1>1, Domains, HandleTypes, BusyFields
<1>5. sent'[t] = <<>> /\ Len(sent'[t]) = at'[t] - rd'[r].pos
  BY SMTT(30), <1>1, <1>2, <1>3, <1>4
<1>6. Page(t)'
  BY SMTT(30), <1>1, <1>2, <1>3, <1>4, <1>5 DEF Page
<1>7. Serves(t)'
  BY <1>3, <1>6 DEF Serves, Serving, Paging
<1> QED
  BY <1>1, <1>3, <1>7, BeginPage

\* A page that goes on from what the program has seen takes it further down the
\* listing.
LEMMA PageDonePage ==
  ASSUME IInv, PageInv, NEW t \in Threads, Paging(t), NEW page \in Seq(Keys), NEW i \in Nat,
         PageDone(t, page, i), UNCHANGED open,
         Follows(page, Listing(rd[reader[t]].dir), rd[reader[t]].pos, i),
         i <= Len(Listing(rd[reader[t]].dir))
  PROVE  PageInv'
<1> DEFINE b == rd[reader[t]]
           d == [dir |-> b.dir, fh |-> b.fh, pos |-> i, seen |-> b.seen \o page, busy |-> FALSE]
<1>1. EndRequest(t) /\ rd' = [rd EXCEPT ![reader[t]] = d]
  BY DEF PageDone
<1>2. d.dir = b.dir /\ d.fh = b.fh /\ d.pos = i /\ d.seen = b.seen \o page
  OBVIOUS
<1> HIDE DEF d
<1>3. Serving(t) /\ reader[t] \in Readers /\ b.dir # NoKey /\ Shows(b, open)
  BY DEF PageInv, Serves, Serving, Paging, Page
<1>4. Begins(b.seen \o page, Listing(b.dir), i)
  <2>1. b.pos \in Nat /\ b.seen \in Seq(Keys) /\ Begins(b.seen, Listing(b.dir), b.pos)
    BY <1>3, HandleTypes DEF Shows, Begins
  <2> QED
    BY <2>1, GoesOn
<1>5. Shows(d, open)
  BY <1>2, <1>3, <1>4 DEF Shows, Begins
<1> QED
  BY <1>1, <1>2, <1>3, <1>5, ReturnPage

\* What a page in the making has at reply.add.
LEMMA ReplyFacts ==
  ASSUME IInv, PageInv, NEW t \in Threads, Paging(t), pc[t] = "reply",
         NEW d, d = rd[reader[t]], NEW L, L = Listing(d.dir)
  PROVE  /\ Serving(t) /\ reader[t] \in Readers /\ d.busy /\ d.dir # NoKey /\ L \in Seq(Keys)
         /\ list[t] = L /\ key[t] = L[at[t] + 1] /\ at[t] < Len(L)
         /\ d.pos \in Nat /\ d.pos <= at[t] /\ Follows(sent[t], L, d.pos, at[t])
<1>1. Serving(t) /\ reader[t] \in Readers /\ Page(t)
  BY DEF PageInv, Serves, Serving, Paging
<1>2. d.pos \in Nat /\ d.dir # NoKey /\ d.dir \in Dirs \cup {NoKey}
  BY <1>1, HandleTypes DEF Page
<1> QED
  BY <1>1, <1>2, TreeAssumption, ListingType DEF Page, Follows

\* reply.add finds the buffer full: the page ends before the entry.
LEMMA BufferFullPage ==
  ASSUME IInv, PageInv, NEW t \in Threads, BufferFull(t)
  PROVE  PageInv'
<1>1. /\ Paging(t) /\ pc[t] = "reply" /\ UNCHANGED open /\ PageDone(t, sent[t], at[t])
      /\ sent[t] \in Seq(Keys) /\ at[t] \in Nat
  BY LocalTypes DEF BufferFull, Paging, dirs
<1>2. /\ Follows(sent[t], Listing(rd[reader[t]].dir), rd[reader[t]].pos, at[t])
      /\ at[t] <= Len(Listing(rd[reader[t]].dir))
  BY SMTT(30), <1>1, ReplyFacts
<1> QED
  BY <1>1, <1>2, PageDonePage

\* The next entry of the listing is in the reply, and another follows.
LEMMA EntryAddedPage ==
  ASSUME IInv, PageInv, NEW t \in Threads, Paging(t), pc[t] = "reply", NEW i \in Nat, i = at[t],
         NEW L, L = Listing(rd[reader[t]].dir), i + 1 < Len(L),
         NEW page, Follows(page, L, rd[reader[t]].pos, i + 1),
         UNCHANGED <<op, list, reader, rd, open>>,
         sent' = [sent EXCEPT ![t] = page], at' = [at EXCEPT ![t] = i + 1],
         key' = [key EXCEPT ![t] = L[i + 1 + 1]], pc' = [pc EXCEPT ![t] = "ino"]
  PROVE  PageInv'
<1>1. /\ sent'[t] = page /\ at'[t] = i + 1 /\ key'[t] = L[i + 1 + 1] /\ pc'[t] = "ino"
      /\ DOMAIN reader' = Threads /\ \A u \in Threads \ {t} : Aside(u)
  BY Domains DEF Aside
<1>2. /\ Serving(t) /\ reader[t] \in Readers /\ rd[reader[t]].busy /\ rd[reader[t]].dir # NoKey
      /\ list[t] = L /\ rd[reader[t]].pos \in Nat /\ rd[reader[t]].pos <= i + 1
  BY SMTT(30), ReplyFacts
<1>3. Page(t)'
  BY <1>1, <1>2 DEF Page, Follows
<1>4. Serves(t)'
  BY <1>1, <1>2, <1>3 DEF Serves, Serving, Paging
<1> QED
  BY <1>1, <1>2, <1>4, QuietPage

\* reply.add takes the next entry of the listing; after the last one the page
\* ends.
LEMMA AddEntryPage ==
  ASSUME IInv, PageInv, NEW t \in Threads, AddEntry(t)
  PROVE  PageInv'
<1>1. /\ Paging(t) /\ pc[t] = "reply" /\ UNCHANGED open
      /\ sent[t] \in Seq(Keys) /\ at[t] \in Nat /\ key[t] \in Keys
  BY LocalTypes DEF AddEntry, Paging, dirs
<1>a. PICK i \in Nat : i = at[t]
  BY <1>1
<1>2. PICK L, page :
        i = at[t] /\ L = Listing(rd[reader[t]].dir) /\ page = Append(sent[t], key[t])
  BY <1>a
<1>3. /\ L \in Seq(Keys) /\ list[t] = L /\ i < Len(L)
      /\ page \in Seq(Keys) /\ Follows(page, L, rd[reader[t]].pos, i + 1)
  <2>1. /\ L \in Seq(Keys) /\ list[t] = L /\ key[t] = L[i + 1] /\ i < Len(L)
        /\ rd[reader[t]].pos \in Nat /\ rd[reader[t]].pos <= i
        /\ Follows(sent[t], L, rd[reader[t]].pos, i)
    BY SMTT(30), <1>1, <1>2, ReplyFacts
  <2> QED
    BY <1>1, <1>2, <2>1, OneMore
<1>4. CASE PageDone(t, page, i + 1) /\ i + 1 = Len(L)
  <2>1. i + 1 \in Nat /\ i + 1 <= Len(L)
    BY SMTT(30), <1>4
  <2> QED
    BY <1>1, <1>2, <1>3, <1>4, <2>1, PageDonePage
<1>5. CASE /\ UNCHANGED <<op, list, reader, rd>> /\ i + 1 < Len(L)
           /\ sent' = [sent EXCEPT ![t] = page] /\ at' = [at EXCEPT ![t] = i + 1]
           /\ key' = [key EXCEPT ![t] = L[i + 1 + 1]] /\ pc' = [pc EXCEPT ![t] = "ino"]
  BY <1>1, <1>2, <1>3, <1>5, EntryAddedPage
<1> QED
  BY <1>2, <1>3, <1>4, <1>5 DEF AddEntry, Goto

\* Every step of a handler or of the kernel keeps the listings right.
LEMMA NextPageInv ==
  IInv /\ PageInv /\ [Next]_vars => PageInv'
<1> SUFFICES ASSUME IInv, PageInv, [Next]_vars PROVE PageInv'
  OBVIOUS
<1>1. CASE UNCHANGED vars \/ \E k \in Keys : Expire(k)
  <2>1. UNCHANGED <<open, rd, reader>> /\ \A u \in Threads : Aside(u)
    BY <1>1 DEF vars, Expire, dirs, local, Aside
  <2> QED
    BY <2>1, AllKept, QuietReaders DEF PageInv
<1>2. CASE \E t \in Threads : Step(t)
  <2>1. ASSUME NEW t \in Threads, ReplyAttr(t) PROVE PageInv'
    BY <2>1, QuietReturn DEF ReplyAttr, dirs
  <2> QED
    BY <1>2, <2>1, LookStepsPage, ListDirPage, InsertDirPage, AddEntryPage, BufferFullPage DEF Step
<1>3. CASE \/ \E t \in Threads, n \in known : GetAttr(t, n) \/ \E k \in Keys : Lookup(t, n, k)
           \/ \E t \in Threads, r \in Readers, n \in known : OpenDir(t, r, n)
           \/ \E t \in Threads, r \in Readers, o \in {"readdir", "readdirplus"} : ReadDir(t, r, o)
  BY <1>3, BeginAttrPage, OpenDirPage, ReadDirPage
<1>4. CASE \E r \in Readers : ReleaseDir(r) \/ \E n \in known : OpenElsewhere(r, n)
  BY <1>4, OpenElsewherePage, ReleaseDirPage
<1> QED
  BY <1>1, <1>2, <1>3, <1>4 DEF Next

\* opendir, readdir, readdirplus and releasedir: for any tree, buffer sizes and
\* number of session threads and programs, a program that pages through its
\* directory sees the entries in order, none left out and none twice, and
\* OpenDirs holds no listing that no open directory stands for.
THEOREM ListingsAreExact ==
  Spec => []ListingExact
<1>1. IInv /\ PageInv => ListingExact
  <2> SUFFICES ASSUME IInv, PageInv PROVE ListingExact
    OBVIOUS
  <2>1. ASSUME NEW r \in Readers, rd[r].dir # NoKey
        PROVE  rd[r].seen = SubSeq(Listing(rd[r].dir), 1, rd[r].pos)
    <3>1. /\ rd[r].dir \in Keys /\ rd[r].pos \in Nat /\ rd[r].seen \in Seq(Keys)
      BY <2>1, HandleTypes, TreeAssumption
    <3>2. Listing(rd[r].dir) \in Seq(Keys)
      BY <3>1, ListingType
    <3>3. /\ Len(rd[r].seen) = rd[r].pos /\ rd[r].pos <= Len(Listing(rd[r].dir))
          /\ \A j \in 1..rd[r].pos : rd[r].seen[j] = Listing(rd[r].dir)[j]
      BY <2>1 DEF PageInv, Shows
    <3> QED
      BY SMTT(30), <3>1, <3>2, <3>3, StartOf
  <2> QED
    BY <2>1 DEF ListingExact, PageInv, HandlesOwned
<1> QED
  BY <1>1, InitIInv, NextIInv, InitPageInv, NextPageInv, PTL DEF Spec

=============================================================================
