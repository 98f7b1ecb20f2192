-------------------------- MODULE BlockReadProofs --------------------------
(* Proofs about BlockRead: what Store remembers of a blob's key is right and *)
(* stays, for any blobs, blocks and keys, any number of mount threads and    *)
(* any progress of the download, as long as no wrong key fits a block's      *)
(* checksum by chance (Coincides = {}).                                      *)
EXTENDS BlockRead, TLAPS

\* Zenon proves the leaves that name no prover.
USE ZenonT(60)

\* Without coincidences a key decodes an encrypted sample to its checksum only
\* if the sample is intact and the key is the publisher's.
LEMMA OnlyTrueKeyWorks ==
  ASSUME Coincides = {}, NEW b \in Blocks, Encrypted(b), NEW ok \in BOOLEAN, NEW k
  PROVE  Works(b, ok, k) <=> ok /\ k = TrueKey[SourceOf[b]]
BY DEF Works, Decode

\* A configured key is one of the key store's.
LEMMA ConfiguredType ==
  ASSUME NEW s \in Sources
  PROVE  Configured(s) \in Known \cup {NoKey} /\ TrueKey[s] \in AesKeys
BY StoreAssumption DEF Configured

\* Every encrypted block of a source that is all there is intact.
LEMMA CompleteIsIntact ==
  ASSUME Blocks \ Unfinished \subseteq intact, NEW b \in Blocks, Encrypted(b),
         Complete(SourceOf[b])
  PROVE  b \in intact /\ b \notin Unfinished
BY DEF Complete

\* What a search of resolve_key finds is the publisher's key, or nothing; and
\* it finds the key whenever the sample is intact and the key is one we have.
LEMMA SearchFinds ==
  ASSUME Coincides = {}, KeyInv, NEW t \in Threads, Search(t)
  PROVE  \E r \in {TrueKey[SourceOf[blk[t]]], "none"} :
           /\ resolved' = [resolved EXCEPT ![SourceOf[blk[t]]] = r]
           /\ UseKey(t, r)
           /\ r # "none" => KeyAvailable(SourceOf[blk[t]])
           /\ r = "none" => ~(sample[t] /\ KeyAvailable(SourceOf[blk[t]]))
<1> DEFINE b == blk[t]
           s == SourceOf[b]
           W(k) == Works(b, sample[t], k)
<1>1. /\ phase[t] = "search" /\ b \in Blocks /\ Encrypted(b) /\ s \in Sources
      /\ sample[t] \in BOOLEAN
  BY StoreAssumption DEF KeyInv, Learnt, Search, SearchWith
<1>2. \A k : W(k) <=> sample[t] /\ k = TrueKey[s]
  BY <1>1, OnlyTrueKeyWorks
<1>3. /\ Configured(s) \in Known \cup {NoKey} /\ TrueKey[s] \in AesKeys
      /\ TrueKey[s] # NoKey /\ TrueKey[s] # "none"
  BY <1>1, ConfiguredType, StoreAssumption
<1> DEFINE found == {k \in Known : KeySearch /\ W(k)}
           outcome == IF Configured(s) # NoKey /\ W(Configured(s)) THEN {Configured(s)}
                      ELSE IF found = {} THEN {"none"} ELSE found
<1>4. PICK r \in outcome : resolved' = [resolved EXCEPT ![s] = r] /\ UseKey(t, r)
  BY DEF Search, SearchWith
<1>5. /\ r \in {TrueKey[s], "none"}
      /\ r # "none" => KeyAvailable(s)
      /\ r = "none" => ~(sample[t] /\ KeyAvailable(s))
  <2> HIDE DEF W
  <2> QED
    BY <1>2, <1>3, <1>4 DEF KeyAvailable
<1> QED
  BY <1>4, <1>5

\* Before the first call nothing is remembered.
LEMMA InitKeyInv ==
  Init => KeyInv
BY SMTT(30), StoreAssumption DEF Init, KeyInv, Learnt, IntactBlocksServed

\* IntactBlocksServed, of one call.
Served(t) ==
  LET b == blk[t]
  IN  phase[t] = "done" /\ op[t] = "block" /\ sample[t] /\ b \notin Misfits /\
      (Encrypted(b) => Complete(SourceOf[b]) /\ KeyAvailable(SourceOf[b]))
        => result[t] = "good"

\* A step of one call leaves what the others have learnt and returned.
LEMMA OthersKeep ==
  ASSUME KeyInv, NEW t \in Threads,
         \A u \in Threads \ {t} :
           /\ phase'[u] = phase[u] /\ op'[u] = op[u] /\ blk'[u] = blk[u]
           /\ sample'[u] = sample[u] /\ using'[u] = using[u] /\ result'[u] = result[u],
         Learnt(t)', Served(t)'
  PROVE  (\A u \in Threads : Learnt(u)') /\ IntactBlocksServed'
<1>1. \A u \in Threads : Learnt(u) /\ Served(u)
  BY DEF KeyInv, IntactBlocksServed, Served
<1>2. \A u \in Threads \ {t} : Learnt(u)'
  BY SMTT(30), <1>1 DEF Learnt
<1>3. \A u \in Threads \ {t} : Served(u)'
  BY <1>1 DEF Served
<1> QED
  BY <1>2, <1>3 DEF IntactBlocksServed, Served

\* A call begins with no sample: what it is given at once is from the cache,
\* or it has no dat to read.
LEMMA BeginKeyInv ==
  ASSUME KeyInv, NEW t \in Threads, NEW o \in {"block", "probe"}, NEW b \in Blocks,
         Begin(t, o, b)
  PROVE  KeyInv'
<1>1. Learnt(t)' /\ Served(t)'
  BY DEF KeyInv, Learnt, Served, Begin, Return, Goto
<1>2. (\A u \in Threads : Learnt(u)') /\ IntactBlocksServed'
  BY <1>1, OthersKeep DEF KeyInv, Begin, Return, Goto
<1> QED
  BY <1>2 DEF KeyInv, Begin, Return, Goto

\* The raw bytes of a block of a source that is all there are intact.
LEMMA ReadRawKeyInv ==
  ASSUME KeyInv, NEW t \in Threads, ReadRaw(t)
  PROVE  KeyInv'
<1>1. blk[t] \in Blocks /\ Learnt(t) /\ phase[t] = "raw"
  BY DEF KeyInv, Learnt, ReadRaw, ReadRawThen
<1>2. CASE Return(t, "io") /\ UNCHANGED sample
  <2>1. Learnt(t)' /\ Served(t)'
    BY <1>1, <1>2 DEF KeyInv, Learnt, Served, ReadRaw, ReadRawThen, Return, Goto
  <2>2. (\A u \in Threads : Learnt(u)') /\ IntactBlocksServed'
    BY <1>2, <2>1, OthersKeep DEF KeyInv, ReadRaw, ReadRawThen, Return, Goto
  <2> QED
    BY <1>2, <2>2 DEF KeyInv, ReadRaw, ReadRawThen, Return, Goto
<1>3. CASE /\ \E ok \in {(blk[t] \in intact)} \cup
                        (IF blk[t] \in Unfinished THEN {FALSE} ELSE {}) :
                sample' = [sample EXCEPT ![t] = ok]
           /\ Goto(t, IF op[t] = "probe" \/ Encrypted(blk[t]) THEN "lookup" ELSE "decode")
           /\ UNCHANGED <<result, resolved>>
  <2>1. PICK ok \in BOOLEAN :
          /\ sample' = [sample EXCEPT ![t] = ok]
          /\ blk[t] \notin Unfinished => (ok <=> blk[t] \in intact)
    <3> DEFINE fine == blk[t] \in intact
    <3>1. fine \in BOOLEAN
      BY SMTT(30)
    <3>2. PICK ok \in {fine} \cup (IF blk[t] \in Unfinished THEN {FALSE} ELSE {}) :
            sample' = [sample EXCEPT ![t] = ok]
      BY <1>3
    <3> HIDE DEF fine
    <3>3. ok \in BOOLEAN /\ (blk[t] \notin Unfinished => ok = fine)
      BY <3>1, <3>2
    <3> QED
      BY <3>2, <3>3 DEF fine
  <2>2. Encrypted(blk[t]) /\ Complete(SourceOf[blk[t]]) => ok
    BY <1>1, <2>1, CompleteIsIntact DEF KeyInv
  <2>3. Learnt(t)' /\ Served(t)'
    BY <1>1, <1>3, <2>1, <2>2 DEF KeyInv, Learnt, Served, ReadRaw, ReadRawThen, Goto
  <2>4. (\A u \in Threads : Learnt(u)') /\ IntactBlocksServed'
    BY <1>3, <2>1, <2>3, OthersKeep DEF KeyInv, ReadRaw, ReadRawThen, Goto
  <2> QED
    BY <1>3, <2>1, <2>4 DEF KeyInv, ReadRaw, ReadRawThen, Goto
<1> QED
  BY <1>2, <1>3 DEF ReadRaw, ReadRawThen

\* A call that takes an answer consistent with the source goes on with the
\* publisher's key, or has none because there is none to have.
LEMMA UseKeyKeepsLearnt ==
  ASSUME KeyInv, NEW t \in Threads, phase[t] \in {"lookup", "search"},
         NEW r, UseKey(t, r), UNCHANGED <<op, blk, sample>>,
         r \in {TrueKey[SourceOf[blk[t]]], "none"},
         r = "none" => ~(Complete(SourceOf[blk[t]]) /\ KeyAvailable(SourceOf[blk[t]]))
  PROVE  /\ \A u \in Threads : Learnt(u)'
         /\ IntactBlocksServed'
         /\ phase' \in [Threads -> {"idle", "raw", "lookup", "search", "decode", "done"}]
         /\ Threads = DOMAIN using' /\ Threads = DOMAIN result'
<1>1. Encrypted(blk[t]) /\ Learnt(t)
  BY DEF KeyInv, Learnt
<1>2. Learnt(t)' /\ Served(t)'
  BY <1>1 DEF KeyInv, Learnt, Served, UseKey, Return, Goto
<1>3. (\A u \in Threads : Learnt(u)') /\ IntactBlocksServed'
  BY <1>2, OthersKeep DEF KeyInv, UseKey, Return, Goto
<1> QED
  BY <1>3 DEF KeyInv, UseKey, Return, Goto

\* A remembered answer is as good as one's own.
LEMMA LookupKeyKeyInv ==
  ASSUME KeyInv, NEW t \in Threads, LookupKey(t)
  PROVE  KeyInv'
<1> DEFINE r == resolved[SourceOf[blk[t]]]
<1>1. /\ phase[t] = "lookup" /\ blk[t] \in Blocks /\ Learnt(t)
      /\ SourceOf[blk[t]] \in Sources /\ r \in AesKeys \cup {"none", "unknown"}
  BY StoreAssumption DEF KeyInv, Learnt, LookupKey
<1>2. CASE r = "unknown"
  <2>1. Learnt(t)' /\ Served(t)'
    BY <1>1, <1>2 DEF KeyInv, Learnt, Served, LookupKey, Goto
  <2>2. (\A u \in Threads : Learnt(u)') /\ IntactBlocksServed'
    BY <1>2, <2>1, OthersKeep DEF KeyInv, LookupKey, Goto
  <2> QED
    BY <1>2, <2>2 DEF KeyInv, LookupKey, Goto
<1>3. CASE r # "unknown"
  <2>1. /\ UseKey(t, r) /\ r \in {TrueKey[SourceOf[blk[t]]], "none"}
        /\ r = "none" => ~(Complete(SourceOf[blk[t]]) /\ KeyAvailable(SourceOf[blk[t]]))
    BY <1>1, <1>3 DEF KeyInv, LookupKey
  <2> HIDE DEF r
  <2>2. /\ \A u \in Threads : Learnt(u)'
        /\ IntactBlocksServed'
        /\ phase' \in [Threads -> {"idle", "raw", "lookup", "search", "decode", "done"}]
        /\ Threads = DOMAIN using' /\ Threads = DOMAIN result'
    BY <1>1, <2>1, UseKeyKeepsLearnt DEF LookupKey
  <2> QED
    BY <2>2 DEF KeyInv, LookupKey
<1> QED
  BY <1>2, <1>3

\* A search remembers the publisher's key, or nothing where there is none to
\* have or the sample was not all there.
LEMMA SearchKeyInv ==
  ASSUME Coincides = {}, KeyInv, NEW t \in Threads, Search(t)
  PROVE  KeyInv'
<1> DEFINE s == SourceOf[blk[t]]
<1>1. /\ phase[t] = "search" /\ blk[t] \in Blocks /\ s \in Sources
      /\ Complete(s) => sample[t]
  BY StoreAssumption DEF KeyInv, Learnt, Search, SearchWith
<1>2. UNCHANGED <<blocks, intact, op, blk, sample>>
  BY DEF Search, SearchWith
<1>3. PICK r \in {TrueKey[s], "none"} :
        /\ resolved' = [resolved EXCEPT ![s] = r]
        /\ UseKey(t, r)
        /\ r # "none" => KeyAvailable(s)
        /\ r = "none" => ~(sample[t] /\ KeyAvailable(s))
  BY SearchFinds
<1>4. /\ \A u \in Threads : Learnt(u)'
      /\ IntactBlocksServed'
      /\ phase' \in [Threads -> {"idle", "raw", "lookup", "search", "decode", "done"}]
      /\ Threads = DOMAIN using' /\ Threads = DOMAIN result'
  BY <1>1, <1>2, <1>3, UseKeyKeepsLearnt
<1>5. TrueKey[s] \in AesKeys /\ "none" \notin AesKeys
  BY <1>1, StoreAssumption
<1>6. /\ resolved' \in [Sources -> AesKeys \cup {"none", "unknown"}]
      /\ resolved'[s] = r /\ \A x \in Sources \ {s} : resolved'[x] = resolved[x]
  BY <1>1, <1>3, <1>5 DEF KeyInv
<1> HIDE DEF s
<1>7. \A x \in Sources :
        /\ resolved'[x] \in AesKeys => resolved'[x] = TrueKey[x] /\ KeyAvailable(x)
        /\ resolved'[x] = "none" => ~(Complete(x) /\ KeyAvailable(x))
  BY <1>1, <1>3, <1>5, <1>6 DEF KeyInv
<1> QED
  BY <1>2, <1>4, <1>6, <1>7 DEF KeyInv

\* An intact sample decodes to what was published: the key is the right one.
LEMMA DecodeBlockKeyInv ==
  ASSUME KeyInv, NEW t \in Threads, DecodeBlock(t)
  PROVE  KeyInv'
<1>1. Learnt(t) /\ phase[t] = "decode"
  BY DEF KeyInv, DecodeBlock, DecodeCaching
<1>2. sample[t] => Decode(blk[t], sample[t], using[t]) = "good"
  BY <1>1 DEF Learnt, Decode
<1>3. Learnt(t)' /\ Served(t)'
  BY <1>1, <1>2 DEF KeyInv, Learnt, Served, DecodeBlock, DecodeCaching, Return, Goto
<1>4. (\A u \in Threads : Learnt(u)') /\ IntactBlocksServed'
  BY <1>3, OthersKeep DEF KeyInv, DecodeBlock, DecodeCaching, Return, Goto
<1> QED
  BY <1>4 DEF KeyInv, DecodeBlock, DecodeCaching, Return, Goto

\* A call that has returned leaves nothing behind but what is remembered.
LEMMA LeaveKeyInv ==
  ASSUME KeyInv, NEW t \in Threads, Leave(t)
  PROVE  KeyInv'
<1>1. Learnt(t)' /\ Served(t)'
  BY DEF KeyInv, Learnt, Served, Leave, Goto
<1>2. (\A u \in Threads : Learnt(u)') /\ IntactBlocksServed'
  BY <1>1, OthersKeep DEF KeyInv, Leave, Goto
<1> QED
  BY <1>2 DEF KeyInv, Leave, Goto

\* Every step of every call, and of the download, keeps the invariant.
LEMMA NextKeyInv ==
  ASSUME Coincides = {}, KeyInv, [Next]_vars
  PROVE  KeyInv'
<1>1. CASE UNCHANGED vars
  BY <1>1 DEF vars, KeyInv, Learnt, IntactBlocksServed
<1>2. CASE \E t \in Threads : Step(t)
  BY <1>2, ReadRawKeyInv, LookupKeyKeyInv, SearchKeyInv, DecodeBlockKeyInv, LeaveKeyInv
     DEF Step
<1>3. CASE \E t \in Threads, o \in {"block", "probe"}, b \in Blocks : Begin(t, o, b)
  BY <1>3, BeginKeyInv
<1>4. CASE \E b \in Unfinished : DownloadBlock(b)
  <2>1. /\ intact \subseteq intact'
        /\ UNCHANGED <<resolved, phase, op, blk, sample, using, result>>
    BY <1>4 DEF DownloadBlock
  <2>2. (\A t \in Threads : Learnt(t)') /\ IntactBlocksServed'
    BY <2>1 DEF KeyInv, Learnt, IntactBlocksServed
  <2> QED
    BY <2>1, <2>2 DEF KeyInv
<1> QED
  BY <1>1, <1>2, <1>3, <1>4 DEF Next

\* The invariant holds throughout.
LEMMA KeyInvAlways ==
  ASSUME Coincides = {}
  PROVE  Spec => []KeyInv
<1>1. KeyInv /\ [Next]_vars => KeyInv'
  BY NextKeyInv
<1> QED
  BY <1>1, InitKeyInv, PTL DEF Spec

\* Store::resolve_key remembers no key but the one a blob's data was encrypted
\* with, however many threads resolve it at once and whatever they sampled.
THEOREM ResolvedKeysAreTrue ==
  ASSUME Coincides = {}
  PROVE  Spec => []ResolvedKeyDecrypts
<1>1. KeyInv => ResolvedKeyDecrypts
  BY DEF KeyInv, ResolvedKeyDecrypts
<1> QED
  BY <1>1, KeyInvAlways, PTL

\* Store::block never refuses an intact block of a complete blob whose key is
\* available, for want of a key or as corrupt.
THEOREM IntactBlocksAreServed ==
  ASSUME Coincides = {}
  PROVE  Spec => []IntactBlocksServed
<1>1. KeyInv => IntactBlocksServed
  BY DEF KeyInv
<1> QED
  BY <1>1, KeyInvAlways, PTL

\* The blind insert at the end of resolve_key never replaces the key of a blob
\* that is all there: a slower search ends with the same one.
THEOREM MatchesAreRemembered ==
  ASSUME Coincides = {}
  PROVE  Spec => MatchRemembered
<1> DEFINE Kept == \A s \in Sources :
             Complete(s) /\ resolved[s] \in AesKeys => resolved'[s] = resolved[s]
<1>1. KeyInv /\ [Next]_vars => [Kept]_vars
  <2> SUFFICES ASSUME KeyInv, Next PROVE Kept
    OBVIOUS
  <2>1. UNCHANGED resolved \/ \E t \in Threads : Search(t)
    BY DEF Next, Step, ReadRaw, ReadRawThen, LookupKey, DecodeBlock, DecodeCaching, Leave,
                 Begin, DownloadBlock
  <2>2. CASE UNCHANGED resolved
    BY <2>2
  <2>3. ASSUME NEW t \in Threads, Search(t) PROVE Kept
    <3> DEFINE x == SourceOf[blk[t]]
    <3>1. x \in Sources /\ (Complete(x) => sample[t])
      BY <2>3, StoreAssumption DEF KeyInv, Learnt, Search, SearchWith
    <3>2. PICK r \in {TrueKey[x], "none"} :
            /\ resolved' = [resolved EXCEPT ![x] = r]
            /\ r = "none" => ~(sample[t] /\ KeyAvailable(x))
      BY <2>3, SearchFinds
    <3> HIDE DEF x
    <3> QED
      BY <3>1, <3>2 DEF KeyInv
  <2> QED
    BY <2>1, <2>2, <2>3
<1> QED
  BY <1>1, KeyInvAlways, PTL DEF Spec, MatchRemembered

-----------------------------------------------------------------------------
(* What is served.  Nothing is assumed of coincidences here: a wrong key that *)
(* fits has decoded the block to its content.                                *)

\* The types and the cache, once the step's own part is known.
LEMMA ServeStep ==
  ASSUME ServeInv, NEW t \in Threads,
         Cache!Sound(blocks'),
         Verify => \A e \in Cache!Entries(blocks') : e.val = "good",
         resolved' \in [Sources -> AesKeys \cup {"none", "unknown"}], intact' \subseteq Blocks,
         phase' \in [Threads -> {"idle", "raw", "lookup", "search", "decode", "done"}],
         op' \in [Threads -> {"block", "probe"}], blk' \in [Threads -> Blocks],
         sample' \in [Threads -> BOOLEAN], using' \in [Threads -> AesKeys \cup {NoKey}],
         result' \in [Threads -> Results],
         \A u \in Threads \ {t} : result'[u] = result[u],
         Verify => result'[t] # "garbage"
  PROVE  ServeInv'
<1>1. TypeOK'
  BY DEF TypeOK, Cache!TypeOK, Cache!Sound
<1>2. Verify => \A i \in DOMAIN blocks'.lru : blocks'.lru[i].val = "good"
  BY DEF Cache!Entries, Cache!Range
<1>3. Verify => \A u \in Threads : result'[u] # "garbage"
  BY DEF ServeInv, ServedGenuine
<1> QED
  BY <1>1, <1>2, <1>3 DEF ServeInv, ServedGenuine

\* What ServeInv says, with the cache's entries as a set.
LEMMA ServeFacts ==
  ASSUME ServeInv
  PROVE  /\ TypeOK /\ Cache!Sound(blocks) /\ Cache!Sized
         /\ Verify => /\ \A e \in Cache!Entries(blocks) : e.val = "good"
                      /\ \A t \in Threads : result[t] # "garbage"
BY CacheAssumption DEF ServeInv, ServedGenuine, Cache!Entries, Cache!Range, Cache!Sized, Unit

\* A mount starts with nothing fetched, cached or served.
LEMMA InitServeInv ==
  Init => ServeInv
<1> SUFFICES ASSUME Init PROVE ServeInv
  OBVIOUS
<1>1. Cache!Sound(blocks) /\ Cache!Entries(blocks) = {}
  BY CacheAssumption, Cache!NewIsSound DEF Init, Cache!Sized, Unit
<1>2. AnyBlock \in Blocks
  BY CacheAssumption DEF AnyBlock
<1>3. TypeOK
  BY <1>1, <1>2 DEF Init, TypeOK, Cache!TypeOK, Cache!Sound, Results
<1>4. \A i \in DOMAIN blocks.lru : blocks.lru[i].val = "good"
  BY <1>1 DEF Cache!Entries, Cache!Range
<1> QED
  BY <1>1, <1>3, <1>4 DEF ServeInv, ServedGenuine, Init

\* A block from the cache is as good as what was put there.
LEMMA BeginServeInv ==
  ASSUME ServeInv, NEW t \in Threads, NEW o \in {"block", "probe"}, NEW b \in Blocks,
         Begin(t, o, b)
  PROVE  ServeInv'
<1>1. /\ TypeOK /\ Cache!Sound(blocks) /\ Cache!Sized
      /\ Verify => \A e \in Cache!Entries(blocks) : e.val = "good"
  BY ServeFacts
<1>2. Cache!Sound(blocks') /\ Cache!Entries(blocks') = Cache!Entries(blocks)
  BY <1>1, Cache!GetKeeps DEF Begin
<1>3. /\ phase' \in [Threads -> {"idle", "raw", "lookup", "search", "decode", "done"}]
      /\ result' \in [Threads -> Results]
      /\ \A u \in Threads \ {t} : result'[u] = result[u]
      /\ Verify => result'[t] # "garbage"
  <2>1. CASE SourceOf[b] \in NoDat
    BY SMTT(30), <1>1, <2>1 DEF Begin, Return, Goto, TypeOK, Results, Failures
  <2>2. CASE SourceOf[b] \notin NoDat /\ o = "block" /\ b \in Cache!Cached(blocks)
    <3>1. Cache!EntryOf(blocks, b) \in Cache!Entries(blocks) /\ Cache!EntryOf(blocks, b) \in Cache!Entry
      BY <1>1, <2>2, Cache!PositionFacts
    <3>2. /\ Cache!EntryOf(blocks, b).val \in {"good", "garbage"}
          /\ Verify => Cache!EntryOf(blocks, b).val = "good"
      BY <1>1, <3>1 DEF Cache!Entry
    <3> QED
      BY SMTT(30), <1>1, <2>2, <3>2 DEF Begin, Return, Goto, TypeOK, Results
  <2>3. CASE SourceOf[b] \notin NoDat /\ ~(o = "block" /\ b \in Cache!Cached(blocks))
    BY <1>1, <2>3, ServeFacts DEF Begin, Goto, TypeOK
  <2> QED
    BY <2>1, <2>2, <2>3
<1>4. /\ op' \in [Threads -> {"block", "probe"}] /\ blk' \in [Threads -> Blocks]
      /\ UNCHANGED <<resolved, intact, sample, using>>
  BY <1>1 DEF Begin, TypeOK
<1> QED
  BY <1>1, <1>2, <1>3, <1>4, ServeStep DEF TypeOK

\* The bytes are read, or not.
LEMMA ReadRawServeInv ==
  ASSUME ServeInv, NEW t \in Threads, ReadRaw(t)
  PROVE  ServeInv'
<1>1. /\ TypeOK /\ Cache!Sound(blocks)
      /\ Verify => /\ \A e \in Cache!Entries(blocks) : e.val = "good"
                   /\ \A u \in Threads : result[u] # "garbage"
  BY ServeFacts
<1>2. UNCHANGED <<resolved, blocks, intact, op, blk, using>>
  BY DEF ReadRaw, ReadRawThen
<1>3. CASE Return(t, "io") /\ UNCHANGED sample
  BY <1>1, <1>2, <1>3, ServeStep DEF Return, Goto, TypeOK, Results, Failures
<1>4. CASE /\ \E ok \in {(blk[t] \in intact)} \cup
                        (IF blk[t] \in Unfinished THEN {FALSE} ELSE {}) :
                sample' = [sample EXCEPT ![t] = ok]
           /\ Goto(t, IF op[t] = "probe" \/ Encrypted(blk[t]) THEN "lookup" ELSE "decode")
           /\ UNCHANGED <<result, resolved>>
  <2> DEFINE fine == blk[t] \in intact
  <2>1. fine \in BOOLEAN
    BY SMTT(30)
  <2>2. PICK ok \in {fine} \cup (IF blk[t] \in Unfinished THEN {FALSE} ELSE {}) :
          sample' = [sample EXCEPT ![t] = ok]
    BY <1>4
  <2> HIDE DEF fine
  <2>3. sample' \in [Threads -> BOOLEAN]
    BY <1>1, <2>1, <2>2 DEF TypeOK
  <2>4. phase' \in [Threads -> {"idle", "raw", "lookup", "search", "decode", "done"}]
    BY <1>1, <1>4 DEF Goto, TypeOK
  <2> QED
    BY <1>1, <1>2, <1>4, <2>3, <2>4, ServeStep DEF TypeOK
<1> QED
  BY <1>3, <1>4 DEF ReadRaw, ReadRawThen

\* A key, or none, is taken into use.
LEMMA UseKeyServeInv ==
  ASSUME ServeInv, NEW t \in Threads, NEW r \in AesKeys \cup {"none"}, UseKey(t, r),
         resolved' \in [Sources -> AesKeys \cup {"none", "unknown"}],
         UNCHANGED <<blocks, intact, op, blk, sample>>
  PROVE  ServeInv'
<1>1. /\ TypeOK /\ Cache!Sound(blocks)
      /\ Verify => /\ \A e \in Cache!Entries(blocks) : e.val = "good"
                   /\ \A u \in Threads : result[u] # "garbage"
  BY ServeFacts
<1>2. /\ phase' \in [Threads -> {"idle", "raw", "lookup", "search", "decode", "done"}]
      /\ using' \in [Threads -> AesKeys \cup {NoKey}]
      /\ result' \in [Threads -> Results]
      /\ \A u \in Threads \ {t} : result'[u] = result[u]
      /\ Verify => result'[t] # "garbage"
  BY SMTT(30), <1>1 DEF UseKey, Return, Goto, TypeOK, Results, Failures
<1> QED
  BY <1>1, <1>2, ServeStep DEF TypeOK

\* A remembered answer is used, or a search begins.
LEMMA LookupKeyServeInv ==
  ASSUME ServeInv, NEW t \in Threads, LookupKey(t)
  PROVE  ServeInv'
<1> DEFINE r == resolved[SourceOf[blk[t]]]
<1>1. /\ TypeOK /\ Cache!Sound(blocks)
      /\ Verify => /\ \A e \in Cache!Entries(blocks) : e.val = "good"
                   /\ \A u \in Threads : result[u] # "garbage"
  BY ServeFacts
<1>2. r \in AesKeys \cup {"none", "unknown"}
  BY <1>1, StoreAssumption DEF TypeOK
<1>3. CASE r = "unknown"
  BY SMTT(30), <1>1, <1>3, ServeStep DEF LookupKey, Goto, TypeOK
<1>4. CASE r # "unknown"
  <2>1. UseKey(t, r) /\ r \in AesKeys \cup {"none"} /\ UNCHANGED <<resolved, blocks, intact, op, blk, sample>>
    BY <1>2, <1>4 DEF LookupKey
  <2> HIDE DEF r
  <2> QED
    BY <1>1, <2>1, UseKeyServeInv DEF TypeOK
<1> QED
  BY <1>3, <1>4

\* A search finds one of our keys, or none.
LEMMA SearchServeInv ==
  ASSUME ServeInv, NEW t \in Threads, Search(t)
  PROVE  ServeInv'
<1> DEFINE s == SourceOf[blk[t]]
           W(k) == Works(blk[t], sample[t], k)
           found == {k \in Known : KeySearch /\ W(k)}
           outcome == IF Configured(s) # NoKey /\ W(Configured(s)) THEN {Configured(s)}
                      ELSE IF found = {} THEN {"none"} ELSE found
<1>1. TypeOK /\ s \in Sources
  BY ServeFacts, StoreAssumption DEF TypeOK
<1>2. PICK r \in outcome : resolved' = [resolved EXCEPT ![s] = r] /\ UseKey(t, r)
  BY DEF Search, SearchWith
<1>3. r \in AesKeys \cup {"none"}
  <2>1. Configured(s) \in Known \cup {NoKey} /\ Known \subseteq AesKeys
    BY <1>1, ConfiguredType, StoreAssumption
  <2> HIDE DEF W, s
  <2> QED
    BY <1>2, <2>1
<1>4. UNCHANGED <<blocks, intact, op, blk, sample>>
  BY DEF Search, SearchWith
<1>5. resolved' \in [Sources -> AesKeys \cup {"none", "unknown"}]
  BY <1>1, <1>2, <1>3 DEF TypeOK
<1> QED
  BY <1>2, <1>3, <1>4, <1>5, UseKeyServeInv

\* What is decoded is checked before it is kept or returned.
LEMMA DecodeBlockServeInv ==
  ASSUME ServeInv, NEW t \in Threads, DecodeBlock(t)
  PROVE  ServeInv'
<1> DEFINE b == blk[t]
           d == Decode(b, sample[t], using[t])
           keep == /\ d = "good" \/ (d = "garbage" /\ ~Verify)
                   /\ b \notin Misfits /\ ModeOf[b] # "Plain"
           r == IF d = "error" THEN "baddata"
                ELSE IF (Verify /\ d # "good") \/ b \in Misfits THEN "io" ELSE d
<1>1. /\ TypeOK /\ Cache!Sound(blocks) /\ Cache!Sized
      /\ Verify => /\ \A e \in Cache!Entries(blocks) : e.val = "good"
                   /\ \A u \in Threads : result[u] # "garbage"
  BY ServeFacts
<1>2. d \in {"good", "garbage", "error"} /\ b \in Blocks
  BY <1>1 DEF Decode, TypeOK
<1>3. /\ blocks' = IF keep THEN Cache!Insert(blocks, b, d) ELSE blocks
      /\ Return(t, r) /\ UNCHANGED <<resolved, intact, op, blk, sample, using>>
  BY DEF DecodeBlock, DecodeCaching
<1> HIDE DEF d
<1>4. /\ r \in Results /\ (Verify => r # "garbage")
      /\ keep => d \in {"good", "garbage"} /\ (Verify => d = "good")
  BY <1>2 DEF Results, Failures
<1> HIDE DEF r, keep
<1>5. Cache!Sound(blocks') /\ (Verify => \A e \in Cache!Entries(blocks') : e.val = "good")
  <2>1. CASE ~keep
    BY <1>1, <1>3, <2>1
  <2>2. CASE keep
    <3>1. /\ Cache!Sound(blocks')
          /\ Cache!Entries(blocks') \subseteq Cache!Entries(blocks) \cup {[key |-> b, val |-> d]}
      BY <1>1, <1>2, <1>3, <1>4, <2>2, Cache!InsertKeeps
    <3> QED
      BY SMTT(30), <1>1, <1>4, <2>2, <3>1
  <2> QED
    BY <2>1, <2>2
<1>6. /\ phase' \in [Threads -> {"idle", "raw", "lookup", "search", "decode", "done"}]
      /\ result' \in [Threads -> Results]
      /\ \A u \in Threads \ {t} : result'[u] = result[u]
      /\ Verify => result'[t] # "garbage"
  BY <1>1, <1>3, <1>4 DEF Return, Goto, TypeOK
<1> QED
  BY <1>1, <1>3, <1>5, <1>6, ServeStep DEF TypeOK

\* The caller takes its result.
LEMMA LeaveServeInv ==
  ASSUME ServeInv, NEW t \in Threads, Leave(t)
  PROVE  ServeInv'
<1>1. /\ TypeOK /\ Cache!Sound(blocks)
      /\ Verify => \A e \in Cache!Entries(blocks) : e.val = "good"
  BY ServeFacts
<1>2. AnyBlock \in Blocks
  BY CacheAssumption DEF AnyBlock
<1>3. result'[t] = "pending" /\ \A u \in Threads \ {t} : result'[u] = result[u]
  BY <1>1 DEF Leave, TypeOK
<1> QED
  BY <1>1, <1>2, <1>3, ServeStep DEF Leave, Goto, TypeOK, Results

\* With cfg.verify on, Store::block never returns, and never caches, bytes that
\* are not the published ones, whichever key decoded them and whatever else
\* happens to the block cache.
THEOREM ServedBlocksAreGenuine == Spec => []ServedGenuine
<1>1. ServeInv /\ [Next]_vars => ServeInv'
  <2> SUFFICES ASSUME ServeInv, [Next]_vars PROVE ServeInv'
    OBVIOUS
  <2>1. CASE UNCHANGED vars
    BY <2>1 DEF vars, ServeInv, ServedGenuine, TypeOK, Cache!TypeOK
  <2>2. CASE \E t \in Threads : Step(t)
    BY <2>2, ReadRawServeInv, LookupKeyServeInv, SearchServeInv, DecodeBlockServeInv,
       LeaveServeInv DEF Step
  <2>3. CASE \E t \in Threads, o \in {"block", "probe"}, b \in Blocks : Begin(t, o, b)
    BY <2>3, BeginServeInv
  <2>4. CASE \E b \in Unfinished : DownloadBlock(b)
    BY <2>4, CacheAssumption DEF DownloadBlock, ServeInv, ServedGenuine, TypeOK, Cache!TypeOK
  <2> QED
    BY <2>1, <2>2, <2>3, <2>4 DEF Next
<1>2. ServeInv => ServedGenuine
  BY DEF ServeInv
<1> QED
  BY <1>1, <1>2, InitServeInv, PTL DEF Spec

=============================================================================
