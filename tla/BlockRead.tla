------------------------------ MODULE BlockRead ------------------------------
(* store.rs, Store::block with resolve_key, and Store::probe_key: decoding   *)
(* one block of a dat, finding on the way the key of the blob it belongs to  *)
(* and remembering it.  Mount threads share `resolved_keys` and `blocks`;    *)
(* each lock is held for one lookup or one insertion only.                   *)
(*                                                                           *)
(* Decoded bytes are "good" (what the publisher stored) or "garbage".  Two   *)
(* different contents have different checksums, except that a block of a     *)
(* few bytes may decrypt to its content under a wrong key (Coincides).       *)
EXTENDS Integers

CONSTANTS Threads,
          Sources,        \* blobs that introduced data, with one dat each
          Blocks,         \* stored blocks, one cache key (dat, offset) each
          SourceOf,       \* [Blocks -> Sources]
          ModeOf,         \* [Blocks -> Modes]
          Unfinished,     \* blocks a download has not filled in yet
          Misfits,        \* blocks whose length disagrees with the file's size
          NoDat,          \* sources whose dat is not in the dump
          AesKeys,        \* 16-byte keys
          NoKey,
          TrueKey,        \* [Sources -> AesKeys]: what the publisher encrypted with
          BlobOverride,   \* [Sources -> AesKeys \cup {NoKey}]: DEPOT@CRC=HEX
          DepotKey,       \* [Sources -> AesKeys \cup {NoKey}]: DEPOT=HEX or built in
          Known,          \* every key in the KeyStore
          Coincides,      \* pairs <<key, block>>: a wrong key that fits by chance
          KeySearch,      \* cfg.key_search
          Verify,         \* cfg.verify
          CacheBlocks     \* block cache capacity, in blocks

Modes == {"Plain", "Compressed", "CompressedEncrypted", "Encrypted"}

ASSUME StoreAssumption ==
  /\ SourceOf \in [Blocks -> Sources] /\ ModeOf \in [Blocks -> Modes]
  /\ TrueKey \in [Sources -> AesKeys] /\ NoKey \notin AesKeys
  /\ BlobOverride \in [Sources -> Known \cup {NoKey}]
  /\ DepotKey \in [Sources -> Known \cup {NoKey}]
  /\ Known \subseteq AesKeys /\ {"none", "unknown"} \cap AesKeys = {}

\* An empty dump has no block to read.
ASSUME CacheAssumption == CacheBlocks \in Nat /\ Blocks # {} /\ Unfinished \subseteq Blocks

VARIABLES resolved,   \* resolved_keys: a key, "none", or "unknown" (no entry)
          blocks,     \* the decoded-block cache
          intact,     \* blocks whose stored bytes are what was published
          phase,      \* where each thread is
          op,         \* "block" or "probe"
          blk,        \* the block the call is about
          sample,     \* whether the raw bytes it has read are intact
          using,      \* the key it decodes with
          result      \* what the call returned

vars == <<resolved, blocks, intact, phase, op, blk, sample, using, result>>
call == <<op, blk, sample, using>>

Unit(v) == 1

Cache == INSTANCE ByteLru WITH cache <- blocks, Keys <- Blocks,
           Values <- {"good", "garbage"}, Size <- Unit, Capacity <- CacheBlocks

Failures == {"missing", "nokey", "io", "baddata"}
Results == {"pending", "good", "garbage", "probed"} \cup Failures

TypeOK ==
  /\ resolved \in [Sources -> AesKeys \cup {"none", "unknown"}]
  /\ Cache!TypeOK
  /\ intact \subseteq Blocks
  /\ phase \in [Threads -> {"idle", "raw", "lookup", "search", "decode", "done"}]
  /\ op \in [Threads -> {"block", "probe"}]
  /\ blk \in [Threads -> Blocks]
  /\ sample \in [Threads -> BOOLEAN]
  /\ using \in [Threads -> AesKeys \cup {NoKey}]
  /\ result \in [Threads -> Results]

AnyBlock == CHOOSE b \in Blocks : TRUE

Init ==
  /\ resolved = [s \in Sources |-> "unknown"]
  /\ blocks = Cache!New
  /\ intact = Blocks \ Unfinished
  /\ phase = [t \in Threads |-> "idle"]
  /\ op = [t \in Threads |-> "block"]
  /\ blk = [t \in Threads |-> AnyBlock]
  /\ sample = [t \in Threads |-> FALSE]
  /\ using = [t \in Threads |-> NoKey]
  /\ result = [t \in Threads |-> "pending"]

Encrypted(b) == ModeOf[b] \in {"CompressedEncrypted", "Encrypted"}

\* KeyStore::get_for_blob
Configured(s) == IF BlobOverride[s] # NoKey THEN BlobOverride[s] ELSE DepotKey[s]

\* chunk::decode.  A zlib stream that is damaged, or decrypted with the wrong
\* key, does not inflate; the other two modes turn any bytes into some bytes.
Decode(b, ok, k) ==
  LET right == ~Encrypted(b) \/ k = TrueKey[SourceOf[b]] \/ <<k, b>> \in Coincides
  IN  IF ok /\ right THEN "good"
      ELSE IF ModeOf[b] \in {"Plain", "Encrypted"} THEN "garbage" ELSE "error"

\* chunk::decode_verified succeeds
Works(b, ok, k) == Decode(b, ok, k) = "good"

Goto(t, to) == phase' = [phase EXCEPT ![t] = to]

Return(t, r) == Goto(t, "done") /\ result' = [result EXCEPT ![t] = r]

\* Block numbers past the table (NoSuchBlock) do not get this far: see `read`.
Begin(t, o, b) ==
  /\ phase[t] = "idle"
  /\ o = "probe" => Encrypted(b)
  /\ op' = [op EXCEPT ![t] = o] /\ blk' = [blk EXCEPT ![t] = b]
  /\ blocks' = IF o = "block" /\ SourceOf[b] \notin NoDat THEN Cache!Get(blocks, b)
                                                         ELSE blocks
  /\ IF SourceOf[b] \in NoDat THEN Return(t, "missing")
     ELSE IF o = "block" /\ b \in Cache!Cached(blocks)
       THEN Return(t, Cache!EntryOf(blocks, b).val)
       ELSE Goto(t, "raw") /\ UNCHANGED result
  /\ UNCHANGED <<resolved, intact, sample, using>>

ReadRawThen(t, failed) ==
  LET b == blk[t]
  IN  /\ phase[t] = "raw"
      /\ \/ Return(t, "io") /\ failed /\ UNCHANGED sample
         \/ /\ \E ok \in {(b \in intact)} \cup (IF b \in Unfinished THEN {FALSE} ELSE {}) :
                 sample' = [sample EXCEPT ![t] = ok]
            /\ Goto(t, IF op[t] = "probe" \/ Encrypted(b) THEN "lookup" ELSE "decode")
            /\ UNCHANGED <<result, resolved>>
      /\ UNCHANGED <<blocks, intact, op, blk, using>>

\* Mutant of ReadRaw: a block that cannot be read is taken for one no key opens.
ReadRawMarksNone(t) ==
  ReadRawThen(t, resolved' = [resolved EXCEPT ![SourceOf[blk[t]]] = "none"])

\* dat_bytes: an error, too few bytes (the file ends early), or the whole block.
\* A cached window may still hold what an unfinished block used to be.
ReadRaw(t) == ReadRawThen(t, UNCHANGED resolved)

\* What a resolution means to the call that asked for it.
UseKey(t, r) ==
  IF op[t] = "probe" THEN Return(t, "probed") /\ UNCHANGED using
  ELSE IF r = "none" THEN Return(t, "nokey") /\ UNCHANGED using
  ELSE Goto(t, "decode") /\ using' = [using EXCEPT ![t] = r] /\ UNCHANGED result

\* resolve_key: the remembered answer, if there is one
LookupKey(t) ==
  LET r == resolved[SourceOf[blk[t]]]
  IN  /\ phase[t] = "lookup"
      /\ IF r = "unknown" THEN Goto(t, "search") /\ UNCHANGED <<using, result>>
                          ELSE UseKey(t, r)
      /\ UNCHANGED <<resolved, blocks, intact, op, blk, sample>>

SearchWith(t, Fits(_)) ==
  LET s == SourceOf[blk[t]]
      outcome == IF Configured(s) # NoKey /\ Fits(Configured(s)) THEN {Configured(s)}
                 ELSE LET found == {k \in Known : KeySearch /\ Fits(k)}
                      IN  IF found = {} THEN {"none"} ELSE found
  IN  /\ phase[t] = "search"
      /\ \E r \in outcome :
           /\ resolved' = [resolved EXCEPT ![s] = r]
           /\ UseKey(t, r)
      /\ UNCHANGED <<blocks, intact, op, blk, sample>>

\* Mutant of Search: the configured key is believed without a test.
SearchTrustsConfigured(t) ==
  SearchWith(t, LAMBDA k : k = Configured(SourceOf[blk[t]]) \/ Works(blk[t], sample[t], k))

\* Mutant of Search: the candidate loop stops before the last key.
SearchSkipsOne(t) ==
  SearchWith(t, LAMBDA k : k # TrueKey[SourceOf[blk[t]]] /\ Works(blk[t], sample[t], k))

\* resolve_key: the configured key, else any known key that decodes the sample
\* to its stored checksum (map iteration order is arbitrary); the outcome is
\* inserted without looking again at what is there by now.
Search(t) == SearchWith(t, LAMBDA k : Works(blk[t], sample[t], k))

DecodeCaching(t, Keeps(_)) ==
  LET b == blk[t]
      d == Decode(b, sample[t], using[t])
  IN  /\ phase[t] = "decode"
      /\ blocks' = IF Keeps(d) THEN Cache!Insert(blocks, b, d) ELSE blocks
      /\ Return(t, IF d = "error" THEN "baddata"
                   ELSE IF (Verify /\ d # "good") \/ b \in Misfits THEN "io" ELSE d)
      /\ UNCHANGED <<resolved, intact, op, blk, sample, using>>

\* Mutant of DecodeBlock: cached before it is checked.
DecodeCachesFirst(t) == DecodeCaching(t, LAMBDA d : d # "error")

\* decode_owned, the checksum if cfg.verify, the length against the file's
\* size, and the cache for every mode but Plain
DecodeBlock(t) ==
  LET fine(d) == d = "good" \/ (d = "garbage" /\ ~Verify)
  IN  DecodeCaching(t, LAMBDA d : /\ fine(d) /\ blk[t] \notin Misfits
                                  /\ ModeOf[blk[t]] # "Plain")

\* The caller takes the result; the locals are gone.
Leave(t) ==
  /\ phase[t] = "done"
  /\ Goto(t, "idle")
  /\ result' = [result EXCEPT ![t] = "pending"]
  /\ op' = [op EXCEPT ![t] = "block"] /\ blk' = [blk EXCEPT ![t] = AnyBlock]
  /\ sample' = [sample EXCEPT ![t] = FALSE] /\ using' = [using EXCEPT ![t] = NoKey]
  /\ UNCHANGED <<resolved, blocks, intact>>

\* The download of the dump goes on while it is mounted.
DownloadBlock(b) ==
  /\ b \notin intact
  /\ intact' = intact \cup {b}
  /\ UNCHANGED <<resolved, blocks, phase, op, blk, sample, using, result>>

Step(t) ==
  ReadRaw(t) \/ LookupKey(t) \/ Search(t) \/ DecodeBlock(t) \/ Leave(t)

Next ==
  \/ \E t \in Threads : Step(t)
  \/ \E t \in Threads, o \in {"block", "probe"}, b \in Blocks : Begin(t, o, b)
  \/ \E b \in Unfinished : DownloadBlock(b)

Spec == Init /\ [][Next]_vars

-----------------------------------------------------------------------------
\* With verification on, the bytes a read is given are the published ones,
\* from the cache or not, whichever key was found and by whom.
ServedGenuine ==
  /\ TypeOK
  /\ Verify => /\ \A t \in Threads : result[t] # "garbage"
               /\ \A i \in DOMAIN blocks.lru : blocks.lru[i].val = "good"

KeyAvailable(s) == Configured(s) = TrueKey[s] \/ (KeySearch /\ TrueKey[s] \in Known)

\* Every encrypted block of the source was there when the dump was mounted.
Complete(s) == \A b \in Unfinished : SourceOf[b] = s => ~Encrypted(b)

\* "Per source blob: which key actually decrypts it": a remembered key is the
\* one the blob's data was encrypted with, whichever block it was tried on and
\* whatever state that was in.
ResolvedKeyDecrypts ==
  \A s \in Sources : resolved[s] \in AesKeys => resolved[s] = TrueKey[s]

\* KeyResolution::None is documented as "Nothing decrypts this blob's data":
\* it is only remembered where no key we have does.
NoneMeansNothingDecrypts ==
  \A s \in Sources : resolved[s] = "none" => ~KeyAvailable(s)

\* README: "the match is remembered for the mount".  Once a key was found for
\* a blob that is all there, no later or slower search forgets it.
MatchRemembered ==
  [][\A s \in Sources :
       Complete(s) /\ resolved[s] \in AesKeys => resolved'[s] = resolved[s]]_vars

\* A block that was read whole, of a blob that is all there and whose key we have,
\* is served: it is never refused for want of a key, as corrupt or as failing its
\* checksum, in whatever order the blob's blocks were touched and by whom.
IntactBlocksServed ==
  \A t \in Threads :
    LET b == blk[t]
    IN  phase[t] = "done" /\ op[t] = "block" /\ sample[t] /\ b \notin Misfits /\
        (Encrypted(b) => Complete(SourceOf[b]) /\ KeyAvailable(SourceOf[b]))
          => result[t] = "good"

\* The inductive invariant behind ServedGenuine: the cache is in order as well.
ServeInv == ServedGenuine /\ Cache!Sound(blocks)

\* What a call has learnt by the time it is where it is.
Learnt(t) ==
  LET b == blk[t]
  IN  /\ phase[t] # "idle" => b \in Blocks
      /\ phase[t] \in {"idle", "raw"} => ~sample[t]
      /\ phase[t] = "raw" /\ op[t] = "probe" => Encrypted(b)
      /\ phase[t] \in {"lookup", "search"} =>
           Encrypted(b) /\ (Complete(SourceOf[b]) => sample[t])
      /\ phase[t] = "decode" /\ Encrypted(b) => using[t] = TrueKey[SourceOf[b]]

\* The inductive invariant behind the three properties above: what is
\* remembered of a source is what its data and our keys say, and every call
\* under way is on its way to the same answer.
KeyInv ==
  /\ resolved \in [Sources -> AesKeys \cup {"none", "unknown"}]
  /\ Blocks \ Unfinished \subseteq intact
  /\ phase \in [Threads -> {"idle", "raw", "lookup", "search", "decode", "done"}]
  /\ op \in [Threads -> {"block", "probe"}]
  /\ sample \in [Threads -> BOOLEAN]
  /\ Threads = DOMAIN blk /\ Threads = DOMAIN using /\ Threads = DOMAIN result
  /\ \A s \in Sources :
       /\ resolved[s] \in AesKeys => resolved[s] = TrueKey[s] /\ KeyAvailable(s)
       /\ resolved[s] = "none" => ~(Complete(s) /\ KeyAvailable(s))
  /\ \A t \in Threads : Learnt(t)
  /\ IntactBlocksServed

\* README: "With verification on, a block from an unfinished download fails
\* with EIO instead of reading as zeros."
\* Does not hold as it stands: see "Other divergences" in the README.
UnfinishedReadsEio ==
  Verify =>
    \A t \in Threads :
      phase[t] = "done" /\ op[t] = "block" /\ blk[t] \in Unfinished /\ result[t] \in Failures
        => result[t] = "io"

=============================================================================
