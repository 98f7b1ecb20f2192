------------------------------ MODULE Workers ------------------------------
(***************************************************************************)
(* main.rs, verify and key_audit: worker threads that claim items from one   *)
(* counter, and what each command reports once they have all stopped.        *)
(* verify's items are the file nodes of one version and its workers build    *)
(* the path of each and call Store::block (FileRead) for every block;        *)
(* key_audit's items are blobs, and its workers look for the key of each     *)
(* (KeyStore; how a key is tried is BlockRead's subject).                    *)
(***************************************************************************)
EXTENDS FileRead, KeyStore

CONSTANTS
  FileNodes,    \* [versions -> Seq]: verify: the file of each file node, in tree order
  Parents,      \* [versions -> [nodes -> nodes or NoNode]]: a file node is its place above
  NoNode,
  Blobs,        \* key-audit: the blobs, in the order of the index
  BlobInfo      \* [blobs -> [state, depot, crc, key]]: see AuditBlob

VARIABLES
  next,         \* the counter
  item,         \* what each worker has claimed
  counted,      \* verify: blocks read
  report,       \* lines, in the order they were pushed
  counts,       \* key-audit: the five counters
  discovered    \* key-audit: lines for the keys file

poolVars == <<next, item, counted, report, counts, discovered>>

NoCounts == [encrypted_blobs |-> 0, ok |-> 0, discovered |-> 0, unreadable |-> 0, no_key |-> 0]

PoolInit ==
  /\ next = 1
  /\ item = [w \in Threads |-> 0]
  /\ counted = 0
  /\ report = <<>>
  /\ counts = NoCounts
  /\ discovered = <<>>

(***************************************************************************)
(* verify                                                                   *)
(***************************************************************************)
\* The worker asks for the block at position p of file f.
ReadBlockAt(w, f, p) ==
  /\ file' = [file EXCEPT ![w] = f]
  /\ pos' = [pos EXCEPT ![w] = p]
  /\ counted' = counted + 1
  /\ Goto(w, "look")

\* Manifest::path goes from parent to parent.  The parents of an accepted
\* manifest are nodes of it, but nothing keeps them from going round.
PathEnds(v, node) ==
  LET up[k \in 0..Cardinality(DOMAIN Parents[v])] ==
        IF k = 0 THEN node
        ELSE IF up[k - 1] = NoNode THEN NoNode ELSE Parents[v][up[k - 1]]
  IN  NoNode \in Range(up)

\* fetch_add on the counter, and the first steps of the loop's body: a node
\* whose path does not end keeps the worker, and its memory grows, for ever; one without a record is
\* reported, one without blocks is done.
VerifyClaim(v, w) ==
  LET claimed == FileNodes[v][next]
  IN  /\ pc[w] = "claim"
      /\ next' = next + 1
      /\ item' = [item EXCEPT ![w] = next]
      /\ \/ /\ next > Len(FileNodes[v])
            /\ Goto(w, "stopped") /\ UNCHANGED <<file, pos, counted, got>>
         \/ /\ next <= Len(FileNodes[v]) /\ ~PathEnds(v, next)
            /\ Goto(w, "path") /\ UNCHANGED <<file, pos, counted, got>>
         \/ /\ next <= Len(FileNodes[v]) /\ PathEnds(v, next) /\ claimed \notin Files
            /\ got' = [got EXCEPT ![w] = Error("norecord")]
            /\ Goto(w, "report")
            /\ UNCHANGED <<file, pos, counted>>
         \/ /\ next <= Len(FileNodes[v]) /\ PathEnds(v, next) /\ claimed \in Files
            /\ num_blocks(claimed) = 0
            /\ UNCHANGED <<file, pos, counted, pc, got>>
         \/ /\ next <= Len(FileNodes[v]) /\ PathEnds(v, next) /\ claimed \in Files
            /\ num_blocks(claimed) > 0
            /\ ReadBlockAt(w, claimed, 0)
            /\ UNCHANGED got
      /\ UNCHANGED <<blocks, range, out, report, counts, discovered>>


\* Mutant of VerifyBlock: a block that fails is tried again.
VerifyBlockRetries(w) ==
  LET p == pos[w] + BLOCK_SIZE
  IN  /\ pc[w] = "got"
      /\ \/ ~got[w].ok /\ Goto(w, "look") /\ UNCHANGED <<file, pos, counted, got>>
         \/ /\ got[w].ok /\ p \div BLOCK_SIZE < num_blocks(file[w])
            /\ ReadBlockAt(w, file[w], p)
            /\ got' = [got EXCEPT ![w] = Nothing]
         \/ /\ got[w].ok /\ p \div BLOCK_SIZE >= num_blocks(file[w])
            /\ Goto(w, "claim") /\ got' = [got EXCEPT ![w] = Nothing]
            /\ UNCHANGED <<file, pos, counted>>
      /\ UNCHANGED <<blocks, range, out, next, item, report, counts, discovered>>

\* What verify does with the result of one block.
VerifyBlock(w) ==
  LET p == pos[w] + BLOCK_SIZE
  IN  /\ pc[w] = "got"
      /\ \/ ~got[w].ok /\ Goto(w, "report") /\ UNCHANGED <<file, pos, counted, got>>
         \/ /\ got[w].ok /\ p \div BLOCK_SIZE < num_blocks(file[w])
            /\ ReadBlockAt(w, file[w], p)
            /\ got' = [got EXCEPT ![w] = Nothing]
         \/ /\ got[w].ok /\ p \div BLOCK_SIZE >= num_blocks(file[w])
            /\ Goto(w, "claim") /\ got' = [got EXCEPT ![w] = Nothing]
            /\ UNCHANGED <<file, pos, counted>>
      /\ UNCHANGED <<blocks, range, out, next, item, report, counts, discovered>>

VerifyReport(w) ==
  /\ pc[w] = "report"
  /\ report' = Append(report, [node |-> item[w], class |-> got[w].class])
  /\ got' = [got EXCEPT ![w] = Nothing]
  /\ Goto(w, "claim")
  /\ UNCHANGED <<blocks, file, range, pos, out, next, item, counted, counts, discovered>>

VerifyStep(v, w) ==
  \/ VerifyClaim(v, w) \/ VerifyBlock(w) \/ VerifyReport(w)
  \/ (Look(w) \/ Decode(w)) /\ UNCHANGED poolVars

Stopped == \A w \in Threads : pc[w] = "stopped"

\* After the scope: the lines sorted by node.
VerifyLines == SortSeq(report, LAMBDA a, b : a.node < b.node)

(***************************************************************************)
(* key-audit                                                                *)
(***************************************************************************)
AuditClaim(w) ==
  /\ pc[w] = "claim"
  /\ next' = next + 1
  /\ item' = [item EXCEPT ![w] = next]
  /\ Goto(w, IF next > Len(Blobs) THEN "stopped" ELSE "audit")
  /\ UNCHANGED <<blocks, file, range, pos, got, out, counted, report, counts, discovered>>

\* resolve_key for a sample that is encrypted with `key`; `search` is key_search.
Resolution(ks, search, b) ==
  LET info == BlobInfo[b]
  IN  IF get_for_blob(ks, info.depot, info.crc) = info.key THEN "ok"
      ELSE IF search /\ info.key \in candidates(ks) THEN "discovered"
      ELSE "no_key"

\* The blob is "unparsed", has nothing "encrypted", has an encrypted file whose
\* dat is missing or too short ("nosample"), or one that can be "probed".
Outcome(ks, search, b) ==
  CASE BlobInfo[b].state \in {"unparsed", "nosample"} -> "unreadable"
    [] BlobInfo[b].state = "probed" -> Resolution(ks, search, b)

KeyLine(b) ==
  [kind |-> "blob", depot |-> BlobInfo[b].depot, crc |-> BlobInfo[b].crc, key |-> BlobInfo[b].key]

\* The body of the loop for one blob.  The counters and the two lists are only
\* read once every worker has stopped, so its updates are one step.
AuditBlob(ks, search, w) ==
  LET b == Blobs[item[w]]
      o == Outcome(ks, search, b)
  IN  /\ pc[w] = "audit"
      /\ \/ BlobInfo[b].state = "plain" /\ UNCHANGED <<counts, report, discovered>>
         \/ /\ BlobInfo[b].state # "plain"
            /\ counts' = [counts EXCEPT ![o] = @ + 1,
                            !.encrypted_blobs = IF BlobInfo[b].state = "unparsed" THEN @ ELSE @ + 1]
            /\ report' = IF o = "ok" THEN report ELSE Append(report, [node |-> item[w], class |-> o])
            /\ discovered' = IF o = "discovered" THEN Append(discovered, KeyLine(b)) ELSE discovered
      /\ Goto(w, "claim")
      /\ UNCHANGED <<blocks, file, range, pos, got, out, next, item, counted>>

AuditStep(ks, search, w) == AuditClaim(w) \/ AuditBlob(ks, search, w)

\* After the scope: the lines sorted as text, by what is said of a blob and then
\* by its file name, for which its place in the index stands here.
AuditLines ==
  LET rank(l) == CASE l.class = "discovered" -> 0 [] l.class = "no_key" -> 1 [] l.class = "unreadable" -> 2
  IN  SortSeq(report, LAMBDA a, b : \/ rank(a) < rank(b)
                                    \/ rank(a) = rank(b) /\ a.node < b.node)
=============================================================================
