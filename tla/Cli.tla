-------------------------------- MODULE Cli --------------------------------
(***************************************************************************)
(* main.rs: a process of the program from its arguments to its exit, and     *)
(* the processes started after it.  Each opens the store (Startup, then the  *)
(* keys and the cache directory) and runs its command: mount (FileRead),     *)
(* verify or key-audit (Workers), or inspect.                                *)
(*                                                                          *)
(* The file key-audit appends to outlives the process; a later one may be    *)
(* given it with --keys-file.                                                *)
(***************************************************************************)
EXTENDS Startup, Workers

CONSTANTS
  Invocations,   \* [command, source, version, files, keys_file, keys, key_search, no_blob_cache]
  MaxLines       \* no process is started once the keys file is longer

\* The commands that read dats read a local dump here; reads over a connection
\* are the subject of Sftp.
ASSUME LocalReads == \A i \in Invocations : i.command # "inspect" => i.source.exists

VARIABLES
  args,        \* the invocation
  keys,        \* the KeyStore
  keysfile,    \* the lines of the file
  exit         \* "running", or how the process ended

cliVars == <<args, keys, keysfile, exit>>
vars == <<startVars, readVars, poolVars, cliVars>>

Init ==
  /\ args \in Invocations /\ source = args.source
  /\ StartInit /\ ReadInit /\ PoolInit
  /\ pc = [t \in Threads |-> "idle"]
  /\ keys = EmptyStore
  /\ keysfile = <<>>
  /\ exit = "running"

\* An error anywhere in main ends the process.
Exits == exit' = IF phase' = "failed" THEN "error" ELSE "running"

(***************************************************************************)
(* open_store                                                               *)
(***************************************************************************)
OpenBackend ==
  /\ exit = "running" /\ StartStep /\ Exits
  /\ UNCHANGED <<readVars, poolVars, args, keys, keysfile>>

\* The keys file, if one is given and can be read, then the --key arguments,
\* which therefore win.  An argument is never a comment line.
LoadKeys ==
  LET file_keys == IF args.keys_file THEN load_file(EmptyStore, keysfile) ELSE EmptyStore
  IN  /\ phase = "keys"
      /\ \/ keys' = load_file(file_keys, args.keys)
         \/ args.keys_file /\ keys' = [EmptyStore EXCEPT !.ok = FALSE]
      /\ phase' = IF keys'.ok THEN "cachedir" ELSE "failed"
      /\ Exits
      /\ UNCHANGED <<source, session, readVars, poolVars, args, keysfile>>

\* default_cache_dir and create_dir_all.
OpenCacheDir ==
  /\ phase = "cachedir"
  /\ IF args.no_blob_cache THEN phase' = "begin" ELSE OrFail("begin")
  /\ Exits
  /\ UNCHANGED <<source, session, readVars, poolVars, args, keys, keysfile>>

(***************************************************************************)
(* The commands.                                                            *)
(***************************************************************************)
\* verify and inspect fail if the depot, the version, its blob or its table is
\* missing or the connection does not deliver it; mount may fail.
Begin ==
  /\ phase = "begin"
  /\ IF args.command = "key-audit" THEN phase' = "run" ELSE OrFail("run")
  /\ Exits
  /\ pc' = [t \in Threads |-> IF args.command \in {"verify", "key-audit"} /\ phase' = "run"
                             THEN "claim" ELSE "idle"]
  /\ UNCHANGED <<source, session, blocks, file, range, pos, got, out,
                 poolVars, args, keys, keysfile>>

Running(command) == exit = "running" /\ phase = "run" /\ args.command = command

Serve(t) ==
  /\ Running("mount") /\ ReadStep(t)
  /\ UNCHANGED <<startVars, poolVars, cliVars>>

Unmount ==
  /\ Running("mount") /\ \A t \in Threads : pc[t] = "idle"
  /\ exit' = "ok"
  /\ UNCHANGED <<startVars, readVars, poolVars, args, keys, keysfile>>

Verify(t) ==
  /\ Running("verify") /\ VerifyStep(args.version, t)
  /\ UNCHANGED <<startVars, cliVars>>

\* verify, after the scope.
VerifyDone ==
  /\ Running("verify") /\ Stopped
  /\ report' = VerifyLines
  /\ exit' = IF report = <<>> THEN "ok" ELSE "error"
  /\ UNCHANGED <<startVars, readVars, next, item, counted, counts, discovered, args, keys, keysfile>>

Audit(t) ==
  /\ Running("key-audit") /\ AuditStep(keys, args.key_search, t)
  /\ UNCHANGED <<startVars, cliVars>>

\* The lines written for one discovered key: a comment, then the key.
Written(lines) == FlattenSeq([i \in DOMAIN lines |-> <<[kind |-> "comment"], lines[i]>>])

\* key_audit, after the scope: the lines are sorted, the keys are appended.  A write that fails leaves
\* the lines before it, and perhaps a part of its own, which no longer parses.
AuditDone ==
  /\ Running("key-audit") /\ Stopped
  /\ \/ keysfile' = keysfile \o Written(discovered) /\ exit' = "ok"
     \/ /\ exit' = "error"
        /\ \E n \in 0..(Len(discovered) - 1), torn \in {<<>>, <<[kind |-> "bad"]>>} :
             keysfile' = keysfile \o Written(SubSeq(discovered, 1, n)) \o torn
  /\ report' = AuditLines
  /\ UNCHANGED <<startVars, readVars, next, item, counted, counts, discovered, args, keys>>

\* inspect: files, those with a record, those whose dat is there.
Nodes == FileNodes[args.version]
Located == {i \in DOMAIN Nodes : Nodes[i] \in Files}
Readable == {i \in Located : Record[Nodes[i]].dat # NoDat}
Endless == {i \in DOMAIN Nodes : ~PathEnds(args.version, i)}

\* With --files it goes on to print the path of every file.
Inspect ==
  /\ Running("inspect")
  /\ report' = <<[files |-> Len(Nodes), located |-> Cardinality(Located),
                  readable |-> Cardinality(Readable)]>>
  /\ IF args.files /\ Endless # {} THEN phase' = "path" /\ UNCHANGED exit
     ELSE exit' = "ok" /\ UNCHANGED phase
  /\ UNCHANGED <<source, session, readVars, next, item, counted, counts, discovered, args,
                 keys, keysfile>>

\* The next process starts from nothing but the keys file.  One that is not given
\* the file does what it would have done as the first.
Restart ==
  /\ exit # "running" /\ Len(keysfile) <= MaxLines
  /\ args' \in {i \in Invocations : i.keys_file} /\ source' = args'.source
  /\ phase' = "open" /\ untried' = 0 /\ conn' = "up" /\ chan' = NoChannel
  /\ todo' = <<"blobs", "dats">> /\ listing' = NoListing
  /\ blocks' = Cache!New
  /\ file' = [t \in Threads |-> AnyFile] /\ range' = [t \in Threads |-> <<0, 0>>]
  /\ pos' = [t \in Threads |-> 0]
  /\ got' = [t \in Threads |-> Nothing] /\ out' = [t \in Threads |-> Nothing]
  /\ next' = 1 /\ item' = [w \in Threads |-> 0]
  /\ counted' = 0 /\ report' = <<>> /\ counts' = NoCounts /\ discovered' = <<>>
  /\ pc' = [t \in Threads |-> "idle"]
  /\ keys' = EmptyStore
  /\ exit' = "running"
  /\ UNCHANGED keysfile

\* What the process does by itself, once it is started.
Process ==
  \/ OpenBackend \/ LoadKeys \/ OpenCacheDir \/ Begin
  \/ VerifyDone \/ AuditDone \/ Inspect
  \/ \E t \in Threads : Verify(t) \/ Audit(t)

Next == Process \/ Unmount \/ Restart \/ \E t \in Threads : Serve(t)

\* The process keeps running, whichever of its threads does.
Spec == Init /\ [][Next]_vars /\ WF_vars(Process)

-----------------------------------------------------------------------------
TypeOK ==
  /\ ReadTypeOK
  /\ args \in Invocations
  /\ exit \in {"running", "ok", "error"}
  /\ conn \in {"up", "lost"}
  /\ counts \in [DOMAIN NoCounts -> Nat]

\* The first block of node i that verify cannot read, counted from 0; the number
\* of its blocks if it can read them all.
FirstBad(f) ==
  LET bad == {b \in 0..(num_blocks(f) - 1) : Record[f].dat = NoDat \/ ~Decoded(f, b).ok}
  IN  IF bad = {} THEN num_blocks(f) ELSE Min(bad)

\* A stored block of no bytes has the place in its dat, and so the cache key, of
\* the block behind it: whichever is decoded first answers for both.
SharesKey(f) ==
  \E a, b \in StoredBlocks : a # b /\ a[1] = f /\ BlockKey(a[1], a[2]) = BlockKey(b[1], b[2])

Failing == {i \in DOMAIN Nodes : Nodes[i] \notin Files \/ FirstBad(Nodes[i]) < num_blocks(Nodes[i])}


\* The key a run with this store should find for blob b is the last one said of
\* the blob itself, in the keys file and then on the command line.
SaidOf(b) ==
  SelectSeq((IF args.keys_file THEN keysfile ELSE <<>>) \o args.keys,
            LAMBDA l : l.kind = "blob" /\ l.depot = BlobInfo[b].depot /\ l.crc = BlobInfo[b].crc)

\* key-audit accounts for every blob exactly once, whichever worker claims it: the
\* five counters partition the blobs.  And what it discovers it need not discover
\* again: a blob whose key an earlier audit appended to the keys file that is now
\* given counts as decrypting with the configured key, unless an argument says
\* otherwise, also when other blobs of its depot have other keys.
AuditTruth ==
  Running("key-audit") /\ Stopped =>
    LET blobsOf(states) == {i \in DOMAIN Blobs : BlobInfo[Blobs[i]].state \in states}
        known == {i \in blobsOf({"probed"}) :
                    LET said == SaidOf(Blobs[i])
                    IN  said # <<>> /\ Last(said).key = BlobInfo[Blobs[i]].key}
    IN  /\ counts.encrypted_blobs = Cardinality(blobsOf({"nosample", "probed"}))
        /\ counts.unreadable = Cardinality(blobsOf({"unparsed", "nosample"}))
        /\ counts.ok + counts.discovered + counts.no_key = Cardinality(blobsOf({"probed"}))
        /\ counts.ok >= Cardinality(known)
        /\ \A i \in known : KeyLine(Blobs[i]) \notin Range(discovered)
        /\ Len(discovered) = counts.discovered

\* Every process comes to an end, or to a mounted file system: the server answers,
\* offers a finite list of keys and directory pages, and no worker is left behind
\* by an item that cannot be read.  The exception is a manifest whose parents go
\* round, over which verify and inspect --files build paths for ever.
CommandsEnd ==
  LET paths == args.command = "verify" \/ (args.command = "inspect" /\ args.files)
  IN  exit = "running" /\ ~(paths /\ Endless # {})
        ~> (exit # "running" \/ Running("mount"))

\* Manifest::path: "Full path of a node", of any node there is.
\* Does not hold as it stands: see "Other divergences" in the README.
EveryCommandEnds == exit = "running" ~> (exit # "running" \/ Running("mount"))
=============================================================================
