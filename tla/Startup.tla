------------------------------ MODULE Startup ------------------------------
(***************************************************************************)
(* backend/mod.rs, backend/local.rs and the session part of backend/sftp.rs: *)
(* from the source argument to an open backend and the listings of the       *)
(* dump's two directories, which Index::load starts from.                    *)
(*                                                                          *)
(* One thread runs all of it.  The answers of the server, the agent and the  *)
(* file system are choices.  A source string is the fields parse_source      *)
(* looks at: does it name a local path that exists, has it the sftp://       *)
(* prefix, what stands before and after the first colon (or slash, behind    *)
(* the prefix), and is there a slash before the colon.                       *)
(***************************************************************************)
EXTENDS Integers, Sequences, FiniteSets

CONSTANTS
  Contents,        \* [directories of the server, and "local" -> [Dirs -> sequence of names]]
  MaxKeys          \* most identities an agent offers, and most identity files

Dirs == {"blobs", "dats"}

VARIABLES
  source,    \* the source argument: [exists, prefix, colon, host, slash, path]
  phase,     \* where the program is
  untried,   \* keys not offered to the server yet
  conn,      \* "up", or "lost" once the connection is gone
  chan,      \* the channel find runs on: what has arrived
  todo,      \* the directories still to list
  listing    \* what was listed

startVars == <<source, phase, untried, conn, chan, todo, listing>>
session == <<untried, conn, chan, todo, listing>>

NoChannel == [stdout |-> <<>>, status |-> "none", eof |-> FALSE]
NoListing == [d \in Dirs |-> <<>>]

parse_source(s) ==
  CASE s.exists -> [kind |-> "local", path |-> "local"]
    [] ~s.exists /\ s.prefix ->
         [kind |-> "sftp", path |-> IF s.path = "" THEN "/" ELSE s.path]
    [] ~s.exists /\ ~s.prefix /\ s.colon /\ s.host # "" /\ ~s.slash ->
         [kind |-> "sftp", path |-> IF s.path = "" THEN "." ELSE s.path]
    [] OTHER -> [kind |-> "local", path |-> "missing"]

\* The directory SftpBackend::path resolves names against: connect trims the
\* slashes at the end of the root, and an empty root is the login directory.
RootOf(path) == IF path \in {"/", "."} THEN "." ELSE path

Root == LET s == parse_source(source) IN IF s.kind = "sftp" THEN RootOf(s.path) ELSE s.path

StartInit ==
  /\ phase = "open"
  /\ untried = 0
  /\ conn = "up"
  /\ chan = NoChannel
  /\ todo = <<"blobs", "dats">>
  /\ listing = NoListing

\* One step of the startup goes on to phase `to`, or ends the program.
OrFail(to) == phase' \in {to, "failed"}

\* backend::open
Open ==
  /\ phase = "open"
  /\ phase' = parse_source(source).kind
  /\ UNCHANGED <<source, session>>

\* LocalBackend::new: canonicalize and is_dir.
OpenLocal ==
  /\ phase = "local"
  /\ IF Root \in DOMAIN Contents THEN OrFail("list") ELSE phase' = "failed"
  /\ UNCHANGED <<source, session>>

\* connect: the stream, then the handshake.
Connect ==
  /\ phase = "sftp"
  /\ OrFail("handshake")
  /\ UNCHANGED <<source, session>>

\* check_server_key: known_hosts has the key, has another one, or has none; a
\* certificate is refused.
Handshake ==
  /\ phase = "handshake"
  /\ \E verdict \in {"known", "mismatch", "changed", "unknown", "certificate"} :
       phase' = IF verdict \in {"known", "unknown"} THEN "agent" ELSE "failed"
  /\ UNCHANGED <<source, session>>

\* authenticate: an agent that cannot list its identities is an error, no agent
\* at all is not.
AskAgent ==
  /\ phase = "agent"
  /\ \/ phase' = "failed" /\ UNCHANGED untried
     \/ phase' = "agentkeys" /\ untried' \in 0..MaxKeys
  /\ UNCHANGED <<source, conn, chan, todo, listing>>

\* The next identity of the agent, or the next identity file: it is accepted, or
\* it is rejected, fails, or cannot be used, and the one after it is tried.
TryKey(keys, otherwise) ==
  /\ phase = keys
  /\ \/ untried > 0 /\ phase' = "channel" /\ untried' = 0
     \/ untried > 0 /\ untried' = untried - 1 /\ UNCHANGED phase
     \/ untried = 0 /\ otherwise
  /\ UNCHANGED <<source, conn, chan, todo, listing>>

TryAgentKey == TryKey("agentkeys", phase' = "filekeys" /\ untried' \in 0..MaxKeys)
TryIdentityFile == TryKey("filekeys", phase' = "failed" /\ UNCHANGED untried)

\* connect: the session channel, the sftp subsystem, the sftp handshake.
OpenSession ==
  /\ \/ phase = "channel" /\ OrFail("subsystem")
     \/ phase = "subsystem" /\ OrFail("init")
     \/ phase = "init" /\ OrFail("list")
  /\ UNCHANGED <<source, session>>

(***************************************************************************)
(* list_dir, for each directory in turn.                                     *)
(***************************************************************************)
Names == IF Root \in DOMAIN Contents THEN Contents[Root][Head(todo)] ELSE <<>>

\* The listing of the current directory is `names`.
Listed(names) ==
  /\ listing' = [listing EXCEPT ![Head(todo)] = names]
  /\ todo' = Tail(todo)
  /\ chan' = NoChannel
  /\ phase' = IF Len(todo) = 1 THEN "keys" ELSE "list"

\* LocalBackend::list_dir: one entry that cannot be looked at fails the listing.
ListLocal ==
  /\ phase = "list" /\ parse_source(source).kind = "local"
  /\ \/ Listed(Names)
     \/ phase' = "failed" /\ UNCHANGED <<chan, todo, listing>>
  /\ UNCHANGED <<source, untried, conn>>

\* list_dir_via_find: open a channel and run find.
FindStart ==
  /\ phase = "list" /\ parse_source(source).kind = "sftp"
  /\ \/ phase' = "find" /\ conn = "up"
     \/ phase' = "opendir"
  /\ UNCHANGED <<source, session>>

\* The messages of the channel.  Output arrives in order and before EOF.  The
\* exit status arrives on either side of EOF or, if find is killed, not at all;
\* it is zero only if find lists everything.
FindMessage ==
  /\ phase = "find"
  /\ \/ /\ ~chan.eof /\ Len(chan.stdout) < Len(Names)
        /\ chan' = [chan EXCEPT !.stdout = SubSeq(Names, 1, Len(@) + 1)]
     \/ /\ chan.status = "none"
        /\ Root \in DOMAIN Contents /\ (chan.eof => chan.stdout = Names)
        /\ chan' = [chan EXCEPT !.status = "zero"]
     \/ chan.status = "none" /\ chan' = [chan EXCEPT !.status = "other"]
     \/ /\ ~chan.eof /\ (chan.status = "zero" => chan.stdout = Names)
        /\ chan' = [chan EXCEPT !.eof = TRUE]
  /\ UNCHANGED <<source, phase, untried, conn, todo, listing>>

\* The channel is closed, after EOF or because the connection is gone.
ChannelEnds == (chan.eof /\ UNCHANGED conn) \/ conn' = "lost"

\* Mutant of FindDone: only an error status is refused, none at all is not.
FindDoneWithoutStatus ==
  /\ phase = "find" /\ ChannelEnds
  /\ IF chan.status # "other" THEN Listed(chan.stdout)
     ELSE phase' = "opendir" /\ chan' = NoChannel /\ UNCHANGED <<todo, listing>>
  /\ UNCHANGED <<source, untried>>

\* list_dir: the output counts if find exited with 0; otherwise fall back.
FindDone ==
  /\ phase = "find" /\ ChannelEnds
  /\ IF chan.status = "zero" THEN Listed(chan.stdout)
     ELSE phase' = "opendir" /\ chan' = NoChannel /\ UNCHANGED <<todo, listing>>
  /\ UNCHANGED <<source, untried>>

\* list_dir_via_sftp
OpenDir ==
  /\ phase = "opendir"
  /\ IF conn = "up" /\ Root \in DOMAIN Contents THEN OrFail("readdir") ELSE phase' = "failed"
  /\ UNCHANGED <<source, session>>

\* A page of entries, the EOF status after the last, or an error, which fails
\* the listing whatever has arrived.
ReadDir ==
  /\ phase = "readdir"
  /\ \/ \E n \in (Len(chan.stdout) + 1)..Len(Names) :
          chan' = [chan EXCEPT !.stdout = SubSeq(Names, 1, n)] /\ UNCHANGED <<phase, todo, listing>>
     \/ chan.stdout = Names /\ Listed(Names)
     \/ phase' = "failed" /\ chan' = NoChannel /\ UNCHANGED <<todo, listing>>
  /\ UNCHANGED <<source, untried, conn>>

StartStep ==
  \/ Open \/ OpenLocal \/ Connect \/ Handshake \/ AskAgent \/ TryAgentKey \/ TryIdentityFile
  \/ OpenSession \/ ListLocal \/ FindStart \/ FindMessage \/ FindDone \/ OpenDir \/ ReadDir

-----------------------------------------------------------------------------
\* What the usage text says a source string names: an existing local path, the
\* absolute path of an sftp:// string, or scp's host:path.
NamedBy(s) ==
  IF s.exists THEN "local"
  ELSE IF s.path # "" THEN s.path
  ELSE IF s.prefix THEN "/" ELSE "."

\* A listing that list_dir returned is the whole directory the source names, by
\* whichever way it was obtained and however the messages of find's channel and
\* the pages of readdir interleave with failures: never a part of it.  (When the
\* connection is lost between find's exit status and the end of its output a part
\* is returned, but then no later call to the server succeeds.)
ListingComplete ==
  conn = "up" =>
    \A d \in Dirs : (\A i \in DOMAIN todo : todo[i] # d) /\ phase # "failed"
                    => listing[d] = Contents[NamedBy(source)][d]
=============================================================================
