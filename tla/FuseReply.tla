----------------------------- MODULE FuseReply -----------------------------
(* fs.rs: what the FUSE frontend answers about a key of the virtual tree.     *)
(* How inodes stand for keys and directory handles for listings is FuseView's *)
(* subject.  A reply is [errno |-> name], or has the fields of the answer.    *)
EXTENDS Tree

Fails(e) == [errno |-> e]
Succeeds(reply) == "errno" \notin DOMAIN reply

errno(e) ==
  CASE e = "NotFound" -> "ENOENT"
    [] e = "NotADirectory" -> "ENOTDIR"
    [] e = "Missing" -> "ENXIO"
    [] e = "NoKey" -> "ENOKEY"
    [] e = "Io" -> "EIO"
    [] e = "BadData" -> "EBADMSG"

\* attr, as to the permissions; getattr
perm(kind) == CASE kind = "Dir" -> "r-x" [] kind = "Symlink" -> "rwx" [] kind = "File" -> "r--"

getattr(k, chained) ==
  LET meta == Meta(k, chained)
  IN  IF k.kind = "Node" /\ ~Loads(k) THEN Fails(errno("Io"))
      ELSE [kind |-> meta.kind, perm |-> perm(meta.kind), size |-> meta.size]

readlink(k) ==
  IF k.kind \in {"Latest", "DateLink"} THEN [target |-> LinkTarget(k)] ELSE Fails("EINVAL")

\* opendir, as to dir_entries: `.`, `..` and the children
opendir(k) ==
  IF ~Listed(k) THEN Fails(errno(EntriesError(k)))
  ELSE [here |-> k, up |-> ParentKey(k), children |-> Entries(k)]

open(k) == IF k.kind = "Node" THEN [fh |-> 0] ELSE Fails("EISDIR")

\* read; what Store::read does with a located file is FileRead's subject
read(k, chained) ==
  LET loc == Locate(k, chained)
  IN  IF "error" \in DOMAIN loc THEN Fails(errno(loc.error))
      ELSE IF loc.dat = "missing" THEN Fails(errno("Missing"))
      ELSE [size |-> loc.size]

-----------------------------------------------------------------------------
FileRoot(b) == LET m == ManifestOf(b) IN ~m[ManifestRoot(m)].dir

\* What a listing says an entry is, stat says too, and the calls for that kind
\* are the ones that work.  A directory can be opened, unless its blob cannot be
\* read, which is EIO and never ENOENT or ENOTDIR, or it is read and the root of its
\* manifest is no directory, which is ENOTDIR.  A link can be read and leads to the newest
\* version, or the one it is named after.  A file can be opened; if it can be read
\* then a stat made while its version's chain was readable gave the size of the
\* record the bytes come from, since the kernel cuts reads there.
ServedAsListed ==
  phase = "ready" =>
    \A k \in {k \in Reachable : Listed(k)} : \A e \in Entries(k) : \A chained \in BOOLEAN :
      LET at == getattr(e.key, chained)
      IN  /\ Succeeds(at) /\ at.kind = e.kind
          /\ e.kind = "Dir" =>
               /\ IF ~Loads(e.key) THEN opendir(e.key) = Fails("EIO")
                  ELSE IF e.key.kind = "Version" /\ FileRoot(e.key.of)
                    THEN opendir(e.key) = Fails("ENOTDIR")
                  ELSE Succeeds(opendir(e.key))
               /\ ~Succeeds(readlink(e.key)) /\ ~Succeeds(read(e.key, chained))
          /\ e.kind = "Symlink" =>
               /\ ~Succeeds(open(e.key)) /\ ~Succeeds(opendir(e.key))
               /\ Lookup(Depot(k.of), readlink(e.key).target) =
                    Version(IF e.key.kind = "Latest" THEN Latest(k.of) ELSE e.key.of)
          /\ e.kind = "File" =>
               /\ Succeeds(open(e.key)) /\ ~Succeeds(readlink(e.key)) /\ ~Succeeds(opendir(e.key))
               /\ \A later \in BOOLEAN :
                    chained /\ Succeeds(read(e.key, later)) => read(e.key, later).size = at.size
=============================================================================
