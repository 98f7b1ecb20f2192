------------------------------ MODULE WinView ------------------------------
(* winfs.rs: the WinFsp frontend.  Callers name things by path, in any case,  *)
(* and there are no links: a link is the directory it points at.              *)
(*                                                                            *)
(* A path is a sequence of components, which are names of the tree as they    *)
(* come out of Lossy, the conversion to text that every listed name goes      *)
(* through, or another spelling of one.                                       *)
EXTENDS Tree

CONSTANTS Lossy(_),     \* from_utf8_lossy
          Fold(_),      \* a component in lower case
          DotName,      \* the components "." and ".."
          DotDotName,
          Spellings     \* components a caller may use

status(e) ==
  CASE e = "NotFound" -> "STATUS_OBJECT_NAME_NOT_FOUND"
    [] e = "NotADirectory" -> "STATUS_NOT_A_DIRECTORY"
    [] e = "Missing" -> "STATUS_FILE_INVALID"
    [] e = "NoKey" -> "STATUS_ACCESS_DENIED"
    [] e = "Io" -> "STATUS_IO_DEVICE_ERROR"
    [] e = "BadData" -> "STATUS_FILE_CORRUPT_ERROR"

\* A key, or the error that ended the walk.
Failed(e) == [kind |-> "Error", of |-> e, node |-> 0]

Resolve(k) ==
  CASE k.kind = "Latest" /\ Latest(k.of) # 0 -> Version(Latest(k.of))
    [] k.kind = "DateLink" -> Version(k.of)
    [] OTHER -> k

LookupInsensitive(k, n) ==
  LET same == {e \in Entries(k) : Fold(Lossy(e.name)) = Fold(n)}
  IN  IF ~Listed(k) THEN Failed(EntriesError(k))
      ELSE IF same = {} THEN Failed("NotFound")
      ELSE (CHOOSE e \in same : TRUE).key

\* Mutant of Found: no exact lookup first.
FoundAnyCase(k, n) == LookupInsensitive(k, n)

\* One component: the exact name, or else one that differs in case only.
Found(k, n) ==
  LET exact == Lookup(k, n)
  IN  CASE exact = Unparsed -> Failed("Io")
        [] exact = NoKey -> LookupInsensitive(k, n)
        [] OTHER -> exact

\* The body of the loop, for one component.
Walk(k, n) ==
  IF k.kind = "Error" \/ n = DotName THEN k
  ELSE IF n = DotDotName THEN ParentKey(k)
  ELSE Found(Resolve(k), n)

resolve_path(path) == Resolve(FoldLeft(Walk, RootKey, path))

\* meta, as a listing and an open show it
Info(k, chained) ==
  [directory |-> Meta(k, chained).kind # "File", size |-> Meta(k, chained).size]

\* open; get_security_by_name starts the same way and shows the same attributes
Open(path, chained) ==
  LET k == resolve_path(path)
  IN  IF k.kind = "Error" THEN [status |-> status(k.of)] ELSE [key |-> k, info |-> Info(k, chained)]

\* read_directory of a directory that can be listed, without "." and ".."
ReadDirectory(k, chained) ==
  {[name |-> Lossy(e.name), key |-> Resolve(e.key), info |-> Info(Resolve(e.key), chained)] :
     e \in Entries(k)}

\* read at an offset of an open file; what Store::read does is FileRead's subject
Read(k, offset, chained) ==
  LET loc == Locate(k, chained)
  IN  IF "error" \in DOMAIN loc THEN [status |-> status(loc.error)]
      ELSE IF offset >= loc.size THEN [status |-> "STATUS_END_OF_FILE"]
      ELSE IF loc.dat = "missing" THEN [status |-> status("Missing")]
      ELSE [upto |-> loc.size]

-----------------------------------------------------------------------------
\* The directories a caller can come to by opening what it sees listed.
Seen ==
  LET below(S) == {[path |-> Append(x.path, Lossy(e.name)), key |-> Resolve(e.key)] :
                     <<x, e>> \in UNION {{x} \X Entries(x.key) : x \in S}}
      dirs(S) == {x \in S : Listed(x.key)}
      level0 == {[path |-> <<>>, key |-> RootKey]}
      level1 == dirs(below(level0))
      level2 == dirs(below(level1))
      level3 == dirs(below(level2))
      level4 == dirs(below(level3))
  IN  level0 \cup level1 \cup level2 \cup level3 \cup level4

\* Opening a listed name by its path opens what was listed, with the attributes
\* and the size the listing showed, through links and below them; any other
\* spelling opens an entry that differs in case only, if there is one, and
\* otherwise reports that there is none.  The exact name wins over one that
\* differs in case.  Within a size shown while the version's chain was readable, a
\* file either cannot be read at all or can be read to its end: reading never meets
\* the end of the file earlier.
WinOpensWhatItLists ==
  phase = "ready" =>
    \A x \in Seen, chained \in BOOLEAN :
      LET shown == ReadDirectory(x.key, chained)
      IN  /\ \A s \in shown :
               LET opened == Open(Append(x.path, s.name), chained)
               IN  /\ \E same \in shown : /\ same.name = s.name
                                          /\ opened = [key |-> same.key, info |-> same.info]
                   /\ \A at \in 0..(s.info.size - 1), later \in BOOLEAN :
                        chained => Read(s.key, at, later) \in {[upto |-> s.info.size]} \cup
                          {[status |-> status(e)] : e \in {"Io", "Missing"}}
          /\ \A n \in Spellings :
               LET opened == Open(Append(x.path, n), chained)
                   similar == {s \in shown : Fold(s.name) = Fold(n)}
               IN  IF similar = {} THEN opened = [status |-> "STATUS_OBJECT_NAME_NOT_FOUND"]
                   ELSE \E s \in similar : opened = [key |-> s.key, info |-> s.info]
=============================================================================
