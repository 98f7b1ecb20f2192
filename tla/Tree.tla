-------------------------------- MODULE Tree --------------------------------
(* tree.rs over a loaded Index: the keys of the virtual tree, what is in a    *)
(* directory, what a name in it stands for, where a symlink points and where  *)
(* a key lives; with the parts of format/manifest.rs they are made of.        *)
(*                                                                            *)
(* A manifest is a function from node numbers, from 0, to nodes.  A node is a *)
(* directory or a file, with the links the manifest stores: parent, first     *)
(* child, next sibling; `count` is how many children a directory has, or the  *)
(* size the manifest gives a file; `loc` is what the version's table has for  *)
(* the file: [size, dat |-> "there" or "missing"], or NoLoc.  A blob that     *)
(* cannot be fetched or parsed has no manifest.  The table is made of all     *)
(* blobs of the version's chain, and whether they can be read, `chained`, may *)
(* differ from one call to the next.                                          *)
EXTENDS Index

CONSTANTS Manifests,   \* the manifests a blob may hold
          Unparsed,    \* instead of a manifest; and the error reading it gives
          NoLoc,
          NO_NODE,     \* 0xffffffff
          NoKey,
          LatestName,  \* the names "latest" and "by-date"
          ByDateName

VARIABLES manifest     \* [BlobFiles \ Junk -> Manifests \cup {Unparsed}]

treeVars == <<vars, manifest>>

TreeInit == Init /\ manifest \in [BlobFiles \ Junk -> Manifests \cup {Unparsed}]
TreeNext == Next /\ UNCHANGED manifest
TreeSpec == TreeInit /\ [][TreeNext]_treeVars

\* Key, with unused fields 0
Key(kind, x, node) == [kind |-> kind, of |-> x, node |-> node]
RootKey == Key("Root", 0, 0)
Depot(d) == Key("Depot", d, 0)
LatestKey(d) == Key("Latest", d, 0)
ByDate(d) == Key("ByDate", d, 0)
DateLink(b) == Key("DateLink", b, 0)
Version(b) == Key("Version", b, 0)
Node(b, i) == Key("Node", b, i)

ManifestOf(b) == manifest[blobs[b]]

\* Tree::manifest succeeds, for the keys that need it.
Loads(k) == k.kind \in {"Version", "Node"} => ManifestOf(k.of) # Unparsed

\* Manifest::root: the first node without a parent, or else 0
ManifestRoot(m) ==
  LET rootless == {i \in DOMAIN m : m[i].parent = NO_NODE}
  IN  IF rootless = {} THEN 0 ELSE CHOOSE i \in rootless : \A j \in rootless : i <= j

Siblings(m, first, most) ==
  LET at[i \in 0..most] ==
        IF i = 0 THEN first
        ELSE IF at[i - 1] \in DOMAIN m \ {0} THEN m[at[i - 1]].next_sibling ELSE 0
      ends == {i \in 0..most : i = most \/ at[i] \notin DOMAIN m \ {0}}
      n == CHOOSE i \in ends : \A j \in ends : i <= j
  IN  [i \in 1..n |-> at[i - 1]]

\* Mutant of Children: the last child is left out.
ChildrenButLast(m, dir) ==
  Siblings(m, m[dir].first_child, IF m[dir].count = 0 THEN 0 ELSE m[dir].count - 1)

\* Manifest::children: along next_sibling from first_child, to a link that is
\* 0, NO_NODE or outside the table, and no further than the directory's count
Children(m, dir) == Siblings(m, m[dir].first_child, m[dir].count)

\* Manifest::child_by_name: one with that parent and that name
ChildByName(m, dir, n) ==
  LET found == {i \in DOMAIN m : m[i].parent = dir /\ m[i].name = n}
  IN  IF found = {} THEN NO_NODE ELSE CHOOSE i \in found : TRUE

NodeKey(b, i) == IF i = ManifestRoot(ManifestOf(b)) THEN Version(b) ELSE Node(b, i)
NodeIndex(k) == IF k.kind = "Version" THEN ManifestRoot(ManifestOf(k.of)) ELSE k.node

Entry(n, k, kind) == [name |-> n, key |-> k, kind |-> kind]

NodeKind(m, i) == IF m[i].dir THEN "Dir" ELSE "File"

\* meta, as to the kind; the node of a key that was listed is in its manifest
Kind(k) ==
  CASE k.kind \in {"Root", "Depot", "ByDate", "Version"} -> "Dir"
    [] k.kind \in {"Latest", "DateLink"} -> "Symlink"
    [] k.kind = "Node" -> NodeKind(ManifestOf(k.of), k.node)

IsDir(k) == Kind(k) = "Dir"

\* Mutant of NodeSize: the size is always the manifest's.
NodeSizeOfManifest(n, chained) == n.count

\* node_meta, as to the size of a file: the record's, or the manifest's when
\* Store::locate fails for whatever reason
NodeSize(n, chained) == IF chained /\ n.loc # NoLoc THEN n.loc.size ELSE n.count

\* meta of a key that was listed, once its manifest loads
Meta(k, chained) ==
  [kind |-> Kind(k),
   size |-> IF Kind(k) = "File" THEN NodeSize(ManifestOf(k.of)[k.node], chained) ELSE 0]

\* locate: what a read starts from, or the class of its error
Locate(k, chained) ==
  LET n == ManifestOf(k.of)[k.node]
  IN  IF k.kind # "Node" THEN [error |-> "NotFound"]
      ELSE IF ~Loads(k) THEN [error |-> "Io"]
      ELSE IF n.dir THEN [error |-> "NotFound"]
      ELSE IF ~chained THEN [error |-> "Io"]
      ELSE IF n.loc = NoLoc THEN [error |-> "Missing"]
      ELSE n.loc

\* entries, where it fails.  A version is a directory to meta and lookup, but
\* the root of its manifest need not be one.
EntriesError(k) ==
  LET m == ManifestOf(k.of)
  IN  CASE k.kind \in {"Root", "Depot", "ByDate"} -> "none"
        [] k.kind \in {"Latest", "DateLink"} -> "NotADirectory"
        [] k.kind \in {"Version", "Node"} ->
             IF ~Loads(k) THEN "Io"
             ELSE IF NodeIndex(k) \in DOMAIN m /\ m[NodeIndex(k)].dir THEN "none"
             ELSE "NotADirectory"

Listed(k) == EntriesError(k) = "none"

\* entries, where it succeeds
Entries(k) ==
  CASE k.kind = "Root" ->
         {Entry(d, Depot(d), "Dir") : d \in {d \in Depots : depots[d] # <<>>}}
    [] k.kind = "Depot" ->
         {Entry(names[k.of][i][1], Version(depots[k.of][i]), "Dir") : i \in DOMAIN depots[k.of]}
           \cup {Entry(LatestName, LatestKey(d), "Symlink") : d \in {d \in {k.of} : Latest(d) # 0}}
           \cup {Entry(ByDateName, ByDate(k.of), "Dir")}
    [] k.kind = "ByDate" ->
         {Entry(DateLinkOf(k.of, b), DateLink(b), "Symlink") : b \in Range(date_order[k.of])}
    [] k.kind \in {"Version", "Node"} ->
         LET m == ManifestOf(k.of)
         IN  {Entry(m[c].name, NodeKey(k.of, c), NodeKind(m, c)) :
                c \in Range(Children(m, NodeIndex(k)))}

\* lookup of one name; NoKey is "no such name here"
Lookup(k, n) ==
  CASE k.kind = "Root" ->
         IF n \in Depots /\ depots[n] # <<>> THEN Depot(n) ELSE NoKey
    [] k.kind = "Depot" /\ n = LatestName ->
         IF Latest(k.of) # 0 THEN LatestKey(k.of) ELSE NoKey
    [] k.kind = "Depot" /\ n = ByDateName -> ByDate(k.of)
    [] k.kind = "Depot" /\ n \notin {LatestName, ByDateName} ->
         IF LookupName(k.of, n) # 0 THEN Version(LookupName(k.of, n)) ELSE NoKey
    [] k.kind = "ByDate" ->
         IF LookupDateLink(k.of, n) # 0 THEN DateLink(LookupDateLink(k.of, n)) ELSE NoKey
    [] k.kind \in {"Version", "Node"} ->
         IF ~Loads(k) THEN Unparsed
         ELSE LET c == ChildByName(ManifestOf(k.of), NodeIndex(k), n)
              IN  IF c # NO_NODE THEN NodeKey(k.of, c) ELSE NoKey
    [] k.kind \in {"Latest", "DateLink"} -> NoKey

\* link_target, as the name to look up in the depot's directory
LinkTarget(k) ==
  IF k.kind = "Latest" THEN NameOfBlob(k.of, Latest(k.of))
  ELSE NameOfBlob(BlobName(k.of).depot, k.of)

\* parent
ParentKey(k) ==
  CASE k.kind = "Version" -> Depot(BlobName(k.of).depot)
    [] k.kind = "Node" -> IF Loads(k) THEN NodeKey(k.of, ManifestOf(k.of)[k.node].parent) ELSE Version(k.of)
    [] OTHER -> RootKey

-----------------------------------------------------------------------------
\* Every key a program can come to by listing directories from the root.
Reachable ==
  LET level0 == {RootKey}
      below(S) == UNION {{e.key : e \in Entries(k)} : k \in {k \in S : Listed(k)}}
      level1 == below(level0)
      level2 == below(level1)
      level3 == below(level2)
      level4 == below(level3)
      level5 == below(level4)
  IN  level0 \cup level1 \cup level2 \cup level3 \cup level4 \cup level5

\* A name that a listing shows is found by lookup, and is the same node, and a
\* name lookup finds in a version's tree is one its listing shows: entries and
\* lookup go through different maps (the depot's names and by_name, a manifest's
\* sibling chain and its by_name).  ".." of a version and of what is below one
\* leads back to the directory that lists it.  A directory whose manifest does not
\* load has no listing and never says that a name is not there.
ListingsMatchLookups ==
  phase = "ready" =>
    \A k \in {k \in Reachable : IsDir(k)} :
      /\ Listed(k) => \A e \in Entries(k) :
           /\ Lookup(k, e.name) = e.key
           /\ e.key.kind \in {"Version", "Node"} => ParentKey(e.key) = k
      /\ k.kind \in {"Version", "Node"} =>
           \A n \in UNION {{m[i].name : i \in DOMAIN m} : m \in Manifests} :
             LET c == Lookup(k, n)
             IN  /\ ~Loads(k) => c = Unparsed
                 /\ Listed(k) /\ c # NoKey => \E e \in Entries(k) : e.name = n /\ e.key = c

\* "The directory a key lives in": for every key some directory lists.
\* Does not hold as it stands: see "Other divergences" in the README.
ParentIsWhereKeyLives ==
  phase = "ready" =>
    \A k \in Reachable : Listed(k) => \A e \in Entries(k) : ParentKey(e.key) = k

=============================================================================
