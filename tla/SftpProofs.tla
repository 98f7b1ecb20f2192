----------------------------- MODULE SftpProofs -----------------------------
(* Proofs about Sftp: for any number of threads, files and handles and any   *)
(* size of the handle cache, a cached handle is open for the file it is      *)
(* cached under, and a read that keeps its handle returns exactly the bytes  *)
(* it was asked for.                                                         *)
EXTENDS Sftp, SequenceTheorems, WellFoundedInduction, TLAPS

\* Zenon proves the leaves that name no prover.
USE ZenonT(60)

\* A set of naturals has a least element.
LEMMA LeastNat ==
  ASSUME NEW T \in SUBSET Nat, T # {}
  PROVE  \E x \in T : \A y \in T : x <= y
<1> DEFINE R == {ss \in Nat \X Nat : ss[1] < ss[2]}
<1>1. IsWellFoundedOn(R, Nat)
  BY NatLessThanWellFounded DEF OpToRel
<1>2. \A x, y \in Nat : y < x => <<y, x>> \in R
  OBVIOUS
<1> HIDE DEF R
<1>3. PICK x \in T : \A y \in T : <<y, x>> \notin R
  BY <1>1, WFMin
<1>4. ASSUME NEW y \in T PROVE x <= y
  <2>1. x \in Nat /\ y \in Nat /\ <<y, x>> \notin R
    BY <1>3
  <2> QED
    BY SMTT(30), <1>2, <2>1
<1> QED
  BY <1>4

\* The least of a set of naturals is Min of it.
LEMMA MinFacts ==
  ASSUME NEW T \in SUBSET Nat, T # {}
  PROVE  Min(T) \in T /\ \A y \in T : Min(T) <= y
BY LeastNat DEF Min

\* Induction up to a bound, with a set in the place of a predicate.
LEMMA UpTo ==
  ASSUME NEW m \in Nat, NEW S, 0 \in S, \A n \in 1..m : n - 1 \in S => n \in S
  PROVE  \A n \in 0..m : n \in S
<1> DEFINE T == {n \in 0..m : n \notin S}
<1> SUFFICES ASSUME T # {} PROVE FALSE
  OBVIOUS
<1>1. T \in SUBSET Nat
  BY SMTT(30)
<1>2. PICK x \in T : \A y \in T : x <= y
  <2> HIDE DEF T
  <2> QED
    BY <1>1, LeastNat
<1>3. x \in 1..m /\ x - 1 \notin T
  BY SMTT(30), <1>2
<1> QED
  BY SMTT(30), <1>3

\* f has what the first i parts of s make, joined, for every i up to k.
JoinsUp(f, s, k) ==
  /\ f[1] = s[1] /\ FlattenSeq(s) = f[k]
  /\ \A i \in 2..k : f[i] = f[i - 1] \o s[i]

\* FlattenSeq joins the parts from the first on.
LEMMA FlattenFacts ==
  ASSUME NEW S, NEW k \in Nat \ {0}, NEW s \in [1..k -> Seq(S)]
  PROVE  \E f \in [1..k -> Seq(S)] : JoinsUp(f, s, k)
<1> DEFINE Joins(f, m) == /\ f \in [1..m -> Seq(S)]
                          /\ \A i \in 1..m : f[i] = IF i = 1 THEN s[i] ELSE f[i - 1] \o s[i]
           Done == {m \in 0..k : \E f : Joins(f, m)}
<1>1. 0 \in Done
  <2> DEFINE z == [i \in 1..0 |-> s[1]]
  <2>1. Joins(z, 0)
    BY SMTT(30)
  <2> HIDE DEF z, Joins
  <2> QED
    BY SMTT(30), <2>1
<1>2. ASSUME NEW m \in 1..k, m - 1 \in Done
      PROVE  m \in Done
  <2>1. PICK g : Joins(g, m - 1)
    BY <1>2
  <2> DEFINE new == IF m = 1 THEN s[1] ELSE g[m - 1] \o s[m]
             h == [i \in 1..m |-> IF i = m THEN new ELSE g[i]]
  <2>2. new \in Seq(S)
    BY SMTT(30), <2>1, ConcatProperties
  <2>3. h \in [1..m -> Seq(S)]
    <3> HIDE DEF new
    <3> QED
      BY SMTT(30), <2>1, <2>2
  <2>4. ASSUME NEW i \in 1..m PROVE h[i] = IF i = 1 THEN s[i] ELSE h[i - 1] \o s[i]
    <3>1. CASE i = m
      <4>1. h[i] = new /\ (m # 1 => m - 1 \in 1..m /\ m - 1 # m)
        BY SMTT(30), <3>1
      <4> QED
        BY <3>1, <4>1
    <3>2. CASE i # m
      <4>1. /\ i \in 1..(m - 1) /\ h[i] = g[i]
            /\ i # 1 => i - 1 \in 1..m /\ i - 1 # m
        BY SMTT(30), <3>2
      <4>2. i # 1 => h[i - 1] = g[i - 1]
        BY <4>1
      <4> QED
        BY <2>1, <4>1, <4>2
    <3> QED
      BY <3>1, <3>2
  <2>5. Joins(h, m)
    BY <2>3, <2>4
  <2> HIDE DEF h, Joins
  <2> QED
    BY SMTT(30), <2>5
<1>3. k \in Done
  <2> HIDE DEF Done
  <2>2. \A m \in 0..k : m \in Done
    BY <1>1, <1>2, UpTo
  <2> QED
    BY SMTT(30), <2>2
<1>4. PICK g : Joins(g, k)
  BY <1>3
<1>5. Len(s) = k
  BY SMTT(30)
<1> DEFINE f == CHOOSE f : f = [i \in 1..k |-> IF i = 1 THEN s[i] ELSE f[i - 1] \o s[i]]
<1>6. g = [i \in 1..k |-> IF i = 1 THEN s[i] ELSE g[i - 1] \o s[i]]
  BY SMTT(30), <1>4
<1>7. f = [i \in 1..k |-> IF i = 1 THEN s[i] ELSE f[i - 1] \o s[i]]
  BY <1>6
<1>8. FlattenSeq(s) = f[k]
  BY <1>5 DEF FlattenSeq
<1> HIDE DEF f
<1>9. \A i \in 0..k : i \in 1..k => f[i] \in Seq(S)
  <2> DEFINE Typed == {i \in 0..k : i \in 1..k => f[i] \in Seq(S)}
  <2>1. 0 \in Typed
    BY SMTT(30)
  <2>2. ASSUME NEW n \in 1..k, n - 1 \in Typed PROVE n \in Typed
    <3>1. f[n] = IF n = 1 THEN s[n] ELSE f[n - 1] \o s[n]
      BY <1>7
    <3>2. n \in 0..k /\ (n # 1 => n - 1 \in 1..k)
      BY SMTT(30)
    <3>3. n # 1 => f[n - 1] \in Seq(S)
      BY <2>2, <3>2
    <3>4. f[n] \in Seq(S)
      BY <3>1, <3>3, ConcatProperties
    <3> QED
      BY <3>2, <3>4
  <2>3. \A i \in 0..k : i \in Typed
    <3> HIDE DEF Typed
    <3> QED
      BY <2>1, <2>2, UpTo
  <2> QED
    BY <2>3
<1>10. /\ 1 \in 1..k /\ \A i \in 2..k : i \in 1..k /\ i # 1
       /\ \A i \in 1..k : f[i] \in Seq(S)
  BY SMTT(30), <1>9
<1>11. /\ f \in [1..k -> Seq(S)] /\ f[1] = s[1]
       /\ \A i \in 2..k : f[i] = f[i - 1] \o s[i]
  BY <1>7, <1>10
<1> QED
  BY <1>8, <1>11 DEF JoinsUp

\* Min of two.
LEMMA MinOfTwo ==
  ASSUME NEW a \in Nat, NEW b \in Nat
  PROVE  Min({a, b}) \in {a, b} /\ Min({a, b}) <= a /\ Min({a, b}) <= b
BY MinFacts

\* There is a piece if there is a byte.
LEMMA PieceCount ==
  ASSUME NEW r \in Nat \ {0}, NEW m \in Nat \ {0}
  PROVE  (r + m - 1) \div m \in Nat \ {0}
<1> DEFINE c == (r + m - 1) \div m
<1>1. c \in Nat /\ c * m <= r + m - 1 /\ r + m - 1 < c * m + m
  BY SMTT(30)
<1>2. c # 0
  BY SMTT(30), <1>1
<1> QED
  BY <1>1, <1>2

\* Pieces of m bytes that r bytes are cut into: all but the last are whole.
LEMMA Pieces ==
  ASSUME NEW r \in Nat \ {0}, NEW m \in Nat \ {0}, NEW i \in Nat \ {0}, i <= (r + m - 1) \div m
  PROVE  /\ (i - 1) * m \in Nat /\ (i - 1) * m < r
         /\ i < (r + m - 1) \div m => i * m < r /\ i * m = (i - 1) * m + m
<1> DEFINE c == (r + m - 1) \div m
<1>1. c \in Nat /\ c * m <= r + m - 1 /\ r + m - 1 < c * m + m
  BY SMTT(30)
<1>3. i <= c
  OBVIOUS
<1> HIDE DEF c
<1>4. /\ (i - 1) * m \in Nat /\ i * m = (i - 1) * m + m
      /\ i * m <= c * m /\ (i < c => (i + 1) * m <= c * m)
      /\ (i + 1) * m = i * m + m
  BY SMTT(30), <1>1, <1>3
<1>5. (i - 1) * m < r /\ (i < c => i * m < r)
  BY SMTT(30), <1>1, <1>4
<1> QED
  BY <1>4, <1>5 DEF c

\* The reads of a batch follow each other without a gap from where the read has
\* got to, each asks for something, and there is one at least.
LEMMA WantsFacts ==
  ASSUME NEW t \in Threads, range[t] \in Nat \X Nat, Len(out[t]) \in Nat,
         Len(out[t]) < range[t][2]
  PROVE  \E n \in 1..MAX_IN_FLIGHT :
           /\ DOMAIN Wants(t) = 1..n
           /\ Wants(t)[1][1] = range[t][1] + Len(out[t])
           /\ \A i \in 1..n : Wants(t)[i][1] \in Nat /\ Wants(t)[i][2] \in Nat \ {0}
           /\ \A i \in 2..n : Wants(t)[i][1] = Wants(t)[i - 1][1] + Wants(t)[i - 1][2]
<1> DEFINE base == range[t][1] + Len(out[t])
           r == range[t][2] - Len(out[t])
           m == MAX_READ
           c == (r + m - 1) \div m
           n == Min({MAX_IN_FLIGHT, c})
           W(i) == <<base + (i - 1) * m, Min({m, r - (i - 1) * m})>>
<1>1. /\ base \in Nat /\ r \in Nat \ {0} /\ m \in Nat \ {0} /\ MAX_IN_FLIGHT \in Nat \ {0}
      /\ Wants(t) = [i \in 1..n |-> W(i)]
  BY SMTT(60), SftpAssumption DEF Wants, WantsUpTo
<1> HIDE DEF base, r, m
<1>2. c \in Nat \ {0}
  BY <1>1, PieceCount
<1>3. n \in {MAX_IN_FLIGHT, c} /\ n <= MAX_IN_FLIGHT /\ n <= c
  <2> HIDE DEF c
  <2> QED
    BY <1>1, <1>2, MinOfTwo
<1>4. n \in 1..MAX_IN_FLIGHT /\ n \in Nat
  <2> HIDE DEF n, c
  <2> QED
    BY SMTT(30), <1>1, <1>2, <1>3
<1>5. ASSUME NEW i \in 1..n
      PROVE  /\ (i - 1) * m \in Nat /\ (i - 1) * m < r
             /\ i < n => i * m < r /\ i * m = (i - 1) * m + m
  <2>1. i \in Nat \ {0} /\ i <= c /\ (i < n => i < c)
    <3> HIDE DEF n, c
    <3> QED
      BY SMTT(30), <1>2, <1>3, <1>4
  <2> QED
    BY <1>1, <2>1, Pieces
<1>6. Wants(t) = [i \in 1..n |-> W(i)]
  BY <1>1
<1> HIDE DEF n, c
<1>7. ASSUME NEW i \in 1..n
      PROVE  /\ Wants(t)[i][1] = base + (i - 1) * m /\ base + (i - 1) * m \in Nat
             /\ Wants(t)[i][2] \in Nat \ {0}
             /\ i < n => Wants(t)[i][2] = m
  <2>1. r - (i - 1) * m \in Nat \ {0} /\ (i < n => m <= r - (i - 1) * m) /\ base + (i - 1) * m \in Nat
    BY SMTT(30), <1>1, <1>5
  <2>2. Wants(t)[i] = <<base + (i - 1) * m, Min({m, r - (i - 1) * m})>>
    BY <1>6
  <2> DEFINE x == (i - 1) * m
             y == r - x
  <2>3. y \in Nat /\ y # 0 /\ m \in Nat /\ m # 0 /\ (i < n => m <= y)
    BY <1>1, <2>1
  <2> HIDE DEF y
  <2>4. Min({m, y}) \in {m, y} /\ Min({m, y}) <= m /\ Min({m, y}) <= y
    BY <2>3, MinOfTwo
  <2>5. Min({m, y}) \in Nat \ {0} /\ (i < n => Min({m, y}) = m)
    BY SMTT(30), <2>3, <2>4
  <2>6. Wants(t)[i][1] = base + x /\ Wants(t)[i][2] = Min({m, y})
    <3> DEFINE w == Wants(t)[i]
               z == Min({m, y})
    <3>1. w = <<base + x, z>>
      BY <2>2 DEF y
    <3> HIDE DEF w, x, z
    <3>2. w[1] = base + x /\ w[2] = z
      BY SMTT(30), <3>1
    <3> QED
      BY <3>2 DEF w, z
  <2> QED
    BY <2>1, <2>5, <2>6
<1>8. 1 \in 1..n /\ (1 - 1) * m = 0 /\ base + 0 = base
  BY SMTT(30), <1>1, <1>4
<1>9. Wants(t)[1][1] = base
  BY <1>7, <1>8
<1>10. ASSUME NEW i \in 2..n
       PROVE  Wants(t)[i][1] = Wants(t)[i - 1][1] + Wants(t)[i - 1][2]
  <2> DEFINE j == i - 1
  <2>1. j \in 1..n /\ j < n /\ i \in 1..n /\ i - 1 = j
    BY SMTT(30), <1>4
  <2>2. j * m = (j - 1) * m + m /\ (j - 1) * m \in Nat
    BY <1>5, <2>1
  <2>3. /\ Wants(t)[i][1] = base + j * m
        /\ Wants(t)[j][1] = base + (j - 1) * m /\ Wants(t)[j][2] = m
    BY <1>7, <2>1
  <2> DEFINE x == (j - 1) * m
  <2>4. base + (x + m) = (base + x) + m
    <3>1. x \in Nat
      BY <2>2
    <3> HIDE DEF x
    <3> QED
      BY SMTT(30), <1>1, <3>1
  <2> QED
    BY <2>2, <2>3, <2>4
<1> QED
  BY <1>4, <1>6, <1>7, <1>9, <1>10 DEF base

-----------------------------------------------------------------------------
(* The handles.                                                              *)

Entries == [file : Files, id : Ids]

\* RemoveAt, position by position.
LEMMA RemoveAtFacts ==
  ASSUME NEW S, NEW s \in Seq(S), NEW p \in 1..Len(s)
  PROVE  /\ RemoveAt(s, p) \in Seq(S) /\ Len(RemoveAt(s, p)) = Len(s) - 1
         /\ \A j \in 1..(Len(s) - 1) :
              RemoveAt(s, p)[j] = IF j < p THEN s[j] ELSE s[j + 1]
<1> DEFINE a == SubSeq(s, 1, p - 1)
           b == SubSeq(s, p + 1, Len(s))
<1>1. a \in Seq(S) /\ Len(a) = p - 1 /\ \A j \in 1..(p - 1) : a[j] = s[j]
  BY SMTT(30)
<1>2. b \in Seq(S) /\ Len(b) = Len(s) - p /\ \A j \in 1..(Len(s) - p) : b[j] = s[p + j]
  BY SMTT(30)
<1>3. RemoveAt(s, p) = a \o b
  BY DEF RemoveAt
<1> HIDE DEF a, b
<1>4. /\ a \o b \in Seq(S) /\ Len(a \o b) = Len(s) - 1
      /\ \A j \in 1..(Len(s) - 1) : (a \o b)[j] = IF j <= p - 1 THEN a[j] ELSE b[j - (p - 1)]
  BY SMTT(30), <1>1, <1>2, ConcatProperties
<1>5. ASSUME NEW j \in 1..(Len(s) - 1)
      PROVE  (a \o b)[j] = IF j < p THEN s[j] ELSE s[j + 1]
  <2>1. CASE j < p
    BY SMTT(30), <1>1, <1>4, <2>1
  <2>2. CASE ~(j < p)
    <3>1. j - (p - 1) \in 1..(Len(s) - p) /\ p + (j - (p - 1)) = j + 1
      BY SMTT(30), <2>2
    <3>2. b[j - (p - 1)] = s[j + 1]
      BY <1>2, <3>1
    <3> QED
      BY SMTT(30), <1>4, <2>2, <3>2
  <2> QED
    BY <2>1, <2>2
<1> QED
  BY <1>3, <1>4, <1>5

\* A cached handle is open for its file.
LEMMA CachedEntry ==
  ASSUME HandleInv, NEW x \in 1..Len(handles)
  PROVE  /\ handles[x] \in Entries /\ handles[x].id \in Ids /\ handles[x].file \in Files
         /\ opened[handles[x].id] = handles[x].file /\ handles[x].file # NoFile
<1>1. handles \in Seq(Entries) /\ opened[handles[x].id] = handles[x].file
  BY DEF HandleInv, CachedHandlesOpen, Entries
<1>2. handles[x] \in Entries
  BY SMTT(30), <1>1
<1> QED
  BY <1>1, <1>2, SftpAssumption DEF Entries

\* What the cache keeps when the handle of a file is taken out: other files'
\* handles, each once, in place.
LEMMA WithoutFacts ==
  ASSUME HandleInv, NEW f
  PROVE  /\ Without(f) \in Seq(Entries)
         /\ \E at \in [1..Len(Without(f)) -> 1..Len(handles)] :
              /\ \A j \in 1..Len(Without(f)) :
                   Without(f)[j] = handles[at[j]] /\ handles[at[j]].file # f
              /\ \A j, k \in 1..Len(Without(f)) : at[j] = at[k] => j = k
<1>1. handles \in Seq(Entries) /\ Len(handles) \in Nat
  BY SMTT(30) DEF HandleInv, Entries
<1>2. CASE IsCached(f)
  <2> DEFINE p == PosOf(f)
             at == [j \in 1..(Len(handles) - 1) |-> IF j < p THEN j ELSE j + 1]
  <2>1. p \in 1..Len(handles) /\ handles[p].file = f
    BY <1>2 DEF IsCached, PosOf
  <2>2. Without(f) = RemoveAt(handles, p)
    BY <1>2 DEF Without
  <2> HIDE DEF p
  <2>3. /\ Without(f) \in Seq(Entries) /\ Len(Without(f)) = Len(handles) - 1
        /\ \A j \in 1..(Len(handles) - 1) :
             Without(f)[j] = IF j < p THEN handles[j] ELSE handles[j + 1]
    BY <1>1, <2>1, <2>2, RemoveAtFacts
  <2>4. \A i \in 1..Len(handles) : i # p => handles[i].file # f
    BY <2>1 DEF HandleInv, CachedHandlesOpen
  <2>5. /\ at \in [1..(Len(handles) - 1) -> 1..Len(handles)]
        /\ \A j \in 1..(Len(handles) - 1) : at[j] # p
        /\ \A j, k \in 1..(Len(handles) - 1) : at[j] = at[k] => j = k
        /\ \A j \in 1..(Len(handles) - 1) : Without(f)[j] = handles[at[j]]
    BY SMTT(30), <1>1, <2>1, <2>3
  <2> HIDE DEF at
  <2>6. \A j \in 1..(Len(handles) - 1) : handles[at[j]].file # f
    BY <2>4, <2>5
  <2>7. Len(Without(f)) = Len(handles) - 1 /\ Without(f) \in Seq(Entries)
    BY <2>3
  <2>8. /\ at \in [1..Len(Without(f)) -> 1..Len(handles)]
        /\ \A j \in 1..Len(Without(f)) :
             Without(f)[j] = handles[at[j]] /\ handles[at[j]].file # f
        /\ \A j, k \in 1..Len(Without(f)) : at[j] = at[k] => j = k
    BY <2>5, <2>6, <2>7
  <2> QED
    BY <2>7, <2>8
<1>3. CASE ~IsCached(f)
  <2> DEFINE at == [j \in 1..Len(handles) |-> j]
  <2>1. Without(f) = handles /\ \A j \in 1..Len(handles) : handles[j].file # f
    BY <1>3 DEF Without, IsCached
  <2>2. at \in [1..Len(handles) -> 1..Len(handles)] /\ \A j \in 1..Len(handles) : at[j] = j
    OBVIOUS
  <2> HIDE DEF at
  <2> QED
    BY SMTT(30), <1>1, <2>1, <2>2
<1> QED
  BY <1>2, <1>3

\* The entries of `kept` are some of the cached ones, each once, all of files
\* other than f and with ids other than id.
Spared(kept, f, id) ==
  /\ kept \in Seq(Entries)
  /\ \E at \in [1..Len(kept) -> 1..Len(handles)] :
       /\ \A j \in 1..Len(kept) :
            kept[j] = handles[at[j]] /\ kept[j].file # f /\ kept[j].id # id
       /\ \A j, k \in 1..Len(kept) : at[j] = at[k] => j = k

\* A handle open for its file is put in front of others.
LEMMA PutInFront ==
  ASSUME HandleInv, NEW f \in Files, NEW id \in Ids, NEW kept,
         opened[id] = f, Spared(kept, f, id),
         handles' = <<[file |-> f, id |-> id]>> \o kept, UNCHANGED opened
  PROVE  /\ handles' \in Seq(Entries) /\ CachedHandlesOpen'
         /\ \A x \in 1..Len(handles') :
              handles'[x].id = id \/ \E j \in 1..Len(kept) : handles'[x].id = kept[j].id
<1>a. PICK at \in [1..Len(kept) -> 1..Len(handles)] :
        /\ \A j \in 1..Len(kept) :
             kept[j] = handles[at[j]] /\ kept[j].file # f /\ kept[j].id # id
        /\ \A j, k \in 1..Len(kept) : at[j] = at[k] => j = k
  BY DEF Spared
<1> kept \in Seq(Entries)
  BY DEF Spared
<1> DEFINE new == [file |-> f, id |-> id]
<1>1. new \in Entries /\ <<new>> \in Seq(Entries) /\ Len(<<new>>) = 1 /\ <<new>>[1] = new
      /\ new.file = f /\ new.id = id
  BY SMTT(30) DEF Entries
<1> HIDE DEF new
<1>2. handles' = <<new>> \o kept
  BY DEF new
<1>3. /\ handles' \in Seq(Entries) /\ Len(handles') = Len(kept) + 1 /\ Len(kept) \in Nat
      /\ handles'[1] = new
      /\ \A x \in 1..Len(handles') : x # 1 => x - 1 \in 1..Len(kept) /\ handles'[x] = kept[x - 1]
  BY SMTT(30), <1>1, <1>2, ConcatProperties
<1>4. \A j \in 1..Len(kept) : at[j] \in 1..Len(handles) /\ kept[j] = handles[at[j]]
  BY <1>a
<1>5. ASSUME NEW j \in 1..Len(kept) PROVE opened[kept[j].id] = kept[j].file
  <2>1. at[j] \in 1..Len(handles) /\ kept[j] = handles[at[j]]
    BY <1>4
  <2>2. opened[handles[at[j]].id] = handles[at[j]].file
    BY <2>1 DEF HandleInv, CachedHandlesOpen
  <2> QED
    BY <2>1, <2>2
<1>6. ASSUME NEW j \in 1..Len(kept), NEW k \in 1..Len(kept),
             kept[j].id = kept[k].id \/ kept[j].file = kept[k].file
      PROVE  j = k
  <2>1. /\ at[j] \in 1..Len(handles) /\ kept[j] = handles[at[j]]
        /\ at[k] \in 1..Len(handles) /\ kept[k] = handles[at[k]]
    BY <1>4
  <2>2. at[j] = at[k]
    BY <1>6, <2>1 DEF HandleInv, CachedHandlesOpen
  <2> QED
    BY <1>a, <2>2
<1>7. \A x \in 1..Len(handles') : opened'[handles'[x].id] = handles'[x].file
  BY SMTT(30), <1>1, <1>3, <1>5
<1>8. ASSUME NEW x \in 1..Len(handles'), NEW y \in 1..Len(handles'),
             handles'[x].id = handles'[y].id \/ handles'[x].file = handles'[y].file
      PROVE  x = y
  <2>1. CASE x # 1 /\ y # 1
    <3>1. /\ x - 1 \in 1..Len(kept) /\ handles'[x] = kept[x - 1]
          /\ y - 1 \in 1..Len(kept) /\ handles'[y] = kept[y - 1]
      BY <1>3, <2>1
    <3>2. kept[x - 1].id = kept[y - 1].id \/ kept[x - 1].file = kept[y - 1].file
      BY <1>8, <3>1
    <3>3. x - 1 = y - 1
      BY <1>6, <3>1, <3>2
    <3> QED
      BY SMTT(30), <1>3, <3>3
  <2>2. CASE x = 1 \/ y = 1
    BY SMTT(30), <1>a, <1>1, <1>3, <1>8, <2>2
  <2> QED
    BY <2>1, <2>2
<1>9. CachedHandlesOpen'
  BY <1>7, <1>8 DEF CachedHandlesOpen
<1>10. ASSUME NEW x \in 1..Len(handles')
       PROVE  handles'[x].id = id \/ \E j \in 1..Len(kept) : handles'[x].id = kept[j].id
  BY <1>1, <1>3
<1> QED
  BY <1>3, <1>9, <1>10

\* At the start nothing is open and nothing is claimed.
LEMMA InitHandleInv ==
  Init => HandleInv
BY SMTT(30) DEF Init, HandleInv, ClaimOK, Claimed, CachedHandlesOpen

\* A step that opens, closes and caches nothing, by a thread that claims no
\* handle before or after it.
LEMMA QuietStep ==
  ASSUME HandleInv, NEW t \in Threads, UNCHANGED opened, CachedHandlesOpen',
         handles' \in Seq(Entries),
         \A x \in 1..Len(handles') : \E y \in 1..Len(handles) : handles'[x].id = handles[y].id,
         pc' \in [Threads -> {"idle", "open", "push", "close", "batch", "replies", "done", "failed"}],
         DOMAIN file' = Threads, DOMAIN hid' = Threads, DOMAIN doomed' = Threads,
         \A u \in Threads \ {t} :
           pc'[u] = pc[u] /\ file'[u] = file[u] /\ hid'[u] = hid[u] /\ doomed'[u] = doomed[u],
         pc'[t] \notin {"push", "close"}, pc'[t] # "idle" => file'[t] \in Files
  PROVE  HandleInv'
<1>1. Claimed(t)' = NoId /\ \A u \in Threads \ {t} : Claimed(u)' = Claimed(u)
  BY DEF Claimed
<1>2. \A u \in Threads : ClaimOK(u)'
  BY SMTT(30), <1>1 DEF HandleInv, ClaimOK
<1> QED
  BY SMTT(30), <1>1, <1>2 DEF HandleInv, Entries

\* Reads with a handle, and giving it up, concern the thread alone.
LEMMA ReadStepsHandleInv ==
  ASSUME HandleInv, NEW t \in Threads,
         \/ SendBatch(t) \/ Assemble(t) \/ Return(t)
         \/ \E i \in 1..Len(replies[t]) : Serve(t, i)
  PROVE  HandleInv'
<1>1. /\ UNCHANGED <<opened, handles, doomed>>
      /\ pc[t] \in {"batch", "replies", "done", "failed"}
      /\ \E to \in {"idle", "batch", "replies", "done", "failed"} :
           /\ pc' = [pc EXCEPT ![t] = to] \/ (UNCHANGED pc /\ to = pc[t])
           /\ to # "idle" => UNCHANGED file
      /\ UNCHANGED file \/ file' = [file EXCEPT ![t] = AnyFile]
      /\ UNCHANGED hid \/ hid' = [hid EXCEPT ![t] = NoId]
  <2>1. CASE SendBatch(t)
    BY <2>1 DEF SendBatch, Goto
  <2>2. CASE Assemble(t)
    BY <2>2 DEF Assemble, AssembleWith, Goto
  <2>3. CASE Return(t)
    BY <2>3 DEF Return, Goto
  <2>4. CASE \E i \in 1..Len(replies[t]) : Serve(t, i)
    BY <2>4 DEF Serve
  <2> QED
    BY <2>1, <2>2, <2>3, <2>4
<1>2. CachedHandlesOpen' /\ handles' \in Seq(Entries)
  BY <1>1 DEF HandleInv, CachedHandlesOpen, Entries
<1>3. \A x \in 1..Len(handles') : \E y \in 1..Len(handles) : handles'[x].id = handles[y].id
  BY <1>1
<1>4. /\ pc' \in [Threads -> {"idle", "open", "push", "close", "batch", "replies", "done", "failed"}]
      /\ DOMAIN file' = Threads /\ DOMAIN hid' = Threads /\ DOMAIN doomed' = Threads
      /\ \A u \in Threads \ {t} :
           pc'[u] = pc[u] /\ file'[u] = file[u] /\ hid'[u] = hid[u] /\ doomed'[u] = doomed[u]
      /\ pc'[t] \notin {"push", "close"} /\ (pc'[t] # "idle" => file'[t] \in Files)
  BY <1>1 DEF HandleInv
<1> QED
  BY <1>1, <1>2, <1>3, <1>4, QuietStep

\* A request that finds a handle in the cache moves it to the front.
LEMMA RequestHandleInv ==
  ASSUME HandleInv, NEW t \in Threads, NEW f \in Files, NEW r \in Ranges, Request(t, f, r)
  PROVE  HandleInv'
<1>1. /\ UNCHANGED <<opened, doomed>>
      /\ pc' \in [Threads -> {"idle", "open", "push", "close", "batch", "replies", "done", "failed"}]
      /\ DOMAIN file' = Threads /\ DOMAIN hid' = Threads /\ DOMAIN doomed' = Threads
      /\ \A u \in Threads \ {t} :
           pc'[u] = pc[u] /\ file'[u] = file[u] /\ hid'[u] = hid[u] /\ doomed'[u] = doomed[u]
      /\ pc'[t] \in {"batch", "open"} /\ file'[t] \in Files
  BY DEF HandleInv, Request, Goto
<1>2. CASE ~IsCached(f)
  <2>1. UNCHANGED handles
    BY <1>2 DEF Request
  <2>2. CachedHandlesOpen' /\ handles' \in Seq(Entries)
    BY <1>1, <2>1 DEF HandleInv, CachedHandlesOpen, Entries
  <2>3. \A x \in 1..Len(handles') : \E y \in 1..Len(handles) : handles'[x].id = handles[y].id
    BY <2>1
  <2> QED
    BY <1>1, <2>2, <2>3, QuietStep
<1>3. CASE IsCached(f)
  <2> DEFINE id == IdOf(f)
             kept == Without(f)
             p == PosOf(f)
  <2>1. p \in 1..Len(handles) /\ handles[p].file = f /\ id = handles[p].id
    BY <1>3 DEF IsCached, PosOf, IdOf
  <2>2. handles' = <<[file |-> f, id |-> id]>> \o kept
    BY <1>3 DEF Request
  <2>3. kept \in Seq(Entries)
    BY WithoutFacts
  <2>4. PICK at \in [1..Len(kept) -> 1..Len(handles)] :
          /\ \A j \in 1..Len(kept) : kept[j] = handles[at[j]] /\ handles[at[j]].file # f
          /\ \A j, k \in 1..Len(kept) : at[j] = at[k] => j = k
    BY WithoutFacts
  <2> HIDE DEF id, kept, p
  <2>5. id \in Ids /\ opened[id] = f
    BY <2>1, CachedEntry
  <2>6. ASSUME NEW j \in 1..Len(kept)
        PROVE  /\ kept[j] = handles[at[j]] /\ kept[j].file # f /\ kept[j].id # id
               /\ at[j] \in 1..Len(handles)
    <3>1. at[j] \in 1..Len(handles) /\ kept[j] = handles[at[j]] /\ handles[at[j]].file # f
      BY <2>4
    <3>2. handles[at[j]].id # handles[p].id
      BY <2>1, <3>1 DEF HandleInv, CachedHandlesOpen
    <3> QED
      BY <2>1, <3>1, <3>2
  <2>7. /\ handles' \in Seq(Entries) /\ CachedHandlesOpen'
        /\ \A x \in 1..Len(handles') :
             handles'[x].id = id \/ \E j \in 1..Len(kept) : handles'[x].id = kept[j].id
    <3>1. Spared(kept, f, id)
      BY <2>3, <2>4, <2>6 DEF Spared
    <3>2. UNCHANGED opened
      BY <1>1
    <3> QED
      BY SMTT(60), <2>2, <2>5, <3>1, <3>2, PutInFront
  <2>8. ASSUME NEW x \in 1..Len(handles')
        PROVE  \E y \in 1..Len(handles) : handles'[x].id = handles[y].id
    <3>1. CASE handles'[x].id = id
      BY <2>1, <3>1
    <3>2. CASE \E j \in 1..Len(kept) : handles'[x].id = kept[j].id
      BY <2>6, <3>2
    <3> QED
      BY <2>7, <3>1, <3>2
  <2> QED
    BY <1>1, <2>7, <2>8, QuietStep
<1> QED
  BY <1>2, <1>3

\* The server gives out an id that is not open, and so neither cached nor
\* claimed, whether or not the answer comes in time.
LEMMA OpenHandleInv ==
  ASSUME HandleInv, NEW t \in Threads, Open(t)
  PROVE  HandleInv'
<1>1. /\ UNCHANGED <<handles, file, doomed>> /\ pc[t] = "open" /\ file[t] \in Files
  BY DEF HandleInv, Open
<1>2. CASE UNCHANGED opened
  <2>1. Goto(t, "failed") /\ UNCHANGED hid
    BY <1>1, <1>2, SftpAssumption DEF Open, Free, HandleInv
  <2>2. CachedHandlesOpen' /\ handles' \in Seq(Entries)
    BY <1>1, <1>2 DEF HandleInv, CachedHandlesOpen, Entries
  <2>3. \A x \in 1..Len(handles') : \E y \in 1..Len(handles) : handles'[x].id = handles[y].id
    BY <1>1
  <2>4. /\ pc' \in [Threads -> {"idle", "open", "push", "close", "batch", "replies", "done", "failed"}]
        /\ DOMAIN file' = Threads /\ DOMAIN hid' = Threads /\ DOMAIN doomed' = Threads
        /\ \A u \in Threads \ {t} :
             pc'[u] = pc[u] /\ file'[u] = file[u] /\ hid'[u] = hid[u] /\ doomed'[u] = doomed[u]
        /\ pc'[t] \notin {"push", "close"} /\ (pc'[t] # "idle" => file'[t] \in Files)
    BY <1>1, <2>1 DEF HandleInv, Goto
  <2> QED
    BY <1>2, <2>2, <2>3, <2>4, QuietStep
<1>3. ASSUME NEW i \in Free, opened' = [opened EXCEPT ![i] = file[t]],
             \/ hid' = [hid EXCEPT ![t] = i] /\ Goto(t, "push")
             \/ Goto(t, "failed") /\ UNCHANGED hid
      PROVE  HandleInv'
  <2>1. i \in Ids /\ opened[i] = NoFile /\ file[t] # NoFile
    BY <1>1, <1>3, SftpAssumption DEF Free
  <2>2. /\ opened' \in [Ids -> Files \cup {NoFile}] /\ opened'[i] = file[t]
        /\ \A x \in Ids \ {i} : opened'[x] = opened[x]
    BY <1>1, <1>3, <2>1 DEF HandleInv
  <2>3. \A x \in 1..Len(handles) : handles[x] \in Entries /\ handles[x].id # i
    BY <2>1, CachedEntry
  <2>4. CachedHandlesOpen'
    BY <1>1, <2>2, <2>3 DEF HandleInv, CachedHandlesOpen, Entries
  <2>5. /\ pc' \in [Threads -> {"idle", "open", "push", "close", "batch", "replies", "done", "failed"}]
        /\ DOMAIN hid' = Threads
        /\ \A u \in Threads \ {t} : pc'[u] = pc[u] /\ hid'[u] = hid[u]
        /\ pc'[t] = "failed" \/ (pc'[t] = "push" /\ hid'[t] = i)
    BY <1>3 DEF HandleInv, Goto
  <2>6. /\ \A u \in Threads \ {t} : Claimed(u)' = Claimed(u)
        /\ Claimed(t)' = NoId \/ (Claimed(t)' = i /\ pc'[t] = "push")
    BY <1>1, <2>5 DEF Claimed
  <2>7. \A u \in Threads \ {t} : Claimed(u) # i /\ (Claimed(u) # NoId => Claimed(u) \in Ids)
    BY SMTT(30), <2>1, SftpAssumption DEF HandleInv, ClaimOK, Claimed
  <2>8. ASSUME NEW u \in Threads \ {t} PROVE ClaimOK(u)'
    <3>1. ClaimOK(u)
      BY DEF HandleInv
    <3>2. Claimed(u) # NoId => opened'[Claimed(u)] = opened[Claimed(u)]
      BY <2>2, <2>7
    <3>3. \A v \in Threads \ {u} : Claimed(u) # NoId => Claimed(v)' # Claimed(u)
      BY <2>6, <2>7, <3>1 DEF ClaimOK
    <3>4. pc[u] = "push" => Claimed(u) = hid[u]
      BY DEF Claimed
    <3> QED
      BY <1>1, <2>5, <2>6, <3>1, <3>2, <3>3, <3>4 DEF ClaimOK
  <2>9. ClaimOK(t)'
    BY SMTT(30), <1>1, <2>1, <2>2, <2>3, <2>5, <2>6, <2>7 DEF ClaimOK
  <2> QED
    <3>1. \A u \in Threads : pc'[u] # "idle" => file'[u] \in Files
      BY <1>1, <2>5 DEF HandleInv
    <3>2. \A u \in Threads : pc'[u] \in {"push", "close"} => Claimed(u)' \in Ids
      BY <1>1, <2>1, <2>5, <2>6, SftpAssumption DEF HandleInv, Claimed
    <3>3. handles' \in Seq([file : Files, id : Ids]) /\ DOMAIN file' = Threads /\ DOMAIN doomed' = Threads
      BY <1>1 DEF HandleInv
    <3> QED
      BY <2>2, <2>4, <2>5, <2>8, <2>9, <3>1, <3>2, <3>3 DEF HandleInv
<1> QED
  BY <1>2, <1>3 DEF Open

\* Front, position by position.
LEMMA FrontFacts ==
  ASSUME NEW S, NEW s \in Seq(S), Len(s) > 0
  PROVE  /\ Front(s) \in Seq(S) /\ Len(Front(s)) = Len(s) - 1
         /\ \A j \in 1..(Len(s) - 1) : Front(s)[j] = s[j]
<1> DEFINE n == Len(s) - 1
<1>1. n \in 0..Len(s) /\ Len(s) \in Nat
  BY SMTT(30)
<1>2. Front(s) = SubSeq(s, 1, n)
  BY DEF Front
<1> HIDE DEF n
<1>3. /\ SubSeq(s, 1, n) \in Seq(S) /\ Len(SubSeq(s, 1, n)) = n
      /\ \A j \in 1..n : SubSeq(s, 1, n)[j] = s[j]
  BY SMTT(30), <1>1
<1> QED
  BY <1>2, <1>3 DEF n

\* All but the last of the handles spared are spared too.
LEMMA FrontSpared ==
  ASSUME HandleInv, NEW kept, NEW f, NEW id, Spared(kept, f, id), Len(kept) > 0
  PROVE  Spared(Front(kept), f, id)
<1>1. PICK at \in [1..Len(kept) -> 1..Len(handles)] :
        /\ \A j \in 1..Len(kept) :
             kept[j] = handles[at[j]] /\ kept[j].file # f /\ kept[j].id # id
        /\ \A j, k \in 1..Len(kept) : at[j] = at[k] => j = k
  BY DEF Spared
<1>2. kept \in Seq(Entries) /\ Len(kept) \in Nat
  BY SMTT(30) DEF Spared
<1>3. /\ Front(kept) \in Seq(Entries) /\ Len(Front(kept)) = Len(kept) - 1
      /\ \A j \in 1..(Len(kept) - 1) : Front(kept)[j] = kept[j]
  BY <1>2, FrontFacts
<1> DEFINE less == [j \in 1..(Len(kept) - 1) |-> at[j]]
<1>4. /\ less \in [1..(Len(kept) - 1) -> 1..Len(handles)]
      /\ \A j \in 1..(Len(kept) - 1) : less[j] = at[j] /\ j \in 1..Len(kept)
  BY SMTT(30), <1>2
<1> HIDE DEF less
<1>5. /\ \A j \in 1..(Len(kept) - 1) :
           /\ Front(kept)[j] = handles[less[j]]
           /\ Front(kept)[j].file # f /\ Front(kept)[j].id # id
      /\ \A j, k \in 1..(Len(kept) - 1) : less[j] = less[k] => j = k
  BY <1>1, <1>3, <1>4
<1>6. 1..Len(Front(kept)) = 1..(Len(kept) - 1)
  BY <1>3
<1>7. /\ less \in [1..Len(Front(kept)) -> 1..Len(handles)]
      /\ \A j \in 1..Len(Front(kept)) :
           /\ Front(kept)[j] = handles[less[j]]
           /\ Front(kept)[j].file # f /\ Front(kept)[j].id # id
      /\ \A j, k \in 1..Len(Front(kept)) : less[j] = less[k] => j = k
  BY <1>4, <1>5, <1>6
<1>8. Front(kept) \in Seq(Entries)
  BY <1>3
<1> QED
  BY <1>7, <1>8 DEF Spared

\* handles.push puts the new handle in front; what it evicts leaves the cache
\* and becomes the thread's to close.
LEMMA PushHandleInv ==
  ASSUME HandleInv, NEW t \in Threads, Push(t)
  PROVE  HandleInv'
<1> DEFINE f == file[t]
           id == hid[t]
           rest == Without(f)
           kept == IF Len(rest) >= HANDLE_CACHE THEN Front(rest) ELSE rest
           full == ~IsCached(f) /\ Len(handles) >= HANDLE_CACHE
           last == handles[Len(handles)].id
<1>1. /\ pc[t] = "push" /\ f \in Files /\ id \in Ids /\ opened[id] = f /\ Claimed(t) = id
      /\ \A i \in 1..Len(handles) : handles[i].id # id
      /\ \A u \in Threads \ {t} : Claimed(u) # id
  BY SMTT(30), SftpAssumption DEF HandleInv, ClaimOK, Claimed, Push, PushThen
<1>2. /\ UNCHANGED <<opened, file, hid>> /\ handles' = <<[file |-> f, id |-> id]>> \o kept
      /\ HANDLE_CACHE \in Nat \ {0}
  BY SftpAssumption DEF Push, PushThen
<1>3. Spared(rest, f, id)
  <2>1. rest \in Seq(Entries)
    BY WithoutFacts
  <2>2. PICK at \in [1..Len(rest) -> 1..Len(handles)] :
          /\ \A j \in 1..Len(rest) : rest[j] = handles[at[j]] /\ handles[at[j]].file # f
          /\ \A j, k \in 1..Len(rest) : at[j] = at[k] => j = k
    BY WithoutFacts
  <2> HIDE DEF rest, f, id
  <2>3. \A j \in 1..Len(rest) : rest[j].file # f /\ rest[j].id # id
    BY SMTT(30), <1>1, <2>2
  <2> QED
    BY <2>1, <2>2, <2>3 DEF Spared
<1>4. Spared(kept, f, id)
  <2> HIDE DEF rest, f, id
  <2>1. Len(rest) \in Nat
    BY SMTT(30), <1>3 DEF Spared
  <2> QED
    BY SMTT(30), <1>2, <1>3, <2>1, FrontSpared
<1>5. /\ handles' \in Seq(Entries) /\ CachedHandlesOpen'
      /\ \A x \in 1..Len(handles') :
           handles'[x].id = id \/ \E j \in 1..Len(kept) : handles'[x].id = kept[j].id
  <2> HIDE DEF kept, f, id
  <2> QED
    BY SMTT(30), <1>1, <1>2, <1>4, PutInFront
<1>6. \A j \in 1..Len(kept) : \E y \in 1..Len(handles) : kept[j].id = handles[y].id
  <2> HIDE DEF kept, f, id
  <2> QED
    BY <1>4 DEF Spared
<1>7. \A x \in 1..Len(handles') :
        handles'[x].id = id \/ \E y \in 1..Len(handles) : handles'[x].id = handles[y].id
  <2> HIDE DEF kept, id
  <2> QED
    BY SMTT(30), <1>5, <1>6
<1>8. full => /\ last \in Ids /\ opened[last] # NoFile /\ last # id
              /\ \A u \in Threads : Claimed(u) # last
              /\ \A x \in 1..Len(handles') : handles'[x].id # last
  <2> SUFFICES ASSUME full
               PROVE  /\ last \in Ids /\ opened[last] # NoFile /\ last # id
                      /\ \A u \in Threads : Claimed(u) # last
                      /\ \A x \in 1..Len(handles') : handles'[x].id # last
    OBVIOUS
  <2>1. handles \in Seq(Entries) /\ Len(handles) \in Nat /\ Len(handles) \in 1..Len(handles)
    BY SMTT(30), <1>2 DEF HandleInv, Entries
  <2>2. last \in Ids /\ opened[last] # NoFile /\ last # id
    BY <1>1, <2>1, CachedEntry
  <2>3. \A u \in Threads : Claimed(u) # last
    BY <2>1, <2>2, SftpAssumption DEF HandleInv, ClaimOK
  <2>4. kept = Front(handles)
    BY DEF Without
  <2>5. Len(kept) = Len(handles) - 1 /\ \A j \in 1..(Len(handles) - 1) : kept[j] = handles[j]
    BY SMTT(30), <2>1, <2>4, FrontFacts
  <2> HIDE DEF kept, id, f
  <2>6. \A j \in 1..Len(kept) : kept[j].id # last
    BY SMTT(30), <2>1, <2>5 DEF HandleInv, CachedHandlesOpen
  <2> QED
    BY <1>5, <2>2, <2>3, <2>6
<1>9. /\ DOMAIN doomed' = Threads
      /\ pc' \in [Threads -> {"idle", "open", "push", "close", "batch", "replies", "done", "failed"}]
      /\ \A u \in Threads \ {t} : pc'[u] = pc[u] /\ doomed'[u] = doomed[u]
      /\ \/ pc'[t] = "batch"
         \/ full /\ pc'[t] = "close" /\ doomed'[t] = last
  <2>1. \/ Goto(t, "batch") /\ UNCHANGED doomed
        \/ full /\ doomed' = [doomed EXCEPT ![t] = last] /\ Goto(t, "close")
    BY DEF Push, PushThen, Last
  <2> HIDE DEF full, last
  <2> QED
    BY <2>1 DEF HandleInv, Goto
<1> HIDE DEF full, last, id, f, kept, rest
<1>10. /\ \A u \in Threads \ {t} : Claimed(u)' = Claimed(u)
       /\ Claimed(t)' = NoId \/ (full /\ pc'[t] = "close" /\ Claimed(t)' = last)
  BY <1>2, <1>9 DEF Claimed
<1>11. ASSUME NEW u \in Threads \ {t} PROVE ClaimOK(u)'
  <2>1. ClaimOK(u) /\ Claimed(u) # id /\ (full => Claimed(u) # last)
    BY <1>1, <1>8 DEF HandleInv
  <2>2. Claimed(u) # NoId => \A x \in 1..Len(handles') : handles'[x].id # Claimed(u)
    BY <1>7, <2>1 DEF ClaimOK
  <2>3. \A v \in Threads \ {u} : Claimed(u) # NoId => Claimed(v)' # Claimed(u)
    BY <1>10, <2>1 DEF ClaimOK
  <2> QED
    BY <1>2, <1>9, <1>10, <2>1, <2>2, <2>3 DEF ClaimOK
<1>12. ClaimOK(t)'
  BY SMTT(30), <1>2, <1>8, <1>9, <1>10 DEF ClaimOK
<1>13. /\ \A u \in Threads : pc'[u] # "idle" => file'[u] \in Files
       /\ \A u \in Threads : pc'[u] \in {"push", "close"} => Claimed(u)' \in Ids
       /\ DOMAIN file' = Threads /\ DOMAIN hid' = Threads
       /\ opened' \in [Ids -> Files \cup {NoFile}]
  <2>1. \A u \in Threads : pc'[u] # "idle" => file'[u] \in Files
    BY <1>1, <1>2, <1>9 DEF HandleInv
  <2>2. \A u \in Threads : pc'[u] \in {"push", "close"} => Claimed(u)' \in Ids
    BY <1>8, <1>9, <1>10 DEF HandleInv, Claimed
  <2> QED
    BY <1>2, <2>1, <2>2 DEF HandleInv
<1> QED
  BY <1>5, <1>9, <1>11, <1>12, <1>13 DEF HandleInv, Entries

\* Closing an evicted handle closes no other: its id is in nobody else's hands
\* and in the cache no more.
LEMMA CloseHandleInv ==
  ASSUME HandleInv, NEW t \in Threads, Close(t)
  PROVE  HandleInv'
<1> DEFINE d == doomed[t]
<1>1. /\ pc[t] = "close" /\ Claimed(t) = d /\ d \in Ids
      /\ \A i \in 1..Len(handles) : handles[i].id # d
      /\ \A u \in Threads \ {t} : Claimed(u) # d
  BY SMTT(30), SftpAssumption DEF HandleInv, ClaimOK, Claimed, Close
<1>2. /\ UNCHANGED <<handles, file, hid>>
      /\ doomed' = [doomed EXCEPT ![t] = NoId] /\ pc' = [pc EXCEPT ![t] = "batch"]
      /\ UNCHANGED opened \/ opened' = [opened EXCEPT ![d] = NoFile]
  BY DEF Close, Goto
<1> HIDE DEF d
<1>3. /\ opened' \in [Ids -> Files \cup {NoFile}]
      /\ \A x \in Ids \ {d} : opened'[x] = opened[x]
  BY <1>1, <1>2 DEF HandleInv
<1>4. CachedHandlesOpen'
  <2>1. \A x \in 1..Len(handles) : opened'[handles[x].id] = handles[x].file
    BY <1>1, <1>3, CachedEntry
  <2> QED
    BY <1>2, <2>1 DEF HandleInv, CachedHandlesOpen
<1>5. /\ pc' \in [Threads -> {"idle", "open", "push", "close", "batch", "replies", "done", "failed"}]
      /\ DOMAIN file' = Threads /\ DOMAIN hid' = Threads /\ DOMAIN doomed' = Threads
      /\ \A u \in Threads \ {t} : pc'[u] = pc[u] /\ doomed'[u] = doomed[u]
      /\ pc'[t] = "batch"
  BY <1>2 DEF HandleInv
<1>6. Claimed(t)' = NoId /\ \A u \in Threads \ {t} : Claimed(u)' = Claimed(u)
  BY <1>2, <1>5 DEF Claimed
<1>7. ASSUME NEW u \in Threads \ {t} PROVE ClaimOK(u)'
  <2>1. ClaimOK(u) /\ (Claimed(u) # NoId => Claimed(u) \in Ids \ {d})
    BY <1>1, SftpAssumption DEF HandleInv, Claimed
  <2>2. Claimed(u) # NoId => opened'[Claimed(u)] = opened[Claimed(u)]
    BY <1>3, <2>1
  <2>3. \A v \in Threads \ {u} : Claimed(u) # NoId => Claimed(v)' # Claimed(u)
    BY <1>6, <2>1 DEF ClaimOK
  <2>4. pc[u] = "push" => Claimed(u) = hid[u]
    BY DEF Claimed
  <2> QED
    BY <1>2, <1>5, <1>6, <2>1, <2>2, <2>3, <2>4 DEF ClaimOK
<1>8. ClaimOK(t)'
  BY <1>6 DEF ClaimOK
<1>9. /\ \A u \in Threads : pc'[u] # "idle" => file'[u] \in Files
      /\ \A u \in Threads : pc'[u] \in {"push", "close"} => Claimed(u)' \in Ids
  BY SMTT(30), <1>1, <1>2, <1>5, <1>6 DEF HandleInv
<1> QED
  BY <1>2, <1>3, <1>4, <1>5, <1>7, <1>8, <1>9 DEF HandleInv

\* Every step keeps the invariant.
LEMMA NextHandleInv ==
  ASSUME HandleInv, [Next]_vars
  PROVE  HandleInv'
<1>1. CASE UNCHANGED vars
  BY SMTT(30), <1>1 DEF vars, HandleInv, ClaimOK, Claimed, CachedHandlesOpen
<1>2. CASE \E t \in Threads : Step(t)
  BY <1>2, OpenHandleInv, PushHandleInv, CloseHandleInv, ReadStepsHandleInv DEF Step
<1>3. CASE \E t \in Threads, f \in Files, r \in Ranges : Request(t, f, r)
  BY <1>3, RequestHandleInv
<1> QED
  BY <1>1, <1>2, <1>3 DEF Next

\* SftpBackend::handle: with any number of threads between the open, the push
\* and the close, a cached handle is open for the file it is cached under, and
\* a close never hits a handle that is cached or on its way into the cache.
THEOREM HandlesStayOpen ==
  Spec => []CachedHandlesOpen
<1>1. HandleInv => CachedHandlesOpen
  BY DEF HandleInv
<1>2. HandleInv /\ [Next]_vars => HandleInv'
  BY NextHandleInv
<1> QED
  BY <1>1, <1>2, InitHandleInv, PTL DEF Spec

-----------------------------------------------------------------------------
(* The bytes of a read.                                                      *)

\* The bytes s are those of file f from offset `at` on.
Run(s, f, at) == s \in Seq(Bytes) /\ \A j \in 1..Len(s) : s[j] = <<f, at + j - 1>>

\* One run that goes on where another ends makes one run with it.
LEMMA RunJoined ==
  ASSUME NEW f, NEW at \in Nat, NEW s, NEW u, Run(s, f, at), Run(u, f, at + Len(s))
  PROVE  Run(s \o u, f, at) /\ Len(s \o u) = Len(s) + Len(u)
<1>1. s \in Seq(Bytes) /\ u \in Seq(Bytes)
  BY DEF Run
<1>2. Len(s) \in Nat /\ Len(u) \in Nat
  BY SMTT(30), <1>1
<1>3. /\ s \o u \in Seq(Bytes) /\ Len(s \o u) = Len(s) + Len(u)
      /\ \A j \in 1..(Len(s) + Len(u)) : (s \o u)[j] = IF j <= Len(s) THEN s[j] ELSE u[j - Len(s)]
  BY <1>1, ConcatProperties
<1>4. ASSUME NEW j \in 1..(Len(s) + Len(u)) PROVE (s \o u)[j] = <<f, at + j - 1>>
  <2>1. CASE j <= Len(s)
    <3>1. j \in 1..Len(s)
      BY SMTT(30), <1>2, <2>1
    <3> QED
      BY <1>3, <2>1, <3>1 DEF Run
  <2>2. CASE ~(j <= Len(s))
    <3>1. j - Len(s) \in 1..Len(u) /\ (at + Len(s)) + (j - Len(s)) - 1 = at + j - 1
      BY SMTT(30), <1>2, <2>2
    <3>2. u[j - Len(s)] = <<f, (at + Len(s)) + (j - Len(s)) - 1>>
      BY <3>1 DEF Run
    <3> QED
      BY <1>3, <2>2, <3>1, <3>2
  <2> QED
    BY <2>1, <2>2
<1> QED
  BY <1>3, <1>4 DEF Run

\* The bytes of a reply are a run.
LEMMA DataRun ==
  ASSUME NEW f \in Files, NEW at \in Nat, NEW n \in Nat
  PROVE  /\ Data(f, at, n).tag = "data" /\ Len(Data(f, at, n).bytes) = n
         /\ Run(Data(f, at, n).bytes, f, at)
<1> DEFINE s == [i \in 1..n |-> <<f, at + i - 1>>]
<1>1. Data(f, at, n).tag = "data" /\ Data(f, at, n).bytes = s
  BY DEF Data
<1>2. s \in Seq(Bytes) /\ Len(s) = n
  <2>1. \A i \in 1..n : at + i - 1 \in Nat
    BY SMTT(30)
  <2>2. s \in [1..n -> Bytes]
    BY <2>1 DEF Bytes
  <2> HIDE DEF s
  <2> QED
    BY SMTT(30), <2>2
<1>3. \A j \in 1..Len(s) : s[j] = <<f, at + j - 1>>
  BY <1>2
<1> QED
  BY <1>1, <1>2, <1>3 DEF Run

\* A function on 1..n is a sequence of n elements.
LEMMA LenOfFunction ==
  ASSUME NEW n \in Nat, NEW s, s = [i \in 1..n |-> s[i]]
  PROVE  DOMAIN s = 1..n /\ Len(s) = n
<1> DEFINE S == {s[i] : i \in 1..n}
<1>1. s \in [1..n -> S]
  OBVIOUS
<1> HIDE DEF S
<1> QED
  BY SMTT(30), <1>1

\* A thread waits for the n replies of a batch.
Waits(t, n) ==
  /\ pc[t] = "replies" /\ n \in 1..MAX_IN_FLIGHT
  /\ Len(replies[t]) = n /\ DOMAIN replies[t] = 1..n /\ DOMAIN Wants(t) = 1..n
  /\ range[t][1] + Len(out[t]) \in Nat
  /\ Wants(t)[1][1] = range[t][1] + Len(out[t])
  /\ \A i \in 1..n : Wants(t)[i][1] \in Nat /\ Wants(t)[i][2] \in Nat \ {0} /\ ReplyOK(t, i)
  /\ \A i \in 2..n : Wants(t)[i][1] = Wants(t)[i - 1][1] + Wants(t)[i - 1][2]

\* That is how every thread waits.
LEMMA WaitFacts ==
  ASSUME ReadInv, NEW t \in Threads, pc[t] = "replies"
  PROVE  \E n \in 1..MAX_IN_FLIGHT : Waits(t, n)
<1>1. /\ range[t] \in Nat \X Nat /\ out[t] \in Seq(Bytes) /\ Len(out[t]) < range[t][2]
      /\ replies[t] = [i \in DOMAIN Wants(t) |-> replies[t][i]]
      /\ \A i \in DOMAIN Wants(t) : ReplyOK(t, i)
  BY DEF ReadInv, TypeOK, ReadOK
<1>2. Len(out[t]) \in Nat /\ range[t][1] + Len(out[t]) \in Nat
  BY SMTT(30), <1>1
<1>3. PICK n \in 1..MAX_IN_FLIGHT :
           /\ DOMAIN Wants(t) = 1..n
           /\ Wants(t)[1][1] = range[t][1] + Len(out[t])
           /\ \A i \in 1..n : Wants(t)[i][1] \in Nat /\ Wants(t)[i][2] \in Nat \ {0}
           /\ \A i \in 2..n : Wants(t)[i][1] = Wants(t)[i - 1][1] + Wants(t)[i - 1][2]
  BY <1>1, <1>2, WantsFacts
<1>4. n \in Nat /\ replies[t] = [i \in 1..n |-> replies[t][i]]
  <2>1. n \in Nat
    BY SMTT(30), SftpAssumption
  <2> QED
    BY <1>1, <1>3, <2>1
<1>5. DOMAIN replies[t] = 1..n /\ Len(replies[t]) = n
  BY <1>4, LenOfFunction
<1>6. Waits(t, n)
  BY <1>1, <1>2, <1>3, <1>5 DEF Waits
<1> QED
  BY <1>6

\* The tags of the replies without bytes.
LEMMA Tags ==
  Sent.tag = "sent" /\ Failed.tag = "error" /\ Eof.tag = "eof"
BY SMTT(30) DEF Sent, Failed, Eof

\* What a reply is, by its tag.
LEMMA ReplyFacts ==
  ASSUME NEW t, NEW n, Waits(t, n), NEW i \in 1..n
  PROVE  /\ replies[t][i].tag \in {"sent", "error", "eof", "data"}
         /\ replies[t][i].tag = "eof" /\ ~lost[t] => Wants(t)[i][1] >= SizeOf[file[t]]
         /\ replies[t][i].tag = "data" =>
              /\ replies[t][i].bytes \in Seq(Bytes)
              /\ Len(replies[t][i].bytes) \in Nat \ {0}
              /\ ~lost[t] => Run(replies[t][i].bytes, file[t], Wants(t)[i][1])
<1> DEFINE r == replies[t][i]
           at == Wants(t)[i][1]
           len == Wants(t)[i][2]
<1>1. at \in Nat /\ len \in Nat /\ ReplyOK(t, i)
  BY DEF Waits
<1>2. CASE r \in {Sent, Failed}
  <2>1. r.tag \in {"sent", "error"}
    BY <1>2, Tags
  <2> QED
    BY <2>1
<1>3. CASE r = Eof /\ (~lost[t] => at >= SizeOf[file[t]])
  <2>1. r.tag = "eof"
    BY <1>3, Tags
  <2> QED
    BY <1>3, <2>1
<1>4. ASSUME NEW f \in Files, NEW k \in 1..len, r = Data(f, at, k), ~lost[t] => f = file[t]
      PROVE  /\ r.tag = "data" /\ r.bytes \in Seq(Bytes) /\ Len(r.bytes) \in Nat \ {0}
             /\ ~lost[t] => Run(r.bytes, file[t], at)
  <2>1. k \in Nat \ {0}
    BY SMTT(30), <1>1
  <2>2. /\ Data(f, at, k).tag = "data" /\ Len(Data(f, at, k).bytes) = k
        /\ Run(Data(f, at, k).bytes, f, at)
    BY <1>1, <2>1, DataRun
  <2> QED
    BY <1>4, <2>1, <2>2 DEF Run
<1> QED
  BY <1>1, <1>2, <1>3, <1>4 DEF ReplyOK

\* The full replies at the start of a batch, joined, take the read to where the
\* reply behind them was to start.
LEMMA FullReplies ==
  ASSUME NEW t, NEW n \in Nat, Waits(t, n), NEW k \in 1..n, \A i \in 1..k : IsFull(t, i),
         NEW full, full = FlattenSeq([i \in 1..k |-> replies[t][i].bytes])
  PROVE  /\ full \in Seq(Bytes) /\ Len(full) \in Nat \ {0}
         /\ (range[t][1] + Len(out[t])) + Len(full) = Wants(t)[k][1] + Wants(t)[k][2]
         /\ ~lost[t] => Run(full, file[t], range[t][1] + Len(out[t]))
<1> DEFINE base == range[t][1] + Len(out[t])
           s == [i \in 1..k |-> replies[t][i].bytes]
           at(i) == Wants(t)[i][1]
           len(i) == Wants(t)[i][2]
<1>1. base \in Nat /\ at(1) = base
  BY DEF Waits
<1>2. ASSUME NEW i \in 1..k
      PROVE  /\ i \in 1..n /\ at(i) \in Nat /\ len(i) \in Nat \ {0}
             /\ s[i] \in Seq(Bytes) /\ Len(s[i]) = len(i)
             /\ ~lost[t] => Run(s[i], file[t], at(i))
  <2>1. i \in 1..n
    BY SMTT(30)
  <2>2. replies[t][i].tag = "data" /\ Len(replies[t][i].bytes) = len(i)
    BY DEF IsFull
  <2>3. at(i) \in Nat /\ len(i) \in Nat \ {0}
    BY <2>1 DEF Waits
  <2>4. /\ replies[t][i].bytes \in Seq(Bytes)
        /\ ~lost[t] => Run(replies[t][i].bytes, file[t], at(i))
    BY <2>1, <2>2, ReplyFacts
  <2> QED
    BY <2>1, <2>2, <2>3, <2>4
<1>3. \A i \in 2..k : at(i) = at(i - 1) + len(i - 1)
  <2>1. \A i \in 2..k : i \in 2..n
    BY SMTT(30)
  <2> QED
    BY <2>1 DEF Waits
<1>4. k \in Nat \ {0} /\ s \in [1..k -> Seq(Bytes)]
  <2>1. k \in Nat \ {0}
    BY SMTT(30)
  <2> QED
    BY <1>2, <2>1
<1>5. full = FlattenSeq(s)
  OBVIOUS
<1> HIDE DEF base, s, at, len
<1>a. PICK f \in [1..k -> Seq(Bytes)] : JoinsUp(f, s, k)
  BY <1>4, FlattenFacts
<1>6. /\ f[1] = s[1] /\ FlattenSeq(s) = f[k]
      /\ \A i \in 2..k : f[i] = f[i - 1] \o s[i]
  BY <1>a DEF JoinsUp
<1> DEFINE Good(i) == /\ Len(f[i]) \in Nat \ {0} /\ base + Len(f[i]) = at(i) + len(i)
                      /\ ~lost[t] => Run(f[i], file[t], base)
           G == {i \in 0..k : i # 0 => Good(i)}
<1>7. 0 \in G
  BY SMTT(30), <1>4
<1>8. ASSUME NEW i \in 1..k, i - 1 \in G
      PROVE  i \in G
  <2>1. i \in 0..k /\ (i # 1 => i \in 2..k /\ i - 1 \in 1..k /\ i - 1 # 0)
    BY SMTT(30), <1>4
  <2>2. CASE i = 1
    <3>1. f[i] = s[i] /\ at(i) = base
      BY <1>1, <1>6, <2>2
    <3>2. Good(i)
      BY <1>2, <3>1
    <3> QED
      BY <2>1, <3>2
  <2>3. CASE i # 1
    <3>1. Good(i - 1) /\ i - 1 \in 1..k
      BY <1>8, <2>1, <2>3
    <3>2. f[i] = f[i - 1] \o s[i] /\ at(i) = at(i - 1) + len(i - 1)
      BY <1>3, <1>6, <2>1, <2>3
    <3>3. f[i - 1] \in Seq(Bytes) /\ s[i] \in Seq(Bytes) /\ Len(s[i]) = len(i)
      BY <1>2, <1>6, <3>1
    <3>4. Len(f[i]) = Len(f[i - 1]) + Len(s[i])
      BY <3>2, <3>3, ConcatProperties
    <3>5. base + Len(f[i - 1]) = at(i)
      BY <3>1, <3>2
    <3>6. Len(f[i - 1]) \in Nat \ {0} /\ len(i) \in Nat \ {0} /\ at(i) \in Nat
      BY <1>2, <3>1
    <3>7. Len(f[i]) \in Nat \ {0} /\ base + Len(f[i]) = at(i) + len(i)
      BY SMTT(30), <1>1, <3>3, <3>4, <3>5, <3>6
    <3>8. ASSUME ~lost[t] PROVE Run(f[i], file[t], base)
      <4>1. Run(f[i - 1], file[t], base) /\ Run(s[i], file[t], base + Len(f[i - 1]))
        BY <1>2, <3>1, <3>5, <3>8
      <4>2. Run(f[i - 1] \o s[i], file[t], base)
        BY <1>1, <4>1, RunJoined
      <4> QED
        BY <3>2, <4>2
    <3>9. Good(i)
      BY <3>7, <3>8
    <3> QED
      BY <2>1, <3>9
  <2> QED
    BY <2>2, <2>3
<1>9. \A i \in 0..k : i \in G
  <2> HIDE DEF G
  <2> QED
    BY <1>4, <1>7, <1>8, UpTo
<1>10. Good(k)
  <2>1. k \in 0..k /\ k # 0
    BY SMTT(30), <1>4
  <2> QED
    BY <1>9, <2>1
<1>11. f[k] \in Seq(Bytes)
  <2>1. k \in 1..k
    BY SMTT(30), <1>4
  <2> QED
    BY <1>6, <2>1
<1> QED
  BY <1>5, <1>6, <1>10, <1>11 DEF base, at, len

\* Without takes out one handle at most.
LEMMA WithoutLen ==
  ASSUME HandleInv, NEW f
  PROVE  /\ Without(f) \in Seq([file : Files, id : Ids]) /\ Len(Without(f)) \in Nat
         /\ Len(Without(f)) = IF IsCached(f) THEN Len(handles) - 1 ELSE Len(handles)
<1>1. handles \in Seq(Entries) /\ Len(handles) \in Nat
  BY SMTT(30) DEF HandleInv, Entries
<1>2. Without(f) \in Seq(Entries)
  BY WithoutFacts
<1>3. Len(Without(f)) \in Nat
  BY SMTT(30), <1>2
<1>4. CASE IsCached(f)
  <2>1. PosOf(f) \in 1..Len(handles)
    BY <1>4 DEF IsCached, PosOf
  <2> QED
    BY <1>1, <1>2, <1>3, <1>4, <2>1, RemoveAtFacts DEF Without, Entries
<1>5. CASE ~IsCached(f)
  BY <1>1, <1>2, <1>3, <1>5 DEF Without, Entries
<1> QED
  BY <1>4, <1>5

\* A step of another thread leaves the locals of thread u alone.
Untouched(u) ==
  /\ pc'[u] = pc[u] /\ file'[u] = file[u] /\ range'[u] = range[u]
  /\ hid'[u] = hid[u] /\ out'[u] = out[u] /\ replies'[u] = replies[u]

\* The handle u has stays open for its file, or u is told.
KeepsHandle(u) ==
  /\ lost[u] => lost'[u]
  /\ hid[u] \in Ids /\ opened[hid[u]] = file[u] /\ ~lost'[u] => opened'[hid[u]] = file[u]

\* What a thread waits for depends on its locals.
LEMMA SameWants ==
  ASSUME NEW u, range'[u] = range[u], out'[u] = out[u]
  PROVE  Wants(u)' = Wants(u)
BY DEF Wants, WantsUpTo

\* What is true of a thread's read stays true while others step.
LEMMA OtherReadOK ==
  ASSUME NEW u, ReadOK(u), Untouched(u), KeepsHandle(u)
  PROVE  ReadOK(u)'
<1>1. Wants(u)' = Wants(u)
  BY SameWants DEF Untouched
<1>2. \A i \in DOMAIN Wants(u) : ReplyOK(u, i) => ReplyOK(u, i)'
  BY <1>1 DEF ReplyOK, Untouched, KeepsHandle
<1>3. lost'[u] \/ (~lost[u] /\ IsExact(u)' = IsExact(u) /\ ShortAtEof(u)' = ShortAtEof(u))
  BY DEF IsExact, ShortAtEof, Untouched, KeepsHandle
<1> QED
  BY <1>1, <1>2, <1>3 DEF ReadOK, Untouched, KeepsHandle

\* The types of what HandleInv does not speak of.
RestTypes ==
  /\ Len(handles) <= HANDLE_CACHE
  /\ file \in [Threads -> Files]
  /\ range \in [Threads -> Nat \X Nat]
  /\ hid \in [Threads -> Ids \cup {NoId}]
  /\ doomed \in [Threads -> Ids \cup {NoId}]
  /\ out \in [Threads -> Seq(Bytes)]
  /\ lost \in [Threads -> BOOLEAN]
  /\ faults \in 0..MaxFaults

\* A step of thread t keeps the invariant if it does right by t's own read and
\* by the others' handles.
LEMMA StepReadInv ==
  ASSUME ReadInv, HandleInv', RestTypes', NEW t \in Threads, DOMAIN replies' = Threads,
         Len(replies'[t]) <= MAX_IN_FLIGHT, ReadOK(t)',
         \A u \in Threads \ {t} : Untouched(u) /\ KeepsHandle(u)
  PROVE  ReadInv'
<1>1. \A u \in Threads : ReadOK(u)'
  BY OtherReadOK DEF ReadInv
<1>2. \A u \in Threads : Len(replies'[u]) <= MAX_IN_FLIGHT
  BY DEF ReadInv, TypeOK, Untouched
<1>3. TypeOK'
  BY <1>2 DEF HandleInv, RestTypes, TypeOK
<1> QED
  BY <1>1, <1>3 DEF ReadInv

\* The types of a thread's locals.
LEMMA LocalTypes ==
  ASSUME ReadInv, NEW t \in Threads
  PROVE  /\ file[t] \in Files /\ range[t] \in Nat \X Nat /\ out[t] \in Seq(Bytes)
         /\ lost[t] \in BOOLEAN /\ ReadOK(t) /\ Len(replies[t]) <= MAX_IN_FLIGHT
         /\ RestTypes /\ DOMAIN replies = Threads
BY DEF ReadInv, TypeOK, RestTypes

\* The empty sequence.
LEMMA Empty ==
  Len(<<>>) = 0 /\ <<>> \in Seq(Bytes) /\ <<0, 0>> \in Nat \X Nat /\ \A i \in 1..0 : FALSE
BY SMTT(30)

\* Nothing is read at the start.
LEMMA InitReadInv ==
  Init => ReadInv
<1> SUFFICES ASSUME Init PROVE ReadInv
  OBVIOUS
<1>1. AnyFile \in Files /\ HANDLE_CACHE \in Nat /\ MAX_IN_FLIGHT \in Nat /\ MaxFaults \in Nat
  BY SftpAssumption DEF AnyFile
<1>2. /\ <<>> \in Seq(Bytes) /\ Len(<<>>) = 0 /\ 0 \in 0..MaxFaults /\ 0 <= HANDLE_CACHE
      /\ 0 <= MAX_IN_FLIGHT /\ <<0, 0>> \in Nat \X Nat /\ <<>> \in Seq([file : Files, id : Ids])
      /\ \A i \in 1..0 : FALSE
  BY SMTT(30), <1>1
<1>3. TypeOK
  BY <1>1, <1>2 DEF Init, TypeOK
<1>4. ASSUME NEW t \in Threads PROVE ReadOK(t)
  BY <1>2 DEF Init, ReadOK, IsExact
<1> QED
  BY <1>3, <1>4 DEF Init, ReadInv

\* A request finds its handle in the cache, open for its file, or has none yet.
LEMMA RequestReadInv ==
  ASSUME HandleInv, ReadInv, HandleInv', NEW t \in Threads, NEW f \in Files, NEW r \in Ranges,
         Request(t, f, r)
  PROVE  ReadInv'
<1>1. /\ pc[t] = "idle" /\ out[t] = <<>> /\ replies[t] = <<>> /\ r \in Nat \X Nat
      /\ UNCHANGED <<opened, doomed, out, replies, lost, faults>>
      /\ file' = [file EXCEPT ![t] = f] /\ range' = [range EXCEPT ![t] = r]
      /\ \E to \in {"batch", "open"} : pc' = [pc EXCEPT ![t] = to]
  BY LocalTypes, SftpAssumption DEF Request, Goto, ReadOK
<1>2. /\ Len(handles') <= HANDLE_CACHE
      /\ pc'[t] \in {"batch", "open"}
      /\ \/ UNCHANGED hid /\ pc'[t] = "open"
         \/ \E x \in Ids : hid' = [hid EXCEPT ![t] = x] /\ opened[x] = f
  <2>0. pc'[t] \in {"batch", "open"} /\ handles \in Seq([file : Files, id : Ids])
    BY <1>1 DEF HandleInv
  <2>1. CASE IsCached(f)
    <3> DEFINE p == PosOf(f)
               kept == Without(f)
               e == [file |-> f, id |-> IdOf(f)]
    <3>1. p \in 1..Len(handles) /\ handles[p].file = f /\ IdOf(f) = handles[p].id
      BY <2>1 DEF IsCached, PosOf, IdOf
    <3>2. opened[IdOf(f)] = f
      BY <3>1 DEF HandleInv, CachedHandlesOpen
    <3>3. IdOf(f) \in Ids
      BY <3>1, CachedEntry
    <3>4. Len(kept) = Len(handles) - 1 /\ Len(handles) \in Nat /\ Len(handles) <= HANDLE_CACHE
      <4>1. Len(handles) \in Nat
        BY SMTT(30), <2>0
      <4> QED
        BY <2>1, <4>1, WithoutLen, LocalTypes DEF RestTypes
    <3>5. handles' = <<e>> \o kept /\ kept \in Seq([file : Files, id : Ids]) /\ e \in [file : Files, id : Ids]
      BY <2>1, <3>3, WithoutLen DEF Request
    <3> HIDE DEF kept, e
    <3>6. Len(handles') = 1 + Len(kept)
      BY SMTT(30), <3>5
    <3>7. Len(handles') <= HANDLE_CACHE
      BY SMTT(30), <3>4, <3>6
    <3> QED
      BY <2>0, <2>1, <3>2, <3>3, <3>7 DEF Request
  <2>2. CASE ~IsCached(f)
    <3>1. Goto(t, "open") /\ UNCHANGED <<hid, handles>>
      BY <2>2 DEF Request
    <3>2. pc'[t] = "open"
      BY <3>1 DEF Goto, HandleInv
    <3> QED
      BY <2>0, <3>1, <3>2, LocalTypes DEF RestTypes
  <2> QED
    BY <2>1, <2>2
<1>3. RestTypes'
  BY <1>1, <1>2, LocalTypes DEF RestTypes
<1>4. /\ file'[t] = f /\ out'[t] = <<>> /\ replies'[t] = <<>> /\ DOMAIN replies' = Threads
      /\ Len(replies'[t]) <= MAX_IN_FLIGHT
      /\ pc'[t] # "open" => hid'[t] \in Ids /\ opened'[hid'[t]] = f
  BY <1>1, <1>2, LocalTypes DEF RestTypes
<1>5. IsExact(t)'
  BY <1>4, Empty DEF IsExact
<1>6. ReadOK(t)'
  BY <1>2, <1>4, <1>5 DEF ReadOK
<1>7. \A u \in Threads \ {t} : Untouched(u) /\ KeepsHandle(u)
  <2>1. \A u \in Threads \ {t} :
          /\ pc'[u] = pc[u] /\ file'[u] = file[u] /\ range'[u] = range[u]
          /\ out'[u] = out[u] /\ replies'[u] = replies[u] /\ lost'[u] = lost[u]
    BY <1>1, LocalTypes DEF RestTypes, HandleInv
  <2>2. \A u \in Threads \ {t} : hid'[u] = hid[u]
    BY <1>2, LocalTypes DEF RestTypes
  <2> QED
    BY <1>1, <2>1, <2>2 DEF Untouched, KeepsHandle
<1> QED
  BY <1>3, <1>4, <1>6, <1>7, StepReadInv

\* A new handle is open for the file it was opened for, and was nobody's.
LEMMA OpenReadInv ==
  ASSUME HandleInv, ReadInv, HandleInv', NEW t \in Threads, Open(t)
  PROVE  ReadInv'
<1>1. /\ pc[t] = "open" /\ file[t] \in Files /\ replies[t] = <<>> /\ (~lost[t] => IsExact(t))
      /\ UNCHANGED <<handles, file, range, doomed, out, replies, lost>>
      /\ faults' = faults \/ (faults < MaxFaults /\ faults' = faults + 1)
  BY LocalTypes DEF Open, Fault, ReadOK
<1>2. /\ \/ UNCHANGED opened
         \/ \E i \in Ids : opened[i] = NoFile /\ opened' = [opened EXCEPT ![i] = file[t]]
      /\ \/ UNCHANGED hid /\ Goto(t, "failed")
         \/ \E i \in Ids : /\ hid' = [hid EXCEPT ![t] = i] /\ Goto(t, "push")
                           /\ opened' = [opened EXCEPT ![i] = file[t]]
  BY DEF Open, Free
<1>3. faults' \in 0..MaxFaults
  BY SMTT(30), <1>1, LocalTypes, SftpAssumption DEF RestTypes
<1>4. /\ hid' \in [Threads -> Ids \cup {NoId}] /\ \A u \in Threads \ {t} : hid'[u] = hid[u]
      /\ \A u \in Threads \ {t} : pc'[u] = pc[u]
      /\ \/ pc'[t] = "failed"
         \/ pc'[t] = "push" /\ hid'[t] \in Ids /\ opened'[hid'[t]] = file[t]
  <2>1. CASE UNCHANGED hid /\ Goto(t, "failed")
    BY <2>1, LocalTypes DEF RestTypes, Goto, HandleInv
  <2>2. ASSUME NEW i \in Ids, hid' = [hid EXCEPT ![t] = i], Goto(t, "push"),
               opened' = [opened EXCEPT ![i] = file[t]]
        PROVE  /\ hid' \in [Threads -> Ids \cup {NoId}] /\ \A u \in Threads \ {t} : hid'[u] = hid[u]
               /\ \A u \in Threads \ {t} : pc'[u] = pc[u]
               /\ pc'[t] = "push" /\ hid'[t] \in Ids /\ opened'[hid'[t]] = file[t]
    <3>1. /\ hid' \in [Threads -> Ids \cup {NoId}] /\ hid'[t] = i
          /\ \A u \in Threads \ {t} : hid'[u] = hid[u]
      BY <2>2, LocalTypes DEF RestTypes
    <3>2. pc'[t] = "push" /\ opened'[i] = file[t] /\ \A u \in Threads \ {t} : pc'[u] = pc[u]
      BY <2>2 DEF Goto, HandleInv
    <3> QED
      BY <3>1, <3>2
  <2> QED
    BY <1>2, <2>1, <2>2
<1>5. \A x \in Ids : opened[x] # NoFile => opened'[x] = opened[x]
  BY <1>2 DEF HandleInv
<1>6. RestTypes'
  BY <1>1, <1>3, <1>4, LocalTypes DEF RestTypes
<1>7. ReadOK(t)'
  BY <1>1, <1>4 DEF ReadOK, IsExact
<1>8. ASSUME NEW u \in Threads \ {t} PROVE Untouched(u) /\ KeepsHandle(u)
  <2>1. file[u] # NoFile
    BY LocalTypes, SftpAssumption
  <2> QED
    BY <1>1, <1>4, <1>5, <2>1 DEF Untouched, KeepsHandle
<1>9. DOMAIN replies' = Threads /\ Len(replies'[t]) <= MAX_IN_FLIGHT
  BY <1>1, LocalTypes
<1> QED
  BY <1>6, <1>7, <1>8, <1>9, StepReadInv

\* handles.push makes room before it adds.
LEMMA PushReadInv ==
  ASSUME HandleInv, ReadInv, HandleInv', NEW t \in Threads, Push(t)
  PROVE  ReadInv'
<1> DEFINE rest == Without(file[t])
           kept == IF Len(rest) >= HANDLE_CACHE THEN Front(rest) ELSE rest
           e == [file |-> file[t], id |-> hid[t]]
<1>1. /\ pc[t] = "push" /\ ReadOK(t) /\ handles' = <<e>> \o kept
      /\ UNCHANGED <<opened, file, range, hid, out, replies, lost, faults>>
  BY LocalTypes DEF Push, PushThen
<1>2. \/ Goto(t, "batch") /\ UNCHANGED doomed
      \/ /\ Goto(t, "close") /\ Len(handles) >= HANDLE_CACHE
         /\ doomed' = [doomed EXCEPT ![t] = handles[Len(handles)].id]
  BY DEF Push, PushThen, Last
<1>3. /\ Len(handles) \in Nat /\ Len(handles) <= HANDLE_CACHE /\ HANDLE_CACHE \in Nat \ {0}
      /\ Len(rest) \in Nat /\ (Len(rest) = Len(handles) \/ Len(rest) = Len(handles) - 1)
      /\ rest \in Seq([file : Files, id : Ids])
  <2>1. Len(handles) \in Nat
    BY SMTT(30) DEF HandleInv
  <2> QED
    BY <2>1, LocalTypes, SftpAssumption, WithoutLen DEF RestTypes
<1>4. e \in [file : Files, id : Ids]
  BY <1>1, LocalTypes DEF ReadOK
<1> HIDE DEF rest, e
<1>5. kept \in Seq([file : Files, id : Ids]) /\ Len(kept) \in Nat /\ Len(kept) < HANDLE_CACHE
  <2>1. CASE Len(rest) >= HANDLE_CACHE
    <3>1. Len(rest) > 0
      BY SMTT(30), <1>3, <2>1
    <3>2. Front(rest) \in Seq([file : Files, id : Ids]) /\ Len(Front(rest)) = Len(rest) - 1
      BY <1>3, <3>1, FrontFacts
    <3>3. Len(rest) - 1 \in Nat /\ Len(rest) - 1 < HANDLE_CACHE
      BY SMTT(30), <1>3, <3>1
    <3> QED
      BY <2>1, <3>2, <3>3
  <2>2. CASE ~(Len(rest) >= HANDLE_CACHE)
    <3>1. Len(rest) < HANDLE_CACHE
      BY SMTT(30), <1>3, <2>2
    <3> QED
      BY <1>3, <2>2, <3>1
  <2> QED
    BY <2>1, <2>2
<1> HIDE DEF kept
<1>6. Len(handles') <= HANDLE_CACHE
  <2>1. Len(<<e>> \o kept) = 1 + Len(kept)
    BY SMTT(30), <1>4, <1>5
  <2> QED
    BY SMTT(30), <1>1, <1>3, <1>5, <2>1
<1>7. doomed' \in [Threads -> Ids \cup {NoId}]
  <2>1. CASE UNCHANGED doomed
    BY <2>1, LocalTypes DEF RestTypes
  <2>2. CASE Len(handles) >= HANDLE_CACHE /\ doomed' = [doomed EXCEPT ![t] = handles[Len(handles)].id]
    <3>1. Len(handles) \in 1..Len(handles)
      BY SMTT(30), <1>3, <2>2
    <3> QED
      BY <2>2, <3>1, CachedEntry, LocalTypes DEF RestTypes
  <2> QED
    BY <1>2, <2>1, <2>2
<1>8. pc'[t] \in {"batch", "close"} /\ \A u \in Threads \ {t} : pc'[u] = pc[u]
  BY <1>2 DEF Goto, HandleInv
<1>9. RestTypes'
  BY <1>1, <1>6, <1>7, LocalTypes DEF RestTypes
<1>10. ReadOK(t)'
  BY <1>1, <1>8 DEF ReadOK, IsExact
<1>11. \A u \in Threads \ {t} : Untouched(u) /\ KeepsHandle(u)
  BY <1>1, <1>8 DEF Untouched, KeepsHandle
<1>12. DOMAIN replies' = Threads /\ Len(replies'[t]) <= MAX_IN_FLIGHT
  BY <1>1, LocalTypes
<1> QED
  BY <1>9, <1>10, <1>11, <1>12, StepReadInv

\* Whoever has the handle that is closed is told.
LEMMA CloseReadInv ==
  ASSUME HandleInv, ReadInv, HandleInv', NEW t \in Threads, Close(t)
  PROVE  ReadInv'
<1>1. /\ pc[t] = "close" /\ ReadOK(t)
      /\ UNCHANGED <<handles, file, range, hid, out, replies>>
      /\ doomed' = [doomed EXCEPT ![t] = NoId] /\ pc' = [pc EXCEPT ![t] = "batch"]
      /\ faults' = faults \/ (faults < MaxFaults /\ faults' = faults + 1)
  BY LocalTypes DEF Close, Goto, Fault
<1>2. \/ UNCHANGED <<opened, lost>>
      \/ /\ opened' = [opened EXCEPT ![doomed[t]] = NoFile]
         /\ lost' = [u \in Threads |-> lost[u] \/ hid[u] = doomed[t]]
  BY DEF Close
<1>3. faults' \in 0..MaxFaults
  BY SMTT(30), <1>1, LocalTypes, SftpAssumption DEF RestTypes
<1>4. lost' \in [Threads -> BOOLEAN] /\ \A u \in Threads : KeepsHandle(u)
  BY <1>2, LocalTypes DEF RestTypes, KeepsHandle, HandleInv
<1>5. pc'[t] = "batch" /\ \A u \in Threads \ {t} : pc'[u] = pc[u]
  BY <1>1 DEF HandleInv
<1>6. RestTypes'
  BY <1>1, <1>3, <1>4, LocalTypes DEF RestTypes
<1>7. ReadOK(t)'
  BY <1>1, <1>4, <1>5 DEF ReadOK, IsExact, KeepsHandle
<1>8. \A u \in Threads \ {t} : Untouched(u) /\ KeepsHandle(u)
  BY <1>1, <1>4, <1>5 DEF Untouched
<1>9. DOMAIN replies' = Threads /\ Len(replies'[t]) <= MAX_IN_FLIGHT
  BY <1>1, LocalTypes
<1> QED
  BY <1>6, <1>7, <1>8, <1>9, StepReadInv

\* The function g with another value from S at t, or with the same.
SetsOne(g, h, t, S) == \E x \in S : h = [g EXCEPT ![t] = x]

\* What is left alone is set to what it was.
LEMMA SetsSame ==
  ASSUME NEW S, NEW g \in [Threads -> S], NEW t \in Threads
  PROVE  SetsOne(g, g, t, S)
<1>1. g = [g EXCEPT ![t] = g[t]] /\ g[t] \in S
  OBVIOUS
<1> QED
  BY <1>1 DEF SetsOne

\* What thread t may do to the locals when it leaves the handles alone.
OwnStep(t) ==
  /\ UNCHANGED <<handles, opened, doomed>> /\ faults' \in 0..MaxFaults
  /\ SetsOne(pc, pc', t, {"idle", "batch", "replies", "done", "failed"})
  /\ SetsOne(file, file', t, Files) /\ SetsOne(range, range', t, Nat \X Nat)
  /\ SetsOne(hid, hid', t, Ids \cup {NoId}) /\ SetsOne(out, out', t, Seq(Bytes))
  /\ SetsOne(lost, lost', t, BOOLEAN)
  /\ DOMAIN replies' = Threads /\ Len(replies'[t]) <= MAX_IN_FLIGHT
  /\ \A u \in Threads \ {t} : replies'[u] = replies[u]

\* A step that touches nothing but locals of thread t.
LEMMA LocalStep ==
  ASSUME HandleInv, ReadInv, HandleInv', NEW t \in Threads, OwnStep(t), ReadOK(t)'
  PROVE  ReadInv'
<1>1. RestTypes
  BY LocalTypes
<1>2. file' \in [Threads -> Files] /\ \A u \in Threads \ {t} : file'[u] = file[u]
  <2>1. file \in [Threads -> Files] /\ SetsOne(file, file', t, Files)
    BY <1>1 DEF OwnStep, RestTypes
  <2> QED
    BY SMTT(30), <2>1 DEF SetsOne
<1>3. range' \in [Threads -> Nat \X Nat] /\ \A u \in Threads \ {t} : range'[u] = range[u]
  <2>1. range \in [Threads -> Nat \X Nat] /\ SetsOne(range, range', t, Nat \X Nat)
    BY <1>1 DEF OwnStep, RestTypes
  <2> QED
    BY SMTT(30), <2>1 DEF SetsOne
<1>4. hid' \in [Threads -> Ids \cup {NoId}] /\ \A u \in Threads \ {t} : hid'[u] = hid[u]
  <2>1. hid \in [Threads -> Ids \cup {NoId}] /\ SetsOne(hid, hid', t, Ids \cup {NoId})
    BY <1>1 DEF OwnStep, RestTypes
  <2> QED
    BY SMTT(30), <2>1 DEF SetsOne
<1>5. out' \in [Threads -> Seq(Bytes)] /\ \A u \in Threads \ {t} : out'[u] = out[u]
  <2>1. out \in [Threads -> Seq(Bytes)] /\ SetsOne(out, out', t, Seq(Bytes))
    BY <1>1 DEF OwnStep, RestTypes
  <2> QED
    BY SMTT(30), <2>1 DEF SetsOne
<1>6. lost' \in [Threads -> BOOLEAN] /\ \A u \in Threads \ {t} : lost'[u] = lost[u]
  <2>1. lost \in [Threads -> BOOLEAN] /\ SetsOne(lost, lost', t, BOOLEAN)
    BY <1>1 DEF OwnStep, RestTypes
  <2> QED
    BY SMTT(30), <2>1 DEF SetsOne
<1>7. \A u \in Threads \ {t} : pc'[u] = pc[u]
  <2>1. PICK D : pc \in [Threads -> D]
    BY DEF HandleInv
  <2>2. SetsOne(pc, pc', t, {"idle", "batch", "replies", "done", "failed"})
    BY DEF OwnStep
  <2> QED
    BY SMTT(30), <2>1, <2>2 DEF SetsOne
<1>8. RestTypes'
  BY <1>1, <1>2, <1>3, <1>4, <1>5, <1>6 DEF RestTypes, OwnStep
<1>9. \A u \in Threads \ {t} : Untouched(u) /\ KeepsHandle(u)
  BY <1>2, <1>3, <1>4, <1>5, <1>6, <1>7 DEF Untouched, KeepsHandle, OwnStep
<1>10. DOMAIN replies' = Threads /\ Len(replies'[t]) <= MAX_IN_FLIGHT
  BY DEF OwnStep
<1> QED
  BY <1>8, <1>9, <1>10, StepReadInv

\* The locals that a step leaves alone.
LEMMA SameLocals ==
  ASSUME ReadInv, NEW t \in Threads
  PROVE  /\ file' = file => SetsOne(file, file', t, Files)
         /\ range' = range => SetsOne(range, range', t, Nat \X Nat)
         /\ hid' = hid => SetsOne(hid, hid', t, Ids \cup {NoId})
         /\ out' = out => SetsOne(out, out', t, Seq(Bytes))
         /\ lost' = lost => SetsOne(lost, lost', t, BOOLEAN)
<1>1. RestTypes
  BY LocalTypes
<1>2. /\ SetsOne(file, file, t, Files) /\ SetsOne(range, range, t, Nat \X Nat)
      /\ SetsOne(hid, hid, t, Ids \cup {NoId}) /\ SetsOne(out, out, t, Seq(Bytes))
      /\ SetsOne(lost, lost, t, BOOLEAN)
  BY <1>1, SetsSame DEF RestTypes
<1> QED
  BY <1>2

\* The caller has what it asked for; nothing is left of the read.
LEMMA ReturnReadInv ==
  ASSUME HandleInv, ReadInv, HandleInv', NEW t \in Threads, Return(t)
  PROVE  ReadInv'
<1>1. /\ pc[t] \in {"done", "failed"} /\ replies[t] = <<>>
      /\ UNCHANGED <<handles, opened, doomed, replies, faults>>
      /\ pc' = [pc EXCEPT ![t] = "idle"] /\ file' = [file EXCEPT ![t] = AnyFile]
      /\ range' = [range EXCEPT ![t] = <<0, 0>>] /\ hid' = [hid EXCEPT ![t] = NoId]
      /\ out' = [out EXCEPT ![t] = <<>>] /\ lost' = [lost EXCEPT ![t] = FALSE]
  BY LocalTypes DEF Return, Goto, ReadOK
<1>2. AnyFile \in Files /\ <<0, 0>> \in Nat \X Nat /\ <<>> \in Seq(Bytes)
  <2>1. AnyFile \in Files
    BY SftpAssumption DEF AnyFile
  <2> QED
    BY <2>1, Empty
<1>3. pc'[t] = "idle" /\ out'[t] = <<>> /\ replies'[t] = <<>>
  BY <1>1, LocalTypes DEF HandleInv, RestTypes
<1>4. ReadOK(t)'
  BY <1>3, Empty DEF ReadOK, IsExact
<1>5. /\ DOMAIN replies' = Threads /\ Len(replies'[t]) <= MAX_IN_FLIGHT
      /\ \A u \in Threads \ {t} : replies'[u] = replies[u]
  BY <1>1, LocalTypes
<1>6. faults' \in 0..MaxFaults
  BY <1>1, LocalTypes DEF RestTypes
<1> QED
  <2>1. OwnStep(t)
    BY <1>1, <1>2, <1>5, <1>6 DEF OwnStep, SetsOne
  <2> QED
    BY <1>4, <2>1, LocalStep

\* The next batch is asked for, or there is nothing left to ask for.
LEMMA SendBatchReadInv ==
  ASSUME HandleInv, ReadInv, HandleInv', NEW t \in Threads, SendBatch(t)
  PROVE  ReadInv'
<1>1. /\ pc[t] = "batch" /\ ReadOK(t)
      /\ UNCHANGED <<handles, opened, file, range, hid, doomed, out, lost, faults>>
      /\ range[t] \in Nat \X Nat /\ out[t] \in Seq(Bytes)
  BY LocalTypes DEF SendBatch
<1>2. faults' \in 0..MaxFaults /\ Wants(t)' = Wants(t) /\ Len(out[t]) \in Nat
  <2>1. Len(out[t]) \in Nat
    BY SMTT(30), <1>1
  <2> QED
    BY <1>1, <2>1, LocalTypes, SameWants DEF RestTypes
<1>3. CASE Len(out[t]) < range[t][2]
  <2>1. /\ replies' = [replies EXCEPT ![t] = [i \in DOMAIN Wants(t) |-> Sent]]
        /\ pc' = [pc EXCEPT ![t] = "replies"]
    BY <1>3 DEF SendBatch, Goto
  <2>2. PICK n \in 1..MAX_IN_FLIGHT : DOMAIN Wants(t) = 1..n
    BY <1>1, <1>2, <1>3, WantsFacts
  <2>3. n \in Nat /\ n <= MAX_IN_FLIGHT
    BY SMTT(30), SftpAssumption
  <2>4. /\ pc'[t] = "replies" /\ replies'[t] = [i \in 1..n |-> Sent]
        /\ DOMAIN replies' = Threads /\ \A u \in Threads \ {t} : replies'[u] = replies[u]
    BY <2>1, <2>2, LocalTypes DEF HandleInv
  <2>5. /\ replies'[t] = [i \in 1..n |-> replies'[t][i]] /\ Len(replies'[t]) = n
        /\ \A i \in 1..n : replies'[t][i] = Sent
    <3> DEFINE s == [i \in 1..n |-> Sent]
    <3>1. s = [i \in 1..n |-> s[i]] /\ \A i \in 1..n : s[i] = Sent
      OBVIOUS
    <3>2. Len(s) = n
      <4> HIDE DEF s
      <4> QED
        BY <2>3, <3>1, LenOfFunction
    <3> HIDE DEF s
    <3> QED
      BY <2>4, <3>1, <3>2 DEF s
  <2>6. \A i \in 1..n : ReplyOK(t, i)'
    BY <2>5 DEF ReplyOK
  <2>7. ReadOK(t)'
    BY <1>1, <1>2, <1>3, <2>2, <2>4, <2>5, <2>6 DEF ReadOK, IsExact
  <2>8. Len(replies'[t]) <= MAX_IN_FLIGHT
    BY <2>3, <2>5
  <2> QED
    <3>1. SetsOne(pc, pc', t, {"idle", "batch", "replies", "done", "failed"})
      BY <2>1 DEF SetsOne
    <3>2. OwnStep(t)
      BY <1>1, <1>2, <2>4, <2>8, <3>1, SameLocals DEF OwnStep
    <3> QED
      BY <2>7, <3>2, LocalStep
<1>4. CASE ~(Len(out[t]) < range[t][2])
  <2>1. pc' = [pc EXCEPT ![t] = "done"] /\ UNCHANGED replies
    BY <1>4 DEF SendBatch, Goto
  <2>2. pc'[t] = "done" /\ replies'[t] = <<>>
    BY <1>1, <2>1 DEF HandleInv, ReadOK
  <2>3. ReadOK(t)'
    BY <1>1, <1>4, <2>2 DEF ReadOK, IsExact, ShortAtEof
  <2>4. /\ DOMAIN replies' = Threads /\ Len(replies'[t]) <= MAX_IN_FLIGHT
        /\ \A u \in Threads \ {t} : replies'[u] = replies[u]
    BY <2>1, LocalTypes
  <2> QED
    <3>1. SetsOne(pc, pc', t, {"idle", "batch", "replies", "done", "failed"})
      BY <2>1 DEF SetsOne
    <3>2. OwnStep(t)
      BY <1>1, <1>2, <2>4, <3>1, SameLocals DEF OwnStep
    <3> QED
      BY <2>3, <3>2, LocalStep
<1> QED
  BY <1>3, <1>4

\* An answer is of the file the handle is open for.
LEMMA ServeReadInv ==
  ASSUME HandleInv, ReadInv, HandleInv', NEW t \in Threads, NEW i \in 1..Len(replies[t]), Serve(t, i)
  PROVE  ReadInv'
<1> DEFINE f == opened[hid[t]]
           at == Wants(t)[i][1]
           len == Wants(t)[i][2]
<1>1. /\ pc[t] = "replies" /\ ReadOK(t)
      /\ UNCHANGED <<handles, opened, pc, file, range, hid, doomed, out, lost>>
      /\ faults' = faults \/ (faults < MaxFaults /\ faults' = faults + 1)
  BY LocalTypes DEF Serve, Fault
<1>2. PICK n \in 1..MAX_IN_FLIGHT : Waits(t, n)
  BY <1>1, WaitFacts
<1>3. n \in Nat /\ i \in 1..n /\ Len(replies[t]) = n /\ at \in Nat /\ len \in Nat
  <2>1. n \in Nat
    BY SMTT(30), SftpAssumption
  <2> QED
    BY <1>2, <2>1 DEF Waits
<1>4. hid[t] \in Ids /\ f \in Files \cup {NoFile} /\ (~lost[t] => f = file[t])
  BY <1>1 DEF ReadOK, HandleInv
<1>5. PICK a : /\ replies' = [replies EXCEPT ![t] = [replies[t] EXCEPT ![i] = a]]
               /\ \/ a \in {Sent, Failed}
                  \/ a = Eof /\ (~lost[t] => at >= SizeOf[file[t]])
                  \/ \E g \in Files, k \in 1..len : a = Data(g, at, k) /\ (~lost[t] => g = file[t])
  <2> DEFINE most == Min({len, SizeOf[f] - at})
             answers == IF f = NoFile THEN {Failed}
                        ELSE IF at >= SizeOf[f] THEN {Eof}
                        ELSE {Data(f, at, k) : k \in 1..most}
  <2>1. \/ replies' = [replies EXCEPT ![t][i] = Failed]
        \/ \E a \in answers : replies' = [replies EXCEPT ![t][i] = a]
    BY DEF Serve
  <2>2. CASE replies' = [replies EXCEPT ![t][i] = Failed]
    BY <2>2
  <2>3. ASSUME NEW a \in answers, replies' = [replies EXCEPT ![t][i] = a]
        PROVE  \/ a \in {Sent, Failed}
               \/ a = Eof /\ (~lost[t] => at >= SizeOf[file[t]])
               \/ \E g \in Files, k \in 1..len : a = Data(g, at, k) /\ (~lost[t] => g = file[t])
    <3>1. CASE f = NoFile
      BY <2>3, <3>1
    <3>2. CASE f # NoFile /\ at >= SizeOf[f]
      BY <1>4, <2>3, <3>2
    <3>3. CASE f # NoFile /\ ~(at >= SizeOf[f])
      <4>1. f \in Files /\ SizeOf[f] \in Nat
        BY <1>4, <3>3, SftpAssumption
      <4>2. SizeOf[f] - at \in Nat
        <5> HIDE DEF f, at
        <5> QED
          BY SMTT(30), <1>3, <3>3, <4>1
      <4>3. most \in Nat /\ most <= len
        <5> DEFINE y == SizeOf[f] - at
        <5>1. y \in Nat
          BY <4>2
        <5> HIDE DEF y, len
        <5>2. Min({len, y}) \in {len, y} /\ Min({len, y}) <= len
          BY <1>3, <5>1, MinOfTwo
        <5> QED
          BY <1>3, <5>1, <5>2 DEF y
      <4>4. PICK k \in 1..most : a = Data(f, at, k)
        BY <2>3, <3>3
      <4>5. k \in 1..len
        <5> HIDE DEF most, len
        <5> QED
          BY SMTT(30), <1>3, <4>3
      <4> QED
        BY <1>4, <4>1, <4>4, <4>5
    <3> QED
      BY <3>1, <3>2, <3>3
  <2> QED
    BY <2>1, <2>2, <2>3
<1>6. replies[t] = [j \in 1..n |-> replies[t][j]]
  BY <1>1, <1>2 DEF ReadOK, Waits
<1>7. /\ replies'[t] = [replies[t] EXCEPT ![i] = a]
      /\ DOMAIN replies' = Threads /\ \A u \in Threads \ {t} : replies'[u] = replies[u]
  BY <1>5, LocalTypes
<1>8. /\ replies'[t] = [j \in 1..n |-> replies'[t][j]]
      /\ \A j \in 1..n : replies'[t][j] = IF j = i THEN a ELSE replies[t][j]
  BY <1>6, <1>7
<1>9. Wants(t)' = Wants(t) /\ DOMAIN Wants(t) = 1..n
  BY <1>1, <1>2, SameWants DEF Waits
<1>10. ASSUME NEW j \in 1..n PROVE ReplyOK(t, j)'
  <2>1. ReplyOK(t, j)
    BY <1>2 DEF Waits
  <2>2. CASE j = i
    BY <1>1, <1>5, <1>8, <1>9, <2>2 DEF ReplyOK
  <2>3. CASE j # i
    BY <1>1, <1>8, <1>9, <2>1, <2>3 DEF ReplyOK
  <2> QED
    BY <2>2, <2>3
<1>11. ReadOK(t)'
  BY <1>1, <1>8, <1>9, <1>10 DEF ReadOK, IsExact
<1>12. Len(replies'[t]) <= MAX_IN_FLIGHT
  <2>1. Len(replies'[t]) = n
    BY <1>3, <1>8, LenOfFunction
  <2>2. n <= MAX_IN_FLIGHT
    BY SMTT(30), SftpAssumption
  <2> QED
    BY <2>1, <2>2
<1>13. faults' \in 0..MaxFaults
  BY SMTT(30), <1>1, LocalTypes, SftpAssumption DEF RestTypes
<1>14. SetsOne(pc, pc', t, {"idle", "batch", "replies", "done", "failed"})
  <2>1. pc' = [pc EXCEPT ![t] = "replies"]
    BY <1>1 DEF HandleInv
  <2> QED
    BY <2>1 DEF SetsOne
<1>15. OwnStep(t)
  BY <1>1, <1>7, <1>11, <1>12, <1>13, <1>14, SameLocals DEF OwnStep
<1> QED
  BY <1>11, <1>15, LocalStep

\* What a batch of n replies adds to a read: the full replies and what the
\* first one that is not full brings, whose tag says how the read goes on.
Adds(t, new, tag) ==
  /\ new \in Seq(Bytes) /\ Len(new) \in Nat
  /\ tag = "data" => Len(new) > 0
  /\ ~lost[t] => /\ Run(new, file[t], range[t][1] + Len(out[t]))
                 /\ tag = "eof" => (range[t][1] + Len(out[t])) + Len(new) >= SizeOf[file[t]]

\* join_all's replies, as Assemble uses them.
LEMMA AssembleFacts ==
  ASSUME ReadInv, NEW t \in Threads, Assemble(t)
  PROVE  \E new, tag :
           /\ Adds(t, new, tag) /\ out' = [out EXCEPT ![t] = out[t] \o new]
           /\ Goto(t, IF tag = "data" THEN "batch" ELSE IF tag = "eof" THEN "done" ELSE "failed")
<1>1. pc[t] = "replies" /\ out \in [Threads -> Seq(Bytes)]
  BY DEF Assemble, AssembleWith, ReadInv, TypeOK
<1>2. PICK n \in 1..MAX_IN_FLIGHT : Waits(t, n)
  BY <1>1, WaitFacts
<1>3. n \in Nat \ {0} /\ Len(replies[t]) = n
  <2>1. n \in Nat \ {0}
    BY SMTT(30), SftpAssumption
  <2> QED
    BY <1>2, <2>1 DEF Waits
<1> DEFINE base == range[t][1] + Len(out[t])
           Stops == {n + 1} \cup {i \in 1..n : ~IsFull(t, i)}
           stop == Min(Stops)
           k == stop - 1
           full == FlattenSeq([i \in 1..k |-> replies[t][i].bytes])
           tag == IF stop > n THEN "data" ELSE replies[t][stop].tag
           tail == IF stop > n \/ tag # "data" THEN <<>> ELSE replies[t][stop].bytes
<1>4. /\ out' = [out EXCEPT ![t] = out[t] \o (full \o tail)]
      /\ Goto(t, CASE tag = "data" -> "batch" [] tag = "eof" -> "done" [] OTHER -> "failed")
  BY <1>3 DEF Assemble, AssembleWith
<1>5. /\ stop \in Nat \ {0} /\ stop <= n + 1 /\ k \in 0..n
      /\ \A i \in 1..k : IsFull(t, i)
      /\ stop = n + 1 \/ stop \in 1..n
  <2>1. Stops \in SUBSET Nat /\ n + 1 \in Stops
    BY SMTT(30), <1>3
  <2>2. stop \in Stops /\ \A y \in Stops : stop <= y
    <3> HIDE DEF Stops
    <3> QED
      BY <2>1, MinFacts
  <2>3. stop = n + 1 \/ stop \in 1..n
    BY <2>2
  <2>4. \A i \in 1..n : ~IsFull(t, i) => stop <= i
    BY <2>2
  <2> HIDE DEF Stops, stop
  <2> QED
    BY SMTT(30), <1>3, <2>3, <2>4
<1> HIDE DEF stop
<1>6. base \in Nat
  BY <1>2 DEF Waits
<1>7. /\ full \in Seq(Bytes) /\ Len(full) \in Nat
      /\ k # 0 => Len(full) > 0
      /\ ~lost[t] => Run(full, file[t], base)
      /\ stop \in 1..n => base + Len(full) = Wants(t)[stop][1]
  <2>1. CASE k = 0
    <3>1. full = <<>>
      <4>1. [i \in 1..0 |-> replies[t][i].bytes] = <<>> /\ Len(<<>>) = 0
        BY SMTT(30)
      <4> QED
        BY <2>1, <4>1 DEF FlattenSeq
    <3>2. stop = 1 /\ base + 0 = base
      BY SMTT(30), <1>5, <1>6, <2>1
    <3>3. Wants(t)[1][1] = base
      BY <1>2 DEF Waits
    <3> HIDE DEF full, base, k
    <3> QED
      BY <2>1, <3>1, <3>2, <3>3, Empty DEF Run
  <2>2. CASE k # 0
    <3>1. k \in 1..n /\ (stop \in 1..n => stop \in 2..n) /\ stop - 1 = k
      BY SMTT(30), <1>3, <1>5, <2>2
    <3> HIDE DEF k
    <3>2. /\ full \in Seq(Bytes) /\ Len(full) \in Nat \ {0}
          /\ base + Len(full) = Wants(t)[k][1] + Wants(t)[k][2]
          /\ ~lost[t] => Run(full, file[t], base)
      BY <1>2, <1>3, <1>5, <3>1, FullReplies
    <3>3. stop \in 1..n => Wants(t)[stop][1] = Wants(t)[k][1] + Wants(t)[k][2]
      BY <1>2, <3>1 DEF Waits
    <3> HIDE DEF full, base
    <3>4. Len(full) > 0
      BY SMTT(30), <3>2
    <3> QED
      BY <3>2, <3>3, <3>4
  <2> QED
    BY <2>1, <2>2
<1> HIDE DEF full, base
<1>8. /\ tail \in Seq(Bytes) /\ Len(tail) \in Nat
      /\ ~lost[t] => Run(tail, file[t], base + Len(full))
      /\ stop > n => tail = <<>> /\ tag = "data"
      /\ stop \in 1..n /\ tag = "data" => Len(tail) > 0
      /\ tag # "data" => tail = <<>> /\ stop \in 1..n
      /\ tag = "eof" /\ ~lost[t] => base + Len(full) >= SizeOf[file[t]]
  <2>1. CASE stop = n + 1
    <3>1. stop > n /\ stop \notin 1..n
      BY SMTT(30), <1>3, <2>1
    <3> QED
      BY <3>1, Empty DEF Run
  <2>2. CASE stop \in 1..n
    <3>1. ~(stop > n)
      BY SMTT(30), <1>3, <2>2
    <3> DEFINE r == replies[t][stop]
    <3>2. tag = r.tag /\ tail = IF tag # "data" THEN <<>> ELSE r.bytes
      BY <3>1
    <3>3. /\ r.tag = "eof" /\ ~lost[t] => Wants(t)[stop][1] >= SizeOf[file[t]]
          /\ r.tag = "data" => /\ r.bytes \in Seq(Bytes) /\ Len(r.bytes) \in Nat \ {0}
                               /\ ~lost[t] => Run(r.bytes, file[t], Wants(t)[stop][1])
      BY <1>2, <2>2, ReplyFacts
    <3>4. r.tag = "data" => Len(r.bytes) > 0
      <4> HIDE DEF r
      <4> QED
        BY SMTT(30), <3>3
    <3>5. base + Len(full) = Wants(t)[stop][1]
      BY <1>7, <2>2
    <3> HIDE DEF tail, tag, r
    <3> QED
      BY <2>2, <3>1, <3>2, <3>3, <3>4, <3>5, Empty DEF Run
  <2> QED
    BY <1>5, <2>1, <2>2
<1> HIDE DEF tail, tag
<1> DEFINE new == full \o tail
<1>9. new \in Seq(Bytes) /\ Len(new) = Len(full) + Len(tail)
  BY <1>7, <1>8, ConcatProperties
<1>10. Len(new) \in Nat /\ (tag = "data" => Len(new) > 0)
  <2>1. stop > n => k # 0
    BY SMTT(30), <1>3, <1>5
  <2>2. tag = "data" => Len(full) > 0 \/ Len(tail) > 0
    <3>1. stop > n \/ stop \in 1..n
      BY SMTT(30), <1>3, <1>5
    <3> QED
      BY <1>7, <1>8, <2>1, <3>1
  <2> HIDE DEF new
  <2> QED
    BY SMTT(30), <1>7, <1>8, <1>9, <2>2
<1>11. ~lost[t] => Run(new, file[t], base)
  BY <1>6, <1>7, <1>8, RunJoined
<1>12. tag = "eof" /\ ~lost[t] => base + Len(new) >= SizeOf[file[t]]
  <2> SUFFICES ASSUME tag = "eof", ~lost[t] PROVE base + Len(new) >= SizeOf[file[t]]
    OBVIOUS
  <2>1. tail = <<>> /\ base + Len(full) >= SizeOf[file[t]]
    BY <1>8
  <2> HIDE DEF new
  <2>2. Len(new) = Len(full)
    BY SMTT(30), <1>7, <1>9, <2>1
  <2> QED
    BY <2>1, <2>2
<1>13. Adds(t, new, tag)
  BY <1>9, <1>10, <1>11, <1>12 DEF Adds, base
<1>14. Goto(t, IF tag = "data" THEN "batch" ELSE IF tag = "eof" THEN "done" ELSE "failed")
  BY <1>4
<1> QED
  BY <1>4, <1>13, <1>14

\* The read goes on behind the bytes that were in order, or ends at EOF.
LEMMA AssembleReadInv ==
  ASSUME HandleInv, ReadInv, HandleInv', NEW t \in Threads, Assemble(t)
  PROVE  ReadInv'
<1>1. /\ UNCHANGED <<handles, opened, file, range, hid, doomed, lost, faults>>
      /\ pc[t] = "replies" /\ replies' = [replies EXCEPT ![t] = <<>>] /\ ReadOK(t)
      /\ out[t] \in Seq(Bytes) /\ range[t] \in Nat \X Nat
  BY LocalTypes DEF Assemble, AssembleWith
<1>2. PICK new, tag :
        /\ Adds(t, new, tag) /\ out' = [out EXCEPT ![t] = out[t] \o new]
        /\ Goto(t, IF tag = "data" THEN "batch" ELSE IF tag = "eof" THEN "done" ELSE "failed")
  BY AssembleFacts
<1>3. new \in Seq(Bytes) /\ out[t] \o new \in Seq(Bytes) /\ Len(out[t] \o new) = Len(out[t]) + Len(new)
  BY <1>1, <1>2, ConcatProperties DEF Adds
<1>4. /\ out'[t] = out[t] \o new /\ replies'[t] = <<>> /\ DOMAIN replies' = Threads
      /\ \A u \in Threads \ {t} : replies'[u] = replies[u]
      /\ pc'[t] \in {"batch", "done", "failed"} /\ (pc'[t] = "done" => tag = "eof")
  BY <1>1, <1>2, LocalTypes DEF Goto, HandleInv, RestTypes
<1>5. ASSUME ~lost[t]
      PROVE  /\ \A i \in 1..Len(out'[t]) : out'[t][i] = <<file[t], range[t][1] + i - 1>>
             /\ tag = "eof" => range[t][1] + Len(out'[t]) >= SizeOf[file[t]]
  <2>1. range[t][1] \in Nat /\ Len(out[t]) \in Nat /\ Len(new) \in Nat
    BY SMTT(30), <1>1, <1>3
  <2>2. Run(out[t], file[t], range[t][1])
    BY <1>1, <1>5 DEF ReadOK, IsExact, Run
  <2>3. /\ Run(new, file[t], range[t][1] + Len(out[t]))
        /\ tag = "eof" => (range[t][1] + Len(out[t])) + Len(new) >= SizeOf[file[t]]
    BY <1>2, <1>5 DEF Adds
  <2>4. Run(out[t] \o new, file[t], range[t][1])
    BY <2>1, <2>2, <2>3, RunJoined
  <2>5. (range[t][1] + Len(out[t])) + Len(new) = range[t][1] + (Len(out[t]) + Len(new))
    BY SMTT(30), <2>1
  <2> QED
    BY <1>3, <1>4, <2>3, <2>4, <2>5 DEF Run
<1>6. ReadOK(t)'
  <2>1. ~lost'[t] => IsExact(t)' /\ (pc'[t] = "done" => ShortAtEof(t)')
    BY <1>1, <1>4, <1>5 DEF IsExact, ShortAtEof
  <2>2. hid'[t] \in Ids /\ (~lost'[t] => opened'[hid'[t]] = file'[t])
    BY <1>1 DEF ReadOK
  <2> QED
    BY <1>4, <2>1, <2>2 DEF ReadOK
<1>7. Len(replies'[t]) <= MAX_IN_FLIGHT
  BY SMTT(30), <1>4, Empty, SftpAssumption
<1>8. faults' \in 0..MaxFaults
  BY <1>1, LocalTypes DEF RestTypes
<1>9. SetsOne(pc, pc', t, {"idle", "batch", "replies", "done", "failed"})
  BY <1>2 DEF Goto, SetsOne
<1>10. SetsOne(out, out', t, Seq(Bytes))
  BY <1>2, <1>3 DEF SetsOne
<1>11. OwnStep(t)
  BY <1>1, <1>4, <1>7, <1>8, <1>9, <1>10, SameLocals DEF OwnStep
<1> QED
  BY <1>6, <1>11, LocalStep

\* Every step keeps both invariants.
LEMMA NextReadInv ==
  ASSUME HandleInv, ReadInv, [Next]_vars
  PROVE  HandleInv' /\ ReadInv'
<1>1. HandleInv'
  BY NextHandleInv
<1>2. CASE UNCHANGED vars
  <2>1. \A t \in Threads : ReadOK(t)'
    <3>1. \A t \in Threads : Untouched(t) /\ KeepsHandle(t)
      BY <1>2 DEF vars, Untouched, KeepsHandle
    <3> QED
      BY <3>1, OtherReadOK DEF ReadInv
  <2>2. TypeOK' /\ DOMAIN replies' = Threads
    BY <1>2 DEF vars, ReadInv, TypeOK
  <2> QED
    BY <1>1, <2>1, <2>2 DEF ReadInv
<1>3. CASE \E t \in Threads : Step(t)
  BY <1>1, <1>3, OpenReadInv, PushReadInv, CloseReadInv, SendBatchReadInv, AssembleReadInv,
     ReturnReadInv, ServeReadInv DEF Step
<1>4. CASE \E t \in Threads, f \in Files, r \in Ranges : Request(t, f, r)
  BY <1>1, <1>4, RequestReadInv
<1> QED
  BY <1>1, <1>2, <1>3, <1>4 DEF Next

\* read_range: for any sizes, ranges and limits, any number of threads, and
\* however the server cuts and orders its replies, a read that keeps its handle
\* returns the bytes of its file from its offset on, in order, and stops short
\* of what was asked for only at the end of the file.
THEOREM ReadsAreExact ==
  Spec => []ReadIsExact
<1>1. HandleInv /\ ReadInv => ReadIsExact
  BY DEF ReadInv, ReadOK, ReadIsExact, Returned
<1>2. HandleInv /\ ReadInv /\ [Next]_vars => (HandleInv /\ ReadInv)'
  BY NextReadInv
<1> QED
  BY <1>1, <1>2, InitHandleInv, InitReadInv, PTL DEF Spec

\* A batch that lets the read go on has brought bytes.
LEMMA AssembleAdvances ==
  ASSUME ReadInv, NEW t \in Threads, Assemble(t), pc'[t] = "batch"
  PROVE  Len(out'[t]) > Len(out[t])
<1>1. PICK new, tag :
        /\ Adds(t, new, tag) /\ out' = [out EXCEPT ![t] = out[t] \o new]
        /\ Goto(t, IF tag = "data" THEN "batch" ELSE IF tag = "eof" THEN "done" ELSE "failed")
  BY AssembleFacts
<1>2. out[t] \in Seq(Bytes) /\ t \in DOMAIN pc /\ t \in DOMAIN out
  BY DEF ReadInv, TypeOK
<1>3. tag = "data"
  BY <1>1, <1>2 DEF Goto
<1>4. /\ out'[t] = out[t] \o new /\ Len(out[t] \o new) = Len(out[t]) + Len(new)
      /\ Len(new) \in Nat /\ Len(new) > 0
  BY <1>1, <1>2, <1>3, ConcatProperties DEF Adds
<1>5. Len(out[t]) \in Nat
  BY SMTT(30), <1>2
<1> QED
  BY SMTT(30), <1>4, <1>5

\* A thread's read goes from its replies to the next batch by Assemble only.
LEMMA OnlyAssemble ==
  ASSUME HandleInv, ReadInv, [Next]_vars, NEW t \in Threads, pc[t] = "replies", pc'[t] = "batch"
  PROVE  Assemble(t)
<1>1. pc' # pc
  OBVIOUS
<1>2. PICK u \in Threads : Step(u) \/ \E f \in Files, r \in Ranges : Request(u, f, r)
  BY <1>1 DEF Next, vars
<1>3. CASE u = t
  BY <1>2, <1>3 DEF Step, Request, Open, Push, PushThen, Close, SendBatch, Return, Serve
<1>4. CASE u # t
  <2>1. pc' = pc \/ \E to : pc' = [pc EXCEPT ![u] = to]
    BY <1>2 DEF Step, Request, Open, Push, PushThen, Close, SendBatch, Return, Serve,
       Assemble, AssembleWith, Goto
  <2> QED
    BY <1>4, <2>1 DEF HandleInv
<1> QED
  BY <1>3, <1>4

\* The loop of read_range: it asks again only when the last batch brought bytes,
\* whatever the server answers.
THEOREM RoundsAdvance ==
  Spec => EveryRoundAdvances
<1>1. HandleInv /\ ReadInv /\ [Next]_vars => (HandleInv /\ ReadInv)'
  BY NextReadInv
<1>2. ASSUME HandleInv, ReadInv, [Next]_vars
      PROVE  [\A t \in Threads :
                pc[t] = "replies" /\ pc'[t] = "batch" => Len(out'[t]) > Len(out[t])]_vars
  <2>1. ASSUME NEW t \in Threads, pc[t] = "replies", pc'[t] = "batch"
        PROVE  Len(out'[t]) > Len(out[t])
    <3>1. Assemble(t)
      BY <1>2, <2>1, OnlyAssemble
    <3> QED
      BY <1>2, <2>1, <3>1, AssembleAdvances
  <2> QED
    BY <2>1
<1> QED
  BY <1>1, <1>2, InitHandleInv, InitReadInv, PTL DEF Spec, EveryRoundAdvances

=============================================================================
