------------------------------ MODULE ByteLru ------------------------------
(* cache.rs, ByteLru<K>: an LRU map whose entries together stay within a    *)
(* number of bytes.  `lru` lists the entries from the least to the most     *)
(* recently used one (the lru crate's list), `bytes` is the running count   *)
(* the code keeps beside it.  Both are fields of one variable since one     *)
(* mutex guards them; get and insert are atomic.                            *)
EXTENDS Integers, Sequences, FiniteSetsExt, SequenceTheorems, WellFoundedInduction, TLAPS

CONSTANTS Keys,      \* what buffers are stored under
          Values,    \* the buffers
          Size(_),   \* Vec::len of a buffer
          Capacity   \* capacity_bytes

VARIABLE cache

Entry == [key : Keys, val : Values]

New == [lru |-> <<>>, bytes |-> 0]

\* The bytes of the n least recently used entries, for every n.
Held(lru) ==
  LET upto[n \in 0..Len(lru)] == IF n = 0 THEN 0 ELSE upto[n - 1] + Size(lru[n].val)
  IN  upto

Bytes(lru) == Held(lru)[Len(lru)]

Entries(c) == Range(c.lru)

Cached(c) == {e.key : e \in Entries(c)}

\* Meaningful for a cached key only; keys are unique in the list.
Position(c, k) == CHOOSE i \in DOMAIN c.lru : c.lru[i].key = k

EntryOf(c, k) == c.lru[Position(c, k)]

TakeOut(lru, p) == SubSeq(lru, 1, p - 1) \o SubSeq(lru, p + 1, Len(lru))

Without(c, k) == IF k \in Cached(c) THEN TakeOut(c.lru, Position(c, k)) ELSE c.lru

\* lru.get: a hit makes the entry the most recently used one.
Get(c, k) ==
  IF k \in Cached(c)
    THEN [lru |-> Append(Without(c, k), EntryOf(c, k)), bytes |-> c.bytes]
    ELSE c

Refund(c, k) == IF k \in Cached(c) THEN Size(EntryOf(c, k).val) ELSE 0

PushCounting(c, k, v, change) ==
  [lru |-> Append(Without(c, k), [key |-> k, val |-> v]), bytes |-> c.bytes + change]

\* Mutant of Push: the bytes of a replaced pair stay on the count.
PushNoRefund(c, k, v) == PushCounting(c, k, v, Size(v))

\* lru.push: the new pair is the most recently used one; an old pair under the
\* same key is handed back and its bytes are taken off the count.
Push(c, k, v) == PushCounting(c, k, v, Size(v) - Refund(c, k))

\* The state after n calls of pop_lru.
Popped(c, n) ==
  [lru |-> SubSeq(c.lru, n + 1, Len(c.lru)),
   bytes |-> c.bytes - Held(c.lru)[n]]

\* Mutant of Shrink: `while bytes >= capacity`.
ShrinkTooFar(c) ==
  LET enough == {n \in 0..Len(c.lru) : Popped(c, n).bytes < Capacity}
  IN  Popped(c, Min(enough \cup {Len(c.lru)}))

\* while bytes > capacity: pop the least recently used entry, if there is one.
Shrink(c) ==
  LET enough == {n \in 0..Len(c.lru) : Popped(c, n).bytes <= Capacity}
  IN  Popped(c, Min(enough \cup {Len(c.lru)}))

\* A buffer larger than the cache is not stored (and an entry already there
\* under its key stays).
Insert(c, k, v) ==
  IF Size(v) > Capacity THEN c ELSE Shrink(Push(c, k, v))

-----------------------------------------------------------------------------
Typed(c) ==
  /\ c.lru \in Seq(Entry)
  /\ c.bytes \in Nat
  /\ c = [lru |-> c.lru, bytes |-> c.bytes]

TypeOK == Typed(cache)

Unique(lru) == \A i, j \in DOMAIN lru : lru[i].key = lru[j].key => i = j

Exact(c) == Unique(c.lru) /\ c.bytes = Bytes(c.lru) /\ c.bytes <= Capacity

\* The running count is the number of bytes really held, whatever sequence of
\* replacements and evictions led here, and outside the lock it is within the
\* capacity.  It can therefore never go below zero (usize would wrap and the
\* cache would evict everything from then on).
BytesExact == Exact(cache)

\* A step that inserts a buffer leaves it there, unless it alone exceeds the
\* cache, when nothing changes; the flights' waiters rely on it ("by the time a
\* waiter runs, the thread it waited on has already stored its result").  To
\* make room, only the least recently used entries go, and not one more than
\* the capacity asks for.
EvictsLeastRecentOnly(k, v) ==
  LET full == Push(cache, k, v).lru
      gone == Len(full) - Len(cache'.lru)
  IN  IF Size(v) > Capacity THEN UNCHANGED cache
      ELSE /\ k \in Cached(cache') /\ EntryOf(cache', k).val = v
           /\ gone \in Nat /\ cache'.lru = SubSeq(full, gone + 1, Len(full))
           /\ gone > 0 => Bytes(cache'.lru) + Size(full[gone].val) > Capacity

-----------------------------------------------------------------------------
(* Proofs, for any keys, buffers and capacity.  They stand here since the    *)
(* modules that instantiate the cache use them by their instance's name.     *)

\* Zenon proves the leaves that name no prover.
USE ZenonT(60)

\* A set of naturals has a least element.
LEMMA LeastNat ==
  ASSUME NEW T \in SUBSET Nat, T # {}
  PROVE  \E x \in T : \A y \in T : x <= y
<1> DEFINE R == {ss \in Nat \X Nat : ss[1] < ss[2]}
<1>1. IsWellFoundedOn(R, Nat)
  BY NatLessThanWellFounded DEF OpToRel
<1>2. \A x, y \in Nat : y < x => <<y, x>> \in R
  OBVIOUS
<1> HIDE DEF R
<1>3. PICK x \in T : \A y \in T : <<y, x>> \notin R
  BY <1>1, WFMin
<1>4. ASSUME NEW y \in T PROVE x <= y
  <2>1. x \in Nat /\ y \in Nat /\ <<y, x>> \notin R
    BY <1>3
  <2> QED
    BY SMTT(30), <1>2, <2>1
<1> QED
  BY <1>4

\* Induction up to a bound, with a set in the place of a predicate.
LEMMA UpTo ==
  ASSUME NEW m \in Nat, NEW S, 0 \in S, \A n \in 1..m : n - 1 \in S => n \in S
  PROVE  \A n \in 0..m : n \in S
<1> DEFINE T == {n \in 0..m : n \notin S}
<1> SUFFICES ASSUME T # {} PROVE FALSE
  OBVIOUS
<1>1. T \in SUBSET Nat
  BY SMTT(30)
<1>2. PICK x \in T : \A y \in T : x <= y
  <2> HIDE DEF T
  <2> QED
    BY <1>1, LeastNat
<1>3. x \in 1..m /\ x - 1 \notin T
  BY SMTT(30), <1>2
<1> QED
  BY SMTT(30), <1>3

\* Buffers have a length, and the cache's capacity is a number of bytes.
Sized == Capacity \in Nat /\ \A v \in Values : Size(v) \in Nat

\* An entry of the list has a key, a buffer and a length.
LEMMA EntrySize ==
  ASSUME Sized, NEW lru \in Seq(Entry), NEW n \in 1..Len(lru)
  PROVE  lru[n] \in Entry /\ lru[n].key \in Keys /\ lru[n].val \in Values /\ Size(lru[n].val) \in Nat
<1>1. lru[n] \in Entry
  BY SMTT(30)
<1> QED
  BY <1>1 DEF Sized, Entry

\* Held satisfies its recursion.
LEMMA HeldFacts ==
  ASSUME Sized, NEW lru \in Seq(Entry)
  PROVE  /\ Held(lru) \in [0..Len(lru) -> Nat]
         /\ Held(lru)[0] = 0
         /\ \A n \in 1..Len(lru) : Held(lru)[n] = Held(lru)[n - 1] + Size(lru[n].val)
<1> DEFINE Upto(g, m) == /\ g \in [0..m -> Nat]
                         /\ g[0] = 0
                         /\ \A n \in 1..m : g[n] = g[n - 1] + Size(lru[n].val)
           Done == {m \in 0..Len(lru) : \E g : Upto(g, m)}
<1>1. \A n \in 1..Len(lru) : Size(lru[n].val) \in Nat
  BY EntrySize
<1>2. 0 \in Done
  <2> DEFINE z == [n \in 0..0 |-> 0]
  <2>1. Upto(z, 0)
    BY SMTT(30)
  <2> HIDE DEF z, Upto
  <2> QED
    BY SMTT(30), <2>1
<1>3. ASSUME NEW m \in 1..Len(lru), m - 1 \in Done
      PROVE  m \in Done
  <2>1. PICK g : Upto(g, m - 1)
    BY <1>3
  <2> DEFINE h == [n \in 0..m |-> IF n = m THEN g[m - 1] + Size(lru[m].val) ELSE g[n]]
  <2>2. h \in [0..m -> Nat] /\ h[0] = 0
    BY SMTT(30), <1>1, <2>1
  <2>3. ASSUME NEW n \in 1..m PROVE h[n] = h[n - 1] + Size(lru[n].val)
    BY SMTT(30), <2>1
  <2>4. Upto(h, m)
    BY <2>2, <2>3
  <2> HIDE DEF h, Upto
  <2> QED
    BY SMTT(30), <2>4
<1>4. Len(lru) \in Done
  <2>1. Len(lru) \in Nat
    BY SMTT(30)
  <2> HIDE DEF Done
  <2>2. \A m \in 0..Len(lru) : m \in Done
    BY <1>2, <1>3, <2>1, UpTo
  <2> QED
    BY SMTT(30), <2>1, <2>2
<1>5. PICK g : Upto(g, Len(lru))
  BY <1>4
<1>6. g = [n \in 0..Len(lru) |-> IF n = 0 THEN 0 ELSE g[n - 1] + Size(lru[n].val)]
  BY SMTT(30), <1>5
<1> DEFINE f == Held(lru)
<1>7. f = [n \in 0..Len(lru) |-> IF n = 0 THEN 0 ELSE f[n - 1] + Size(lru[n].val)]
  BY <1>6 DEF Held
<1> HIDE DEF f
<1>8. \A n \in 0..Len(lru) : f[n] = g[n]
  <2> DEFINE Same == {n \in 0..Len(lru) : f[n] = g[n]}
  <2>1. 0 \in Same
    BY SMTT(30), <1>5, <1>7
  <2>2. ASSUME NEW n \in 1..Len(lru), n - 1 \in Same PROVE n \in Same
    BY SMTT(30), <1>5, <1>7, <2>2
  <2>3. \A n \in 0..Len(lru) : n \in Same
    <3>1. Len(lru) \in Nat
      BY SMTT(30)
    <3> HIDE DEF Same
    <3> QED
      BY <2>1, <2>2, <3>1, UpTo
  <2> QED
    BY <2>3
<1>9. f = g
  BY SMTT(30), <1>5, <1>7, <1>8
<1> QED
  BY <1>5, <1>9 DEF f

\* The m entries of s after the first a are those of t after the first b.
Agree(s, a, t, b, m) ==
  /\ a + m <= Len(s) /\ b + m <= Len(t)
  /\ \A i \in 1..m : s[a + i] = t[b + i]

\* Two lists with a stretch of entries in common hold the same bytes in it.
LEMMA SameStretch ==
  ASSUME Sized, NEW s \in Seq(Entry), NEW t \in Seq(Entry),
         NEW a \in Nat, NEW b \in Nat, NEW m \in Nat, Agree(s, a, t, b, m)
  PROVE  Held(s)[a + m] - Held(s)[a] = Held(t)[b + m] - Held(t)[b]
<1> DEFINE hs == Held(s)
           ht == Held(t)
           Same == {n \in 0..m : hs[a + n] - hs[a] = ht[b + n] - ht[b]}
<1>1. /\ hs \in [0..Len(s) -> Nat] /\ ht \in [0..Len(t) -> Nat]
      /\ \A n \in 1..Len(s) : hs[n] = hs[n - 1] + Size(s[n].val)
      /\ \A n \in 1..Len(t) : ht[n] = ht[n - 1] + Size(t[n].val)
  BY HeldFacts
<1>2. Len(s) \in Nat /\ Len(t) \in Nat
  BY SMTT(30)
<1> HIDE DEF hs, ht
<1>3. 0 \in Same
  <2>1. a \in 0..Len(s) /\ b \in 0..Len(t)
    BY SMTT(30), <1>2 DEF Agree
  <2>2. hs[a] \in Nat /\ ht[b] \in Nat
    BY <1>1, <2>1
  <2> QED
    BY SMTT(30), <2>2
<1>4. ASSUME NEW n \in 1..m, n - 1 \in Same
      PROVE  n \in Same
  <2>1. a + n \in 1..Len(s) /\ b + n \in 1..Len(t) /\ s[a + n] = t[b + n]
    BY SMTT(30), <1>2 DEF Agree
  <2>2. (a + n) - 1 = a + (n - 1) /\ (b + n) - 1 = b + (n - 1)
    BY SMTT(30)
  <2>3. a \in 0..Len(s) /\ a + (n - 1) \in 0..Len(s) /\ b \in 0..Len(t) /\ b + (n - 1) \in 0..Len(t)
    BY SMTT(30), <1>2 DEF Agree
  <2>4. /\ hs[a + n] = hs[a + (n - 1)] + Size(s[a + n].val)
        /\ ht[b + n] = ht[b + (n - 1)] + Size(s[a + n].val)
    BY <1>1, <2>1, <2>2
  <2>5. hs[a + (n - 1)] - hs[a] = ht[b + (n - 1)] - ht[b]
    BY <1>4
  <2>6. Size(s[a + n].val) \in Nat
    BY <2>1, EntrySize
  <2>7. hs[a] \in Nat /\ hs[a + (n - 1)] \in Nat /\ ht[b] \in Nat /\ ht[b + (n - 1)] \in Nat
    BY <1>1, <2>3
  <2>8. hs[a + n] - hs[a] = ht[b + n] - ht[b]
    <3> DEFINE p == hs[a]
               q == hs[a + (n - 1)]
               x == ht[b]
               y == ht[b + (n - 1)]
               d == Size(s[a + n].val)
    <3>1. p \in Nat /\ q \in Nat /\ x \in Nat /\ y \in Nat /\ d \in Nat
      BY <2>6, <2>7
    <3>2. q - p = y - x /\ hs[a + n] = q + d /\ ht[b + n] = y + d
      BY <2>4, <2>5
    <3> HIDE DEF p, q, x, y, d
    <3>3. (q + d) - p = (y + d) - x
      BY SMTT(30), <3>1, <3>2
    <3> QED
      BY <3>2, <3>3 DEF p, x
  <2> QED
    BY SMTT(30), <2>8
<1>5. \A n \in 0..m : n \in Same
  <2> HIDE DEF Same
  <2> QED
    BY <1>3, <1>4, UpTo
<1>6. m \in Same
  BY SMTT(30), <1>5
<1> QED
  BY <1>6 DEF hs, ht

\* Held is a number of bytes everywhere and nothing at the start.
LEMMA HeldFirst ==
  ASSUME Sized, NEW lru \in Seq(Entry)
  PROVE  Held(lru)[0] = 0 /\ \A n \in 0..Len(lru) : Held(lru)[n] \in Nat
BY HeldFacts

\* A new entry adds its bytes.
LEMMA BytesOfAppend ==
  ASSUME Sized, NEW s \in Seq(Entry), NEW e \in Entry
  PROVE  /\ Bytes(Append(s, e)) = Bytes(s) + Size(e.val)
         /\ Held(Append(s, e))[Len(s)] = Bytes(s)
<1> DEFINE t == Append(s, e)
           n == Len(s)
<1>1. t \in Seq(Entry) /\ Len(t) = n + 1 /\ n \in Nat /\ t[n + 1] = e
      /\ \A i \in 1..n : t[i] = s[i]
  BY SMTT(30)
<1> HIDE DEF t, n
<1>2. Agree(t, 0, s, 0, n)
  BY SMTT(30), <1>1 DEF Agree, n
<1>3. Held(t)[0 + n] - Held(t)[0] = Held(s)[0 + n] - Held(s)[0]
  BY SMTT(30), <1>1, <1>2, SameStretch
<1>4. Held(t)[n] \in Nat /\ Held(s)[n] \in Nat /\ Held(t)[0] = 0 /\ Held(s)[0] = 0
  <2>1. n \in 0..Len(t) /\ n \in 0..Len(s)
    BY SMTT(30), <1>1 DEF n
  <2> QED
    BY <1>1, <2>1, HeldFirst
<1>5. Held(t)[n] = Held(s)[n]
  BY SMTT(30), <1>1, <1>3, <1>4
<1>6. Held(t)[n + 1] = Held(t)[n] + Size(e.val)
  <2>1. n + 1 \in 1..Len(t) /\ (n + 1) - 1 = n
    BY SMTT(30), <1>1
  <2> QED
    BY <1>1, <2>1, HeldFacts
<1> QED
  BY <1>1, <1>5, <1>6 DEF Bytes, t, n

\* The entries after the first n hold what those n do not.
LEMMA BytesOfRest ==
  ASSUME Sized, NEW s \in Seq(Entry), NEW n \in 0..Len(s)
  PROVE  /\ SubSeq(s, n + 1, Len(s)) \in Seq(Entry)
         /\ Bytes(SubSeq(s, n + 1, Len(s))) = Bytes(s) - Held(s)[n]
<1> DEFINE t == SubSeq(s, n + 1, Len(s))
           m == Len(s) - n
<1>1. t \in Seq(Entry) /\ Len(t) = m /\ m \in Nat /\ \A i \in 1..m : t[i] = s[n + i]
  BY SMTT(30)
<1>0. n \in Nat /\ n + m = Len(s) /\ Len(s) \in Nat
  BY SMTT(30)
<1> HIDE DEF t, m
<1>2. Agree(t, 0, s, n, m)
  BY SMTT(30), <1>0, <1>1 DEF Agree
<1>3. Held(t)[0 + m] - Held(t)[0] = Held(s)[n + m] - Held(s)[n]
  BY SMTT(30), <1>0, <1>1, <1>2, SameStretch
<1>4. Held(t)[0] = 0 /\ Held(t)[m] \in Nat
  <2>1. m \in 0..Len(t)
    BY SMTT(30), <1>1
  <2> QED
    BY <1>1, <2>1, HeldFirst
<1>5. Held(t)[m] = Held(s)[Len(s)] - Held(s)[n]
  BY SMTT(30), <1>0, <1>1, <1>3, <1>4
<1> QED
  BY <1>1, <1>5 DEF Bytes, t

\* TakeOut, position by position.
LEMMA TakeOutFacts ==
  ASSUME NEW S, NEW s \in Seq(S), NEW p \in 1..Len(s)
  PROVE  /\ TakeOut(s, p) \in Seq(S) /\ Len(TakeOut(s, p)) = Len(s) - 1
         /\ \A j \in 1..(Len(s) - 1) :
              TakeOut(s, p)[j] = IF j < p THEN s[j] ELSE s[j + 1]
<1> DEFINE a == SubSeq(s, 1, p - 1)
           b == SubSeq(s, p + 1, Len(s))
<1>1. a \in Seq(S) /\ Len(a) = p - 1 /\ \A j \in 1..(p - 1) : a[j] = s[j]
  BY SMTT(30)
<1>2. b \in Seq(S) /\ Len(b) = Len(s) - p /\ \A j \in 1..(Len(s) - p) : b[j] = s[p + j]
  BY SMTT(30)
<1>3. TakeOut(s, p) = a \o b
  BY DEF TakeOut
<1> HIDE DEF a, b
<1>4. /\ a \o b \in Seq(S) /\ Len(a \o b) = Len(s) - 1
      /\ \A j \in 1..(Len(s) - 1) : (a \o b)[j] = IF j <= p - 1 THEN a[j] ELSE b[j - (p - 1)]
  BY SMTT(30), <1>1, <1>2, ConcatProperties
<1>5. ASSUME NEW j \in 1..(Len(s) - 1)
      PROVE  (a \o b)[j] = IF j < p THEN s[j] ELSE s[j + 1]
  <2>1. CASE j < p
    BY SMTT(30), <1>1, <1>4, <2>1
  <2>2. CASE ~(j < p)
    <3>1. j - (p - 1) \in 1..(Len(s) - p) /\ p + (j - (p - 1)) = j + 1
      BY SMTT(30), <2>2
    <3>2. b[j - (p - 1)] = s[j + 1]
      BY <1>2, <3>1
    <3> QED
      BY SMTT(30), <1>4, <2>2, <3>2
  <2> QED
    BY <2>1, <2>2
<1> QED
  BY <1>3, <1>4, <1>5

\* An entry taken out takes its bytes with it.
LEMMA BytesOfTakeOut ==
  ASSUME Sized, NEW s \in Seq(Entry), NEW p \in 1..Len(s)
  PROVE  Bytes(TakeOut(s, p)) = Bytes(s) - Size(s[p].val)
<1> DEFINE t == TakeOut(s, p)
           m == Len(s) - p
<1>1. /\ t \in Seq(Entry) /\ Len(t) = Len(s) - 1
      /\ \A j \in 1..(Len(s) - 1) : t[j] = IF j < p THEN s[j] ELSE s[j + 1]
  BY TakeOutFacts
<1>2. p \in Nat /\ p - 1 \in Nat /\ m \in Nat /\ p + m = Len(s) /\ (p - 1) + m = Len(s) - 1
      /\ 0 + (p - 1) = p - 1 /\ Len(s) \in Nat /\ p <= Len(s)
  BY SMTT(30)
<1> HIDE DEF t, m
<1>3. Agree(t, 0, s, 0, p - 1)
  BY SMTT(30), <1>1, <1>2 DEF Agree
<1>4. Agree(t, p - 1, s, p, m)
  <2>1. ASSUME NEW i \in 1..m PROVE t[(p - 1) + i] = s[p + i]
    <3>1. (p - 1) + i \in 1..(Len(s) - 1) /\ ~((p - 1) + i < p) /\ ((p - 1) + i) + 1 = p + i
      BY SMTT(30), <1>2
    <3> QED
      BY <1>1, <3>1
  <2> QED
    BY SMTT(30), <1>1, <1>2, <2>1 DEF Agree
<1>5. Held(t)[0 + (p - 1)] - Held(t)[0] = Held(s)[0 + (p - 1)] - Held(s)[0]
  BY SMTT(30), <1>1, <1>2, <1>3, SameStretch
<1>6. Held(t)[(p - 1) + m] - Held(t)[p - 1] = Held(s)[p + m] - Held(s)[p]
  BY SMTT(30), <1>1, <1>2, <1>4, SameStretch
<1>7. Held(s)[p] = Held(s)[p - 1] + Size(s[p].val) /\ Size(s[p].val) \in Nat
  BY HeldFacts, EntrySize
<1>8. /\ Held(t)[0] = 0 /\ Held(s)[0] = 0
      /\ Held(t)[p - 1] \in Nat /\ Held(s)[p - 1] \in Nat /\ Held(s)[p] \in Nat
      /\ Held(t)[Len(s) - 1] \in Nat /\ Held(s)[Len(s)] \in Nat
  <2>1. /\ p - 1 \in 0..Len(t) /\ Len(s) - 1 \in 0..Len(t)
        /\ p - 1 \in 0..Len(s) /\ p \in 0..Len(s) /\ Len(s) \in 0..Len(s)
    BY SMTT(30), <1>1, <1>2
  <2> QED
    BY <1>1, <2>1, HeldFirst
<1>9. Held(t)[Len(s) - 1] = Held(s)[Len(s)] - Size(s[p].val)
  <2> DEFINE x == Held(t)[p - 1]
             y == Held(s)[p - 1]
             z == Held(s)[p]
             u == Held(t)[Len(s) - 1]
             v == Held(s)[Len(s)]
             d == Size(s[p].val)
  <2>1. x - 0 = y - 0 /\ u - x = v - z /\ z = y + d
    BY <1>2, <1>5, <1>6, <1>7, <1>8
  <2>2. x \in Nat /\ y \in Nat /\ z \in Nat /\ u \in Nat /\ v \in Nat /\ d \in Nat
    BY <1>7, <1>8
  <2> HIDE DEF x, y, z, u, v, d
  <2>3. u = v - d
    BY SMTT(30), <2>1, <2>2
  <2> QED
    BY <2>3 DEF u, v, d
<1> QED
  BY <1>1, <1>9 DEF Bytes, t

\* A cache in order, with nothing said about which one.
Sound(c) == Typed(c) /\ Exact(c)

\* What a sound cache is, spelt out.
LEMMA SoundFacts ==
  ASSUME NEW c, Sound(c)
  PROVE  /\ c.lru \in Seq(Entry) /\ Len(c.lru) \in Nat /\ DOMAIN c.lru = 1..Len(c.lru)
         /\ Unique(c.lru) /\ c.bytes = Bytes(c.lru) /\ c.bytes \in Nat
         /\ c.bytes <= Capacity /\ c = [lru |-> c.lru, bytes |-> c.bytes]
BY SMTT(30) DEF Sound, Typed, Exact, Unique

\* Where a cached key is.
LEMMA PositionFacts ==
  ASSUME NEW c, Sound(c), NEW k \in Cached(c)
  PROVE  /\ Position(c, k) \in 1..Len(c.lru) /\ c.lru[Position(c, k)].key = k
         /\ EntryOf(c, k) \in Entries(c) /\ EntryOf(c, k) \in Entry /\ EntryOf(c, k).key = k
<1>1. Position(c, k) \in DOMAIN c.lru /\ c.lru[Position(c, k)].key = k
  BY DEF Position, Cached, Entries, Range
<1>2. DOMAIN c.lru = 1..Len(c.lru) /\ c.lru \in Seq(Entry)
  BY SoundFacts
<1> QED
  BY SMTT(30), <1>1, <1>2 DEF EntryOf, Entries, Range

\* The list without a key: the other entries, each once.
LEMMA WithoutFacts ==
  ASSUME Sized, NEW c, Sound(c), NEW k
  PROVE  /\ Without(c, k) \in Seq(Entry) /\ Unique(Without(c, k))
         /\ Range(Without(c, k)) = {e \in Range(c.lru) : e.key # k}
         /\ Refund(c, k) \in Nat /\ Bytes(Without(c, k)) = c.bytes - Refund(c, k)
<1> DEFINE s == c.lru
           t == Without(c, k)
<1>1. /\ s \in Seq(Entry) /\ Len(s) \in Nat /\ DOMAIN s = 1..Len(s) /\ Unique(s)
      /\ c.bytes = Bytes(s) /\ c.bytes \in Nat
  BY SoundFacts
<1>2. CASE k \notin Cached(c)
  <2>1. t = s /\ Refund(c, k) = 0
    BY <1>2 DEF Without, Refund
  <2>2. Range(s) = {e \in Range(s) : e.key # k}
    BY <1>2 DEF Entries, Cached
  <2> QED
    BY SMTT(30), <1>1, <2>1, <2>2
<1>3. CASE k \in Cached(c)
  <2> DEFINE p == Position(c, k)
  <2>1. p \in 1..Len(s) /\ s[p].key = k
    BY <1>3, PositionFacts
  <2>2. t = TakeOut(s, p) /\ Refund(c, k) = Size(s[p].val)
    BY <1>3 DEF Without, Refund, EntryOf
  <2> HIDE DEF t, p, s
  <2>3. /\ t \in Seq(Entry) /\ Len(t) = Len(s) - 1
        /\ \A j \in 1..(Len(s) - 1) : t[j] = IF j < p THEN s[j] ELSE s[j + 1]
    BY <1>1, <2>1, <2>2, TakeOutFacts
  <2>4. Bytes(t) = Bytes(s) - Size(s[p].val) /\ Size(s[p].val) \in Nat
    BY <1>1, <2>1, <2>2, BytesOfTakeOut, EntrySize
  <2>5. DOMAIN t = 1..(Len(s) - 1)
    BY SMTT(30), <1>1, <2>3
  <2> DEFINE At(j) == IF j < p THEN j ELSE j + 1
  <2>A. \A j \in 1..(Len(s) - 1) : At(j) \in 1..Len(s) /\ At(j) # p /\ t[j] = s[At(j)]
    BY SMTT(30), <1>1, <2>1, <2>3
  <2>B. \A i, j \in 1..(Len(s) - 1) : At(i) = At(j) => i = j
    BY SMTT(30), <1>1, <2>1
  <2> HIDE DEF At
  <2>6. Unique(t)
    <3> SUFFICES ASSUME NEW i \in 1..(Len(s) - 1), NEW j \in 1..(Len(s) - 1),
                        t[i].key = t[j].key
                 PROVE  i = j
      BY <2>5 DEF Unique
    <3>1. At(i) = At(j)
      BY SMTT(30), <1>1, <2>A DEF Unique
    <3> QED
      BY <2>B, <3>1
  <2>7. Range(t) \subseteq {e \in Range(s) : e.key # k}
    <3> SUFFICES ASSUME NEW j \in 1..(Len(s) - 1)
                 PROVE  t[j] \in Range(s) /\ t[j].key # k
      BY <2>5 DEF Range
    <3>1. s[At(j)].key # s[p].key
      BY <1>1, <2>1, <2>A DEF Unique
    <3> QED
      BY <1>1, <2>1, <2>A, <3>1 DEF Range
  <2>8. {e \in Range(s) : e.key # k} \subseteq Range(t)
    <3> SUFFICES ASSUME NEW i \in 1..Len(s), s[i].key # k
                 PROVE  s[i] \in Range(t)
      BY <1>1 DEF Range
    <3> DEFINE j == IF i < p THEN i ELSE i - 1
    <3>1. j \in 1..(Len(s) - 1) /\ t[j] = s[i]
      BY SMTT(30), <1>1, <2>1, <2>3
    <3> QED
      BY <2>5, <3>1 DEF Range
  <2> QED
    BY <1>1, <2>2, <2>3, <2>4, <2>6, <2>7, <2>8 DEF s, t
<1> QED
  BY <1>2, <1>3

\* An entry for a key that is not in the list goes to its end.
LEMMA AppendFacts ==
  ASSUME Sized, NEW s \in Seq(Entry), Unique(s), NEW e \in Entry,
         \A x \in Range(s) : x.key # e.key
  PROVE  /\ Append(s, e) \in Seq(Entry) /\ Unique(Append(s, e))
         /\ Range(Append(s, e)) = Range(s) \cup {e}
<1> DEFINE t == Append(s, e)
<1>1. /\ t \in Seq(Entry) /\ Len(t) = Len(s) + 1 /\ Len(s) \in Nat
      /\ DOMAIN s = 1..Len(s) /\ DOMAIN t = 1..(Len(s) + 1)
      /\ t[Len(s) + 1] = e /\ \A i \in 1..Len(s) : t[i] = s[i]
  BY SMTT(30)
<1> HIDE DEF t
<1>2. Range(t) = Range(s) \cup {e}
  <2>1. ASSUME NEW i \in 1..(Len(s) + 1) PROVE t[i] \in Range(s) \cup {e}
    <3>1. i \in 1..Len(s) \/ i = Len(s) + 1
      BY SMTT(30), <1>1
    <3> QED
      BY <1>1, <3>1 DEF Range
  <2>2. ASSUME NEW i \in 1..Len(s) PROVE s[i] \in Range(t)
    <3>1. i \in DOMAIN t /\ t[i] = s[i]
      BY SMTT(30), <1>1
    <3> QED
      BY <3>1 DEF Range
  <2>3. e \in Range(t)
    <3>1. Len(s) + 1 \in DOMAIN t
      BY SMTT(30), <1>1
    <3> QED
      BY <1>1, <3>1 DEF Range
  <2>4. Range(t) \subseteq Range(s) \cup {e}
    BY <1>1, <2>1 DEF Range
  <2>5. Range(s) \subseteq Range(t)
    BY <1>1, <2>2 DEF Range
  <2> QED
    BY <2>3, <2>4, <2>5
<1>3. Unique(t)
  <2> SUFFICES ASSUME NEW i \in 1..(Len(s) + 1), NEW j \in 1..(Len(s) + 1),
                      t[i].key = t[j].key
               PROVE  i = j
    BY <1>1 DEF Unique
  <2>1. \A x \in 1..Len(s) : s[x].key # e.key
    BY <1>1 DEF Range
  <2>2. (i \in 1..Len(s) \/ i = Len(s) + 1) /\ (j \in 1..Len(s) \/ j = Len(s) + 1)
    BY SMTT(30), <1>1
  <2> QED
    BY <1>1, <2>1, <2>2 DEF Unique
<1> QED
  BY <1>1, <1>2, <1>3 DEF t

\* Looking a buffer up changes the order of use and nothing else.
THEOREM GetKeeps ==
  ASSUME Sized, NEW c, Sound(c), NEW k
  PROVE  Sound(Get(c, k)) /\ Entries(Get(c, k)) = Entries(c)
<1>1. CASE k \notin Cached(c)
  BY <1>1 DEF Get
<1>2. CASE k \in Cached(c)
  <2> DEFINE e == EntryOf(c, k)
             w == Without(c, k)
             l == Append(w, e)
  <2>1. /\ e \in Range(c.lru) /\ e \in Entry /\ e.key = k
        /\ Refund(c, k) = Size(e.val)
    BY <1>2, PositionFacts DEF Refund, Entries
  <2>2. /\ w \in Seq(Entry) /\ Unique(w)
        /\ Range(w) = {x \in Range(c.lru) : x.key # k}
        /\ Refund(c, k) \in Nat /\ Bytes(w) = c.bytes - Refund(c, k)
    BY WithoutFacts
  <2>3. /\ Unique(c.lru) /\ c.lru \in Seq(Entry) /\ c.bytes \in Nat
        /\ DOMAIN c.lru = 1..Len(c.lru) /\ c.bytes = Bytes(c.lru) /\ c.bytes <= Capacity
        /\ c = [lru |-> c.lru, bytes |-> c.bytes]
    BY SoundFacts
  <2>4. Get(c, k) = [lru |-> l, bytes |-> c.bytes]
    BY <1>2, <2>3 DEF Get
  <2> HIDE DEF e, w
  <2>5. /\ l \in Seq(Entry) /\ Unique(l) /\ Range(l) = Range(w) \cup {e}
        /\ Bytes(l) = Bytes(w) + Size(e.val)
    BY <2>1, <2>2, AppendFacts, BytesOfAppend
  <2>6. ASSUME NEW x \in Range(c.lru), x.key = k PROVE x = e
    BY <2>1, <2>3, <2>6 DEF Range, Unique
  <2>7. Range(l) = Range(c.lru)
    BY <2>1, <2>2, <2>5, <2>6
  <2>8. Bytes(l) = c.bytes
    BY SMTT(30), <2>1, <2>2, <2>3, <2>5
  <2> HIDE DEF l
  <2>9. Sound([lru |-> l, bytes |-> c.bytes])
    BY <2>3, <2>5, <2>8 DEF Sound, Typed, Exact, Unique
  <2> QED
    BY SMTT(30), <2>4, <2>7, <2>9 DEF Entries
<1> QED
  BY <1>1, <1>2

\* What push leaves: a list that ends with the new entry, and its bytes.
LEMMA PushFacts ==
  ASSUME Sized, NEW c, Sound(c), NEW k \in Keys, NEW v \in Values
  PROVE  LET p == Push(c, k, v)
             w == Without(c, k)
             e == [key |-> k, val |-> v]
         IN  /\ p.lru = Append(w, e) /\ w \in Seq(Entry) /\ e \in Entry
             /\ p.lru \in Seq(Entry) /\ Unique(p.lru)
             /\ Range(p.lru) = {x \in Range(c.lru) : x.key # k} \cup {e}
             /\ p.bytes = Bytes(p.lru)
<1> DEFINE p == Push(c, k, v)
           w == Without(c, k)
           e == [key |-> k, val |-> v]
           l == Append(w, e)
<1>1. /\ w \in Seq(Entry) /\ Unique(w)
      /\ Range(w) = {x \in Range(c.lru) : x.key # k}
      /\ Refund(c, k) \in Nat /\ Bytes(w) = c.bytes - Refund(c, k)
  BY WithoutFacts
<1>2. e \in Entry /\ e.key = k /\ e.val = v /\ Size(v) \in Nat
  BY DEF Entry, Sized
<1>3. p.lru = l /\ p.bytes = c.bytes + (Size(v) - Refund(c, k))
  BY DEF Push, PushCounting
<1>4. c.bytes \in Nat
  BY SoundFacts
<1> HIDE DEF p, w, e
<1>5. /\ l \in Seq(Entry) /\ Unique(l) /\ Range(l) = Range(w) \cup {e}
      /\ Bytes(l) = Bytes(w) + Size(v)
  BY <1>1, <1>2, AppendFacts, BytesOfAppend
<1>6. p.bytes = Bytes(l)
  BY SMTT(30), <1>1, <1>2, <1>3, <1>4, <1>5
<1> QED
  BY <1>1, <1>2, <1>3, <1>5, <1>6 DEF p, w, e

\* The end of a list.
LEMMA RestFacts ==
  ASSUME NEW s \in Seq(Entry), Unique(s), NEW n \in 0..Len(s)
  PROVE  LET t == SubSeq(s, n + 1, Len(s))
         IN  /\ t \in Seq(Entry) /\ Len(t) = Len(s) - n /\ Unique(t)
             /\ Range(t) \subseteq Range(s)
             /\ n < Len(s) => s[Len(s)] \in Range(t)
<1> DEFINE t == SubSeq(s, n + 1, Len(s))
<1>1. /\ t \in Seq(Entry) /\ Len(t) = Len(s) - n
      /\ DOMAIN s = 1..Len(s) /\ DOMAIN t = 1..(Len(s) - n) /\ Len(s) \in Nat
      /\ \A i \in 1..(Len(s) - n) : t[i] = s[n + i]
  BY SMTT(30)
<1> HIDE DEF t
<1>2. \A i \in 1..(Len(s) - n) : n + i \in 1..Len(s)
  BY SMTT(30), <1>1
<1>3. Unique(t)
  <2> SUFFICES ASSUME NEW i \in 1..(Len(s) - n), NEW j \in 1..(Len(s) - n),
                      t[i].key = t[j].key
               PROVE  i = j
    BY <1>1 DEF Unique
  <2>1. t[i] = s[n + i] /\ t[j] = s[n + j] /\ n + i \in DOMAIN s /\ n + j \in DOMAIN s
    BY <1>1, <1>2
  <2>2. n + i = n + j
    BY <2>1 DEF Unique
  <2> QED
    BY SMTT(30), <2>2
<1>4. Range(t) \subseteq Range(s)
  BY <1>1, <1>2 DEF Range
<1>5. ASSUME n < Len(s) PROVE s[Len(s)] \in Range(t)
  <2>1. Len(s) - n \in DOMAIN t /\ n + (Len(s) - n) = Len(s)
    BY SMTT(30), <1>1, <1>5
  <2>2. t[Len(s) - n] = s[Len(s)]
    BY <1>1, <2>1
  <2> QED
    BY <2>1, <2>2 DEF Range
<1> QED
  BY <1>1, <1>3, <1>4, <1>5 DEF t

\* The eviction loop stops at the first entry it need not take.
LEMMA ShrinkFacts ==
  ASSUME Sized, NEW c, c.lru \in Seq(Entry), c.bytes = Bytes(c.lru)
  PROVE  \E n \in 0..Len(c.lru) :
           /\ Shrink(c) = Popped(c, n) /\ c.bytes - Held(c.lru)[n] <= Capacity
           /\ \A m \in 0..Len(c.lru) : c.bytes - Held(c.lru)[m] <= Capacity => n <= m
<1> DEFINE L == Len(c.lru)
           H == Held(c.lru)
           enough == {n \in 0..L : c.bytes - H[n] <= Capacity}
           n == Min(enough \cup {L})
<1>1. L \in Nat /\ H \in [0..L -> Nat] /\ c.bytes = H[L] /\ c.bytes \in Nat
  BY SMTT(30), HeldFacts DEF Bytes
<1>2. Shrink(c) = Popped(c, n)
  BY DEF Shrink, Popped
<1> HIDE DEF H, L
<1>3. L \in enough
  <2>1. L \in 0..L /\ Capacity \in Nat
    BY SMTT(30), <1>1 DEF Sized
  <2>2. c.bytes - H[L] = 0
    BY SMTT(30), <1>1
  <2> QED
    BY SMTT(30), <2>1, <2>2
<1>4. n \in enough /\ \A m \in enough : n <= m
  <2>1. enough \cup {L} = enough /\ enough \in SUBSET Nat
    BY SMTT(30), <1>1, <1>3
  <2> HIDE DEF enough
  <2>2. \E x \in enough : \A y \in enough : x <= y
    BY <1>3, <2>1, LeastNat
  <2> QED
    BY <2>1, <2>2 DEF Min
<1> QED
  BY <1>2, <1>4 DEF H, L

\* Storing a buffer: the count stays exact and within the capacity; what is
\* cached afterwards was cached before or is the new buffer, and the new one is
\* there.
THEOREM InsertKeeps ==
  ASSUME Sized, NEW c, Sound(c), NEW k \in Keys, NEW v \in Values
  PROVE  /\ Sound(Insert(c, k, v))
         /\ Entries(Insert(c, k, v)) \subseteq Entries(c) \cup {[key |-> k, val |-> v]}
         /\ Size(v) <= Capacity => [key |-> k, val |-> v] \in Entries(Insert(c, k, v))
         /\ ~(Size(v) <= Capacity) => Insert(c, k, v) = c
<1>0. Size(v) \in Nat /\ Capacity \in Nat
  BY DEF Sized
<1>1. CASE Size(v) > Capacity
  BY SMTT(30), <1>0, <1>1 DEF Insert
<1>2. CASE ~(Size(v) > Capacity)
  <2> DEFINE p == Push(c, k, v)
             w == Without(c, k)
             e == [key |-> k, val |-> v]
             s == p.lru
  <2>1. /\ s = Append(w, e) /\ w \in Seq(Entry) /\ e \in Entry
        /\ s \in Seq(Entry) /\ Unique(s)
        /\ Range(s) = {x \in Range(c.lru) : x.key # k} \cup {e}
        /\ p.bytes = Bytes(s) /\ e.val = v
    BY PushFacts
  <2>2. Insert(c, k, v) = Shrink(p)
    BY <1>2 DEF Insert
  <2> HIDE DEF p, w, e
  <2>3. PICK n \in 0..Len(s) :
          /\ Shrink(p) = Popped(p, n) /\ p.bytes - Held(s)[n] <= Capacity
          /\ \A m \in 0..Len(s) : p.bytes - Held(s)[m] <= Capacity => n <= m
    BY <2>1, ShrinkFacts
  <2> DEFINE t == SubSeq(s, n + 1, Len(s))
  <2>4. Popped(p, n) = [lru |-> t, bytes |-> p.bytes - Held(s)[n]]
    BY DEF Popped
  <2>5. Len(s) = Len(w) + 1 /\ s[Len(s)] = e /\ Len(w) \in Nat
    BY SMTT(30), <2>1
  <2>6. Bytes(s) = Bytes(w) + Size(v) /\ Held(s)[Len(w)] = Bytes(w)
    BY SMTT(30), <2>1, BytesOfAppend
  <2>7. Bytes(w) \in Nat
    <3>1. Len(w) \in 0..Len(w)
      BY SMTT(30), <2>5
    <3> QED
      BY <2>1, <3>1, HeldFirst DEF Bytes
  <2>8. n <= Len(w)
    <3>1. p.bytes - Held(s)[Len(w)] <= Capacity
      BY SMTT(30), <1>0, <1>2, <2>1, <2>6, <2>7
    <3>2. Len(w) \in 0..Len(s)
      BY SMTT(30), <2>5
    <3> QED
      BY <2>3, <3>1, <3>2
  <2>9. n < Len(s)
    BY SMTT(30), <2>5, <2>8
  <2>10. /\ t \in Seq(Entry) /\ Unique(t) /\ Range(t) \subseteq Range(s)
         /\ s[Len(s)] \in Range(t)
    BY <2>1, <2>9, RestFacts
  <2>11. Bytes(t) = Bytes(s) - Held(s)[n]
    BY <2>1, BytesOfRest
  <2>12. Bytes(t) \in Nat
    <3>1. Len(t) \in 0..Len(t)
      BY SMTT(30), <2>10
    <3> QED
      BY <2>10, <3>1, HeldFirst DEF Bytes
  <2> HIDE DEF t, s
  <2>13. Sound([lru |-> t, bytes |-> p.bytes - Held(s)[n]])
    BY <2>1, <2>3, <2>10, <2>11, <2>12 DEF Sound, Typed, Exact, Unique
  <2>14. Insert(c, k, v) = [lru |-> t, bytes |-> p.bytes - Held(s)[n]]
    BY <2>2, <2>3, <2>4
  <2>15. Range(t) \subseteq Range(c.lru) \cup {e} /\ e \in Range(t)
    BY <2>1, <2>5, <2>10
  <2>16. Insert(c, k, v).lru = t
    BY SMTT(30), <2>14
  <2>17. Sound(Insert(c, k, v))
    BY <2>13, <2>14
  <2> QED
    BY SMTT(30), <1>0, <1>2, <2>15, <2>16, <2>17 DEF e, Entries
<1> QED
  BY <1>1, <1>2

\* Only the least recently used entries make room, and not one too many.
THEOREM InsertEvictsOldest ==
  ASSUME Sized, NEW c, Sound(c), NEW k \in Keys, NEW v \in Values, Size(v) <= Capacity
  PROVE  LET full == Push(c, k, v).lru
             left == Insert(c, k, v).lru
             gone == Len(full) - Len(left)
         IN  /\ gone \in Nat /\ left = SubSeq(full, gone + 1, Len(full))
             /\ gone > 0 => Bytes(left) + Size(full[gone].val) > Capacity
<1> DEFINE p == Push(c, k, v)
           s == p.lru
<1>0. Size(v) \in Nat /\ Capacity \in Nat
  BY DEF Sized
<1>1. s \in Seq(Entry) /\ Unique(s) /\ p.bytes = Bytes(s)
  BY PushFacts
<1>2. Insert(c, k, v) = Shrink(p)
  BY SMTT(30), <1>0 DEF Insert
<1> HIDE DEF p
<1>3. PICK n \in 0..Len(s) :
        /\ Shrink(p) = Popped(p, n)
        /\ \A m \in 0..Len(s) : p.bytes - Held(s)[m] <= Capacity => n <= m
  BY <1>1, ShrinkFacts
<1> DEFINE t == SubSeq(s, n + 1, Len(s))
<1>4. Insert(c, k, v).lru = t
  BY SMTT(30), <1>2, <1>3 DEF Popped
<1>5. t \in Seq(Entry) /\ Len(t) = Len(s) - n /\ Bytes(t) = Bytes(s) - Held(s)[n]
  BY <1>1, RestFacts, BytesOfRest
<1> HIDE DEF t, s
<1>6. Len(s) \in Nat /\ n \in Nat /\ Len(s) - Len(t) = n
  BY SMTT(30), <1>1, <1>5
<1>7. ASSUME n > 0 PROVE Bytes(t) + Size(s[n].val) > Capacity
  <2>1. n \in 1..Len(s) /\ n - 1 \in 0..Len(s) /\ n \in 0..Len(s) /\ Len(s) \in 0..Len(s)
    BY SMTT(30), <1>6, <1>7
  <2>2. ~(p.bytes - Held(s)[n - 1] <= Capacity)
    BY SMTT(30), <1>3, <2>1
  <2>3. Held(s)[n] = Held(s)[n - 1] + Size(s[n].val)
    BY <1>1, <2>1, HeldFacts
  <2>4. /\ Held(s)[n] \in Nat /\ Held(s)[n - 1] \in Nat /\ Size(s[n].val) \in Nat
        /\ Bytes(s) \in Nat
    BY <1>1, <2>1, HeldFirst, EntrySize DEF Bytes
  <2> DEFINE a == Held(s)[n]
             b == Held(s)[n - 1]
             d == Size(s[n].val)
             x == Bytes(s)
             y == Bytes(t)
  <2>5. /\ a \in Nat /\ b \in Nat /\ d \in Nat /\ x \in Nat /\ Capacity \in Nat
        /\ y = x - a /\ a = b + d /\ ~(x - b <= Capacity)
    BY <1>0, <1>1, <1>5, <2>2, <2>3, <2>4
  <2> HIDE DEF a, b, d, x, y
  <2>6. y + d > Capacity
    BY SMTT(30), <2>5
  <2> QED
    BY <2>6 DEF y, d
<1> QED
  BY <1>4, <1>6, <1>7 DEF t, s, p

\* The cache starts empty.
LEMMA NewIsSound ==
  ASSUME Sized
  PROVE  Sound(New) /\ Entries(New) = {}
<1>1. <<>> \in Seq(Entry) /\ Len(<<>>) = 0
  BY SMTT(30)
<1>2. Bytes(<<>>) = 0
  BY <1>1, HeldFirst DEF Bytes
<1> QED
  BY SMTT(30), <1>1, <1>2 DEF Sound, Typed, Exact, Unique, New, Sized, Entries, Range
=============================================================================
