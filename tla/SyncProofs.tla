------------------------------ MODULE SyncProofs ------------------------------
(***************************************************************************)
(* Proofs about SyncState and SyncControl.                                 *)
(*                                                                         *)
(* The first part is about SyncState, for any devices, cores, bounds and   *)
(* sizes of bytes, pages, segments and tree blocks.  The steps of it:      *)
(* recursive functions and numbers; a bitfield, its index, and the search  *)
(* for its last bit; the bits of a byte and the coding by runs; a message  *)
(* replaces one page; the types of the variables; the cache; the pages on  *)
(* their way; the sum over the cores.                                      *)
(*                                                                         *)
(* The second part is about SyncControl, for any peers, namespaces, roles  *)
(* and bounds.                                                             *)
(***************************************************************************)
EXTENDS SyncControl, SyncState, FiniteSetTheorems, SequenceTheorems, WellFoundedInduction, TLAPS

\* Induction: what 0 is in, and with every number the next, all are in.
LEMMA SetInduction ==
  ASSUME NEW S, 0 \in S, \A n \in Nat : n \in S => n + 1 \in S
  PROVE  \A n \in Nat : n \in S
<1> DEFINE T == Nat \ S
<1> SUFFICES ASSUME T # {} PROVE FALSE
  OBVIOUS
<1>1. PICK t \in T : \A u \in T : ~ (<<u, t>> \in OpToRel(<, Nat))
  <2>1. T \subseteq Nat
    OBVIOUS
  <2> HIDE DEF T
  <2>2. QED
    BY <2>1, WFMin, NatLessThanWellFounded
<1>2. t \in Nat /\ t # 0
  OBVIOUS
<1>3. t - 1 \in Nat /\ t = (t - 1) + 1
  BY <1>2
<1>4. t - 1 \notin S
  BY <1>2, <1>3
<1>5. <<t - 1, t>> \in OpToRel(<, Nat)
  BY <1>2, <1>3 DEF OpToRel
<1>6. QED
  BY <1>1, <1>3, <1>4, <1>5

-----------------------------------------------------------------------------
(***************************************************************************)
(* Recursive functions: what begins with a value and goes on from each     *)
(* value to the next exists, and keeps what each step keeps.               *)
(***************************************************************************)
Iterates(f, base, step, n) == /\ f[0] = base
                              /\ \A i \in 1 .. n : f[i] = step[i][f[i - 1]]

LEMMA IteratesExist ==
  ASSUME NEW V, NEW base \in V, NEW n \in Nat, NEW step \in [1 .. n -> [V -> V]]
  PROVE  \E f \in [0 .. n -> V] : Iterates(f, base, step, n)
<1> DEFINE S == {m \in Nat : m <= n => \E f \in [0 .. m -> V] : Iterates(f, base, step, m)}
<1>1. 0 \in S
  <2> DEFINE f == [i \in 0 .. 0 |-> base]
  <2>1. f \in [0 .. 0 -> V] /\ f[0] = base
    OBVIOUS
  <2> HIDE DEF f
  <2>2. QED
    BY <2>1 DEF Iterates
<1>2. ASSUME NEW m \in Nat, m \in S PROVE m + 1 \in S
  <2> SUFFICES ASSUME m + 1 <= n PROVE \E f \in [0 .. m + 1 -> V] : Iterates(f, base, step, m + 1)
    OBVIOUS
  <2>1. PICK f \in [0 .. m -> V] : Iterates(f, base, step, m)
    BY <1>2
  <2> DEFINE new == step[m + 1][f[m]]
             g == [i \in 0 .. m + 1 |-> IF i = m + 1 THEN new ELSE f[i]]
  <2>2. new \in V
    <3>1. step[m + 1] \in [V -> V] /\ f[m] \in V
      BY <2>1
    <3>2. QED
      BY <3>1
  <2> HIDE DEF new
  <2>3. g \in [0 .. m + 1 -> V] /\ g[m + 1] = new /\ \A i \in 0 .. m : g[i] = f[i]
    BY <2>2
  <2> HIDE DEF g
  <2>4. ASSUME NEW i \in 1 .. m + 1 PROVE g[i] = step[i][g[i - 1]]
    <3>1. CASE i = m + 1
      <4>1. i - 1 = m /\ m \in 0 .. m
        BY <3>1
      <4>2. QED
        BY <2>3, <3>1, <4>1 DEF new
    <3>2. CASE i # m + 1
      <4>1. i \in 1 .. m /\ i - 1 \in 0 .. m /\ i \in 0 .. m
        BY <3>2
      <4>2. QED
        BY <2>1, <2>3, <4>1 DEF Iterates
    <3>3. QED
      BY <3>1, <3>2
  <2>5. g[0] = base
    <3>1. 0 \in 0 .. m
      OBVIOUS
    <3>2. QED
      BY <2>1, <2>3, <3>1 DEF Iterates
  <2>6. QED
    BY <2>3, <2>4, <2>5 DEF Iterates
<1> HIDE DEF S
<1>3. n \in S
  BY <1>1, <1>2, SetInduction
<1>4. QED
  BY <1>3 DEF S

\* Each value is in a set of its own if every step leads from one to the next.
LEMMA IteratesStay ==
  ASSUME NEW n \in Nat, NEW f, NEW Q, f[0] \in Q[0],
         \A i \in 1 .. n : f[i - 1] \in Q[i - 1] => f[i] \in Q[i]
  PROVE  \A i \in 0 .. n : f[i] \in Q[i]
<1> DEFINE S == {m \in Nat : m <= n => f[m] \in Q[m]}
<1>1. 0 \in S
  OBVIOUS
<1>2. ASSUME NEW m \in Nat, m \in S PROVE m + 1 \in S
  <2>1. CASE m + 1 <= n
    <3>1. m + 1 \in 1 .. n /\ (m + 1) - 1 = m /\ f[m] \in Q[m]
      BY <1>2, <2>1
    <3>2. f[m + 1] \in Q[m + 1]
      BY <3>1
    <3>3. QED
      BY <3>2
  <2>2. CASE ~ (m + 1 <= n)
    BY <2>2
  <2>3. QED
    BY <2>1, <2>2
<1> HIDE DEF S
<1>3. \A m \in Nat : m \in S
  BY <1>1, <1>2, SetInduction
<1>4. QED
  BY <1>3 DEF S

-----------------------------------------------------------------------------
(***************************************************************************)
(* Numbers, and the greatest of them.                                      *)
(***************************************************************************)
\* A number is told by its page and its place in it.
LEMMA Divided ==
  ASSUME NEW B \in Nat \ {0}, NEW n \in Nat
  PROVE  /\ n \div B \in Nat /\ n % B \in 0 .. B - 1
         /\ n = (n \div B) * B + (n % B)
OBVIOUS

LEMMA PlaceIsUnique ==
  ASSUME NEW B \in Nat \ {0}, NEW q \in Int, NEW r \in 0 .. B - 1
  PROVE  (q * B + r) \div B = q /\ (q * B + r) % B = r
OBVIOUS

LEMMA DividedIsMonotone ==
  ASSUME NEW B \in Nat \ {0}, NEW m \in Int, NEW n \in Int, m <= n
  PROVE  m \div B <= n \div B
OBVIOUS

LEMMA NextPage ==
  ASSUME NEW B \in Nat \ {0}, NEW p \in Int, NEW q \in Int, p < q
  PROVE  p * B + B <= q * B
OBVIOUS

\* A set of integers that is bounded has a maximum.
LEMMA MaxIs ==
  ASSUME NEW S \in SUBSET Int, S # {}, NEW n \in Int, \A x \in S : x <= n
  PROVE  Max(S) \in S /\ \A x \in S : x <= Max(S)
<1> DEFINE T == {k \in Nat : n - k \in S}
<1>1. T \subseteq Nat /\ T # {}
  <2>1. PICK x \in S : TRUE
    OBVIOUS
  <2>2. n - x \in T
    BY <2>1
  <2>3. QED
    BY <2>2
<1>2. PICK k \in T : \A u \in T : ~ (<<u, k>> \in OpToRel(<, Nat))
  <2> HIDE DEF T
  <2>1. QED
    BY <1>1, WFMin, NatLessThanWellFounded
<1>3. ASSUME NEW x \in S PROVE n - k >= x
  <2>1. n - x \in T /\ n - x \in Nat /\ k \in Nat
    OBVIOUS
  <2>2. ~ (n - x < k)
    BY <1>2, <2>1 DEF OpToRel
  <2>3. QED
    BY <2>1, <2>2
<1>4. \E y \in S : \A x \in S : y >= x
  BY <1>3
<1>5. QED
  BY <1>4 DEF Max

-----------------------------------------------------------------------------
(***************************************************************************)
(* Bitfields.                                                              *)
(***************************************************************************)
\* The index of a bitfield has every block in which a bit is set.
Indexed(b) == \A n \in BitsOf(b) : TreeBlock(n) \in b.index

\* d is b with the set of bits as its page i.
HasPage(d, b, i, bits) ==
  /\ IsBitfield(d) /\ Indexed(d)
  /\ d.pages = [k \in DOMAIN b.pages \cup {i} |-> IF k = i THEN bits ELSE b.pages[k]]

LEMMA Sizes ==
  /\ BitsPerByte \in Nat \ {0} /\ BytesPerWord \in Nat \ {0} /\ BitsPerTreeBlock \in Nat \ {0}
  /\ BitsPerPage \in Nat \ {0} /\ PagesPerSegment \in Nat \ {0}
  /\ BitsPerWord \in Nat \ {0} /\ BitsPerSegment \in Nat \ {0}
<1>1. /\ BitsPerByte \in Nat \ {0} /\ BytesPerWord \in Nat \ {0} /\ BitsPerTreeBlock \in Nat \ {0}
      /\ BitsPerPage \in Nat \ {0} /\ PagesPerSegment \in Nat \ {0}
  BY BitfieldsAssumption
<1>2. \A m, n \in Nat \ {0} : m * n \in Nat \ {0}
  OBVIOUS
<1>3. BitsPerWord \in Nat \ {0} /\ BitsPerSegment \in Nat \ {0}
  BY <1>1, <1>2 DEF BitsPerWord, BitsPerSegment
<1>4. QED
  BY <1>1, <1>3

\* A page is a whole number of bytes, and of words.
LEMMA PageIsWhole ==
  /\ BytesPerPage \in Nat /\ BytesPerPage * BitsPerByte = BitsPerPage
  /\ \A i \in Nat : (i * BitsPerPage) % BitsPerWord = 0
<1> DEFINE words == BitsPerPage \div BitsPerWord
<1>1. words \in Nat /\ BitsPerPage = words * BitsPerWord
  BY Sizes, BitfieldsAssumption, Divided
<1>2. words * BitsPerWord = (words * BytesPerWord) * BitsPerByte
  BY Sizes, <1>1 DEF BitsPerWord
<1>3. words * BytesPerWord \in Nat
  BY Sizes, <1>1
<1>4. BytesPerPage = words * BytesPerWord
  <2> DEFINE q == words * BytesPerWord
  <2>1. q \in Nat /\ BitsPerPage = q * BitsPerByte + 0
    BY <1>1, <1>2, <1>3, Sizes
  <2> HIDE DEF q
  <2>2. BitsPerPage \div BitsPerByte = q
    BY <2>1, PlaceIsUnique, Sizes
  <2>3. QED
    BY <2>2 DEF BytesPerPage, q
<1>5. ASSUME NEW i \in Nat PROVE (i * BitsPerPage) % BitsPerWord = 0
  <2>1. i * words \in Nat /\ i * BitsPerPage = (i * words) * BitsPerWord + 0
    BY <1>1, Sizes
  <2>2. QED
    BY <2>1, PlaceIsUnique, Sizes
<1>6. QED
  BY <1>1, <1>2, <1>3, <1>4, <1>5

\* A bit is set if its page has it.
LEMMA BitsOfIs ==
  ASSUME NEW b, IsBitfield(b)
  PROVE  /\ BitsOf(b) \subseteq Nat
         /\ \A n \in Nat : n \in BitsOf(b) <=> /\ n \div BitsPerPage \in DOMAIN b.pages
                                               /\ n % BitsPerPage \in b.pages[n \div BitsPerPage]
<1>1. \A i \in DOMAIN b.pages : i \in Nat /\ b.pages[i] \subseteq 0 .. BitsPerPage - 1
  BY DEF IsBitfield
<1>2. \A i \in Nat, j \in 0 .. BitsPerPage - 1 : i * BitsPerPage + j \in Nat
  BY Sizes
<1>3. BitsOf(b) \subseteq Nat
  BY <1>1, <1>2 DEF BitsOf
<1>4. ASSUME NEW n \in BitsOf(b)
      PROVE  n \div BitsPerPage \in DOMAIN b.pages /\ n % BitsPerPage \in b.pages[n \div BitsPerPage]
  <2>1. PICK i \in DOMAIN b.pages : \E j \in b.pages[i] : n = i * BitsPerPage + j
    BY DEF BitsOf
  <2> PICK j \in b.pages[i] : n = i * BitsPerPage + j
    BY <2>1
  <2>2. n \div BitsPerPage = i /\ n % BitsPerPage = j
    <3>1. i \in Int /\ j \in 0 .. BitsPerPage - 1 /\ BitsPerPage \in Nat \ {0}
      BY <1>1, Sizes
    <3>2. (i * BitsPerPage + j) \div BitsPerPage = i /\ (i * BitsPerPage + j) % BitsPerPage = j
      BY <3>1, PlaceIsUnique, Zenon
    <3>3. QED
      BY <3>2
  <2>3. QED
    BY <2>1, <2>2
<1>5. ASSUME NEW n \in Nat, n \div BitsPerPage \in DOMAIN b.pages,
             n % BitsPerPage \in b.pages[n \div BitsPerPage]
      PROVE  n \in BitsOf(b)
  <2>1. n = (n \div BitsPerPage) * BitsPerPage + (n % BitsPerPage)
    BY Divided, Sizes
  <2>2. QED
    BY <1>5, <2>1 DEF BitsOf
<1>6. QED
  BY <1>3, <1>4, <1>5

\* The segment of a bit is that of its page.
LEMMA SegmentOfPage ==
  ASSUME NEW n \in Nat
  PROVE  Segment(n) = (n \div BitsPerPage) \div PagesPerSegment
<1> DEFINE q == n \div BitsPerPage
           r == n % BitsPerPage
           s == q \div PagesPerSegment
           t == q % PagesPerSegment
<1>1. q \in Nat /\ r \in 0 .. BitsPerPage - 1 /\ n = q * BitsPerPage + r
  BY Divided, Sizes
<1>2. s \in Nat /\ t \in 0 .. PagesPerSegment - 1 /\ q = s * PagesPerSegment + t
  BY <1>1, Divided, Sizes
<1> HIDE DEF q, r, s, t
<1>3. t * BitsPerPage + BitsPerPage <= PagesPerSegment * BitsPerPage
  BY <1>2, NextPage, Sizes
<1>4. t * BitsPerPage + r \in 0 .. BitsPerSegment - 1
  <2>1. t * BitsPerPage \in Nat /\ PagesPerSegment * BitsPerPage = BitsPerSegment
    BY <1>2, Sizes DEF BitsPerSegment
  <2>2. QED
    BY <1>1, <1>3, <2>1, Sizes
<1>5. n = s * BitsPerSegment + (t * BitsPerPage + r)
  <2>1. n = (s * PagesPerSegment + t) * BitsPerPage + r
    BY <1>1, <1>2
  <2>2. (s * PagesPerSegment + t) * BitsPerPage = s * (BitsPerPage * PagesPerSegment) + t * BitsPerPage
    BY <1>2, Sizes
  <2>3. s * (BitsPerPage * PagesPerSegment) \in Nat /\ t * BitsPerPage \in Nat
    BY <1>2, Sizes
  <2>4. QED
    BY <1>1, <2>1, <2>2, <2>3 DEF BitsPerSegment
<1>6. n \div BitsPerSegment = s
  <2>1. s \in Int /\ BitsPerSegment \in Nat \ {0}
    BY <1>2, Sizes
  <2>2. (s * BitsPerSegment + (t * BitsPerPage + r)) \div BitsPerSegment = s
    BY <1>4, <2>1, PlaceIsUnique, Zenon
  <2>3. QED
    BY <1>5, <2>2
<1>7. QED
  BY <1>6 DEF Segment, s, q

\* A tree block lies in one segment.
LEMMA SegmentOfTreeBlock ==
  ASSUME NEW n \in Nat
  PROVE  /\ TreeBlock(n) \in Nat /\ TreeBlock(n) * BitsPerTreeBlock \in Nat
         /\ TreeBlock(n) * BitsPerTreeBlock <= n /\ n <= (TreeBlock(n) + 1) * BitsPerTreeBlock - 1
         /\ Segment(n) \in Nat
         /\ Segment(TreeBlock(n) * BitsPerTreeBlock) = Segment(n)
<1> DEFINE t == TreeBlock(n)
           r == n % BitsPerTreeBlock
           s == Segment(n)
           w == BitsPerPage \div BitsPerTreeBlock
           u == w * PagesPerSegment
<1>1. t \in Nat /\ r \in 0 .. BitsPerTreeBlock - 1 /\ n = t * BitsPerTreeBlock + r
  BY Divided, Sizes DEF TreeBlock
<1>2. s \in Nat /\ s * BitsPerSegment \in Nat /\ s * BitsPerSegment <= n
  <2>1. s \in Nat /\ n % BitsPerSegment \in Nat /\ n = s * BitsPerSegment + (n % BitsPerSegment)
    BY Divided, Sizes DEF Segment
  <2>2. s * BitsPerSegment \in Nat
    BY <2>1, Sizes
  <2>3. QED
    BY <2>1, <2>2
<1>3. w \in Nat /\ BitsPerPage = w * BitsPerTreeBlock
  BY Sizes, BitfieldsAssumption, Divided
<1>4. u \in Nat /\ BitsPerSegment = u * BitsPerTreeBlock
  BY <1>3, Sizes DEF BitsPerSegment
<1> HIDE DEF t, r, s, w, u
<1>5. s * u \in Nat /\ s * BitsPerSegment = (s * u) * BitsPerTreeBlock + 0
  BY <1>2, <1>4, Sizes
<1>6. s * u <= t
  <2>1. (s * BitsPerSegment) \div BitsPerTreeBlock <= n \div BitsPerTreeBlock
    BY <1>2, DividedIsMonotone, Sizes
  <2>2. (s * BitsPerSegment) \div BitsPerTreeBlock = s * u
    <3>1. s * u \in Int /\ BitsPerTreeBlock \in Nat \ {0} /\ 0 \in 0 .. BitsPerTreeBlock - 1
      BY <1>5, Sizes
    <3>2. ((s * u) * BitsPerTreeBlock + 0) \div BitsPerTreeBlock = s * u
      BY <3>1, PlaceIsUnique, Zenon
    <3>3. QED
      BY <1>5, <3>2
  <2>3. QED
    BY <2>1, <2>2 DEF t, TreeBlock
<1>7. s * BitsPerSegment <= t * BitsPerTreeBlock
  <2>1. \A k, l \in Nat : k <= l => k * BitsPerTreeBlock <= l * BitsPerTreeBlock
    BY Sizes
  <2>2. (s * u) * BitsPerTreeBlock <= t * BitsPerTreeBlock
    BY <1>1, <1>5, <1>6, <2>1, Zenon
  <2>3. (s * u) * BitsPerTreeBlock \in Int /\ s * BitsPerSegment = (s * u) * BitsPerTreeBlock
    BY <1>5, Sizes
  <2>4. QED
    BY <2>2, <2>3
<1>8. t * BitsPerTreeBlock \in Nat /\ t * BitsPerTreeBlock <= n
  <2>1. t * BitsPerTreeBlock \in Nat
    BY <1>1, Sizes
  <2>2. QED
    BY <1>1, <2>1
<1>9. Segment(t * BitsPerTreeBlock) = s
  <2>1. (s * BitsPerSegment) \div BitsPerSegment <= (t * BitsPerTreeBlock) \div BitsPerSegment
    BY <1>2, <1>7, <1>8, DividedIsMonotone, Sizes
  <2>2. (t * BitsPerTreeBlock) \div BitsPerSegment <= n \div BitsPerSegment
    BY <1>8, DividedIsMonotone, Sizes
  <2>3. (s * BitsPerSegment + 0) \div BitsPerSegment = s
    BY <1>2, PlaceIsUnique, Sizes
  <2>4. (t * BitsPerTreeBlock) \div BitsPerSegment \in Nat
    BY <1>8, Divided, Sizes
  <2>5. QED
    BY <1>2, <2>1, <2>2, <2>3, <2>4 DEF Segment, s
<1>10. n <= (t + 1) * BitsPerTreeBlock - 1
  <2>1. (t + 1) * BitsPerTreeBlock = t * BitsPerTreeBlock + BitsPerTreeBlock
    BY <1>1, Sizes
  <2>2. QED
    BY <1>1, <1>8, <2>1, Sizes
<1>11. QED
  BY <1>1, <1>2, <1>8, <1>9, <1>10 DEF t, s


\* Where a search may go on lies between the bits that are set and its start.
LEMMA SkipLastIs ==
  ASSUME NEW b, IsBitfield(b), Indexed(b), NEW n \in Nat
  PROVE  /\ SkipLast(b, n) \in Int /\ SkipLast(b, n) <= n
         /\ \A m \in BitsOf(b) : Segment(m) = Segment(n) /\ m <= n => m <= SkipLast(b, n)
<1> DEFINE first == Segment(n) * BitsPerSegment
           found == {t \in b.index : Segment(t * BitsPerTreeBlock) = Segment(n) /\ t <= TreeBlock(n)}
<1>1. TreeBlock(n) \in Nat /\ Segment(n) \in Nat
  BY SegmentOfTreeBlock
<1>2. first \in Nat /\ first <= n
  <2>1. n % BitsPerSegment \in Nat /\ n = Segment(n) * BitsPerSegment + (n % BitsPerSegment)
    BY Divided, Sizes DEF Segment
  <2>2. Segment(n) * BitsPerSegment \in Nat
    BY <1>1, Sizes
  <2>3. QED
    BY <2>1, <2>2
<1>3. found \subseteq Nat /\ \A t \in found : t <= TreeBlock(n)
  BY DEF IsBitfield
<1>4. ASSUME NEW m \in BitsOf(b), Segment(m) = Segment(n), m <= n
      PROVE  m \in Nat /\ TreeBlock(m) \in found /\ m <= (TreeBlock(m) + 1) * BitsPerTreeBlock - 1
  <2>1. m \in Nat
    BY BitsOfIs
  <2>2. TreeBlock(m) <= TreeBlock(n)
    BY <1>4, <2>1, DividedIsMonotone, Sizes DEF TreeBlock
  <2>3. TreeBlock(m) \in b.index
    BY DEF Indexed
  <2>4. QED
    BY <1>4, <2>1, <2>2, <2>3, SegmentOfTreeBlock
<1> HIDE DEF found, first
<1>5. SkipLast(b, n) = IF found = {} THEN first
                       ELSE IF Max(found) = TreeBlock(n) THEN n
                       ELSE (Max(found) + 1) * BitsPerTreeBlock - 1
  BY DEF SkipLast, found, first
<1>6. CASE found = {}
  BY <1>2, <1>4, <1>5, <1>6
<1>7. CASE found # {}
  <2> DEFINE x == Max(found)
  <2>1. x \in found /\ \A t \in found : t <= x
    <3>1. found \in SUBSET Int /\ TreeBlock(n) \in Int /\ \A t \in found : t <= TreeBlock(n)
      BY <1>1, <1>3
    <3>2. QED
      BY <1>7, <3>1, MaxIs, Zenon
  <2>2. x \in Nat /\ x <= TreeBlock(n)
    BY <1>3, <2>1
  <2> HIDE DEF x
  <2>3. CASE x = TreeBlock(n)
    BY <1>5, <1>7, <2>3 DEF x
  <2>4. CASE x # TreeBlock(n)
    <3>1. SkipLast(b, n) = (x + 1) * BitsPerTreeBlock - 1
      BY <1>5, <1>7, <2>4 DEF x
    <3>2. \A k, l \in Nat : k <= l => k * BitsPerTreeBlock <= l * BitsPerTreeBlock /\ k * BitsPerTreeBlock \in Nat
      BY Sizes
    <3>3. (x + 1) * BitsPerTreeBlock <= TreeBlock(n) * BitsPerTreeBlock /\ (x + 1) * BitsPerTreeBlock \in Nat
      BY <1>1, <2>2, <2>4, <3>2
    <3>4. SkipLast(b, n) \in Int /\ SkipLast(b, n) <= n
      <4>1. TreeBlock(n) * BitsPerTreeBlock \in Nat /\ TreeBlock(n) * BitsPerTreeBlock <= n
        BY SegmentOfTreeBlock
      <4>2. QED
        BY <3>1, <3>3, <4>1
    <3>5. ASSUME NEW m \in BitsOf(b), Segment(m) = Segment(n), m <= n PROVE m <= SkipLast(b, n)
      <4>1. TreeBlock(m) \in found /\ m \in Nat /\ m <= (TreeBlock(m) + 1) * BitsPerTreeBlock - 1
        BY <1>4, <3>5
      <4>2. TreeBlock(m) \in Nat /\ TreeBlock(m) + 1 <= x + 1
        <5>1. TreeBlock(m) \in Nat /\ TreeBlock(m) <= x
          BY <1>3, <2>1, <4>1 DEF x
        <5>2. QED
          BY <2>2, <5>1
      <4>3. (TreeBlock(m) + 1) * BitsPerTreeBlock <= (x + 1) * BitsPerTreeBlock /\ (TreeBlock(m) + 1) * BitsPerTreeBlock \in Nat
        BY <2>2, <3>2, <4>2
      <4>4. QED
        BY <3>1, <3>3, <4>1, <4>3
    <3>6. QED
      BY <3>4, <3>5
  <2>5. QED
    BY <2>3, <2>4
<1>8. QED
  BY <1>6, <1>7

\* The search in a segment finds the last bit that is set in it, if there is one.
LEMMA FindLastIs ==
  ASSUME NEW b, IsBitfield(b), Indexed(b), NEW n \in Nat
  PROVE  /\ FindLastInSegment(b, n) \in Int /\ FindLastInSegment(b, n) <= n
         /\ FindLastInSegment(b, n) >= -1
         /\ \A m \in BitsOf(b) : Segment(m) = Segment(n) /\ m <= n => m <= FindLastInSegment(b, n)
<1> DEFINE from == SkipLast(b, n)
           found == {m \in BitsOf(b) : Segment(m) = Segment(n) /\ m <= from}
<1>1. found \subseteq Nat /\ from \in Int /\ from <= n /\ \A m \in found : m <= from
  BY BitsOfIs, SkipLastIs
<1>2. \A m \in BitsOf(b) : Segment(m) = Segment(n) /\ m <= n => m \in found
  BY SkipLastIs
<1> HIDE DEF found, from
<1>3. FindLastInSegment(b, n) = IF found = {} THEN -1 ELSE Max(found)
  BY DEF FindLastInSegment, found, from
<1>4. CASE found = {}
  BY <1>2, <1>3, <1>4
<1>5. CASE found # {}
  <2>1. Max(found) \in found /\ \A t \in found : t <= Max(found)
    <3>1. found \in SUBSET Int
      BY <1>1
    <3>2. QED
      BY <1>1, <1>5, <3>1, MaxIs, Zenon
  <2>2. Max(found) \in Nat /\ Max(found) <= n
    <3>1. Max(found) \in Nat /\ Max(found) <= from
      BY <1>1, <2>1
    <3>2. QED
      BY <1>1, <3>1
  <2>3. QED
    BY <1>2, <1>3, <1>5, <2>1, <2>2
<1>6. QED
  BY <1>4, <1>5

\* findLast() finds no less than the last bit that is set, however the index
\* lets it skip.
LEMMA LastSetIs ==
  ASSUME NEW b, IsBitfield(b), Indexed(b), NEW n \in Nat
  PROVE  /\ LastSet(b, n) \in Int /\ LastSet(b, n) >= -1
         /\ \A m \in BitsOf(b) : m <= n => m <= LastSet(b, n)
<1> DEFINE from(s) == IF s = Segment(n) THEN n ELSE (s + 1) * BitsPerSegment - 1
           found == {FindLastInSegment(b, from(s)) : s \in Segments(b) \cap 0 .. Segment(n)}
<1>1. Segment(n) \in Nat
  BY SegmentOfTreeBlock
<1>2. ASSUME NEW s \in 0 .. Segment(n)
      PROVE  /\ from(s) \in Nat /\ from(s) <= n /\ Segment(from(s)) = s
             /\ \A m \in Nat : Segment(m) = s /\ m <= n => m <= from(s)
  <2>1. CASE s = Segment(n)
    BY <2>1
  <2>2. CASE s # Segment(n)
    <3>1. s \in Nat /\ s < Segment(n)
      BY <1>1, <2>2
    <3>2. from(s) = s * BitsPerSegment + (BitsPerSegment - 1)
      <4>1. (s + 1) * BitsPerSegment = s * BitsPerSegment + BitsPerSegment /\ s * BitsPerSegment \in Nat
        BY <3>1, Sizes
      <4>2. QED
        BY <2>2, <4>1, Sizes
    <3>3. s * BitsPerSegment \in Nat /\ BitsPerSegment - 1 \in 0 .. BitsPerSegment - 1
      BY <3>1, Sizes
    <3>4. Segment(from(s)) = s
      BY <3>1, <3>2, <3>3, PlaceIsUnique, Sizes DEF Segment
    <3>5. from(s) \in Nat
      BY <3>2, <3>3, Sizes
    <3>6. from(s) <= n
      <4>1. n % BitsPerSegment \in Nat /\ n = Segment(n) * BitsPerSegment + (n % BitsPerSegment)
        BY Divided, Sizes DEF Segment
      <4>2. s * BitsPerSegment + BitsPerSegment <= Segment(n) * BitsPerSegment
        BY <1>1, <3>1, NextPage, Sizes
      <4>3. Segment(n) * BitsPerSegment \in Nat
        BY <1>1, Sizes
      <4>4. QED
        BY <3>2, <3>3, <4>1, <4>2, <4>3, Sizes
    <3>7. ASSUME NEW m \in Nat, Segment(m) = s PROVE m <= from(s)
      <4>1. m % BitsPerSegment \in 0 .. BitsPerSegment - 1 /\ m = s * BitsPerSegment + (m % BitsPerSegment)
        BY <3>7, Divided, Sizes DEF Segment
      <4>2. QED
        BY <3>2, <3>3, <4>1, Sizes
    <3>8. QED
      BY <3>4, <3>5, <3>6, <3>7
  <2>3. QED
    BY <2>1, <2>2
<1>3. LastSet(b, n) = Max(found \cup {-1})
  BY DEF LastSet
<1> HIDE DEF from
<1>4. \A x \in found : x \in Int /\ x <= n /\ x >= -1
  <2>1. ASSUME NEW s \in 0 .. Segment(n)
        PROVE  LET x == FindLastInSegment(b, from(s)) IN x \in Int /\ x <= n /\ x >= -1
    BY <1>2, FindLastIs
  <2>2. QED
    BY <2>1
<1>5. ASSUME NEW m \in BitsOf(b), m <= n
      PROVE  \E x \in found : m <= x
  <2> DEFINE s == Segment(m)
  <2>1. m \in Nat /\ m \div BitsPerPage \in DOMAIN b.pages
    BY BitsOfIs
  <2>2. s \in Segments(b)
    BY <2>1, SegmentOfPage DEF Segments
  <2>3. s \in 0 .. Segment(n)
    <3>1. s \in Nat /\ s <= Segment(n)
      <4>1. m \in Int /\ n \in Int /\ BitsPerSegment \in Nat \ {0}
        BY <2>1, Sizes
      <4>2. m \div BitsPerSegment <= n \div BitsPerSegment
        BY <1>5, <4>1, DividedIsMonotone, Zenon
      <4>3. QED
        BY <2>1, <4>2, SegmentOfTreeBlock DEF Segment
    <3>2. QED
      BY <1>1, <3>1
  <2>4. from(s) \in Nat /\ Segment(from(s)) = s /\ m <= from(s)
    BY <1>2, <1>5, <2>1, <2>3
  <2>5. m <= FindLastInSegment(b, from(s))
    BY <2>4, FindLastIs
  <2>6. QED
    BY <2>2, <2>3, <2>5
<1> HIDE DEF found
<1>6. LastSet(b, n) \in found \cup {-1} /\ \A x \in found \cup {-1} : x <= LastSet(b, n)
  <2>1. found \cup {-1} \subseteq Int /\ \A x \in found \cup {-1} : x <= n
    BY <1>4
  <2>2. found \cup {-1} \in SUBSET Int /\ found \cup {-1} # {} /\ n \in Int
    BY <2>1
  <2>3. Max(found \cup {-1}) \in found \cup {-1} /\ \A x \in found \cup {-1} : x <= Max(found \cup {-1})
    BY <2>1, <2>2, MaxIs, Zenon
  <2>4. QED
    BY <1>3, <2>3
<1>7. ASSUME NEW m \in BitsOf(b), m <= n PROVE m <= LastSet(b, n)
  <2>1. PICK x \in found : m <= x
    BY <1>5, <1>7
  <2>2. m \in Nat /\ x \in Int /\ x <= LastSet(b, n) /\ LastSet(b, n) \in Int
    BY <1>4, <1>6, BitsOfIs
  <2>3. QED
    BY <2>1, <2>2
<1>8. QED
  BY <1>4, <1>6, <1>7

\* A whole page that is inserted replaces the one there was.
LEMMA PageIsInserted ==
  ASSUME NEW b, IsBitfield(b), Indexed(b), NEW i \in Nat, NEW bytes,
         Len(bytes) = BytesPerPage, BitsOfBytes(bytes) \subseteq 0 .. BitsPerPage - 1
  PROVE  HasPage(InsertInPage(b, i, 0, bytes), b, i, BitsOfBytes(bytes))
<1> DEFINE bits == BitsOfBytes(bytes)
           old == IF i \in DOMAIN b.pages THEN b.pages[i] ELSE {}
           new == {k \in old : k \notin 0 .. 0 + Len(bytes) * BitsPerByte - 1} \cup {0 + k : k \in bits}
           pages == [k \in DOMAIN b.pages \cup {i} |-> IF k = i THEN new ELSE b.pages[k]]
           c == [b EXCEPT !.pages = pages]
           segment == i \div PagesPerSegment
           index == {t \in b.index : Segment(t * BitsPerTreeBlock) # segment}
                      \cup {TreeBlock(n) : n \in {m \in BitsOf(c) : Segment(m) = segment}}
           d == InsertInPage(b, i, 0, bytes)
<1>1. new = bits
  <2>1. old \subseteq 0 .. BitsPerPage - 1
    BY DEF IsBitfield
  <2>2. 0 + Len(bytes) * BitsPerByte - 1 = BitsPerPage - 1
    BY PageIsWhole, Sizes
  <2>3. {k \in old : k \notin 0 .. 0 + Len(bytes) * BitsPerByte - 1} = {}
    BY <2>1, <2>2
  <2>4. {0 + k : k \in bits} = bits
    <3>1. \A k \in bits : 0 + k = k
      OBVIOUS
    <3>2. QED
      BY <3>1
  <2>5. QED
    BY <2>3, <2>4
<1>2. c = [pages |-> pages, index |-> b.index]
  <2> HIDE DEF pages
  <2>1. \A p, x : [[pages |-> p, index |-> x] EXCEPT !.pages = pages] = [pages |-> pages, index |-> x]
    OBVIOUS
  <2>2. b = [pages |-> b.pages, index |-> b.index]
    BY DEF IsBitfield
  <2>3. QED
    BY <2>1, <2>2
<1>3. d = [pages |-> pages, index |-> index]
  <2>1. d = [c EXCEPT !.index = index]
    <3>1. c.index = b.index
      BY <1>2
    <3>2. QED
      BY <3>1 DEF InsertInPage, Refresh
  <2>2. QED
    BY <1>2, <2>1
<1> HIDE DEF c, d, new, bits, old
<1>4. d.pages = pages /\ d.index = index /\ c.pages = pages /\ c.index = b.index
  BY <1>2, <1>3
<1>5. /\ DOMAIN pages \subseteq Nat /\ pages \in [DOMAIN pages -> SUBSET (0 .. BitsPerPage - 1)]
  BY <1>1 DEF IsBitfield, bits
<1>6. IsBitfield(c)
  BY <1>2, <1>4, <1>5 DEF IsBitfield
<1>7. BitsOf(d) = BitsOf(c)
  BY <1>4 DEF BitsOf
<1>8. IsBitfield(d)
  <2>1. index \subseteq Nat
    <3>1. \A n \in BitsOf(c) : TreeBlock(n) \in Nat
      BY <1>6, BitsOfIs, SegmentOfTreeBlock
    <3>2. QED
      BY <3>1 DEF IsBitfield
  <2> HIDE DEF index, pages
  <2>2. QED
    BY <1>3, <1>4, <1>5, <2>1 DEF IsBitfield
<1>9. Indexed(d)
  <2> SUFFICES ASSUME NEW n \in BitsOf(c) PROVE TreeBlock(n) \in index
    BY <1>4, <1>7 DEF Indexed
  <2>1. n \in Nat /\ n \div BitsPerPage \in DOMAIN pages /\ n % BitsPerPage \in pages[n \div BitsPerPage]
    BY <1>4, <1>6, BitsOfIs
  <2>2. CASE Segment(n) = segment
    BY <2>2
  <2>3. CASE Segment(n) # segment
    <3>1. n \div BitsPerPage # i
      BY <2>1, <2>3, SegmentOfPage
    <3>2. n \in BitsOf(b)
      BY <2>1, <3>1, BitsOfIs
    <3>3. TreeBlock(n) \in b.index
      BY <3>2 DEF Indexed
    <3>4. Segment(TreeBlock(n) * BitsPerTreeBlock) # segment
      BY <2>1, <2>3, SegmentOfTreeBlock
    <3>5. QED
      BY <3>3, <3>4
  <2>4. QED
    BY <2>2, <2>3
<1>10. d.pages = [k \in DOMAIN b.pages \cup {i} |-> IF k = i THEN bits ELSE b.pages[k]]
  BY <1>1, <1>4
<1>11. QED
  BY <1>8, <1>9, <1>10 DEF d, bits, HasPage

\* insert() of a whole page, at the start of it.
LEMMA InsertIs ==
  ASSUME NEW b, NEW i \in Nat, NEW V, NEW bytes \in Seq(V), Len(bytes) = BytesPerPage
  PROVE  Insert(b, i * BitsPerPage, bytes) = InsertInPage(b, i, 0, bytes)
<1> DEFINE start == i * BitsPerPage
           first == start \div BitsPerPage
           last == (start + Len(bytes) * BitsPerByte - 1) \div BitsPerPage
           From(k) == IF k = first THEN start % BitsPerPage ELSE 0
           Cut(k) == (k * BitsPerPage + From(k) - start) \div BitsPerByte
           Part(k) == Slice(bytes, Cut(k), IF k = last THEN Len(bytes) ELSE Cut(k + 1))
           Step(g, k) == IF k < first THEN b ELSE InsertInPage(g, k, From(k), Part(k))
           Is(f) == f = [k \in first - 1 .. last |-> Step(f[k - 1], k)]
           upTo == CHOOSE f : Is(f)
<1>1. start \in Nat /\ start % BitsPerWord = 0
  BY PageIsWhole, Sizes
<1>2. first = i /\ start % BitsPerPage = 0
  <2>1. i \in Int /\ BitsPerPage \in Nat \ {0} /\ 0 \in 0 .. BitsPerPage - 1
    BY Sizes
  <2>2. (i * BitsPerPage + 0) \div BitsPerPage = i /\ (i * BitsPerPage + 0) % BitsPerPage = 0
    BY <2>1, PlaceIsUnique, Zenon
  <2>3. i * BitsPerPage + 0 = i * BitsPerPage
    BY <1>1
  <2>4. QED
    BY <2>2, <2>3
<1>3. last = i
  <2>1. i \in Int /\ BitsPerPage \in Nat \ {0} /\ BitsPerPage - 1 \in 0 .. BitsPerPage - 1
    BY Sizes
  <2>2. (i * BitsPerPage + (BitsPerPage - 1)) \div BitsPerPage = i
    BY <2>1, PlaceIsUnique, Zenon
  <2>3. start + Len(bytes) * BitsPerByte - 1 = i * BitsPerPage + (BitsPerPage - 1)
    BY <1>1, PageIsWhole, Sizes
  <2>4. QED
    BY <2>2, <2>3
<1>4. Insert(b, start, bytes) = upTo[last]
  BY <1>1 DEF Insert
<1> HIDE DEF start
<1>5. From(i) = 0 /\ Part(i) = bytes
  <2>1. From(i) = 0
    BY <1>2
  <2>2. Cut(i) = 0
    <3>1. i * BitsPerPage + 0 - start = 0
      BY <1>1 DEF start
    <3>2. 0 \div BitsPerByte = 0
      BY Sizes
    <3>3. QED
      BY <2>1, <3>1, <3>2
  <2>3. Part(i) = SubSeq(bytes, 1, Len(bytes))
    BY <1>3, <2>2 DEF Slice
  <2>4. SubSeq(bytes, 1, Len(bytes)) = bytes
    OBVIOUS
  <2>5. QED
    BY <2>1, <2>3, <2>4
<1> HIDE DEF From, Part, first, last
<1>6. \E f : Is(f)
  <2> DEFINE e == [k \in i - 1 .. i |-> IF k < i THEN b ELSE InsertInPage(b, i, 0, bytes)]
  <2>1. e[i - 1] = b
    OBVIOUS
  <2>2. \A k \in i - 1 .. i : k = i \/ k < i
    OBVIOUS
  <2>3. \A k \in i - 1 .. i : e[k] = Step(e[k - 1], k)
    BY <1>2, <1>5, <2>1, <2>2
  <2>4. e = [k \in first - 1 .. last |-> Step(e[k - 1], k)]
    BY <1>2, <1>3, <2>3
  <2>5. QED
    BY <2>4
<1>7. Is(upTo)
  BY <1>6
<1> HIDE DEF upTo
<1>8. upTo[i - 1] = b /\ upTo[i] = InsertInPage(upTo[i - 1], i, 0, bytes)
  BY <1>2, <1>3, <1>5, <1>7
<1>9. QED
  BY <1>3, <1>4, <1>8 DEF start

-----------------------------------------------------------------------------
(***************************************************************************)
(* Pages and messages.                                                     *)
(***************************************************************************)
\* The sequence of a finite set has each of its elements once.
LEMMA SetToSeqIs ==
  ASSUME NEW S, IsFiniteSet(S)
  PROVE  /\ SetToSeq(S) \in Seq(S) /\ Range(SetToSeq(S)) = S
         /\ \A i, j \in DOMAIN SetToSeq(S) : SetToSeq(S)[i] = SetToSeq(S)[j] => i = j
<1> DEFINE n == Cardinality(S)
           D == 1 .. n
           f == SetToSeq(S)
<1>1. n \in Nat /\ ExistsBijection(D, S)
  BY FS_CardinalityType
<1>2. PICK g \in Bijection(D, S) : TRUE
  BY <1>1 DEF ExistsBijection
<1>3. g \in [D -> S] /\ IsInjective(g)
  BY <1>2 DEF Bijection, Injection
<1>4. f \in [D -> S] /\ IsInjective(f)
  BY <1>3 DEF SetToSeq
<1>5. f \in Injection(D, S) /\ IsFiniteSet(D) /\ Cardinality(D) = n
  <2>1. IsFiniteSet(D) /\ Cardinality(D) = n
    BY <1>1, FS_Interval
  <2>2. QED
    BY <1>4, <2>1 DEF Injection
<1> HIDE DEF f
<1>6. f \in Surjection(D, S)
  BY <1>5, FS_Injection
<1>7. Range(f) = S
  BY <1>4, <1>6 DEF Surjection, Range
<1>8. f \in Seq(S)
  BY <1>1, <1>4
<1>9. \A i, j \in DOMAIN f : f[i] = f[j] => i = j
  BY <1>4 DEF IsInjective
<1>10. QED
  BY <1>7, <1>8, <1>9 DEF f

\* The pages of a core are those up to its length.
LEMMA PagesAre ==
  ASSUME NEW s \in Stores
  PROVE  /\ PagesOf(s) \in Nat /\ s.length \in Nat
         /\ \A n \in 0 .. s.length - 1 : n \div BitsPerPage \in 0 .. PagesOf(s) - 1
         /\ \A t \in Stores : s.length <= t.length => PagesOf(s) <= PagesOf(t)
<1>1. s.length \in Nat /\ BitsPerPage \in Nat \ {0} /\ \A t \in Stores : t.length \in Nat
  BY Sizes, SyncStateAssumption DEF Stores
<1>2. PagesOf(s) \in Nat
  <2>1. s.length + BitsPerPage - 1 \in Nat
    BY <1>1
  <2>2. QED
    BY <1>1, <2>1, Divided DEF PagesOf
<1>3. ASSUME NEW n \in 0 .. s.length - 1 PROVE n \div BitsPerPage \in 0 .. PagesOf(s) - 1
  <2> DEFINE q == n \div BitsPerPage
             r == n % BitsPerPage
  <2>1. q \in Nat /\ r \in 0 .. BitsPerPage - 1 /\ n = q * BitsPerPage + r
    <3>1. n \in Nat
      OBVIOUS
    <3>2. QED
      BY <1>1, <3>1, Divided
  <2> HIDE DEF q, r
  <2>2. (q + 1) * BitsPerPage + 0 = (q * BitsPerPage) + BitsPerPage /\ q * BitsPerPage \in Nat
    BY <1>1, <2>1
  <2>3. (q + 1) * BitsPerPage + 0 <= s.length + BitsPerPage - 1
    BY <1>1, <2>1, <2>2
  <2>4. ((q + 1) * BitsPerPage + 0) \div BitsPerPage = q + 1
    <3>1. q + 1 \in Int /\ 0 \in 0 .. BitsPerPage - 1
      BY <1>1, <2>1
    <3>2. QED
      BY <1>1, <3>1, PlaceIsUnique, Zenon
  <2>5. ((q + 1) * BitsPerPage + 0) \div BitsPerPage <= (s.length + BitsPerPage - 1) \div BitsPerPage
    <3>1. (q + 1) * BitsPerPage + 0 \in Int /\ s.length + BitsPerPage - 1 \in Int
      BY <1>1, <2>2
    <3>2. QED
      BY <1>1, <2>3, <3>1, DividedIsMonotone, Zenon
  <2>6. q + 1 <= PagesOf(s)
    BY <2>4, <2>5 DEF PagesOf
  <2>7. QED
    BY <1>2, <2>1, <2>6 DEF q
<1>4. ASSUME NEW t \in Stores, s.length <= t.length PROVE PagesOf(s) <= PagesOf(t)
  <2>1. /\ s.length + BitsPerPage - 1 \in Int /\ t.length + BitsPerPage - 1 \in Int
        /\ s.length + BitsPerPage - 1 <= t.length + BitsPerPage - 1
    BY <1>1, <1>4
  <2>2. QED
    BY <1>1, <2>1, DividedIsMonotone, Zenon DEF PagesOf
<1>5. QED
  BY <1>1, <1>2, <1>3, <1>4

\* A bitfield that has the pages of a store has its blocks.
LEMMA PagesAreBlocks ==
  ASSUME NEW s \in Stores, NEW b, IsBitfield(b), DOMAIN b.pages \subseteq 0 .. PagesOf(s) - 1,
         \A i \in 0 .. PagesOf(s) - 1 : i \in DOMAIN b.pages /\ b.pages[i] = PageBits(s.blocks, i)
  PROVE  BitsOf(b) = s.blocks
<1>1. s.blocks \subseteq 0 .. s.length - 1 /\ s.length \in Nat
  BY PagesAre DEF Stores
<1>2. ASSUME NEW n \in Nat PROVE n \in BitsOf(b) <=> n \in s.blocks
  <2> DEFINE i == n \div BitsPerPage
             k == n % BitsPerPage
  <2>1. i \in Nat /\ k \in 0 .. BitsPerPage - 1 /\ n = i * BitsPerPage + k
    BY Divided, Sizes
  <2>2. n \in BitsOf(b) <=> i \in DOMAIN b.pages /\ k \in b.pages[i]
    BY BitsOfIs
  <2> HIDE DEF i, k
  <2>3. k \in PageBits(s.blocks, i) <=> n \in s.blocks
    BY <2>1 DEF PageBits
  <2>4. n \in s.blocks => i \in 0 .. PagesOf(s) - 1
    BY <1>1, PagesAre DEF i
  <2>5. QED
    BY <2>2, <2>3, <2>4
<1>3. BitsOf(b) \subseteq Nat /\ s.blocks \subseteq Nat
  <2>1. s.blocks \subseteq Nat
    BY <1>1
  <2>2. QED
    BY <2>1, BitsOfIs
<1>4. QED
  BY <1>2, <1>3

\* The bytes of a page are as many as a page has.
LEMMA BytesAreSeq ==
  ASSUME NEW bits
  PROVE  /\ Len(BytesOf(bits)) = BytesPerPage
         /\ \E V : BytesOf(bits) \in Seq(V)
<1> DEFINE V == {ByteOf(bits, k - 1) : k \in 1 .. BytesPerPage}
<1>1. BytesOf(bits) \in [1 .. BytesPerPage -> V]
  BY DEF BytesOf
<1> HIDE DEF V
<1>2. BytesPerPage \in Nat
  BY PageIsWhole
<1>3. BytesOf(bits) \in Seq(V) /\ Len(BytesOf(bits)) = BytesPerPage
  BY <1>1, <1>2
<1>4. QED
  BY <1>3

-----------------------------------------------------------------------------
(***************************************************************************)
(* The bits of a byte.                                                     *)
(***************************************************************************)
LEMMA PowerIs ==
  /\ Power[0] = 1
  /\ \A j \in 1 .. BitsPerByte : Power[j] = 2 * Power[j - 1]
  /\ \A j \in 0 .. BitsPerByte : Power[j] \in Nat \ {0}
<1> DEFINE n == BitsPerByte
           Step(f, j) == IF j = 0 THEN 1 ELSE 2 * f[j - 1]
           Is(f) == f = [j \in 0 .. n |-> Step(f, j)]
           step == [j \in 1 .. n |-> [v \in Nat |-> 2 * v]]
<1>1. n \in Nat
  BY Sizes
<1>2. \E f : Is(f)
  <2>1. step \in [1 .. n -> [Nat -> Nat]]
    OBVIOUS
  <2>2. PICK f \in [0 .. n -> Nat] : Iterates(f, 1, step, n)
    <3> HIDE DEF step, n
    <3>1. QED
      BY <1>1, <2>1, IteratesExist
  <2>3. \A j \in 0 .. n : f[j] = Step(f, j)
    <3>1. ASSUME NEW j \in 1 .. n PROVE f[j] = 2 * f[j - 1]
      <4>1. f[j] = step[j][f[j - 1]] /\ f[j - 1] \in Nat
        <5>1. j - 1 \in 0 .. n
          BY <1>1
        <5>2. QED
          BY <2>2, <5>1 DEF Iterates
      <4>2. QED
        BY <4>1
    <3>2. f[0] = 1
      BY <2>2 DEF Iterates
    <3>3. QED
      BY <1>1, <3>1, <3>2
  <2>4. f = [j \in 0 .. n |-> f[j]]
    OBVIOUS
  <2> HIDE DEF Step
  <2>5. QED
    BY <2>3, <2>4
<1>3. Power = CHOOSE f : Is(f)
  BY DEF Power
<1>4. Is(Power)
  BY <1>2, <1>3
<1>5. \A j \in 0 .. n : Power[j] = Step(Power, j)
  BY <1>4
<1>6. Power[0] = 1 /\ \A j \in 1 .. n : Power[j] = 2 * Power[j - 1]
  BY <1>1, <1>5
<1> DEFINE Q == [j \in 0 .. n |-> Nat \ {0}]
<1>7. \A j \in 0 .. n : Power[j] \in Q[j]
  <2>1. Power[0] \in Q[0]
    BY <1>1, <1>6
  <2>2. ASSUME NEW j \in 1 .. n, Power[j - 1] \in Q[j - 1] PROVE Power[j] \in Q[j]
    <3>1. j \in 0 .. n /\ j - 1 \in 0 .. n
      BY <1>1
    <3>2. Power[j - 1] \in Nat \ {0} /\ Power[j] = 2 * Power[j - 1]
      BY <1>6, <2>2, <3>1
    <3>3. Power[j] \in Nat \ {0}
      BY <3>2
    <3>4. QED
      BY <3>1, <3>3
  <2> HIDE DEF Q, n
  <2>3. QED
    BY <1>1, <2>1, <2>2, IteratesStay
<1>8. QED
  BY <1>6, <1>7

\* A power is a multiple of twice every lower one.
LEMMA PowersDivide ==
  ASSUME NEW m \in 0 .. BitsPerByte - 1, NEW n \in m + 1 .. BitsPerByte
  PROVE  \E q \in Nat : Power[n] = (2 * q) * Power[m]
<1> DEFINE S == {k \in Nat : m + 1 + k <= BitsPerByte => \E q \in Nat : Power[m + 1 + k] = (2 * q) * Power[m]}
<1>1. BitsPerByte \in Nat /\ m \in Nat /\ n \in Nat /\ m \in 0 .. BitsPerByte
  BY Sizes
<1>2. Power[m] \in Nat
  BY <1>1, PowerIs
<1>3. 0 \in S
  <2>1. m + 1 + 0 = m + 1 /\ m + 1 \in 1 .. BitsPerByte /\ (m + 1) - 1 = m
    BY <1>1
  <2>2. Power[m + 1] = (2 * 1) * Power[m]
    BY <1>2, <2>1, PowerIs
  <2>3. QED
    BY <2>1, <2>2
<1>4. ASSUME NEW k \in Nat, k \in S PROVE k + 1 \in S
  <2> SUFFICES ASSUME m + 1 + (k + 1) <= BitsPerByte
               PROVE  \E q \in Nat : Power[m + 1 + (k + 1)] = (2 * q) * Power[m]
    OBVIOUS
  <2>1. PICK q \in Nat : Power[m + 1 + k] = (2 * q) * Power[m]
    BY <1>1, <1>4
  <2>2. m + 1 + (k + 1) \in 1 .. BitsPerByte /\ (m + 1 + (k + 1)) - 1 = m + 1 + k
    BY <1>1
  <2>3. Power[m + 1 + (k + 1)] = 2 * ((2 * q) * Power[m])
    BY <2>1, <2>2, PowerIs
  <2>4. \A x \in Nat : 2 * ((2 * q) * x) = (2 * (2 * q)) * x
    OBVIOUS
  <2>5. 2 * q \in Nat
    OBVIOUS
  <2>6. QED
    BY <1>2, <2>3, <2>4, <2>5
<1> HIDE DEF S
<1>5. \A k \in Nat : k \in S
  BY <1>3, <1>4, SetInduction
<1>6. n - (m + 1) \in Nat /\ m + 1 + (n - (m + 1)) = n /\ n <= BitsPerByte
  BY <1>1
<1>7. QED
  BY <1>5, <1>6 DEF S

\* What the bits below j count.
Counted(bits, k, j) == IF k * BitsPerByte + j - 1 \in bits THEN Power[j - 1] ELSE 0

LEMMA ByteIs ==
  ASSUME NEW bits, NEW k \in Nat
  PROVE  \E f : /\ ByteOf(bits, k) = f[BitsPerByte] /\ f[0] = 0
                /\ \A j \in 1 .. BitsPerByte : f[j] = f[j - 1] + Counted(bits, k, j)
                /\ \A j \in 0 .. BitsPerByte : f[j] \in 0 .. Power[j] - 1
<1> DEFINE n == BitsPerByte
           Step(f, j) == IF j = 0 THEN 0 ELSE f[j - 1] + Counted(bits, k, j)
           Is(f) == f = [j \in 0 .. n |-> Step(f, j)]
           step == [j \in 1 .. n |-> [v \in Nat |-> v + Counted(bits, k, j)]]
           sum == CHOOSE f : Is(f)
<1>1. n \in Nat
  BY Sizes
<1>2. \A j \in 1 .. n : /\ Counted(bits, k, j) \in {0, Power[j - 1]} /\ Counted(bits, k, j) \in Nat
                        /\ j \in 0 .. n /\ j - 1 \in 0 .. n
  <2>1. \A j \in 1 .. n : j \in 0 .. n /\ j - 1 \in 0 .. n
    BY <1>1
  <2>2. QED
    BY <2>1, PowerIs DEF Counted
<1>3. \E f : Is(f)
  <2>1. step \in [1 .. n -> [Nat -> Nat]]
    BY <1>2
  <2>2. PICK f \in [0 .. n -> Nat] : Iterates(f, 0, step, n)
    <3> HIDE DEF step, n
    <3>1. QED
      BY <1>1, <2>1, IteratesExist
  <2>3. ASSUME NEW j \in 1 .. n PROVE f[j] = f[j - 1] + Counted(bits, k, j)
    <3>1. f[j] = step[j][f[j - 1]] /\ f[j - 1] \in Nat
      BY <1>2, <2>2 DEF Iterates
    <3>2. QED
      BY <3>1
  <2>4. f[0] = 0 /\ f = [j \in 0 .. n |-> f[j]]
    BY <2>2 DEF Iterates
  <2>5. \A j \in 0 .. n : f[j] = Step(f, j)
    <3>1. ASSUME NEW j \in 0 .. n PROVE f[j] = Step(f, j)
      <4>1. CASE j = 0
        BY <2>4, <4>1
      <4>2. CASE j # 0
        <5>1. j \in 1 .. n
          BY <1>1, <4>2
        <5>2. QED
          BY <2>3, <4>2, <5>1
      <4>3. QED
        BY <4>1, <4>2
    <3>2. QED
      BY <3>1
  <2> HIDE DEF Step
  <2>6. QED
    BY <2>4, <2>5
<1>4. Is(sum)
  BY <1>3
<1>5. ByteOf(bits, k) = sum[n]
  BY DEF ByteOf, Counted
<1> HIDE DEF sum
<1>6. \A j \in 0 .. n : sum[j] = Step(sum, j)
  BY <1>4
<1>7. sum[0] = 0 /\ \A j \in 1 .. n : sum[j] = sum[j - 1] + Counted(bits, k, j)
  BY <1>1, <1>2, <1>6
<1> DEFINE Q == [j \in 0 .. n |-> 0 .. Power[j] - 1]
<1>8. \A j \in 0 .. n : sum[j] \in Q[j]
  <2>1. sum[0] \in Q[0]
    <3>1. 0 \in 0 .. n /\ Power[0] = 1
      BY <1>1, PowerIs
    <3>2. QED
      BY <1>7, <3>1
  <2>2. ASSUME NEW j \in 1 .. n, sum[j - 1] \in Q[j - 1] PROVE sum[j] \in Q[j]
    <3>1. Power[j - 1] \in Nat /\ Power[j] = 2 * Power[j - 1] /\ sum[j - 1] \in 0 .. Power[j - 1] - 1
      BY <1>2, <2>2, PowerIs
    <3>2. sum[j] = sum[j - 1] + Counted(bits, k, j) /\ Counted(bits, k, j) \in {0, Power[j - 1]}
      BY <1>2, <1>7
    <3>3. sum[j] \in 0 .. Power[j] - 1
      BY <3>1, <3>2
    <3>4. QED
      BY <1>2, <3>3
  <2> HIDE DEF Q, n
  <2>3. QED
    BY <1>1, <2>1, <2>2, IteratesStay
<1>9. \A j \in 0 .. n : sum[j] \in 0 .. Power[j] - 1
  BY <1>8
<1>10. QED
  BY <1>5, <1>7, <1>9

\* A bit of a byte is read as it was written.
LEMMA BitIsRead ==
  ASSUME NEW bits, NEW k \in Nat, NEW m \in 0 .. BitsPerByte - 1
  PROVE  (ByteOf(bits, k) \div Power[m]) % 2 = 1 <=> k * BitsPerByte + m \in bits
<1>1. PICK f : /\ ByteOf(bits, k) = f[BitsPerByte] /\ f[0] = 0
               /\ \A j \in 1 .. BitsPerByte : f[j] = f[j - 1] + Counted(bits, k, j)
               /\ \A j \in 0 .. BitsPerByte : f[j] \in 0 .. Power[j] - 1
  BY ByteIs
<1> DEFINE P == Power[m]
           b == IF k * BitsPerByte + m \in bits THEN 1 ELSE 0
           Is(j, h) == f[j] = (b + 2 * h) * P + f[m]
           S == {i \in Nat : m + 1 + i <= BitsPerByte => \E h \in Nat : Is(m + 1 + i, h)}
<1>2. BitsPerByte \in Nat /\ m \in Nat /\ m \in 0 .. BitsPerByte /\ m + 1 \in 1 .. BitsPerByte
  BY Sizes
<1>3. P \in Nat \ {0} /\ f[m] \in 0 .. P - 1
  BY <1>1, <1>2, PowerIs
<1>4. b \in {0, 1}
  OBVIOUS
<1>5. \A j \in 1 .. BitsPerByte : Counted(bits, k, j) \in {0, Power[j - 1]}
  BY DEF Counted
<1>6. f[m + 1] = (b + 2 * 0) * P + f[m]
  <2>1. f[m + 1] = f[m] + Counted(bits, k, m + 1)
    <3>1. (m + 1) - 1 = m
      BY <1>2
    <3>2. QED
      BY <1>1, <1>2, <3>1
  <2>2. Counted(bits, k, m + 1) = b * P
    <3>1. k * BitsPerByte + (m + 1) - 1 = k * BitsPerByte + m /\ (m + 1) - 1 = m
      <4>1. k * BitsPerByte \in Nat
        BY <1>2
      <4>2. QED
        BY <1>2, <4>1
    <3>2. 1 * P = P /\ 0 * P = 0
      BY <1>3
    <3>3. QED
      BY <3>1, <3>2 DEF Counted
  <2> HIDE DEF b, P
  <2>3. QED
    BY <1>3, <1>4, <2>1, <2>2
<1>7. 0 \in S
  <2> HIDE DEF b, P
  <2>1. QED
    BY <1>2, <1>6
<1>8. ASSUME NEW i \in Nat, i \in S PROVE i + 1 \in S
  <2> DEFINE j == m + 1 + i
  <2> HIDE DEF b, P
  <2> SUFFICES ASSUME m + 1 + (i + 1) <= BitsPerByte PROVE \E h \in Nat : Is(m + 1 + (i + 1), h)
    OBVIOUS
  <2>1. j \in m + 1 .. BitsPerByte /\ j + 1 = m + 1 + (i + 1) /\ j + 1 \in 1 .. BitsPerByte /\ (j + 1) - 1 = j
    BY <1>2
  <2>2. PICK h \in Nat : f[j] = (b + 2 * h) * P + f[m]
    BY <1>8, <2>1
  <2> HIDE DEF j
  <2>3. PICK q \in Nat : Power[j] = (2 * q) * P
    BY <2>1, PowersDivide DEF P
  <2>4. f[j + 1] = f[j] + Counted(bits, k, j + 1) /\ Counted(bits, k, j + 1) \in {0, (2 * q) * P}
    BY <1>1, <1>5, <2>1, <2>3
  <2>5. CASE Counted(bits, k, j + 1) = 0
    <3>1. f[j + 1] = (b + 2 * h) * P + f[m]
      <4>1. (b + 2 * h) * P \in Nat
        BY <1>3, <1>4
      <4>2. QED
        BY <1>3, <2>2, <2>4, <2>5, <4>1
    <3>2. QED
      BY <2>1, <3>1
  <2>6. CASE Counted(bits, k, j + 1) = (2 * q) * P
    <3>1. f[j + 1] = (b + 2 * (h + q)) * P + f[m]
      <4>1. \A x, y, z, u \in Nat : (x * z + u) + y * z = (x + y) * z + u
        OBVIOUS
      <4>2. (b + 2 * h) + 2 * q = b + 2 * (h + q) /\ b + 2 * h \in Nat /\ 2 * q \in Nat
        BY <1>4
      <4>3. f[m] \in Nat /\ P \in Nat
        BY <1>3
      <4>4. f[j + 1] = ((b + 2 * h) * P + f[m]) + (2 * q) * P
        BY <2>2, <2>4, <2>6
      <4>5. f[j + 1] = ((b + 2 * h) + 2 * q) * P + f[m]
        BY <4>1, <4>2, <4>3, <4>4
      <4>6. QED
        BY <4>2, <4>5
    <3>2. h + q \in Nat
      OBVIOUS
    <3>3. QED
      BY <2>1, <3>1, <3>2
  <2>7. QED
    BY <2>4, <2>5, <2>6
<1>9. PICK h \in Nat : f[BitsPerByte] = (b + 2 * h) * P + f[m]
  <2> HIDE DEF b, P
  <2>1. BitsPerByte - (m + 1) \in Nat /\ m + 1 + (BitsPerByte - (m + 1)) = BitsPerByte
    BY <1>2
  <2>2. BitsPerByte - (m + 1) \in S
    <3> HIDE DEF S
    <3>1. QED
      BY <1>7, <1>8, <2>1, SetInduction
  <2>3. QED
    BY <2>1, <2>2
<1>10. ByteOf(bits, k) \div P = b + 2 * h
  <2> DEFINE q == b + 2 * h
             r == f[m]
  <2>1. q \in Int /\ P \in Nat \ {0} /\ r \in 0 .. P - 1
    BY <1>3, <1>4
  <2>2. ByteOf(bits, k) = q * P + r
    BY <1>1, <1>9
  <2> HIDE DEF b, P, q, r
  <2>3. ByteOf(bits, k) \div P = q
    BY <2>1, <2>2, PlaceIsUnique
  <2>4. QED
    BY <2>3 DEF q
<1>11. (b + 2 * h) % 2 = b
  BY <1>4
<1>12. QED
  BY <1>10, <1>11

\* The bits of a page are read as they were written.
LEMMA PageIsRead ==
  ASSUME NEW bits \in SUBSET (0 .. BitsPerPage - 1)
  PROVE  BitsOfBytes(BytesOf(bits)) = bits
<1> DEFINE bytes == BytesOf(bits)
<1>1. BitsPerByte \in Nat \ {0} /\ BytesPerPage \in Nat /\ BytesPerPage * BitsPerByte = BitsPerPage
  BY Sizes, PageIsWhole
<1>2. Len(bytes) = BytesPerPage /\ \A x \in 1 .. BytesPerPage : bytes[x] = ByteOf(bits, x - 1)
  BY <1>1 DEF BytesOf
<1> HIDE DEF bytes
<1>3. ASSUME NEW n \in 0 .. BitsPerPage - 1
      PROVE  (bytes[n \div BitsPerByte + 1] \div Power[n % BitsPerByte]) % 2 = 1 <=> n \in bits
  <2> DEFINE k == n \div BitsPerByte
             m == n % BitsPerByte
  <2>1. k \in Nat /\ m \in 0 .. BitsPerByte - 1 /\ n = k * BitsPerByte + m
    <3>1. n \in Nat
      OBVIOUS
    <3>2. n \div BitsPerByte \in Nat /\ n % BitsPerByte \in 0 .. BitsPerByte - 1
          /\ n = (n \div BitsPerByte) * BitsPerByte + (n % BitsPerByte)
      BY <1>1, <3>1, Divided
    <3>3. QED
      BY <3>2
  <2>2. k + 1 \in 1 .. BytesPerPage /\ (k + 1) - 1 = k
    <3> HIDE DEF k, m
    <3>1. k * BitsPerByte < BytesPerPage * BitsPerByte
      BY <1>1, <2>1
    <3>2. ASSUME k >= BytesPerPage PROVE FALSE
      <4>1. \A x, y, z \in Nat : x >= y => x * z >= y * z
        OBVIOUS
      <4>2. k * BitsPerByte >= BytesPerPage * BitsPerByte
        BY <1>1, <2>1, <3>2, <4>1
      <4>3. QED
        BY <1>1, <2>1, <3>1, <4>2
    <3>3. QED
      BY <1>1, <2>1, <3>2
  <2> HIDE DEF k, m
  <2>3. bytes[k + 1] = ByteOf(bits, k)
    BY <1>2, <2>2
  <2>4. (bytes[k + 1] \div Power[m]) % 2 = 1 <=> n \in bits
    BY <2>1, <2>3, BitIsRead
  <2>5. QED
    BY <2>4 DEF k, m
<1>4. BitsOfBytes(bytes) = {n \in 0 .. BitsPerPage - 1 :
                              (bytes[n \div BitsPerByte + 1] \div Power[n % BitsPerByte]) % 2 = 1}
  BY <1>1, <1>2 DEF BitsOfBytes
<1>5. QED
  BY <1>3, <1>4 DEF bytes

-----------------------------------------------------------------------------
(***************************************************************************)
(* The coding by runs, of bytes of any set V.                              *)
(***************************************************************************)
Token(V) == [varint : Nat, bytes : Seq(V)]

LEMMA VarintLengthIs == \A v : VarintLength(v) \in Nat
<1> TAKE v
<1> DEFINE S == {k \in 1 .. 8 : v >= VarintBase ^ k}
<1>1. S \in SUBSET (1 .. 8)
  OBVIOUS
<1> HIDE DEF S
<1>2. IsFiniteSet(S)
  <2>1. IsFiniteSet(1 .. 8)
    <3>1. 1 \in Int /\ 8 \in Int
      OBVIOUS
    <3>2. QED
      BY <3>1, FS_Interval
  <2>2. QED
    BY <1>1, <2>1, FS_Subset
<1>3. Cardinality(S) \in Nat
  BY <1>2, FS_CardinalityType
<1>4. VarintLength(v) = 1 + Cardinality(S)
  BY DEF VarintLength, S
<1>5. QED
  BY <1>3, <1>4

LEMMA ExpandIs ==
  ASSUME NEW V, 0 \in V, AllOnes \in V, NEW t \in Token(V)
  PROVE  Expand(t) \in Seq(V)
<1>1. t.varint \in Nat /\ t.bytes \in Seq(V)
  BY DEF Token
<1>2. CASE t.varint % 2 = 0
  BY <1>1, <1>2 DEF Expand
<1>3. CASE t.varint % 2 # 0
  <2> DEFINE n == t.varint \div 4
             e == IF (t.varint \div 2) % 2 = 1 THEN AllOnes ELSE 0
  <2>1. n \in Nat /\ e \in V
    BY <1>1
  <2>2. Expand(t) = [k \in 1 .. n |-> e]
    BY <1>3 DEF Expand
  <2> HIDE DEF n, e
  <2>3. QED
    BY <2>1, <2>2
<1>4. QED
  BY <1>2, <1>3

ExpandsTo(f, tokens) == /\ f[0] = <<>>
                        /\ \A i \in 1 .. Len(tokens) : f[i] = f[i - 1] \o Expand(tokens[i])

LEMMA ExpandAllIs ==
  ASSUME NEW V, 0 \in V, AllOnes \in V, NEW tokens \in Seq(Token(V))
  PROVE  \E f \in [0 .. Len(tokens) -> Seq(V)] : ExpandsTo(f, tokens) /\ ExpandAll(tokens) = f[Len(tokens)]
<1> DEFINE n == Len(tokens)
           Step(f, i) == IF i = 0 THEN <<>> ELSE f[i - 1] \o Expand(tokens[i])
           Is(f) == f = [i \in 0 .. n |-> Step(f, i)]
           step == [i \in 1 .. n |-> [v \in Seq(V) |-> v \o Expand(tokens[i])]]
           upTo == CHOOSE f : Is(f)
<1>1. n \in Nat /\ \A i \in 1 .. n : Expand(tokens[i]) \in Seq(V) /\ i \in 0 .. n /\ i - 1 \in 0 .. n
  <2>1. n \in Nat /\ \A i \in 1 .. n : tokens[i] \in Token(V)
    OBVIOUS
  <2> HIDE DEF n
  <2>2. QED
    BY <2>1, ExpandIs
<1>2. ExpandAll(tokens) = upTo[n]
  BY DEF ExpandAll
<1> HIDE DEF n
<1>3. \E f : Is(f)
  <2>1. step \in [1 .. n -> [Seq(V) -> Seq(V)]]
    <3>1. ASSUME NEW i \in 1 .. n, NEW v \in Seq(V) PROVE v \o Expand(tokens[i]) \in Seq(V)
      BY <1>1, ConcatProperties
    <3>2. QED
      BY <3>1
  <2>2. PICK f \in [0 .. n -> Seq(V)] : Iterates(f, <<>>, step, n)
    <3>1. <<>> \in Seq(V)
      BY EmptySeq
    <3> HIDE DEF step
    <3>2. QED
      BY <1>1, <2>1, <3>1, IteratesExist
  <2>3. ASSUME NEW i \in 1 .. n PROVE f[i] = f[i - 1] \o Expand(tokens[i])
    <3>1. f[i] = step[i][f[i - 1]] /\ f[i - 1] \in Seq(V)
      BY <1>1, <2>2 DEF Iterates
    <3>2. QED
      BY <3>1
  <2>4. f[0] = <<>> /\ f = [i \in 0 .. n |-> f[i]]
    BY <2>2 DEF Iterates
  <2>5. ASSUME NEW i \in 0 .. n PROVE f[i] = Step(f, i)
    <3>1. CASE i = 0
      BY <2>4, <3>1
    <3>2. CASE i # 0
      <4>1. i \in 1 .. n
        BY <1>1, <3>2
      <4>2. QED
        BY <2>3, <3>2, <4>1
    <3>3. QED
      BY <3>1, <3>2
  <2> HIDE DEF Step
  <2>6. QED
    BY <2>4, <2>5
<1>4. Is(upTo)
  BY <1>3
<1> HIDE DEF upTo
<1>5. \A i \in 0 .. n : upTo[i] = Step(upTo, i)
  BY <1>4
<1>6. upTo[0] = <<>> /\ \A i \in 1 .. n : upTo[i] = upTo[i - 1] \o Expand(tokens[i])
  <2>1. upTo[0] = <<>>
    BY <1>1, <1>5
  <2>2. ASSUME NEW i \in 1 .. n PROVE upTo[i] = upTo[i - 1] \o Expand(tokens[i])
    <3>1. i \in 0 .. n /\ i # 0
      BY <1>1
    <3>2. QED
      BY <1>5, <3>1
  <2>3. QED
    BY <2>1, <2>2
<1> DEFINE Q == [i \in 0 .. n |-> Seq(V)]
<1>7. \A i \in 0 .. n : upTo[i] \in Q[i]
  <2>1. upTo[0] \in Q[0]
    BY <1>1, <1>6, EmptySeq
  <2>2. ASSUME NEW i \in 1 .. n, upTo[i - 1] \in Q[i - 1] PROVE upTo[i] \in Q[i]
    <3>1. upTo[i - 1] \in Seq(V) /\ Expand(tokens[i]) \in Seq(V)
      BY <1>1, <2>2
    <3>2. upTo[i] \in Seq(V)
      BY <1>6, <3>1, ConcatProperties
    <3>3. QED
      BY <1>1, <3>2
  <2> HIDE DEF Q
  <2>3. QED
    BY <1>1, <2>1, <2>2, IteratesStay
<1>8. upTo \in [0 .. n -> Seq(V)]
  <2>1. upTo = [i \in 0 .. n |-> upTo[i]]
    <3> HIDE DEF Step
    <3>1. QED
      BY <1>4
  <2>2. QED
    BY <1>7, <2>1
<1>9. QED
  BY <1>2, <1>6, <1>8 DEF n, ExpandsTo

LEMMA ExpandAllOfNone == ExpandAll(<<>>) = <<>>
<1> DEFINE V == {0, AllOnes}
<1>1. 0 \in V /\ AllOnes \in V
  OBVIOUS
<1> HIDE DEF V
<1>2. <<>> \in Seq(Token(V)) /\ Len(<<>>) = 0
  BY EmptySeq
<1>3. PICK f \in [0 .. Len(<<>>) -> Seq(V)] : ExpandsTo(f, <<>>) /\ ExpandAll(<<>>) = f[Len(<<>>)]
  BY <1>1, <1>2, ExpandAllIs
<1>4. QED
  BY <1>2, <1>3 DEF ExpandsTo

\* One token more.
LEMMA ExpandAllOfAppend ==
  ASSUME NEW V, 0 \in V, AllOnes \in V, NEW tokens \in Seq(Token(V)), NEW t \in Token(V)
  PROVE  ExpandAll(Append(tokens, t)) = ExpandAll(tokens) \o Expand(t)
<1> DEFINE n == Len(tokens)
           more == Append(tokens, t)
<1>1. /\ n \in Nat /\ more \in Seq(Token(V)) /\ Len(more) = n + 1
      /\ \A i \in 1 .. n : more[i] = tokens[i]
      /\ more[n + 1] = t
  BY AppendProperties
<1>2. PICK f \in [0 .. n -> Seq(V)] : ExpandsTo(f, tokens) /\ ExpandAll(tokens) = f[n]
  BY ExpandAllIs
<1> HIDE DEF more
<1>3. PICK g \in [0 .. n + 1 -> Seq(V)] : ExpandsTo(g, more) /\ ExpandAll(more) = g[n + 1]
  BY <1>1, ExpandAllIs
<1> HIDE DEF n
<1> DEFINE Q == [i \in 0 .. n |-> {f[i]}]
<1>4. \A i \in 0 .. n : g[i] \in Q[i]
  <2>1. g[0] \in Q[0]
    BY <1>1, <1>2, <1>3 DEF ExpandsTo
  <2>2. ASSUME NEW i \in 1 .. n, g[i - 1] \in Q[i - 1] PROVE g[i] \in Q[i]
    <3>1. i - 1 \in 0 .. n /\ i \in 0 .. n /\ i \in 1 .. n + 1
      BY <1>1
    <3>2. g[i - 1] = f[i - 1]
      BY <2>2, <3>1
    <3>3. g[i] = g[i - 1] \o Expand(more[i])
      BY <1>1, <1>3, <3>1 DEF ExpandsTo
    <3>4. f[i] = f[i - 1] \o Expand(tokens[i])
      BY <1>2 DEF ExpandsTo, n
    <3>5. g[i] = f[i]
      BY <1>1, <3>2, <3>3, <3>4
    <3>6. QED
      BY <3>1, <3>5
  <2> HIDE DEF Q
  <2>3. QED
    BY <1>1, <2>1, <2>2, IteratesStay
<1>5. g[n] = f[n]
  BY <1>1, <1>4
<1>6. g[n + 1] = g[n] \o Expand(t)
  <2>1. n + 1 \in 1 .. Len(more) /\ (n + 1) - 1 = n
    BY <1>1
  <2>2. QED
    BY <1>1, <1>3, <2>1 DEF ExpandsTo
<1>7. QED
  BY <1>2, <1>3, <1>5, <1>6 DEF more

LengthsTo(f, tokens) ==
  /\ f[0] = 0
  /\ \A i \in 1 .. Len(tokens) : f[i] = f[i - 1] + VarintLength(tokens[i].varint) + Len(tokens[i].bytes)

LEMMA WrittenLengthIs ==
  ASSUME NEW V, NEW tokens \in Seq(Token(V))
  PROVE  \E f \in [0 .. Len(tokens) -> Nat] : LengthsTo(f, tokens) /\ WrittenLength(tokens) = f[Len(tokens)]
<1> DEFINE n == Len(tokens)
           Step(f, i) == IF i = 0 THEN 0 ELSE f[i - 1] + VarintLength(tokens[i].varint) + Len(tokens[i].bytes)
           Is(f) == f = [i \in 0 .. n |-> Step(f, i)]
           step == [i \in 1 .. n |-> [v \in Nat |-> v + VarintLength(tokens[i].varint) + Len(tokens[i].bytes)]]
           upTo == CHOOSE f : Is(f)
<1>1. /\ n \in Nat
      /\ \A i \in 1 .. n : /\ VarintLength(tokens[i].varint) \in Nat /\ Len(tokens[i].bytes) \in Nat
                           /\ i \in 0 .. n /\ i - 1 \in 0 .. n
  <2>1. n \in Nat /\ \A i \in 1 .. n : tokens[i] \in Token(V)
    OBVIOUS
  <2> HIDE DEF n
  <2>2. \A i \in 1 .. n : tokens[i].bytes \in Seq(V)
    BY <2>1 DEF Token
  <2>3. QED
    BY <2>1, <2>2, VarintLengthIs
<1>2. WrittenLength(tokens) = upTo[n]
  BY DEF WrittenLength
<1> HIDE DEF n
<1>3. \E f : Is(f)
  <2>1. step \in [1 .. n -> [Nat -> Nat]]
    BY <1>1
  <2>2. PICK f \in [0 .. n -> Nat] : Iterates(f, 0, step, n)
    <3> HIDE DEF step
    <3>1. QED
      BY <1>1, <2>1, IteratesExist
  <2>3. ASSUME NEW i \in 1 .. n PROVE f[i] = f[i - 1] + VarintLength(tokens[i].varint) + Len(tokens[i].bytes)
    <3>1. f[i] = step[i][f[i - 1]] /\ f[i - 1] \in Nat
      BY <1>1, <2>2 DEF Iterates
    <3>2. QED
      BY <3>1
  <2>4. f[0] = 0 /\ f = [i \in 0 .. n |-> f[i]]
    BY <2>2 DEF Iterates
  <2>5. ASSUME NEW i \in 0 .. n PROVE f[i] = Step(f, i)
    <3>1. CASE i = 0
      BY <2>4, <3>1
    <3>2. CASE i # 0
      <4>1. i \in 1 .. n
        BY <1>1, <3>2
      <4>2. QED
        BY <2>3, <3>2, <4>1
    <3>3. QED
      BY <3>1, <3>2
  <2> HIDE DEF Step
  <2>6. QED
    BY <2>4, <2>5
<1>4. Is(upTo)
  BY <1>3
<1> HIDE DEF upTo
<1>5. \A i \in 0 .. n : upTo[i] = Step(upTo, i)
  BY <1>4
<1>6. /\ upTo[0] = 0
      /\ \A i \in 1 .. n : upTo[i] = upTo[i - 1] + VarintLength(tokens[i].varint) + Len(tokens[i].bytes)
  BY <1>1, <1>5
<1> DEFINE Q == [i \in 0 .. n |-> Nat]
<1>7. \A i \in 0 .. n : upTo[i] \in Q[i]
  <2>1. upTo[0] \in Q[0]
    BY <1>1, <1>6
  <2>2. ASSUME NEW i \in 1 .. n, upTo[i - 1] \in Q[i - 1] PROVE upTo[i] \in Q[i]
    <3>1. upTo[i - 1] \in Nat
      BY <1>1, <2>2
    <3>2. upTo[i] = upTo[i - 1] + VarintLength(tokens[i].varint) + Len(tokens[i].bytes)
      BY <1>6
    <3>4. upTo[i] \in Nat
      BY <1>1, <3>1, <3>2
    <3>3. QED
      BY <1>1, <3>4
  <2> HIDE DEF Q
  <2>3. QED
    BY <1>1, <2>1, <2>2, IteratesStay
<1>8. upTo \in [0 .. n -> Nat]
  <2>1. upTo = [i \in 0 .. n |-> upTo[i]]
    <3> HIDE DEF Step
    <3>1. QED
      BY <1>4
  <2>2. QED
    BY <1>7, <2>1
<1>9. QED
  BY <1>2, <1>6, <1>8 DEF n, LengthsTo

LEMMA WrittenLengthOfNone == WrittenLength(<<>>) = 0
<1>1. <<>> \in Seq(Token({})) /\ Len(<<>>) = 0
  BY EmptySeq
<1>2. QED
  BY <1>1, WrittenLengthIs DEF LengthsTo

LEMMA WrittenLengthOfAppend ==
  ASSUME NEW V, NEW tokens \in Seq(Token(V)), NEW t \in Token(V)
  PROVE  /\ WrittenLength(tokens) \in Nat
         /\ WrittenLength(Append(tokens, t)) = WrittenLength(tokens) + VarintLength(t.varint) + Len(t.bytes)
<1> DEFINE n == Len(tokens)
           more == Append(tokens, t)
<1>1. /\ n \in Nat /\ more \in Seq(Token(V)) /\ Len(more) = n + 1
      /\ \A i \in 1 .. n : more[i] = tokens[i]
      /\ more[n + 1] = t
  BY AppendProperties
<1>2. PICK f \in [0 .. n -> Nat] : LengthsTo(f, tokens) /\ WrittenLength(tokens) = f[n]
  BY WrittenLengthIs
<1> HIDE DEF more
<1>3. PICK g \in [0 .. n + 1 -> Nat] : LengthsTo(g, more) /\ WrittenLength(more) = g[n + 1]
  BY <1>1, WrittenLengthIs
<1> HIDE DEF n
<1> DEFINE Q == [i \in 0 .. n |-> {f[i]}]
<1>4. \A i \in 0 .. n : g[i] \in Q[i]
  <2>1. g[0] \in Q[0]
    BY <1>1, <1>2, <1>3 DEF LengthsTo
  <2>2. ASSUME NEW i \in 1 .. n, g[i - 1] \in Q[i - 1] PROVE g[i] \in Q[i]
    <3>1. i - 1 \in 0 .. n /\ i \in 0 .. n /\ i \in 1 .. n + 1
      BY <1>1
    <3>2. g[i - 1] = f[i - 1]
      BY <2>2, <3>1
    <3>3. g[i] = g[i - 1] + VarintLength(more[i].varint) + Len(more[i].bytes)
      BY <1>1, <1>3, <3>1 DEF LengthsTo
    <3>4. f[i] = f[i - 1] + VarintLength(tokens[i].varint) + Len(tokens[i].bytes)
      BY <1>2 DEF LengthsTo, n
    <3>5. g[i] = f[i]
      BY <1>1, <3>2, <3>3, <3>4
    <3>6. QED
      BY <3>1, <3>5
  <2> HIDE DEF Q
  <2>3. QED
    BY <1>1, <2>1, <2>2, IteratesStay
<1>5. g[n] = f[n] /\ f[n] \in Nat
  BY <1>1, <1>4
<1>6. g[n + 1] = g[n] + VarintLength(t.varint) + Len(t.bytes)
  <2>1. n + 1 \in 1 .. Len(more) /\ (n + 1) - 1 = n
    BY <1>1
  <2>2. QED
    BY <1>1, <1>3, <2>1 DEF LengthsTo
<1>7. QED
  BY <1>2, <1>3, <1>5, <1>6 DEF more

\* What the encoder has written stands for the bytes before inputOffset, which
\* is i at the most, and it has counted the length of it.
CodeStates(V) == [tokens : Seq(Token(V)), outputOffset : Nat, inputOffset : Nat]
Coded(input, s, i) ==
  /\ s.inputOffset <= i
  /\ ExpandAll(s.tokens) = SubSeq(input, 1, s.inputOffset)
  /\ s.outputOffset = WrittenLength(s.tokens)

\* The bytes that were left are written as they are.
LEMMA LiteralIs ==
  ASSUME NEW V, 0 \in V, AllOnes \in V, NEW input \in Seq(V),
         NEW s \in CodeStates(V), NEW to \in 0 .. Len(input), Coded(input, s, to)
  PROVE  LET ts == s.tokens \o Literal(input, s.inputOffset, to)
         IN /\ ts \in Seq(Token(V)) /\ ExpandAll(ts) = SubSeq(input, 1, to)
            /\ LiteralCost(to - s.inputOffset) \in Nat
            /\ WrittenLength(ts) = s.outputOffset + LiteralCost(to - s.inputOffset)
<1> DEFINE from == s.inputOffset
           t == [varint |-> 2 * (to - from), bytes |-> Slice(input, from, to)]
           ts == s.tokens \o Literal(input, from, to)
<1>1. from \in Nat /\ from <= to /\ s.tokens \in Seq(Token(V)) /\ s.outputOffset \in Nat /\ to \in Nat
  BY DEF CodeStates, Coded
<1>2. CASE from = to
  <2>1. Literal(input, from, to) = <<>> /\ LiteralCost(to - from) = 0
    BY <1>1, <1>2 DEF Literal, LiteralCost
  <2>2. ts = s.tokens
    BY <1>1, <2>1, ConcatEmptySeq
  <2>3. QED
    BY <1>1, <1>2, <2>1, <2>2 DEF Coded
<1>3. CASE from # to
  <2>1. /\ Slice(input, from, to) = SubSeq(input, from + 1, to)
        /\ SubSeq(input, from + 1, to) \in Seq(V) /\ Len(SubSeq(input, from + 1, to)) = to - from
    <3>1. from + 1 \in Int /\ to \in Int /\ \A i \in from + 1 .. to : input[i] \in V
      BY <1>1
    <3>2. QED
      BY <1>1, <1>3, <3>1, SubSeqProperties DEF Slice
  <2>2. t \in Token(V) /\ t.varint = 2 * (to - from) /\ t.bytes = SubSeq(input, from + 1, to)
    <3>1. 2 * (to - from) \in Nat /\ Slice(input, from, to) \in Seq(V)
      BY <1>1, <2>1
    <3>2. t \in Token(V)
      BY <3>1 DEF Token
    <3>3. QED
      BY <2>1, <3>2
  <2>3. Expand(t) = SubSeq(input, from + 1, to)
    <3>1. (2 * (to - from)) % 2 = 0
      BY <1>1
    <3> HIDE DEF t
    <3>2. QED
      BY <2>2, <3>1 DEF Expand
  <2>4. ts = Append(s.tokens, t)
    <3>1. Literal(input, from, to) = <<t>>
      BY <1>3 DEF Literal
    <3> HIDE DEF t
    <3>2. QED
      BY <1>1, <2>2, <3>1, AppendIsConcat
  <2> HIDE DEF t
  <2>5. ts \in Seq(Token(V))
    BY <1>1, <2>2, <2>4, AppendProperties
  <2>6. ExpandAll(ts) = SubSeq(input, 1, from) \o SubSeq(input, from + 1, to)
    BY <1>1, <2>2, <2>3, <2>4, ExpandAllOfAppend DEF Coded
  <2>7. SubSeq(input, 1, from) \o SubSeq(input, from + 1, to) = SubSeq(input, 1, to)
    <3>1. 1 \in 1 .. Len(input) + 1 /\ from \in 1 - 1 .. Len(input) /\ to \in from .. Len(input)
      BY <1>1
    <3>2. QED
      BY <3>1, ConcatAdjacentSubSeq
  <2>8. /\ LiteralCost(to - from) = VarintLength(2 * (to - from)) + (to - from)
        /\ VarintLength(2 * (to - from)) \in Nat
    BY <1>1, <1>3, VarintLengthIs DEF LiteralCost
  <2>9. WrittenLength(ts) = s.outputOffset + VarintLength(2 * (to - from)) + (to - from)
    BY <1>1, <2>1, <2>2, <2>4, WrittenLengthOfAppend DEF Coded
  <2>10. LiteralCost(to - from) \in Nat /\ WrittenLength(ts) = s.outputOffset + LiteralCost(to - from)
    <3> DEFINE v == VarintLength(2 * (to - from))
               n == to - from
    <3>1. n \in Nat /\ v \in Nat /\ LiteralCost(n) = v + n /\ WrittenLength(ts) = s.outputOffset + v + n
      BY <1>1, <2>8, <2>9
    <3> HIDE DEF v, n, ts
    <3>2. LiteralCost(n) \in Nat /\ WrittenLength(ts) = s.outputOffset + LiteralCost(n)
      BY <1>1, <3>1
    <3>3. QED
      BY <3>2 DEF n
  <2> HIDE DEF ts
  <2>11. QED
    BY <2>5, <2>6, <2>7, <2>10 DEF ts
<1>4. QED
  BY <1>2, <1>3

\* A run is written, or left.
LEMMA UpdateIs ==
  ASSUME NEW V, 0 \in V, AllOnes \in V, NEW input \in Seq(V), NEW s \in CodeStates(V),
         NEW i \in 0 .. Len(input), NEW len \in 1 .. i, Coded(input, s, i - len),
         NEW bits \in {0, AllOnes}, \A k \in i - len + 1 .. i : input[k] = bits
  PROVE  LET u == EncodeUpdate(input, s, i, len, bits) IN u \in CodeStates(V) /\ Coded(input, u, i)
<1> DEFINE start == i - len
           enc == 4 * len + (IF bits = AllOnes THEN 2 ELSE 0) + 1
           encCost == LiteralCost(start - s.inputOffset) + VarintLength(enc)
           run == [varint |-> enc, bytes |-> <<>>]
           ts == s.tokens \o Literal(input, s.inputOffset, start)
           u == [tokens |-> ts \o <<run>>, outputOffset |-> s.outputOffset + encCost, inputOffset |-> i]
<1>1. EncodeUpdate(input, s, i, len, bits) = s \/ EncodeUpdate(input, s, i, len, bits) = u
  BY DEF EncodeUpdate
<1>2. i \in Nat /\ len \in Nat /\ start \in 0 .. Len(input) /\ start \in Nat /\ start + len = i /\ i <= Len(input) /\ Len(input) \in Nat
  OBVIOUS
<1>3. s \in CodeStates(V) /\ Coded(input, s, i)
  <2>1. s.inputOffset \in Nat
    BY DEF CodeStates
  <2>2. QED
    BY <1>2, <2>1 DEF Coded
<1>4. /\ ts \in Seq(Token(V)) /\ ExpandAll(ts) = SubSeq(input, 1, start)
      /\ LiteralCost(start - s.inputOffset) \in Nat
      /\ WrittenLength(ts) = s.outputOffset + LiteralCost(start - s.inputOffset)
  <2> HIDE DEF start
  <2>1. Coded(input, s, start)
    BY DEF start
  <2>2. QED
    BY <1>2, <2>1, LiteralIs
<1>5. enc \in Nat /\ enc % 2 = 1 /\ enc \div 4 = len
      /\ (IF (enc \div 2) % 2 = 1 THEN AllOnes ELSE 0) = bits
  <2>1. CASE bits = AllOnes
    <3>1. enc = 4 * len + 3
      BY <1>2, <2>1
    <3>2. (4 * len + 3) % 2 = 1 /\ (4 * len + 3) \div 4 = len /\ ((4 * len + 3) \div 2) % 2 = 1
      BY <1>2
    <3> HIDE DEF enc
    <3>3. QED
      BY <1>2, <2>1, <3>1, <3>2
  <2>2. CASE bits # AllOnes
    <3>1. enc = 4 * len + 1 /\ bits = 0
      BY <1>2, <2>2
    <3>2. (4 * len + 1) % 2 = 1 /\ (4 * len + 1) \div 4 = len /\ ((4 * len + 1) \div 2) % 2 = 0
      BY <1>2
    <3> HIDE DEF enc
    <3>3. QED
      BY <1>2, <2>2, <3>1, <3>2
  <2>3. QED
    BY <2>1, <2>2
<1> HIDE DEF enc
<1>6. run \in Token(V) /\ run.varint = enc /\ run.bytes = <<>>
  <2>1. <<>> \in Seq(V)
    BY EmptySeq
  <2>2. QED
    BY <1>5, <2>1 DEF Token
<1> HIDE DEF run
<1>7. Expand(run) = [k \in 1 .. len |-> bits]
  BY <1>5, <1>6 DEF Expand
<1>8. [k \in 1 .. len |-> bits] = SubSeq(input, start + 1, i)
  <2> DEFINE a == [k \in 1 .. len |-> bits]
             b == SubSeq(input, start + 1, i)
  <2>1. a \in Seq(V) /\ Len(a) = len /\ \A k \in 1 .. len : a[k] = bits
    BY <1>2
  <2>2. start + 1 \in Int /\ i \in Int /\ \A k \in start + 1 .. i : input[k] \in V /\ input[k] = bits
    BY <1>2
  <2> HIDE DEF a, start
  <2>3. /\ b \in Seq(V) /\ Len(b) = len
        /\ \A k \in 1 .. i - (start + 1) + 1 : b[k] = input[start + 1 + k - 1]
    BY <1>2, <2>2, SubSeqProperties
  <2> HIDE DEF b
  <2>4. \A k \in 1 .. len : b[k] = bits
    <3>1. ASSUME NEW k \in 1 .. len PROVE b[k] = bits
      <4>1. k \in 1 .. i - (start + 1) + 1 /\ start + 1 + k - 1 \in start + 1 .. i
        BY <1>2
      <4>2. QED
        BY <2>2, <2>3, <4>1
    <3>2. QED
      BY <3>1
  <2>5. a = b
    BY <2>1, <2>3, <2>4, SeqEqual
  <2>6. QED
    BY <2>5 DEF a, b
<1> HIDE DEF start, ts
<1>9. ts \o <<run>> = Append(ts, run) /\ Append(ts, run) \in Seq(Token(V))
  BY <1>4, <1>6, AppendIsConcat, AppendProperties
<1>10. ExpandAll(Append(ts, run)) = SubSeq(input, 1, i)
  <2>1. ExpandAll(Append(ts, run)) = SubSeq(input, 1, start) \o SubSeq(input, start + 1, i)
    <3>1. ts \in Seq(Token(V)) /\ run \in Token(V)
      BY <1>4, <1>6
    <3>2. ExpandAll(Append(ts, run)) = ExpandAll(ts) \o Expand(run)
      BY <3>1, ExpandAllOfAppend
    <3>3. ExpandAll(ts) = SubSeq(input, 1, start)
      BY <1>4
    <3>4. Expand(run) = SubSeq(input, start + 1, i)
      BY <1>7, <1>8
    <3>5. QED
      BY <3>2, <3>3, <3>4
  <2>2. 1 \in 1 .. Len(input) + 1 /\ start \in 1 - 1 .. Len(input) /\ i \in start .. Len(input)
    BY <1>2
  <2>3. QED
    BY <2>1, <2>2, ConcatAdjacentSubSeq
<1>11. WrittenLength(Append(ts, run)) = s.outputOffset + encCost /\ s.outputOffset + encCost \in Nat
  <2>1. s.outputOffset \in Nat
    BY DEF CodeStates
  <2>2. WrittenLength(Append(ts, run)) = WrittenLength(ts) + VarintLength(enc) + 0
    BY <1>4, <1>6, WrittenLengthOfAppend, EmptySeq
  <2>3. VarintLength(enc) \in Nat
    BY VarintLengthIs
  <2>4. QED
    BY <1>4, <2>1, <2>2, <2>3
<1>12. u \in CodeStates(V) /\ Coded(input, u, i)
  <2> HIDE DEF encCost
  <2>1. u.tokens = Append(ts, run) /\ u.outputOffset = s.outputOffset + encCost /\ u.inputOffset = i
    BY <1>9
  <2>2. u \in CodeStates(V)
    BY <1>2, <1>9, <1>11 DEF CodeStates
  <2> HIDE DEF u
  <2>3. QED
    BY <1>2, <1>10, <1>11, <2>1, <2>2 DEF Coded
<1>13. QED
  BY <1>1, <1>3, <1>12

\* A run that is read: its bytes are those before byte i, and what was written
\* stands for no more than what is before it.
RunStates(V) == [s : CodeStates(V), len : Nat, bits : {0, AllOnes}]
RunOK(input, r, i) ==
  /\ r.len <= i /\ Coded(input, r.s, i - r.len)
  /\ \A k \in i - r.len + 1 .. i : input[k] = r.bits

LEMMA FlushIs ==
  ASSUME NEW V, 0 \in V, AllOnes \in V, NEW input \in Seq(V),
         NEW r \in RunStates(V), NEW i \in 0 .. Len(input), RunOK(input, r, i)
  PROVE  LET u == Flush(input, r, i) IN u \in CodeStates(V) /\ Coded(input, u, i)
<1>1. r.s \in CodeStates(V) /\ r.len \in Nat /\ r.bits \in {0, AllOnes} /\ i \in Nat
  BY DEF RunStates
<1>2. CASE r.len = 0
  <2>1. Flush(input, r, i) = r.s /\ i - r.len = i
    BY <1>1, <1>2 DEF Flush
  <2>2. QED
    BY <1>1, <2>1 DEF RunOK
<1>3. CASE r.len # 0
  <2>1. r.len \in 1 .. i
    BY <1>1, <1>3 DEF RunOK
  <2>2. Flush(input, r, i) = EncodeUpdate(input, r.s, i, r.len, r.bits)
    BY <1>3 DEF Flush
  <2>3. Coded(input, r.s, i - r.len) /\ \A k \in i - r.len + 1 .. i : input[k] = r.bits
    BY DEF RunOK
  <2>4. QED
    BY <1>1, <2>1, <2>2, <2>3, UpdateIs
<1>4. QED
  BY <1>2, <1>3

LEMMA ReadByteIs ==
  ASSUME NEW V, 0 \in V, AllOnes \in V, NEW input \in Seq(V),
         NEW r \in RunStates(V), NEW i \in 1 .. Len(input), RunOK(input, r, i - 1)
  PROVE  LET q == ReadByte(input, r, i - 1) IN q \in RunStates(V) /\ RunOK(input, q, i)
<1> DEFINE q == ReadByte(input, r, i - 1)
           u == Flush(input, r, i - 1)
<1>1. /\ r.s \in CodeStates(V) /\ r.len \in Nat /\ r.bits \in {0, AllOnes} /\ i \in Nat /\ i - 1 \in 0 .. Len(input)
      /\ r = [s |-> r.s, len |-> r.len, bits |-> r.bits] /\ (i - 1) + 1 = i
  BY DEF RunStates
<1>2. u \in CodeStates(V) /\ Coded(input, u, i - 1)
  BY <1>1, FlushIs
<1>3. u.inputOffset \in Nat
  BY <1>2 DEF CodeStates
<1> HIDE DEF u
<1>4. CASE input[i] = r.bits
  <2> DEFINE t == [s |-> r.s, len |-> r.len + 1, bits |-> r.bits]
  <2>1. q = [r EXCEPT !.len = r.len + 1]
    BY <1>1, <1>4 DEF ReadByte
  <2>2. q = t
    <3>1. \A x, y, z, v : [[s |-> x, len |-> y, bits |-> z] EXCEPT !.len = v] = [s |-> x, len |-> v, bits |-> z]
      OBVIOUS
    <3> HIDE DEF q
    <3>2. QED
      BY <1>1, <2>1, <3>1
  <2>3. t \in RunStates(V) /\ t.s = r.s /\ t.len = r.len + 1 /\ t.bits = r.bits
    BY <1>1 DEF RunStates
  <2> HIDE DEF q, t
  <2>4. i - t.len = (i - 1) - r.len /\ t.len <= i
    BY <1>1, <2>3 DEF RunOK
  <2>5. Coded(input, t.s, i - t.len)
    BY <2>3, <2>4 DEF RunOK
  <2>6. \A k \in i - t.len + 1 .. i : input[k] = t.bits
    <3>1. ASSUME NEW k \in i - t.len + 1 .. i PROVE input[k] = r.bits
      <4>1. k = i \/ k \in (i - 1) - r.len + 1 .. i - 1
        BY <1>1, <2>4
      <4>2. QED
        BY <1>4, <4>1 DEF RunOK
    <3>2. QED
      BY <2>3, <3>1
  <2>7. QED
    BY <2>2, <2>3, <2>4, <2>5, <2>6 DEF RunOK, q
<1>5. CASE input[i] # r.bits /\ input[i] \in {0, AllOnes}
  <2> DEFINE t == [s |-> u, len |-> 1, bits |-> input[i]]
  <2>1. q = t
    BY <1>1, <1>5 DEF ReadByte, u
  <2>2. t \in RunStates(V) /\ t.s = u /\ t.len = 1 /\ t.bits = input[i]
    BY <1>2, <1>5 DEF RunStates
  <2> HIDE DEF q, t
  <2>3. RunOK(input, t, i)
    <3>1. 1 <= i /\ \A k \in i - 1 + 1 .. i : k = i
      BY <1>1
    <3>2. QED
      BY <1>2, <2>2, <3>1 DEF RunOK
  <2>4. QED
    BY <2>1, <2>2, <2>3 DEF q
<1>6. CASE input[i] # r.bits /\ input[i] \notin {0, AllOnes}
  <2> DEFINE t == [s |-> u, len |-> 0, bits |-> r.bits]
  <2>1. q = t
    BY <1>1, <1>6 DEF ReadByte, u
  <2>2. t \in RunStates(V) /\ t.s = u /\ t.len = 0 /\ t.bits = r.bits
    BY <1>1, <1>2 DEF RunStates
  <2> HIDE DEF q, t
  <2>3. RunOK(input, t, i)
    <3>1. 0 <= i /\ i - 0 = i /\ \A k \in i + 1 .. i : FALSE
      BY <1>1
    <3>2. Coded(input, u, i)
      BY <1>1, <1>2, <1>3 DEF Coded
    <3>3. QED
      BY <2>2, <3>1, <3>2 DEF RunOK
  <2>4. QED
    BY <2>1, <2>2, <2>3 DEF q
<1>7. QED
  BY <1>4, <1>5, <1>6

\* The bytes are read one after the other.
LEMMA AllBytesAreRead ==
  ASSUME NEW V, 0 \in V, AllOnes \in V, NEW input \in Seq(V)
  PROVE  \E r \in RunStates(V) : /\ RunOK(input, r, Len(input))
                                 /\ Rle(input) = EncodeFinal(input, Flush(input, r, Len(input)))
<1> DEFINE n == Len(input)
           W == RunStates(V)
           Step(f, i) == IF i = 0 THEN StartState ELSE ReadByte(input, f[i - 1], i - 1)
           Is(f) == f = [i \in 0 .. n |-> Step(f, i)]
           next(i, r) == IF RunOK(input, r, i - 1) THEN ReadByte(input, r, i - 1) ELSE r
           step == [i \in 1 .. n |-> [r \in W |-> next(i, r)]]
           Q == [i \in 0 .. n |-> {r \in W : RunOK(input, r, i)}]
           upTo == CHOOSE f : Is(f)
<1>1. n \in Nat /\ \A i \in 1 .. n : i \in 0 .. n /\ i - 1 \in 0 .. n
  OBVIOUS
<1>2. Rle(input) = EncodeFinal(input, Flush(input, upTo[n], n))
  BY DEF Rle
<1>3. StartState \in W /\ RunOK(input, StartState, 0)
  <2> DEFINE s0 == [tokens |-> <<>>, outputOffset |-> 0, inputOffset |-> 0]
  <2>1. s0 \in CodeStates(V)
    <3>1. <<>> \in Seq(Token(V))
      BY EmptySeq
    <3>2. QED
      BY <3>1 DEF CodeStates
  <2>2. Coded(input, s0, 0)
    <3>1. SubSeq(input, 1, 0) = <<>>
      BY SubSeqEmpty
    <3>2. s0.tokens = <<>> /\ s0.outputOffset = 0 /\ s0.inputOffset = 0
      OBVIOUS
    <3> HIDE DEF s0
    <3>3. ExpandAll(s0.tokens) = <<>> /\ WrittenLength(s0.tokens) = 0
      BY <3>2, ExpandAllOfNone, WrittenLengthOfNone
    <3>4. SubSeq(input, 1, s0.inputOffset) = <<>> /\ s0.inputOffset <= 0
      BY <3>1, <3>2
    <3>5. QED
      BY <3>2, <3>3, <3>4 DEF Coded
  <2> HIDE DEF s0
  <2>3. StartState = [s |-> s0, len |-> 0, bits |-> 0]
    BY DEF StartState, s0
  <2>4. QED
    BY <2>1, <2>2, <2>3 DEF RunStates, RunOK
<1>4. \A i \in 1 .. n : \A r \in W : RunOK(input, r, i - 1) =>
        ReadByte(input, r, i - 1) \in W /\ RunOK(input, ReadByte(input, r, i - 1), i)
  BY ReadByteIs
<1> HIDE DEF n, W
<1>5. \E f : Is(f)
  <2>1. step \in [1 .. n -> [W -> W]]
    BY <1>4
  <2>2. PICK f \in [0 .. n -> W] : Iterates(f, StartState, step, n)
    <3> HIDE DEF step
    <3>1. QED
      BY <1>1, <1>3, <2>1, IteratesExist
  <2>3. \A i \in 1 .. n : f[i] = next(i, f[i - 1]) /\ f[i - 1] \in W
    <3>1. ASSUME NEW i \in 1 .. n PROVE f[i] = next(i, f[i - 1]) /\ f[i - 1] \in W
      <4>1. f[i] = step[i][f[i - 1]] /\ f[i - 1] \in W
        BY <1>1, <2>2 DEF Iterates
      <4> HIDE DEF next
      <4>2. QED
        BY <4>1
    <3>2. QED
      BY <3>1
  <2>4. f[0] = StartState /\ f = [i \in 0 .. n |-> f[i]]
    BY <2>2 DEF Iterates
  <2>5. \A i \in 0 .. n : f[i] \in Q[i]
    <3>1. f[0] \in Q[0]
      BY <1>1, <1>3, <2>4
    <3>2. ASSUME NEW i \in 1 .. n, f[i - 1] \in Q[i - 1] PROVE f[i] \in Q[i]
      <4>1. RunOK(input, f[i - 1], i - 1) /\ f[i - 1] \in W
        BY <1>1, <3>2
      <4>2. f[i] = ReadByte(input, f[i - 1], i - 1)
        BY <2>3, <4>1
      <4>3. f[i] \in W /\ RunOK(input, f[i], i)
        BY <1>4, <4>1, <4>2
      <4>4. QED
        BY <1>1, <4>3
    <3> HIDE DEF Q
    <3>3. QED
      BY <1>1, <3>1, <3>2, IteratesStay
  <2>6. ASSUME NEW i \in 0 .. n PROVE f[i] = Step(f, i)
    <3>1. CASE i = 0
      BY <2>4, <3>1
    <3>2. CASE i # 0
      <4>1. i \in 1 .. n /\ i - 1 \in 0 .. n
        BY <1>1, <3>2
      <4>2. RunOK(input, f[i - 1], i - 1)
        BY <2>5, <4>1
      <4>3. f[i] = ReadByte(input, f[i - 1], i - 1)
        BY <2>3, <4>1, <4>2
      <4>4. QED
        BY <3>2, <4>3
    <3>3. QED
      BY <3>1, <3>2
  <2> HIDE DEF Step
  <2>7. QED
    BY <2>4, <2>6
<1>6. Is(upTo)
  BY <1>5
<1> HIDE DEF upTo
<1>7. \A i \in 0 .. n : upTo[i] = Step(upTo, i)
  BY <1>6
<1>8. \A i \in 0 .. n : upTo[i] \in Q[i]
  <2>1. upTo[0] \in Q[0]
    BY <1>1, <1>3, <1>7
  <2>2. ASSUME NEW i \in 1 .. n, upTo[i - 1] \in Q[i - 1] PROVE upTo[i] \in Q[i]
    <3>1. i \in 0 .. n /\ i - 1 \in 0 .. n /\ i # 0
      BY <1>1
    <3>2. RunOK(input, upTo[i - 1], i - 1) /\ upTo[i - 1] \in W
      BY <2>2, <3>1
    <3>3. upTo[i] = ReadByte(input, upTo[i - 1], i - 1)
      BY <1>7, <3>1
    <3>4. upTo[i] \in W /\ RunOK(input, upTo[i], i)
      BY <1>4, <3>2, <3>3
    <3>5. QED
      BY <3>1, <3>4
  <2> HIDE DEF Q
  <2>3. QED
    BY <1>1, <2>1, <2>2, IteratesStay
<1>9. upTo[n] \in W /\ RunOK(input, upTo[n], n)
  BY <1>1, <1>8
<1>10. QED
  BY <1>2, <1>9 DEF n, W

\* bitfield-rle.js: what encode() writes stands for the bytes it was given, and
\* is as long as encodingLength() says.
LEMMA EncodedIs ==
  ASSUME NEW V, 0 \in V, AllOnes \in V, NEW input \in Seq(V)
  PROVE  ExpandAll(Encode(input)) = input /\ EncodingLength(input) = WrittenLength(Encode(input))
<1> DEFINE n == Len(input)
<1>1. PICK r \in RunStates(V) : /\ RunOK(input, r, n)
                                /\ Rle(input) = EncodeFinal(input, Flush(input, r, n))
  BY AllBytesAreRead
<1> DEFINE s == Flush(input, r, n)
           ts == s.tokens \o Literal(input, s.inputOffset, n)
<1>2. n \in 0 .. Len(input)
  OBVIOUS
<1>3. s \in CodeStates(V) /\ Coded(input, s, n)
  BY <1>1, <1>2, FlushIs
<1>4. Encode(input) = ts /\ EncodingLength(input) = s.outputOffset + LiteralCost(n - s.inputOffset)
  <2>1. /\ EncodeFinal(input, s).tokens = s.tokens \o Literal(input, s.inputOffset, Len(input))
        /\ EncodeFinal(input, s).outputOffset = s.outputOffset + LiteralCost(Len(input) - s.inputOffset)
    <3> HIDE DEF s
    <3>1. QED
      BY DEF EncodeFinal
  <2>2. Rle(input) = EncodeFinal(input, s)
    BY <1>1
  <2> HIDE DEF s
  <2>3. QED
    BY <2>1, <2>2 DEF Encode, EncodingLength
<1> HIDE DEF s
<1>5. ExpandAll(ts) = SubSeq(input, 1, n) /\ WrittenLength(ts) = s.outputOffset + LiteralCost(n - s.inputOffset)
  BY <1>2, <1>3, LiteralIs
<1>6. SubSeq(input, 1, n) = input
  BY SubSeqFull
<1>7. QED
  BY <1>4, <1>5, <1>6

LEMMA DecodedIs ==
  ASSUME NEW V, 0 \in V, AllOnes \in V, NEW input \in Seq(V),
         NEW n \in Nat, Len(input) = n * BytesPerWord
  PROVE  Decode(Encode(input)) = input
<1>1. BytesPerWord \in Nat \ {0}
  BY Sizes
<1>2. (- Len(input)) % BytesPerWord = 0
  <2>1. - n \in Int /\ 0 \in 0 .. BytesPerWord - 1
    BY <1>1
  <2>2. ((- n) * BytesPerWord + 0) % BytesPerWord = 0
    BY <1>1, <2>1, PlaceIsUnique
  <2>3. \A x, y \in Nat : (- x) * y + 0 = - (x * y)
    OBVIOUS
  <2>4. QED
    BY <1>1, <2>2, <2>3
<1> DEFINE padding == [k \in 1 .. (- Len(input)) % BytesPerWord |-> 0]
<1>3. Decode(Encode(input)) = input \o padding
  BY EncodedIs DEF Decode
<1>4. padding = <<>>
  BY <1>2
<1> HIDE DEF padding
<1>5. QED
  BY <1>3, <1>4, ConcatEmptySeq

\* Pages, and what RoundTrip says of them and of any bitfield.
LEMMA CodingIsRight == PagesAreCoded
<1> SUFFICES ASSUME NEW bits \in SUBSET (0 .. BitsPerPage - 1)
             PROVE  /\ Decode(Encode(BytesOf(bits))) = BytesOf(bits)
                    /\ BitsOfBytes(BytesOf(bits)) = bits
  BY DEF PagesAreCoded
<1> DEFINE V == {0, AllOnes} \cup {ByteOf(bits, k - 1) : k \in 1 .. BytesPerPage}
           bytes == BytesOf(bits)
<1>1. 0 \in V /\ AllOnes \in V
  OBVIOUS
<1>2. BytesPerPage \in Nat
  BY PageIsWhole
<1>3. bytes \in Seq(V) /\ Len(bytes) = BytesPerPage
  <2>1. bytes \in [1 .. BytesPerPage -> V]
    BY DEF BytesOf
  <2> HIDE DEF bytes, V
  <2>2. QED
    BY <1>2, <2>1
<1> HIDE DEF bytes, V
<1>4. \E n \in Nat : BytesPerPage = n * BytesPerWord
  <2> DEFINE n == BitsPerPage \div BitsPerWord
  <2>1. BitsPerPage \in Nat /\ BitsPerWord \in Nat \ {0} /\ BitsPerPage % BitsPerWord = 0
    BY Sizes, BitfieldsAssumption
  <2>2. n \in Nat /\ BitsPerPage = n * BitsPerWord
    <3>1. BitsPerPage = n * BitsPerWord + 0 /\ n \in Nat
      BY <2>1, Divided
    <3> HIDE DEF n
    <3>2. n * BitsPerWord \in Nat
      BY <2>1, <3>1
    <3>3. QED
      BY <3>1, <3>2
  <2> HIDE DEF n
  <2>3. BitsPerByte \in Nat \ {0} /\ BytesPerWord \in Nat \ {0} /\ BitsPerWord = BitsPerByte * BytesPerWord
    BY Sizes DEF BitsPerWord
  <2>4. \A x, y, z \in Nat : x * (y * z) = (x * z) * y
    OBVIOUS
  <2>5. BytesPerPage * BitsPerByte = (n * BytesPerWord) * BitsPerByte
    BY <2>2, <2>3, <2>4, PageIsWhole
  <2>6. \A x, y \in Nat, z \in Nat \ {0} : x * z = y * z => x = y
    OBVIOUS
  <2>7. n * BytesPerWord \in Nat
    BY <2>2, <2>3
  <2>8. QED
    BY <1>2, <2>2, <2>3, <2>5, <2>6, <2>7
<1>5. Decode(Encode(bytes)) = bytes
  BY <1>1, <1>3, <1>4, DecodedIs
<1>6. QED
  BY <1>5, PageIsRead DEF bytes

\* bitfield-rle.js: what is decoded is what was encoded, for bitfields of any
\* number of words, and the buffer has the length that was computed for it.
THEOREM CodingIsExact ==
  \A input \in Seq(Bytes) :
    /\ Len(input) % BytesPerWord = 0 => Decode(Encode(input)) = input
    /\ EncodingLength(input) = WrittenLength(Encode(input))
<1> SUFFICES ASSUME NEW input \in Seq(Bytes)
             PROVE  /\ Len(input) % BytesPerWord = 0 => Decode(Encode(input)) = input
                    /\ EncodingLength(input) = WrittenLength(Encode(input))
  OBVIOUS
<1>1. 0 \in Bytes /\ AllOnes \in Bytes
  <2>1. BitsPerByte \in 0 .. BitsPerByte
    BY Sizes
  <2>2. AllOnes \in Nat
    BY <2>1, PowerIs DEF AllOnes
  <2>3. QED
    BY <2>2 DEF Bytes
<1>2. EncodingLength(input) = WrittenLength(Encode(input))
  BY <1>1, EncodedIs
<1>3. ASSUME Len(input) % BytesPerWord = 0 PROVE Decode(Encode(input)) = input
  <2> DEFINE n == Len(input) \div BytesPerWord
  <2>1. Len(input) \in Nat /\ BytesPerWord \in Nat \ {0}
    BY Sizes
  <2>2. Len(input) = n * BytesPerWord + 0 /\ n \in Nat
    BY <1>3, <2>1, Divided
  <2> HIDE DEF n
  <2>3. n * BytesPerWord \in Nat
    BY <2>1, <2>2
  <2>4. Len(input) = n * BytesPerWord
    BY <2>2, <2>3
  <2>5. QED
    BY <1>1, <2>2, <2>4, DecodedIs
<1>4. QED
  BY <1>2, <1>3

\* And so of what the run tries.
THEOREM RoundTripHolds == StateSpec => []RoundTrip
<1>1. RoundTrip
  <2>1. ASSUME NEW n \in 0 .. 2 * (BytesPerPage \div BytesPerWord),
               NEW input \in [1 .. n * BytesPerWord -> {0, 1, AllOnes}]
        PROVE  /\ Decode(Encode(input)) = input
               /\ EncodingLength(input) = WrittenLength(Encode(input))
    <3> DEFINE V == {0, 1, AllOnes}
    <3>1. n \in Nat /\ n * BytesPerWord \in Nat
      <4>1. n \in Nat /\ BytesPerWord \in Nat
        BY Sizes
      <4>2. QED
        BY <4>1
    <3>2. 0 \in V /\ AllOnes \in V
      OBVIOUS
    <3> HIDE DEF V
    <3>3. input \in Seq(V) /\ Len(input) = n * BytesPerWord
      BY <3>1 DEF V
    <3>4. QED
      BY <3>1, <3>2, <3>3, DecodedIs, EncodedIs
  <2>2. QED
    BY <2>1, CodingIsRight DEF RoundTrip
<1>2. QED
  BY <1>1, PTL

-----------------------------------------------------------------------------
\* A message replaces the page it is of.
LEMMA MessageIsInserted ==
  ASSUME NEW bits \in SUBSET (0 .. BitsPerPage - 1), NEW i \in Nat,
         NEW b, IsBitfield(b), Indexed(b)
  PROVE  HasPage(Insert(b, i * BitsPerPage, Decode(Encode(BytesOf(bits)))), b, i, bits)
<1> DEFINE bytes == BytesOf(bits)
<1>1. Decode(Encode(bytes)) = bytes /\ BitsOfBytes(bytes) = bits
  BY CodingIsRight DEF PagesAreCoded
<1>2. Len(bytes) = BytesPerPage /\ \E V : bytes \in Seq(V)
  BY BytesAreSeq
<1> HIDE DEF bytes
<1>3. Insert(b, i * BitsPerPage, bytes) = InsertInPage(b, i, 0, bytes)
  BY <1>2, InsertIs
<1>4. HasPage(InsertInPage(b, i, 0, bytes), b, i, BitsOfBytes(bytes))
  <2>1. BitsOfBytes(bytes) \subseteq 0 .. BitsPerPage - 1
    BY <1>1
  <2>2. QED
    BY <1>2, <2>1, PageIsInserted
<1>5. QED
  BY <1>1, <1>3, <1>4 DEF bytes

-----------------------------------------------------------------------------
(***************************************************************************)
(* The sync state of a namespace.                                          *)
(***************************************************************************)
\* Of a state that is cached and is not about to be dropped: if no core was
\* attached or became ready since, it is what would be derived now, with the
\* peers blocked that were then.
CacheOK ==
  \/ cached = None \/ ticking
  \/ /\ cached.attached \subseteq attached /\ cached.opened \subseteq opened
     /\ <<cached.attached, cached.opened>> = <<attached, opened>>
          => cached.state = DerivedWithout(cached.blocked)

\* A message of a peer is of one of the pages it has.
MessagesOK ==
  \A p \in Others : \A k \in DOMAIN channel[p] :
    LET m == channel[p][k]
    IN \E i \in 0 .. PagesOf(store[p][m.core]) - 1 : m.start = i * BitsPerPage

IsOf(m, c, i) == m.core = c /\ m.start = i * BitsPerPage

\* The last message of a page, or if there is none on the way the page itself,
\* is as the writer of the core has it.
PageArrives(p, c, i) ==
  LET bits == PageBits(store[p][c].blocks, i)
      told == \E k \in DOMAIN channel[p] :
                /\ channel[p][k] = Message(c, store[p][c].blocks, i)
                /\ \A l \in DOMAIN channel[p] : l > k => ~ IsOf(channel[p][l], c, i)
      untold == \A l \in DOMAIN channel[p] : ~ IsOf(channel[p][l], c, i)
  IN \/ told
     \/ /\ untold
        /\ p \in DOMAIN peerStates[c]
        /\ i \in DOMAIN peerStates[c][p].preHaves.pages
        /\ peerStates[c][p].preHaves.pages[i] = bits

PagesArrive ==
  \A p \in online, c \in Cores :
    Writer[c] = p /\ c \notin Range(toSend[p])
      => \A i \in 0 .. PagesOf(store[p][c]) - 1 : PageArrives(p, c, i)

\* What is known of a peer lies in the pages it has, and below the length.
PreHavesOK ==
  \A c \in Cores : \A p \in DOMAIN peerStates[c] :
    LET b == peerStates[c][p].preHaves
    IN /\ DOMAIN b.pages \subseteq 0 .. PagesOf(store[p][c]) - 1
       /\ BitsOf(b) \subseteq 0 .. preHavesLength[c] - 1
       /\ Indexed(b)


\* The types that hold whatever the coding of pages does.
StoreTypes == store \in [Others \cup {Local} -> [Cores -> Stores]]

TransportTypes ==
  /\ online \subseteq Others
  /\ toSend \in [Others -> Seq(Cores)] /\ channel \in [Others -> Seq(HaveMessage)]
  /\ \A p \in Others \ online : toSend[p] = <<>> /\ channel[p] = <<>>

CoreTypes ==
  /\ order \in Seq(Cores) /\ \A i, j \in DOMAIN order : order[i] = order[j] => i = j
  /\ opened \subseteq attached /\ attached \subseteq Known

PeersTypes ==
  /\ peerStates = [c \in Cores |-> [p \in DOMAIN peerStates[c] |-> peerStates[c][p]]]
  /\ \A c \in Cores : /\ DOMAIN peerStates[c] \subseteq online
                      /\ DOMAIN peerStates[c] # {} => c \in Known
  /\ corePeers \in [Cores -> SUBSET Others]
  /\ \A c \in Cores : corePeers[c] \subseteq DOMAIN peerStates[c]

StateTypes ==
  /\ StoreTypes /\ TransportTypes /\ CoreTypes /\ PeersTypes
  /\ blocked \subseteq Others /\ ticking \in BOOLEAN

PeerStatesOK ==
  /\ preHavesLength \in [Cores -> Nat]
  /\ \A c \in Cores : \A p \in DOMAIN peerStates[c] : IsPeerState(peerStates[c][p])

CacheInv == StateTypes /\ CacheOK

PagesInv == MessagesOK /\ PagesArrive /\ PeerStatesOK /\ PreHavesOK

-----------------------------------------------------------------------------
\* Of the states qs of the peers, that of p at the core c is s, and the others
\* are as in ps.
IsPut(ps, qs, c, p, s) ==
  /\ qs = [d \in Cores |-> [q \in DOMAIN qs[d] |-> qs[d][q]]]
  /\ DOMAIN qs[c] = DOMAIN ps[c] \cup {p} /\ qs[c][p] = s
  /\ \A q \in DOMAIN ps[c] \ {p} : qs[c][q] = ps[c][q]
  /\ \A d \in Cores \ {c} : qs[d] = ps[d]

LEMMA PutIs ==
  ASSUME NEW c \in Cores, NEW p, NEW s, NEW qs,
         peerStates = [d \in Cores |-> [q \in DOMAIN peerStates[d] |-> peerStates[d][q]]],
         qs = [peerStates EXCEPT ![c] = With(c, p, s)]
  PROVE  IsPut(peerStates, qs, c, p, s)
<1> DEFINE w == With(c, p, s)
<1>1. /\ DOMAIN w = DOMAIN peerStates[c] \cup {p} /\ w[p] = s
      /\ \A q \in DOMAIN peerStates[c] \ {p} : w[q] = peerStates[c][q]
      /\ w = [q \in DOMAIN w |-> w[q]]
  BY DEF With
<1> HIDE DEF w
<1>2. qs = [d \in Cores |-> IF d = c THEN w ELSE peerStates[d]]
  <2>1. DOMAIN peerStates = Cores
    OBVIOUS
  <2>2. qs = [d \in DOMAIN peerStates |-> IF d = c THEN w ELSE peerStates[d]]
    BY DEF w
  <2>3. QED
    BY <2>1, <2>2
<1>3. qs[c] = w /\ \A d \in Cores \ {c} : qs[d] = peerStates[d]
  BY <1>2
<1>4. \A d \in Cores : peerStates[d] = [q \in DOMAIN peerStates[d] |-> peerStates[d][q]]
  OBVIOUS
<1>5. \A d \in Cores : qs[d] = [q \in DOMAIN qs[d] |-> qs[d][q]]
  BY <1>1, <1>3, <1>4
<1>6. qs = [d \in Cores |-> [q \in DOMAIN qs[d] |-> qs[d][q]]]
  BY <1>2, <1>5
<1>7. QED
  BY <1>1, <1>3, <1>6 DEF IsPut

\* So it is where a field of a state is set.
LEMMA SetIsPut ==
  ASSUME NEW c \in Cores, NEW p \in DOMAIN peerStates[c], NEW s, NEW qs,
         peerStates = [d \in Cores |-> [q \in DOMAIN peerStates[d] |-> peerStates[d][q]]],
         qs = [peerStates EXCEPT ![c][p] = s]
  PROVE  IsPut(peerStates, qs, c, p, s)
<1>1. [peerStates[c] EXCEPT ![p] = s] = With(c, p, s)
  <2>1. DOMAIN peerStates[c] \cup {p} = DOMAIN peerStates[c]
    OBVIOUS
  <2>2. [peerStates[c] EXCEPT ![p] = s] = [q \in DOMAIN peerStates[c] |-> IF q = p THEN s ELSE peerStates[c][q]]
    OBVIOUS
  <2>3. QED
    BY <2>1, <2>2 DEF With
<1>2. qs = [peerStates EXCEPT ![c] = With(c, p, s)]
  BY <1>1
<1>3. QED
  BY <1>2, PutIs

-----------------------------------------------------------------------------
\* The steps keep the types, one group of variables after the other.
LEMMA InitHasStateTypes ==
  ASSUME StateInit
  PROVE  StateTypes
<1>1. StoreTypes
  BY SyncStateAssumption DEF StateInit, StoreTypes
<1>2. TransportTypes
  BY DEF StateInit, TransportTypes
<1>3. IsFiniteSet(attached) /\ attached \subseteq Cores
  BY SyncStateAssumption, FS_Subset DEF StateInit
<1>4. order \in Seq(attached) /\ Range(order) = attached /\ \A i, j \in DOMAIN order : order[i] = order[j] => i = j
  BY <1>3, SetToSeqIs DEF StateInit
<1>5. CoreTypes
  BY <1>3, <1>4 DEF StateInit, CoreTypes, Known
<1>6. PeersTypes
  BY DEF StateInit, PeersTypes
<1>7. QED
  BY <1>1, <1>2, <1>5, <1>6 DEF StateInit, StateTypes

\* A device that gets blocks, or loses some.
LEMMA StorePut ==
  ASSUME StoreTypes, NEW d \in Others \cup {Local}, NEW c \in Cores, NEW s \in Stores, NEW t,
         t = [store EXCEPT ![d][c] = s]
  PROVE  /\ t \in [Others \cup {Local} -> [Cores -> Stores]]
         /\ t[d][c] = s
         /\ \A e \in Others \cup {Local}, k \in Cores : <<e, k>> # <<d, c>> => t[e][k] = store[e][k]
         /\ \A e \in Others \cup {Local} : e # d => t[e] = store[e]
BY DEF StoreTypes

LEMMA StoreIs ==
  ASSUME NEW s \in Stores
  PROVE  /\ s.blocks \in SUBSET Nat /\ s.length \in 0 .. MaxLength /\ s.length \in Nat
         /\ s.blocks \subseteq 0 .. s.length - 1
         /\ \A x : [s EXCEPT !.blocks = x] = [blocks |-> x, length |-> s.length]
         /\ \A x : [s EXCEPT !.length = x] = [blocks |-> s.blocks, length |-> x]
<1>1. MaxLength \in Nat
  BY SyncStateAssumption
<1>2. s \in [blocks : SUBSET Nat, length : 0 .. MaxLength] /\ s.blocks \subseteq 0 .. s.length - 1
  BY DEF Stores
<1>3. QED
  BY <1>1, <1>2

LEMMA IsStore ==
  ASSUME NEW n \in 0 .. MaxLength, NEW held \in SUBSET (0 .. n - 1)
  PROVE  [blocks |-> held, length |-> n] \in Stores
<1>1. MaxLength \in Nat
  BY SyncStateAssumption
<1>2. held \in SUBSET Nat
  BY <1>1
<1>3. QED
  BY <1>2 DEF Stores

\* What this device then has of a core.
LEMMA LocalGets ==
  ASSUME StoreTypes, NEW c \in Cores,
         \/ \E p \in Others : Upgrade(c, p) \/ \E b : OnDownload(c, p, b)
         \/ OnAppend(c)
  PROVE  \E s \in Stores : /\ store' = [store EXCEPT ![Local][c] = s]
                           /\ store[Local][c].length <= s.length
<1> DEFINE old == store[Local][c]
           n == old.length
<1>1. old \in Stores /\ (\A p \in Others : store[p][c] \in Stores) /\ MaxLength \in Nat
  BY SyncStateAssumption DEF StoreTypes
<1>2. /\ n \in 0 .. MaxLength /\ n \in Nat
      /\ old.blocks \subseteq 0 .. n - 1
  BY <1>1, StoreIs
<1>3. ASSUME NEW p \in Others, Upgrade(c, p)
      PROVE  \E s \in Stores : store' = [store EXCEPT ![Local][c] = s] /\ n <= s.length
  <2> DEFINE m == store[p][c].length
             s == [blocks |-> old.blocks, length |-> m]
  <2>0. m \in 0 .. MaxLength /\ m \in Nat
    BY <1>1, StoreIs
  <2>1. m > n /\ store' = [store EXCEPT ![Local][c] = [old EXCEPT !.length = m]]
    BY <1>3 DEF Upgrade
  <2>2. old.blocks \in SUBSET (0 .. m - 1)
    BY <1>2, <2>0, <2>1
  <2>3. s \in Stores
    BY <2>0, <2>2, IsStore
  <2>4. [old EXCEPT !.length = m] = s
    BY <1>1, StoreIs
  <2>5. n <= s.length /\ store' = [store EXCEPT ![Local][c] = s]
    <3>1. store' = [store EXCEPT ![Local][c] = s]
      BY <2>1, <2>4, Zenon
    <3>2. n <= s.length
      BY <1>2, <2>0, <2>1
    <3>3. QED
      BY <3>1, <3>2
  <2> HIDE DEF s
  <2>6. QED
    BY <2>3, <2>5
<1>4. ASSUME NEW p \in Others, NEW b, OnDownload(c, p, b)
      PROVE  \E s \in Stores : store' = [store EXCEPT ![Local][c] = s] /\ n <= s.length
  <2> DEFINE s == [blocks |-> old.blocks \cup {b}, length |-> n]
  <2>1. b \in 0 .. n - 1 /\ store' = [store EXCEPT ![Local][c] = [old EXCEPT !.blocks = old.blocks \cup {b}]]
    BY <1>4 DEF OnDownload
  <2>2. old.blocks \cup {b} \in SUBSET (0 .. n - 1)
    BY <1>2, <2>1
  <2>3. s \in Stores
    BY <1>2, <2>2, IsStore
  <2>4. [old EXCEPT !.blocks = old.blocks \cup {b}] = s
    BY <1>1, StoreIs
  <2>5. n <= s.length /\ store' = [store EXCEPT ![Local][c] = s]
    <3>1. store' = [store EXCEPT ![Local][c] = s]
      BY <2>1, <2>4, Zenon
    <3>2. n <= s.length
      BY <1>2, <2>1
    <3>3. QED
      BY <3>1, <3>2
  <2> HIDE DEF s
  <2>6. QED
    BY <2>3, <2>5
<1>5. CASE OnAppend(c)
  <2> DEFINE s == [blocks |-> old.blocks \cup {n}, length |-> n + 1]
  <2>1. n < MaxLength /\ store' = [store EXCEPT ![Local][c] = s]
    BY <1>5 DEF OnAppend, Appended
  <2>2. n + 1 \in 0 .. MaxLength /\ old.blocks \cup {n} \in SUBSET (0 .. (n + 1) - 1)
    BY <1>1, <1>2, <2>1
  <2>3. s \in Stores
    BY <2>2, IsStore
  <2>4. n <= s.length /\ store' = [store EXCEPT ![Local][c] = s]
    BY <1>2, <2>1
  <2> HIDE DEF s
  <2>5. QED
    BY <2>3, <2>4
<1>6. QED
  BY <1>3, <1>4, <1>5

\* What another device then has.
LEMMA OtherGets ==
  ASSUME StoreTypes, NEW c \in Cores, NEW p \in Others,
         PeerAppends(p, c) \/ \E b : PeerClears(p, c, b) \/ PeerGets(p, c, b)
  PROVE  \E s \in Stores : /\ store' = [store EXCEPT ![p][c] = s]
                           /\ store[p][c].length <= s.length
<1> DEFINE old == store[p][c]
           n == old.length
<1>1. old \in Stores /\ MaxLength \in Nat
  BY SyncStateAssumption DEF StoreTypes
<1>2. n \in 0 .. MaxLength /\ n \in Nat /\ old.blocks \subseteq 0 .. n - 1
  BY <1>1, StoreIs
<1>3. CASE PeerAppends(p, c)
  <2> DEFINE s == [blocks |-> old.blocks \cup {n}, length |-> n + 1]
  <2>1. n < MaxLength /\ store' = [store EXCEPT ![p][c] = s]
    BY <1>3 DEF PeerAppends, Appended
  <2>2. n + 1 \in 0 .. MaxLength /\ old.blocks \cup {n} \in SUBSET (0 .. (n + 1) - 1)
    BY <1>1, <1>2, <2>1
  <2>3. s \in Stores
    BY <2>2, IsStore
  <2>4. n <= s.length /\ store' = [store EXCEPT ![p][c] = s]
    BY <1>2, <2>1
  <2> HIDE DEF s
  <2>5. QED
    BY <2>3, <2>4
<1>4. ASSUME NEW b, PeerClears(p, c, b)
      PROVE  \E s \in Stores : store' = [store EXCEPT ![p][c] = s] /\ n <= s.length
  <2> DEFINE s == [blocks |-> old.blocks \ {b}, length |-> n]
  <2>1. store' = [store EXCEPT ![p][c] = [old EXCEPT !.blocks = old.blocks \ {b}]]
    BY <1>4 DEF PeerClears
  <2>2. old.blocks \ {b} \in SUBSET (0 .. n - 1)
    BY <1>2
  <2>3. s \in Stores
    BY <1>2, <2>2, IsStore
  <2>4. [old EXCEPT !.blocks = old.blocks \ {b}] = s
    BY <1>1, StoreIs
  <2>5. n <= s.length /\ store' = [store EXCEPT ![p][c] = s]
    <3>1. store' = [store EXCEPT ![p][c] = s]
      BY <2>1, <2>4, Zenon
    <3>2. n <= s.length
      BY <1>2, <2>1
    <3>3. QED
      BY <3>1, <3>2
  <2> HIDE DEF s
  <2>6. QED
    BY <2>3, <2>5
<1>5. ASSUME NEW b, PeerGets(p, c, b)
      PROVE  \E s \in Stores : store' = [store EXCEPT ![p][c] = s] /\ n <= s.length
  <2> DEFINE m == Max({n, b + 1})
             s == [blocks |-> old.blocks \cup {b}, length |-> m]
  <2>1. store' = [store EXCEPT ![p][c] = s]
    BY <1>5 DEF PeerGets
  <2>0. b \in 0 .. MaxLength - 1
    <3>1. Writer[c] \in Others \cup {Local} /\ b \in store[Writer[c]][c].blocks
      BY <1>5, SyncStateAssumption DEF PeerGets
    <3>2. store[Writer[c]][c] \in Stores
      BY <3>1 DEF StoreTypes
    <3>3. store[Writer[c]][c].length \in 0 .. MaxLength /\ b \in 0 .. store[Writer[c]][c].length - 1
      BY <3>1, <3>2, StoreIs
    <3>4. QED
      BY <1>1, <3>3
  <2>2. m \in {n, b + 1} /\ n <= m /\ b + 1 <= m
    <3>1. {n, b + 1} \in SUBSET Int /\ {n, b + 1} # {} /\ MaxLength \in Int /\ \A x \in {n, b + 1} : x <= MaxLength
      BY <1>1, <1>2, <2>0
    <3>2. m \in {n, b + 1} /\ \A x \in {n, b + 1} : x <= m
      BY <3>1, MaxIs, Zenon
    <3>3. QED
      BY <1>2, <2>0, <3>2
  <2> HIDE DEF m
  <2>3. m \in 0 .. MaxLength /\ old.blocks \cup {b} \in SUBSET (0 .. m - 1)
    BY <1>1, <1>2, <2>0, <2>2
  <2>4. s \in Stores
    BY <2>3, IsStore
  <2>5. n <= s.length /\ store' = [store EXCEPT ![p][c] = s]
    BY <2>1, <2>2
  <2> HIDE DEF s
  <2>6. QED
    BY <2>4, <2>5
<1>6. QED
  BY <1>3, <1>4, <1>5

LocalSteps == \E c \in Cores : \/ \E p \in Others : Upgrade(c, p) \/ \E b : OnDownload(c, p, b)
                               \/ OnAppend(c)
OtherSteps(p) == \E c \in Cores : PeerAppends(p, c) \/ \E b : PeerClears(p, c, b) \/ PeerGets(p, c, b)

\* What the steps change, variable by variable.
LEMMA StepsChange ==
  ASSUME StateNext
  PROVE  /\ \/ LocalSteps \/ \E p \in Others : OtherSteps(p)
            \/ UNCHANGED store
         /\ \/ \E p \in Others : \/ Connect(p) \/ SendHaves(p) \/ HandleHaveMessage(p) \/ DisconnectPeer(p)
                                 \/ OtherSteps(p)
            \/ UNCHANGED transport
         /\ \/ \E p \in Others : HandleHaveMessage(p)
            \/ \E c \in Cores : AttachCore(c) \/ Ready(c)
            \/ UNCHANGED <<attached, opened, order>>
         /\ \/ \E p \in Others : Connect(p) \/ HandleHaveMessage(p) \/ DisconnectPeer(p)
            \/ \E c \in Cores, p \in Others :
                 OnPeerAdd(c, p) \/ CoreUpdated(c, p) \/ OnBitfield(c, p) \/ OnPeerRemove(c, p)
            \/ UNCHANGED <<online, peerStates, corePeers>>
         /\ (\E p \in Others : HandleHaveMessage(p)) \/ UNCHANGED preHavesLength
<1>1. CASE GetNamespaceState
  BY <1>1 DEF GetNamespaceState, transport, cores
<1>2. CASE HandleUpdate
  BY <1>2 DEF HandleUpdate, transport, cores
<1>3. CASE \E p \in Others : Connect(p)
  BY <1>3 DEF Connect
<1>4. CASE \E p \in Others : SendHaves(p)
  BY <1>4 DEF SendHaves, cores
<1>6. CASE \E p \in Others : DisconnectPeer(p)
  BY <1>6 DEF DisconnectPeer
<1>7. CASE \E p \in Others : SetCapability(p)
  BY <1>7 DEF SetCapability, transport, cores
<1>9. CASE \E c \in Cores : Ready(c)
  BY <1>9 DEF Ready, transport
<1>10. CASE \E c \in Cores, p \in Others : OnPeerAdd(c, p) \/ CoreUpdated(c, p) \/ OnBitfield(c, p) \/ OnPeerRemove(c, p)
  <2>1. UNCHANGED transport /\ UNCHANGED <<store, attached, opened, order, preHavesLength>>
    <3> PICK c \in Cores, p \in Others :
               OnPeerAdd(c, p) \/ CoreUpdated(c, p) \/ OnBitfield(c, p) \/ OnPeerRemove(c, p)
      BY <1>10
    <3>1. CASE OnPeerAdd(c, p)
      BY <3>1 DEF OnPeerAdd, transport
    <3>2. CASE CoreUpdated(c, p)
      BY <3>2 DEF CoreUpdated, transport
    <3>3. CASE OnBitfield(c, p)
      BY <3>3 DEF OnBitfield, transport
    <3>4. CASE OnPeerRemove(c, p)
      BY <3>4 DEF OnPeerRemove, transport
    <3>5. QED
      BY <3>1, <3>2, <3>3, <3>4
  <2>2. QED
    BY <1>10, <2>1
<1>11. CASE LocalSteps
  BY <1>11 DEF LocalSteps, Upgrade, OnDownload, OnAppend, transport, cores
<1>12. CASE \E p \in Others : OtherSteps(p)
  <2>1. UNCHANGED <<cores, peerStates, corePeers, online>>
    <3>1. PICK p \in Others, c \in Cores :
            PeerAppends(p, c) \/ \E b : PeerClears(p, c, b) \/ PeerGets(p, c, b)
      BY <1>12 DEF OtherSteps
    <3>2. CASE PeerAppends(p, c)
      BY <3>2 DEF PeerAppends, cores
    <3>3. CASE \E b : PeerClears(p, c, b)
      BY <3>3 DEF PeerClears, cores
    <3>4. CASE \E b : PeerGets(p, c, b)
      BY <3>4 DEF PeerGets, cores, transport
    <3>5. QED
      BY <3>1, <3>2, <3>3, <3>4
  <2>2. UNCHANGED <<attached, opened, order, preHavesLength>>
    BY <2>1 DEF cores
  <2>3. QED
    BY <1>12, <2>1, <2>2
<1>5. CASE \E p \in Others : HandleHaveMessage(p)
  BY <1>5 DEF HandleHaveMessage
<1>8. CASE \E c \in Cores : AttachCore(c)
  BY <1>8 DEF AttachCore, transport
<1>13. QED
  BY <1>1, <1>2, <1>3, <1>4, <1>5, <1>6, <1>7, <1>8, <1>9, <1>10, <1>11, <1>12
  DEF StateNext, LocalSteps, OtherSteps

LEMMA StepKeepsStore ==
  ASSUME StateTypes, StateNext
  PROVE  StoreTypes'
<1>1. ASSUME NEW d \in Others \cup {Local}, NEW c \in Cores, NEW s \in Stores, store' = [store EXCEPT ![d][c] = s]
      PROVE  StoreTypes'
  BY <1>1, StorePut DEF StateTypes, StoreTypes
<1>2. CASE LocalSteps
  <2>1. PICK c \in Cores : \E s \in Stores : store' = [store EXCEPT ![Local][c] = s]
    BY <1>2, LocalGets DEF StateTypes, LocalSteps
  <2>2. QED
    BY <1>1, <2>1
<1>3. CASE \E p \in Others : OtherSteps(p)
  <2>1. PICK p \in Others, c \in Cores : \E s \in Stores : store' = [store EXCEPT ![p][c] = s]
    BY <1>3, OtherGets DEF StateTypes, OtherSteps
  <2>2. QED
    BY <1>1, <2>1
<1>4. CASE UNCHANGED store
  BY <1>4 DEF StateTypes, StoreTypes
<1>5. QED
  BY <1>2, <1>3, <1>4, StepsChange

\* The messages of a peer are of the pages of what it has.
LEMMA MessageHasType ==
  ASSUME NEW c \in Cores, NEW held, NEW i \in Nat
  PROVE  Message(c, held, i) \in HaveMessage
<1>1. PageBits(held, i) \in SUBSET (0 .. BitsPerPage - 1)
  BY DEF PageBits
<1>2. i * BitsPerPage \in Nat
  BY Sizes
<1>3. QED
  BY <1>1, <1>2 DEF Message, HaveMessage

LEMMA StepKeepsTransport ==
  ASSUME StateTypes, StateNext
  PROVE  TransportTypes'
<1>1. ASSUME NEW p \in Others, Connect(p) PROVE TransportTypes'
  <2>1. SetToSeq(Cores) \in Seq(Cores)
    BY SetToSeqIs, SyncStateAssumption
  <2>2. QED
    BY <1>1, <2>1 DEF Connect, StateTypes, TransportTypes
<1>2. ASSUME NEW p \in Others, SendHaves(p) PROVE TransportTypes'
  <2> DEFINE c == Head(toSend[p])
             s == store[p][c]
             n == PagesOf(s)
             sent == [k \in 1 .. n |-> Message(c, s.blocks, k - 1)]
  <2>1. toSend[p] \in Seq(Cores) /\ toSend[p] # <<>>
    BY <1>2 DEF SendHaves, StateTypes, TransportTypes
  <2>2. c \in Cores /\ Tail(toSend[p]) \in Seq(Cores) /\ p \in online
    BY <2>1 DEF StateTypes, TransportTypes
  <2>3. n \in Nat
    BY <2>2, PagesAre DEF StateTypes, StoreTypes
  <2>4. \A k \in 1 .. n : Message(c, s.blocks, k - 1) \in HaveMessage
    <3>1. \A k \in 1 .. n : k - 1 \in Nat
      BY <2>3
    <3>2. QED
      BY <2>2, <3>1, MessageHasType
  <2>5. sent \in Seq(HaveMessage)
    BY <2>3, <2>4
  <2>6. /\ toSend' = [toSend EXCEPT ![p] = Tail(toSend[p])]
        /\ channel' = [channel EXCEPT ![p] = channel[p] \o sent]
        /\ online' = online
    BY <1>2 DEF SendHaves
  <2> HIDE DEF sent, c
  <2>7. channel[p] \o sent \in Seq(HaveMessage)
    BY <2>5 DEF StateTypes, TransportTypes
  <2>8. QED
    BY <2>2, <2>6, <2>7 DEF StateTypes, TransportTypes
<1>3. ASSUME NEW p \in Others, HandleHaveMessage(p) PROVE TransportTypes'
  <2>1. channel[p] \in Seq(HaveMessage) /\ channel[p] # <<>>
    BY <1>3 DEF HandleHaveMessage, StateTypes, TransportTypes
  <2>2. Tail(channel[p]) \in Seq(HaveMessage) /\ p \in online
    BY <2>1 DEF StateTypes, TransportTypes
  <2>3. channel' = [channel EXCEPT ![p] = Tail(channel[p])] /\ toSend' = toSend /\ online' = online
    BY <1>3 DEF HandleHaveMessage
  <2>4. QED
    BY <2>2, <2>3 DEF StateTypes, TransportTypes
<1>4. ASSUME NEW p \in Others, DisconnectPeer(p) PROVE TransportTypes'
  BY <1>4 DEF DisconnectPeer, StateTypes, TransportTypes
<1>5. ASSUME NEW p \in Others, OtherSteps(p) PROVE TransportTypes'
  <2>1. online' = online /\ channel' = channel
    BY <1>5 DEF OtherSteps, PeerAppends, PeerClears, PeerGets, transport
  <2>2. PICK c \in Cores : Resend(p, c) \/ toSend' = toSend
    BY <1>5 DEF OtherSteps, PeerAppends, PeerClears, PeerGets, transport
  <2>3. \/ toSend' = toSend
        \/ p \in online /\ toSend' = [toSend EXCEPT ![p] = Append(toSend[p], c)]
    BY <2>2 DEF Resend
  <2>4. Append(toSend[p], c) \in Seq(Cores)
    BY DEF StateTypes, TransportTypes
  <2>5. QED
    BY <2>1, <2>3, <2>4 DEF StateTypes, TransportTypes
<1>6. CASE UNCHANGED transport
  BY <1>6 DEF transport, StateTypes, TransportTypes
<1>7. QED
  BY <1>1, <1>2, <1>3, <1>4, <1>5, <1>6, StepsChange

\* A core that a message tells of, or that is attached, has a state.
LEMMA StateIsAdded ==
  ASSUME CoreTypes, NEW c \in Cores, AddState(c)
  PROVE  /\ order' \in Seq(Cores) /\ \A i, j \in DOMAIN order' : order'[i] = order'[j] => i = j
         /\ Known' = Known \cup {c}
<1>1. CASE c \in Known
  BY <1>1 DEF AddState, CoreTypes, Known
<1>2. CASE c \notin Known
  <2>1. order' = Append(order, c) /\ order \in Seq(Cores) /\ Len(order) \in Nat
    BY <1>2 DEF AddState, CoreTypes
  <2>2. /\ DOMAIN order = 1 .. Len(order) /\ DOMAIN order' = 1 .. Len(order) + 1
        /\ \A i \in DOMAIN order : order'[i] = order[i]
        /\ order'[Len(order) + 1] = c
    BY <2>1
  <2>3. \A i \in DOMAIN order : order[i] # c
    BY <1>2 DEF Known, Range
  <2>4. \A i \in DOMAIN order' : i \in DOMAIN order \/ i = Len(order) + 1
    BY <2>1, <2>2
  <2>5. \A i, j \in DOMAIN order' : order'[i] = order'[j] => i = j
    BY <2>2, <2>3, <2>4 DEF CoreTypes
  <2>6. Known' = Known \cup {c}
    <3>1. DOMAIN order' = DOMAIN order \cup {Len(order) + 1}
      BY <2>1, <2>2
    <3>2. QED
      BY <2>2, <3>1 DEF Known, Range
  <2>7. QED
    BY <2>1, <2>5, <2>6
<1>3. QED
  BY <1>1, <1>2

LEMMA StepKeepsCores ==
  ASSUME StateTypes, StateNext
  PROVE  CoreTypes' /\ Known \subseteq Known'
<1>1. ASSUME NEW p \in Others, HandleHaveMessage(p) PROVE CoreTypes' /\ Known \subseteq Known'
  <2>1. channel[p] \in Seq(HaveMessage) /\ channel[p] # <<>>
    BY <1>1 DEF HandleHaveMessage, StateTypes, TransportTypes
  <2>2. Head(channel[p]).core \in Cores
    <3>1. Head(channel[p]) \in HaveMessage
      BY <2>1
    <3>2. QED
      BY <3>1 DEF HaveMessage
  <2>3. AddState(Head(channel[p]).core) /\ attached' = attached /\ opened' = opened
    BY <1>1 DEF HandleHaveMessage
  <2>4. QED
    BY <2>2, <2>3, StateIsAdded DEF StateTypes, CoreTypes
<1>2. ASSUME NEW c \in Cores, AttachCore(c) PROVE CoreTypes' /\ Known \subseteq Known'
  <2>1. AddState(c) /\ attached' = attached \cup {c} /\ opened' = opened
    BY <1>2 DEF AttachCore
  <2>2. QED
    BY <2>1, StateIsAdded DEF StateTypes, CoreTypes
<1>3. ASSUME NEW c \in Cores, Ready(c) PROVE CoreTypes' /\ Known \subseteq Known'
  BY <1>3 DEF Ready, StateTypes, CoreTypes, Known
<1>4. CASE UNCHANGED <<attached, opened, order>>
  BY <1>4 DEF StateTypes, CoreTypes, Known
<1>5. QED
  BY <1>1, <1>2, <1>3, <1>4, StepsChange

\* A state of a peer of which fields are set.
IsRecord(r) == r = [preHaves |-> r.preHaves, haves |-> r.haves, status |-> r.status, updating |-> r.updating]

LEMMA FieldsAreSet ==
  ASSUME NEW r, IsRecord(r), NEW x
  PROVE  /\ [r EXCEPT !.haves = x] = [preHaves |-> r.preHaves, haves |-> x, status |-> r.status, updating |-> r.updating]
         /\ [r EXCEPT !.status = x] = [preHaves |-> r.preHaves, haves |-> r.haves, status |-> x, updating |-> r.updating]
         /\ [r EXCEPT !.updating = x] = [preHaves |-> r.preHaves, haves |-> r.haves, status |-> r.status, updating |-> x]
         /\ [r EXCEPT !.preHaves = x] = [preHaves |-> x, haves |-> r.haves, status |-> r.status, updating |-> r.updating]
<1>1. r = [preHaves |-> r.preHaves, haves |-> r.haves, status |-> r.status, updating |-> r.updating]
  BY DEF IsRecord
<1>2. \A a, b, c, d :
        /\ [[preHaves |-> a, haves |-> b, status |-> c, updating |-> d] EXCEPT !.haves = x]
             = [preHaves |-> a, haves |-> x, status |-> c, updating |-> d]
        /\ [[preHaves |-> a, haves |-> b, status |-> c, updating |-> d] EXCEPT !.status = x]
             = [preHaves |-> a, haves |-> b, status |-> x, updating |-> d]
        /\ [[preHaves |-> a, haves |-> b, status |-> c, updating |-> d] EXCEPT !.updating = x]
             = [preHaves |-> a, haves |-> b, status |-> c, updating |-> x]
        /\ [[preHaves |-> a, haves |-> b, status |-> c, updating |-> d] EXCEPT !.preHaves = x]
             = [preHaves |-> x, haves |-> b, status |-> c, updating |-> d]
  OBVIOUS
<1>3. QED
  BY <1>1, <1>2

Begun(r, x, y, z) == [r EXCEPT !.status = x, !.updating = y, !.haves = z]
Over(r, x, y) == [r EXCEPT !.updating = y, !.status = x]

LEMMA SeveralAreSet ==
  ASSUME NEW r, IsRecord(r), NEW x, NEW y, NEW z
  PROVE  /\ Begun(r, x, y, z) = [preHaves |-> r.preHaves, haves |-> z, status |-> x, updating |-> y]
         /\ Over(r, x, y) = [preHaves |-> r.preHaves, haves |-> r.haves, status |-> x, updating |-> y]
<1>1. /\ [r EXCEPT !.status = x, !.updating = y, !.haves = z]
           = [[[r EXCEPT !.status = x] EXCEPT !.updating = y] EXCEPT !.haves = z]
      /\ [r EXCEPT !.updating = y, !.status = x] = [[r EXCEPT !.updating = y] EXCEPT !.status = x]
  BY Zenon
<1> DEFINE a == [r EXCEPT !.status = x]
           b == [a EXCEPT !.updating = y]
           c == [r EXCEPT !.updating = y]
<1>2. a = [preHaves |-> r.preHaves, haves |-> r.haves, status |-> x, updating |-> r.updating]
  BY FieldsAreSet
<1>3. c = [preHaves |-> r.preHaves, haves |-> r.haves, status |-> r.status, updating |-> y]
  BY FieldsAreSet
<1> HIDE DEF a
<1>4. IsRecord(a) /\ a.preHaves = r.preHaves /\ a.haves = r.haves /\ a.status = x
  BY <1>2 DEF IsRecord
<1>5. b = [preHaves |-> r.preHaves, haves |-> r.haves, status |-> x, updating |-> y]
  <2>1. b = [preHaves |-> a.preHaves, haves |-> a.haves, status |-> a.status, updating |-> y]
    BY <1>4, FieldsAreSet
  <2>2. QED
    BY <1>4, <2>1
<1> HIDE DEF b, c
<1>6. IsRecord(b) /\ IsRecord(c)
  BY <1>3, <1>5 DEF IsRecord
<1>7. /\ [b EXCEPT !.haves = z] = [preHaves |-> b.preHaves, haves |-> z, status |-> b.status, updating |-> b.updating]
      /\ [c EXCEPT !.status = x] = [preHaves |-> c.preHaves, haves |-> c.haves, status |-> x, updating |-> c.updating]
  BY <1>6, FieldsAreSet
<1>8. QED
  BY <1>1, <1>3, <1>5, <1>7 DEF a, b, c, Begun, Over

LEMMA IsState ==
  ASSUME NEW b, IsBitfield(b), NEW h \in SUBSET Nat, NEW s \in Statuses, NEW n \in Nat
  PROVE  IsPeerState([preHaves |-> b, haves |-> h, status |-> s, updating |-> n])
BY DEF IsPeerState

LEMMA NewIsState == IsPeerState(NewPeerState) /\ Indexed(NewBitfield) /\ BitsOf(NewBitfield) = {}
<1>1. IsBitfield(NewBitfield) /\ BitsOf(NewBitfield) = {}
  BY DEF IsBitfield, NewBitfield, BitsOf
<1>2. QED
  BY <1>1 DEF IsPeerState, NewPeerState, Statuses, Indexed

\* The states of the peers after a step: that of one peer at one core is set ...
LEMMA StateIsPut ==
  ASSUME StateTypes, NEW c \in Cores, NEW p \in Others,
         OnPeerAdd(c, p) \/ CoreUpdated(c, p) \/ OnBitfield(c, p) \/ OnPeerRemove(c, p)
  PROVE  /\ p \in online /\ c \in Known
         /\ corePeers' \in [Cores -> SUBSET Others]
         /\ \A d \in Cores : corePeers'[d] \subseteq corePeers[d] \cup (IF d = c THEN {p} ELSE {})
         /\ \E s : /\ IsPut(peerStates, peerStates', c, p, s)
                   /\ IsPeerState(PeerStateOf(c, p)) =>
                        IsPeerState(s) /\ s.preHaves = PeerStateOf(c, p).preHaves
<1> USE DEF StateTypes
<1>1. CASE OnPeerAdd(c, p)
  <2> DEFINE r == PeerStateOf(c, p)
             s == Begun(r, "starting", r.updating + 1, {})
  <2>1. IsPut(peerStates, peerStates', c, p, s)
    BY <1>1, PutIs DEF OnPeerAdd, PeersTypes, Begun
  <2> HIDE DEF r
  <2>2. ASSUME IsPeerState(r) PROVE IsPeerState(s) /\ s.preHaves = r.preHaves
    <3>1. /\ r = [preHaves |-> r.preHaves, haves |-> r.haves, status |-> r.status, updating |-> r.updating]
          /\ IsBitfield(r.preHaves) /\ r.updating + 1 \in Nat
      BY <2>2 DEF IsPeerState
    <3>2. s = [preHaves |-> r.preHaves, haves |-> {}, status |-> "starting", updating |-> r.updating + 1]
      <4>1. IsRecord(r)
        BY <3>1 DEF IsRecord
      <4>2. QED
        BY <4>1, SeveralAreSet
    <3>3. QED
      BY <3>1, <3>2, IsState DEF Statuses
  <2> HIDE DEF s
  <2>3. /\ p \in online /\ c \in Known
        /\ corePeers' = [corePeers EXCEPT ![c] = corePeers[c] \cup {p}]
    BY <1>1 DEF OnPeerAdd, CoreTypes
  <2>4. QED
    BY <2>1, <2>2, <2>3 DEF PeersTypes, r
<1>2. ASSUME p \in DOMAIN peerStates[c] PROVE p \in online /\ c \in Known /\ PeerStateOf(c, p) = peerStates[c][p]
  BY <1>2 DEF PeersTypes, PeerStateOf
<1>3. CASE CoreUpdated(c, p)
  <2> DEFINE r == peerStates[c][p]
             s == Over(r, "started", r.updating - 1)
  <2>1. p \in DOMAIN peerStates[c] /\ corePeers' = corePeers
    BY <1>3 DEF CoreUpdated
  <2>2. peerStates' = [peerStates EXCEPT ![c][p] = s]
    BY <1>3, <2>1 DEF CoreUpdated, PeersTypes, Over
  <2>3. IsPut(peerStates, peerStates', c, p, s)
    BY <2>1, <2>2, SetIsPut DEF PeersTypes
  <2>4. r.updating > 0
    BY <1>3 DEF CoreUpdated
  <2> HIDE DEF r
  <2>5. ASSUME IsPeerState(r) PROVE IsPeerState(s) /\ s.preHaves = r.preHaves
    <3>1. /\ r = [preHaves |-> r.preHaves, haves |-> r.haves, status |-> r.status, updating |-> r.updating]
          /\ IsBitfield(r.preHaves) /\ r.updating - 1 \in Nat /\ r.haves \in SUBSET Nat
      BY <2>4, <2>5 DEF IsPeerState
    <3>2. s = [preHaves |-> r.preHaves, haves |-> r.haves, status |-> "started", updating |-> r.updating - 1]
      <4>1. IsRecord(r)
        BY <3>1 DEF IsRecord
      <4>2. QED
        BY <4>1, SeveralAreSet
    <3>3. QED
      BY <3>1, <3>2, IsState DEF Statuses
  <2> HIDE DEF s
  <2>6. QED
    BY <1>2, <2>1, <2>3, <2>5 DEF PeersTypes, r
<1>4. CASE OnBitfield(c, p)
  <2> DEFINE r == peerStates[c][p]
             h == store[p][c].blocks
             s == [r EXCEPT !.haves = h]
  <2>1. p \in DOMAIN peerStates[c] /\ corePeers' = corePeers
    BY <1>4 DEF OnBitfield, PeersTypes
  <2>2. peerStates' = [peerStates EXCEPT ![c][p] = s]
    BY <1>4, <2>1 DEF OnBitfield, PeersTypes
  <2>3. IsPut(peerStates, peerStates', c, p, s)
    BY <2>1, <2>2, SetIsPut DEF PeersTypes
  <2>4. h \in SUBSET Nat
    BY StoreIs DEF StoreTypes
  <2> HIDE DEF r, h
  <2>5. ASSUME IsPeerState(r) PROVE IsPeerState(s) /\ s.preHaves = r.preHaves
    <3>1. s = [preHaves |-> r.preHaves, haves |-> h, status |-> r.status, updating |-> r.updating]
      BY <2>5, FieldsAreSet DEF IsPeerState, IsRecord
    <3>2. IsPeerState([preHaves |-> r.preHaves, haves |-> h, status |-> r.status, updating |-> r.updating])
      BY <2>4, <2>5, IsState DEF IsPeerState
    <3>3. QED
      BY <3>1, <3>2
  <2> HIDE DEF s
  <2>6. QED
    BY <1>2, <2>1, <2>3, <2>5 DEF PeersTypes, r
<1>5. CASE OnPeerRemove(c, p)
  <2> DEFINE r == peerStates[c][p]
             s == [r EXCEPT !.status = "stopped"]
  <2>1. p \in DOMAIN peerStates[c] /\ corePeers' = [corePeers EXCEPT ![c] = corePeers[c] \ {p}]
    BY <1>5 DEF OnPeerRemove, PeersTypes
  <2>2. peerStates' = [peerStates EXCEPT ![c][p] = s]
    BY <1>5, <2>1 DEF OnPeerRemove, PeersTypes
  <2>3. IsPut(peerStates, peerStates', c, p, s)
    BY <2>1, <2>2, SetIsPut DEF PeersTypes
  <2> HIDE DEF r
  <2>5. ASSUME IsPeerState(r) PROVE IsPeerState(s) /\ s.preHaves = r.preHaves
    <3>1. s = [preHaves |-> r.preHaves, haves |-> r.haves, status |-> "stopped", updating |-> r.updating]
      BY <2>5, FieldsAreSet DEF IsPeerState, IsRecord
    <3>2. IsPeerState([preHaves |-> r.preHaves, haves |-> r.haves, status |-> "stopped", updating |-> r.updating])
      BY <2>5, IsState DEF IsPeerState, Statuses
    <3>3. QED
      BY <3>1, <3>2
  <2> HIDE DEF s
  <2>6. QED
    BY <1>2, <2>1, <2>3, <2>5 DEF PeersTypes, r
<1>6. QED
  BY <1>1, <1>3, <1>4, <1>5

\* ... as it is where a message is handled ...
HeadOf(p) == Head(channel[p])
Told(p) == Insert(PeerStateOf(HeadOf(p).core, p).preHaves, HeadOf(p).start, Decode(HeadOf(p).tokens))

LEMMA MessageIsPut ==
  ASSUME StateTypes, NEW p \in Others, HandleHaveMessage(p)
  PROVE  /\ HeadOf(p) \in HaveMessage /\ HeadOf(p).core \in Cores /\ p \in online
         /\ Known' = Known \cup {HeadOf(p).core}
         /\ IsPut(peerStates, peerStates', HeadOf(p).core, p,
                  [PeerStateOf(HeadOf(p).core, p) EXCEPT !.preHaves = Told(p)])
<1>1. channel[p] \in Seq(HaveMessage) /\ channel[p] # <<>>
  BY DEF HandleHaveMessage, StateTypes, TransportTypes
<1>2. HeadOf(p) \in HaveMessage /\ p \in online
  BY <1>1 DEF HeadOf, StateTypes, TransportTypes
<1>3. HeadOf(p).core \in Cores
  BY <1>2 DEF HaveMessage
<1>4. AddState(HeadOf(p).core) /\ InsertPreHaves(HeadOf(p).core, p, HeadOf(p).start, Decode(HeadOf(p).tokens))
  BY DEF HandleHaveMessage, HeadOf
<1>5. peerStates' = [peerStates EXCEPT ![HeadOf(p).core] = With(HeadOf(p).core, p,
                       [PeerStateOf(HeadOf(p).core, p) EXCEPT !.preHaves = Told(p)])]
  BY <1>4 DEF InsertPreHaves, Told
<1>6. Known' = Known \cup {HeadOf(p).core}
  BY <1>3, <1>4, StateIsAdded DEF StateTypes
<1>7. QED
  BY <1>2, <1>3, <1>5, <1>6, PutIs DEF StateTypes, PeersTypes

\* ... where a peer connects ...
LEMMA PeerIsAdded ==
  ASSUME StateTypes, NEW p \in Others, Connect(p)
  PROVE  /\ peerStates' = [c \in Cores |-> [q \in DOMAIN peerStates'[c] |-> peerStates'[c][q]]]
         /\ \A c \in Cores :
              /\ DOMAIN peerStates'[c] = DOMAIN peerStates[c] \cup (IF c \in Known THEN {p} ELSE {})
              /\ \A q \in DOMAIN peerStates[c] : peerStates'[c][q] = peerStates[c][q]
              /\ \A q \in DOMAIN peerStates'[c] \ DOMAIN peerStates[c] : q = p /\ peerStates'[c][q] = NewPeerState
         /\ ticking' \/ (ticking' = ticking /\ peerStates' = peerStates)
<1> DEFINE new == {c \in Known : p \notin DOMAIN peerStates[c]}
           w(c) == [q \in DOMAIN peerStates[c] \cup {p} |-> IF q = p THEN NewPeerState ELSE peerStates[c][q]]
<1>1. /\ peerStates' = [c \in Cores |-> IF c \in new THEN w(c) ELSE peerStates[c]]
      /\ ticking' = (ticking \/ new # {})
  BY DEF Connect, AddPeer, With
<1>2. peerStates = [c \in Cores |-> [q \in DOMAIN peerStates[c] |-> peerStates[c][q]]]
  BY DEF StateTypes, PeersTypes
<1>3. ASSUME NEW c \in Cores
      PROVE  /\ peerStates'[c] = [q \in DOMAIN peerStates'[c] |-> peerStates'[c][q]]
             /\ DOMAIN peerStates'[c] = DOMAIN peerStates[c] \cup (IF c \in Known THEN {p} ELSE {})
             /\ \A q \in DOMAIN peerStates[c] : peerStates'[c][q] = peerStates[c][q]
             /\ \A q \in DOMAIN peerStates'[c] \ DOMAIN peerStates[c] : q = p /\ peerStates'[c][q] = NewPeerState
  <2>1. CASE c \in new
    <3>1. peerStates'[c] = w(c) /\ c \in Known /\ p \notin DOMAIN peerStates[c]
      BY <1>1, <2>1
    <3>2. QED
      BY <3>1
  <2>2. CASE c \notin new
    <3>1. peerStates'[c] = peerStates[c] /\ (c \in Known => p \in DOMAIN peerStates[c])
      BY <1>1, <2>2
    <3>2. peerStates[c] = [q \in DOMAIN peerStates[c] |-> peerStates[c][q]]
      BY <1>2
    <3>3. QED
      BY <3>1, <3>2
  <2>3. QED
    BY <2>1, <2>2
<1>4. \A c \in Cores : peerStates'[c] = [q \in DOMAIN peerStates'[c] |-> peerStates'[c][q]]
  BY <1>3
<1>5. peerStates' = [c \in Cores |-> [q \in DOMAIN peerStates'[c] |-> peerStates'[c][q]]]
  <2>1. peerStates' = [c \in Cores |-> peerStates'[c]]
    BY <1>1
  <2>2. QED
    BY <1>4, <2>1
<1>6. ticking' \/ (ticking' = ticking /\ peerStates' = peerStates)
  <2>1. CASE new = {}
    <3>1. peerStates' = [c \in Cores |-> peerStates[c]]
      BY <1>1, <2>1
    <3>2. peerStates = [c \in Cores |-> peerStates[c]]
      BY <1>2
    <3>3. QED
      BY <1>1, <2>1, <3>1, <3>2 DEF StateTypes
  <2>2. CASE new # {}
    <3> HIDE DEF new
    <3>1. QED
      BY <1>1, <2>2, Zenon
  <2>3. QED
    BY <2>1, <2>2, Zenon
<1>7. QED
  BY <1>3, <1>5, <1>6

\* ... and where one goes.
LEMMA PeerIsRemoved ==
  ASSUME StateTypes, NEW p \in Others, DisconnectPeer(p)
  PROVE  /\ peerStates' = [c \in Cores |-> [q \in DOMAIN peerStates'[c] |-> peerStates'[c][q]]]
         /\ \A c \in Cores : /\ DOMAIN peerStates'[c] = DOMAIN peerStates[c] \ {p}
                             /\ \A q \in DOMAIN peerStates'[c] : peerStates'[c][q] = peerStates[c][q]
         /\ ticking' \/ (ticking' = ticking /\ peerStates' = peerStates)
<1> DEFINE w(c) == [q \in DOMAIN peerStates[c] \ {p} |-> peerStates[c][q]]
<1>1. /\ peerStates' = [c \in Cores |-> w(c)]
      /\ ticking' = (ticking \/ \E c \in Cores : p \in DOMAIN peerStates[c])
  BY DEF DisconnectPeer, Without
<1>2. \A c \in Cores : /\ peerStates'[c] = w(c) /\ DOMAIN peerStates'[c] = DOMAIN peerStates[c] \ {p}
                       /\ \A q \in DOMAIN peerStates'[c] : peerStates'[c][q] = peerStates[c][q]
  BY <1>1
<1>3. peerStates' = [c \in Cores |-> [q \in DOMAIN peerStates'[c] |-> peerStates'[c][q]]]
  <2>1. \A c \in Cores : w(c) = [q \in DOMAIN peerStates'[c] |-> peerStates'[c][q]]
    BY <1>2
  <2>2. QED
    BY <1>1, <2>1
<1>4. CASE ~ \E c \in Cores : p \in DOMAIN peerStates[c]
  <2>1. \A c \in Cores : w(c) = [q \in DOMAIN peerStates[c] |-> peerStates[c][q]]
    BY <1>4
  <2>2. peerStates' = [c \in Cores |-> [q \in DOMAIN peerStates[c] |-> peerStates[c][q]]]
    BY <1>1, <2>1
  <2>3. peerStates' = peerStates /\ ticking' = ticking
    BY <1>1, <1>4, <2>2 DEF StateTypes, PeersTypes
  <2>4. ticking' \/ (ticking' = ticking /\ peerStates' = peerStates)
    BY <2>3, Zenon
  <2>5. QED
    BY <1>2, <1>3, <2>4, Zenon
<1>5. CASE \E c \in Cores : p \in DOMAIN peerStates[c]
  BY <1>1, <1>2, <1>3, <1>5, Zenon
<1>6. QED
  BY <1>4, <1>5, Zenon

LEMMA PutKeepsPeers ==
  ASSUME StateTypes, NEW c \in Cores, NEW p \in Others, NEW s, IsPut(peerStates, peerStates', c, p, s),
         p \in online, online' = online, c \in Known', Known \subseteq Known',
         corePeers' \in [Cores -> SUBSET Others],
         \A d \in Cores : corePeers'[d] \subseteq corePeers[d] \cup (IF d = c THEN {p} ELSE {})
  PROVE  PeersTypes'
<1>1. \A d \in Cores : /\ DOMAIN peerStates[d] \subseteq DOMAIN peerStates'[d]
                       /\ DOMAIN peerStates'[d] \subseteq DOMAIN peerStates[d] \cup (IF d = c THEN {p} ELSE {})
  BY DEF IsPut
<1>2. p \in DOMAIN peerStates'[c]
  BY DEF IsPut
<1>3. \A d \in Cores : corePeers'[d] \subseteq DOMAIN peerStates'[d]
  BY <1>1, <1>2 DEF StateTypes, PeersTypes
<1>4. \A d \in Cores : /\ DOMAIN peerStates'[d] \subseteq online'
                       /\ DOMAIN peerStates'[d] # {} => d \in Known'
  BY <1>1 DEF StateTypes, PeersTypes
<1>5. QED
  BY <1>3, <1>4 DEF IsPut, PeersTypes

LEMMA StepKeepsPeers ==
  ASSUME StateTypes, StateNext
  PROVE  PeersTypes'
<1>1. Known \subseteq Known'
  BY StepKeepsCores
<1>2. ASSUME NEW p \in Others, Connect(p) PROVE PeersTypes'
  <2>1. online' = online \cup {p} /\ corePeers' = corePeers
    BY <1>2 DEF Connect
  <2>2. QED
    BY <1>1, <1>2, <2>1, PeerIsAdded DEF StateTypes, PeersTypes
<1>3. ASSUME NEW p \in Others, DisconnectPeer(p) PROVE PeersTypes'
  <2>1. online' = online \ {p} /\ corePeers' = [c \in Cores |-> corePeers[c] \ {p}]
    BY <1>3 DEF DisconnectPeer
  <2>2. QED
    BY <1>1, <1>3, <2>1, PeerIsRemoved DEF StateTypes, PeersTypes
<1>4. ASSUME NEW p \in Others, HandleHaveMessage(p) PROVE PeersTypes'
  <2>1. online' = online /\ corePeers' = corePeers
    BY <1>4 DEF HandleHaveMessage
  <2>2. corePeers' \in [Cores -> SUBSET Others]
    BY <2>1 DEF StateTypes, PeersTypes
  <2>3. QED
    BY <1>1, <1>4, <2>1, <2>2, MessageIsPut, PutKeepsPeers
<1>5. ASSUME NEW c \in Cores, NEW p \in Others,
             OnPeerAdd(c, p) \/ CoreUpdated(c, p) \/ OnBitfield(c, p) \/ OnPeerRemove(c, p)
      PROVE  PeersTypes'
  <2>1. online' = online
    BY <1>5 DEF OnPeerAdd, CoreUpdated, OnBitfield, OnPeerRemove, transport
  <2>2. QED
    BY <1>1, <1>5, <2>1, StateIsPut, PutKeepsPeers
<1>6. CASE UNCHANGED <<online, peerStates, corePeers>>
  BY <1>1, <1>6 DEF StateTypes, PeersTypes
<1>7. QED
  BY <1>2, <1>3, <1>4, <1>5, <1>6, StepsChange

LEMMA StepKeepsStateTypes ==
  ASSUME StateTypes, [StateNext]_stateVars
  PROVE  StateTypes'
<1>1. CASE StateNext
  <2>1. StoreTypes' /\ TransportTypes' /\ CoreTypes' /\ PeersTypes'
    BY <1>1, StepKeepsStore, StepKeepsTransport, StepKeepsCores, StepKeepsPeers
  <2>2. blocked' \subseteq Others /\ ticking' \in BOOLEAN
    <3>1. CASE \E p \in Others : SetCapability(p)
      BY <3>1 DEF SetCapability, StateTypes
    <3>2. CASE UNCHANGED blocked /\ (ticking' = TRUE \/ ticking' = FALSE \/ ticking' = ticking)
      BY <3>2 DEF StateTypes
    <3>3. CASE UNCHANGED blocked /\ \E p \in Others : Connect(p) \/ DisconnectPeer(p)
      BY <3>3 DEF Connect, DisconnectPeer, AddPeer, StateTypes
    <3>4. CASE \/ GetNamespaceState \/ HandleUpdate
               \/ \E p \in Others : SendHaves(p) \/ HandleHaveMessage(p)
               \/ \E c \in Cores : AttachCore(c) \/ Ready(c) \/ OnAppend(c)
      BY <3>2, <3>4 DEF GetNamespaceState, HandleUpdate, SendHaves, HandleHaveMessage, AttachCore, Ready, OnAppend, Update
    <3>5. CASE \E c \in Cores, p \in Others :
                    \/ OnPeerAdd(c, p) \/ CoreUpdated(c, p) \/ OnBitfield(c, p)
                    \/ OnPeerRemove(c, p) \/ Upgrade(c, p) \/ PeerAppends(p, c)
      <4>1. UNCHANGED blocked /\ (ticking' = TRUE \/ ticking' = ticking)
        BY <3>5 DEF OnPeerAdd, CoreUpdated, OnBitfield, OnPeerRemove, Upgrade, PeerAppends, Update
      <4>2. QED
        BY <3>2, <4>1
    <3>6. CASE \E c \in Cores, p \in Others, b \in 0 .. MaxLength - 1 :
                    OnDownload(c, p, b) \/ PeerClears(p, c, b) \/ PeerGets(p, c, b)
      <4> PICK c \in Cores, p \in Others, b \in 0 .. MaxLength - 1 :
                 OnDownload(c, p, b) \/ PeerClears(p, c, b) \/ PeerGets(p, c, b)
        BY <3>6
      <4>1. CASE OnDownload(c, p, b)
        BY <3>2, <4>1 DEF OnDownload, Update
      <4>2. CASE PeerClears(p, c, b) \/ PeerGets(p, c, b)
        BY <3>2, <4>2 DEF PeerClears, PeerGets
      <4>3. QED
        BY <4>1, <4>2
    <3>7. CASE \E p \in Others : Connect(p) \/ DisconnectPeer(p)
      <4>1. UNCHANGED blocked
        BY <3>7 DEF Connect, DisconnectPeer
      <4>2. QED
        BY <3>3, <3>7, <4>1
    <3>8. QED
      BY <1>1, <3>1, <3>4, <3>5, <3>6, <3>7 DEF StateNext
  <2>3. QED
    BY <2>1, <2>2 DEF StateTypes
<1>2. CASE UNCHANGED stateVars
  BY <1>2 DEF stateVars, transport, cores, StateTypes, StoreTypes, TransportTypes, CoreTypes, PeersTypes, Known
<1>3. QED
  BY <1>1, <1>2

-----------------------------------------------------------------------------
(***************************************************************************)
(* The cached state.                                                       *)
(***************************************************************************)
DerivedFrom == /\ UNCHANGED <<attached, opened, order, preHavesLength, peerStates>>
               /\ store'[Local] = store[Local]

\* What is derived is so from these variables only.
LEMMA DerivedIsKept ==
  ASSUME DerivedFrom, NEW barred
  PROVE  DerivedWithout(barred)' = DerivedWithout(barred)
<1>1. \A c : LocalLength(c)' = LocalLength(c) /\ CoreLength(c)' = CoreLength(c)
  BY DEF DerivedFrom, LocalLength, CoreLength
<1>2. \A c : LocalHaves(c)' = LocalHaves(c)
  BY <1>1 DEF DerivedFrom, LocalHaves
<1>3. \A c, p : PeerHaves(c, p)' = PeerHaves(c, p)
  BY <1>1 DEF DerivedFrom, PeerHaves, BitsOf
<1>4. \A c : Visible(c, barred)' = Visible(c, barred)
  BY DEF DerivedFrom, Visible
<1>5. ASSUME NEW c PROVE DeriveState(c, barred)' = DeriveState(c, barred)
  <2> DEFINE lacks(p) == LocalHaves(c) \ PeerHaves(c, p)
             missing(p) == PeerHaves(c, p) \ LocalHaves(c)
             local == [have |-> Cardinality(LocalHaves(c)),
                       want |-> Cardinality(UNION {missing(p) : p \in Visible(c, barred)}),
                       wanted |-> Cardinality(UNION {lacks(p) : p \in Visible(c, barred)})]
             remote(p) == [have |-> Cardinality(PeerHaves(c, p)), want |-> Cardinality(lacks(p)),
                           wanted |-> Cardinality(missing(p)), status |-> peerStates[c][p].status]
  <2>1. \A p : lacks(p)' = lacks(p) /\ missing(p)' = missing(p)
    BY <1>2, <1>3
  <2>2. \A p : remote(p)' = remote(p)
    BY <1>3, <2>1 DEF DerivedFrom
  <2>3. /\ {missing(p) : p \in Visible(c, barred)}' = {missing(p) : p \in Visible(c, barred)}
        /\ {lacks(p) : p \in Visible(c, barred)}' = {lacks(p) : p \in Visible(c, barred)}
    <3> HIDE DEF lacks, missing
    <3>1. QED
      BY <1>4, <2>1
  <2>4. local' = local
    BY <1>2, <2>3
  <2>5. [p \in Visible(c, barred) |-> remote(p)]' = [p \in Visible(c, barred) |-> remote(p)]
    <3> HIDE DEF remote
    <3>1. QED
      BY <1>4, <2>2
  <2>6. DeriveState(c, barred) = [localState |-> local, remoteStates |-> [p \in Visible(c, barred) |-> remote(p)]]
    BY DEF DeriveState
  <2>7. DeriveState(c, barred)' = [localState |-> local', remoteStates |-> [p \in Visible(c, barred) |-> remote(p)]']
    BY DEF DeriveState
  <2> HIDE DEF local, remote
  <2>8. QED
    BY <2>4, <2>5, <2>6, <2>7
<1>6. [i \in 1 .. Len(order) |-> DeriveState(order[i], barred)]' = [i \in 1 .. Len(order) |-> DeriveState(order[i], barred)]
  BY <1>5 DEF DerivedFrom
<1>7. QED
  BY <1>6 DEF DerivedFrom, DerivedWithout

LEMMA CacheIsKept ==
  ASSUME CacheOK, DerivedFrom, UNCHANGED <<cached, ticking>>
  PROVE  CacheOK'
<1> DEFINE b == cached.blocked
<1>1. DerivedWithout(b)' = DerivedWithout(b)
  <2>1. PICK barred : barred = b
    OBVIOUS
  <2>2. DerivedWithout(barred)' = DerivedWithout(barred)
    BY DerivedIsKept
  <2>3. b' = barred
    BY <2>1
  <2> HIDE DEF b
  <2>4. DerivedWithout(b)' = DerivedWithout(barred)'
    BY <2>3
  <2>5. QED
    BY <2>1, <2>2, <2>4
<1>2. QED
  BY <1>1 DEF CacheOK, DerivedFrom

LEMMA StepKeepsCache ==
  ASSUME StateTypes, CacheOK, [StateNext]_stateVars
  PROVE  CacheOK'
<1>1. CASE GetNamespaceState
  <2>1. /\ cached' = [state |-> Derived, attached |-> attached, opened |-> opened, blocked |-> blocked]
        /\ DerivedFrom /\ blocked' = blocked
    BY <1>1 DEF GetNamespaceState, DerivedFrom, cores
  <2>2. PICK barred : barred = blocked
    OBVIOUS
  <2>3. DerivedWithout(barred)' = DerivedWithout(barred)
    BY <2>1, DerivedIsKept
  <2>4. /\ cached'.state = DerivedWithout(barred) /\ cached'.blocked = barred
        /\ cached'.attached = attached' /\ cached'.opened = opened'
    BY <2>1, <2>2 DEF Derived, DerivedFrom
  <2>5. DerivedWithout(cached.blocked)' = DerivedWithout(barred)'
    BY <2>4
  <2>6. QED
    BY <2>3, <2>4, <2>5 DEF CacheOK
<1>2. CASE HandleUpdate
  BY <1>2 DEF HandleUpdate, CacheOK
<1>3. CASE ticking' = TRUE
  BY <1>3 DEF CacheOK
<1>4. CASE DerivedFrom /\ UNCHANGED <<cached, ticking>>
  BY <1>4, CacheIsKept
<1>5. CASE \E p \in Others : Connect(p) \/ DisconnectPeer(p)
  <2>1. PICK p \in Others : Connect(p) \/ DisconnectPeer(p)
    BY <1>5
  <2>2. ticking' \/ (ticking' = ticking /\ peerStates' = peerStates)
    BY <2>1, PeerIsAdded, PeerIsRemoved
  <2>3. UNCHANGED <<attached, opened, order, preHavesLength, store, cached>>
    BY <2>1 DEF Connect, DisconnectPeer
  <2>4. ticking' \/ (DerivedFrom /\ UNCHANGED <<cached, ticking>>)
    BY <2>2, <2>3 DEF DerivedFrom
  <2>5. QED
    BY <2>4, CacheIsKept DEF CacheOK
<1>6. CASE \E p \in Others : SendHaves(p) \/ SetCapability(p)
  <2>1. DerivedFrom /\ UNCHANGED <<cached, ticking>>
    BY <1>6 DEF SendHaves, SetCapability, DerivedFrom, cores
  <2>2. QED
    BY <1>4, <2>1
<1>7. CASE \E p \in Others : OtherSteps(p)
  <2>1. PICK p \in Others, c \in Cores : PeerAppends(p, c) \/ \E b : PeerClears(p, c, b) \/ PeerGets(p, c, b)
    BY <1>7 DEF OtherSteps
  <2>2. PICK s \in Stores : store' = [store EXCEPT ![p][c] = s]
    BY <2>1, OtherGets DEF StateTypes
  <2>3. store'[Local] = store[Local]
    <3>1. Local \in Others \cup {Local} /\ Local # p
      BY SyncStateAssumption
    <3>2. QED
      BY <2>2, <3>1, StorePut DEF StateTypes
  <2>4. UNCHANGED <<attached, opened, order, preHavesLength, peerStates, cached, ticking>>
    BY <2>1 DEF PeerAppends, PeerClears, PeerGets, cores
  <2>5. QED
    BY <1>4, <2>3, <2>4 DEF DerivedFrom
<1>8. CASE \E c \in Cores : AttachCore(c) \/ Ready(c)
  <2>1. PICK c \in Cores : \/ c \notin attached /\ attached' = attached \cup {c} /\ opened' = opened
                           \/ c \notin opened /\ opened' = opened \cup {c} /\ attached' = attached
    BY <1>8 DEF AttachCore, Ready
  <2>2. cached' = cached /\ ticking' = ticking
    BY <1>8 DEF AttachCore, Ready
  <2>3. CASE cached = None \/ ticking
    BY <2>2, <2>3 DEF CacheOK
  <2>4. CASE cached.attached \subseteq attached /\ cached.opened \subseteq opened
    <3>1. /\ cached'.attached \subseteq attached' /\ cached'.opened \subseteq opened'
          /\ <<cached'.attached, cached'.opened>> # <<attached', opened'>>
      BY <2>1, <2>2, <2>4
    <3>2. QED
      BY <3>1 DEF CacheOK
  <2>5. QED
    BY <2>3, <2>4 DEF CacheOK
<1>9. CASE \E p \in Others : HandleHaveMessage(p)
  BY <1>3, <1>9 DEF HandleHaveMessage, Update
<1>10. CASE \E c \in Cores, p \in Others :
              OnPeerAdd(c, p) \/ CoreUpdated(c, p) \/ OnBitfield(c, p) \/ OnPeerRemove(c, p)
  <2> PICK c \in Cores, p \in Others :
             OnPeerAdd(c, p) \/ CoreUpdated(c, p) \/ OnBitfield(c, p) \/ OnPeerRemove(c, p)
    BY <1>10
  <2>1. CASE OnPeerAdd(c, p) \/ CoreUpdated(c, p)
    BY <1>3, <2>1 DEF OnPeerAdd, CoreUpdated, Update
  <2>2. CASE OnBitfield(c, p)
    BY <1>3, <2>2 DEF OnBitfield, Update
  <2>3. CASE OnPeerRemove(c, p)
    BY <1>3, <2>3 DEF OnPeerRemove, Update
  <2>4. QED
    BY <2>1, <2>2, <2>3
<1>11. CASE LocalSteps
  BY <1>3, <1>11 DEF LocalSteps, Upgrade, OnDownload, OnAppend, Update
<1>12. CASE UNCHANGED stateVars
  BY <1>4, <1>12 DEF stateVars, cores, DerivedFrom
<1>13. QED
  BY <1>1, <1>2, <1>5, <1>6, <1>7, <1>8, <1>9, <1>10, <1>11, <1>12 DEF StateNext, LocalSteps, OtherSteps

\* The cached state is what would be derived now, unless its drop is due, or since
\* it was derived a core was attached or became ready, or a role changed.
THEOREM CacheStaysFresh == StateSpec => []CacheIsFresh
<1>1. StateInit => CacheInv
  BY InitHasStateTypes DEF StateInit, CacheInv, CacheOK
<1>2. CacheInv /\ [StateNext]_stateVars => CacheInv'
  BY StepKeepsStateTypes, StepKeepsCache DEF CacheInv
<1>3. CacheInv => CacheIsFresh
  BY DEF CacheInv, CacheOK, CacheIsFresh, Derived
<1>4. QED
  BY <1>1, <1>2, <1>3, PTL DEF StateSpec

-----------------------------------------------------------------------------
(***************************************************************************)
(* What is known of the peers.                                             *)
(***************************************************************************)
LEMMA PeerStateOfIsOne ==
  ASSUME PeerStatesOK, PreHavesOK, NEW c \in Cores, NEW p
  PROVE  /\ IsPeerState(PeerStateOf(c, p)) /\ Indexed(PeerStateOf(c, p).preHaves)
         /\ DOMAIN PeerStateOf(c, p).preHaves.pages \subseteq 0 .. PagesOf(store[p][c]) - 1
         /\ BitsOf(PeerStateOf(c, p).preHaves) \subseteq 0 .. preHavesLength[c] - 1
<1>1. CASE p \in DOMAIN peerStates[c]
  BY <1>1 DEF PeerStateOf, PeerStatesOK, PreHavesOK
<1>2. CASE p \notin DOMAIN peerStates[c]
  <2>1. PeerStateOf(c, p) = NewPeerState
    BY <1>2 DEF PeerStateOf
  <2>2. NewPeerState.preHaves = NewBitfield /\ DOMAIN NewBitfield.pages = {}
    BY DEF NewPeerState, NewBitfield
  <2>3. QED
    BY <2>1, <2>2, NewIsState
<1>3. QED
  BY <1>1, <1>2

\* The bits of a page that a message tells.
BitsIn(m) == BitsOfBytes(Decode(m.tokens))

LEMMA MessageTells ==
  ASSUME NEW c, NEW held, NEW i
  PROVE  BitsIn(Message(c, held, i)) = PageBits(held, i)
<1>1. PageBits(held, i) \in SUBSET (0 .. BitsPerPage - 1)
  BY DEF PageBits
<1>2. Message(c, held, i).tokens = Encode(BytesOf(PageBits(held, i)))
  BY DEF Message
<1>3. QED
  BY <1>1, <1>2, CodingIsRight DEF PagesAreCoded, BitsIn

Length(p) == Max({preHavesLength[HeadOf(p).core],
                  LastSet(Told(p), HeadOf(p).start + Len(Decode(HeadOf(p).tokens)) * BitsPerByte) + 1})

\* A message replaces one page of what is known, and the length grows to it.
LEMMA MessageIsHandled ==
  ASSUME StateTypes, MessagesOK, PeerStatesOK, PreHavesOK, NEW p \in Others, HandleHaveMessage(p)
  PROVE  LET m == HeadOf(p)
             b == PeerStateOf(m.core, p).preHaves
         IN /\ \E i \in 0 .. PagesOf(store[p][m.core]) - 1 :
                 /\ i \in Nat /\ m.start = i * BitsPerPage
                 /\ HasPage(Told(p), b, i, BitsIn(m))
            /\ preHavesLength' = [preHavesLength EXCEPT ![m.core] = Length(p)]
            /\ Length(p) \in Nat /\ preHavesLength[m.core] <= Length(p)
            /\ BitsOf(Told(p)) \subseteq 0 .. Length(p) - 1
<1> DEFINE m == HeadOf(p)
           c == m.core
           b == PeerStateOf(c, p).preHaves
           old == preHavesLength[c]
<1>1. m \in HaveMessage /\ c \in Cores
  BY MessageIsPut
<1>2. channel[p] \in Seq(HaveMessage) /\ channel[p] # <<>>
  BY DEF HandleHaveMessage, StateTypes, TransportTypes
<1>3. 1 \in DOMAIN channel[p] /\ m = channel[p][1]
  BY <1>2 DEF HeadOf
<1>4. PICK i \in 0 .. PagesOf(store[p][c]) - 1 : m.start = i * BitsPerPage
  BY <1>3 DEF MessagesOK
<1>5. PagesOf(store[p][c]) \in Nat
  BY <1>1, PagesAre DEF StateTypes, StoreTypes
<1>6. i \in Nat
  BY <1>5
<1>7. PICK bits \in SUBSET (0 .. BitsPerPage - 1) : m.tokens = Encode(BytesOf(bits))
  BY <1>1 DEF HaveMessage
<1>8. Decode(m.tokens) = BytesOf(bits) /\ BitsIn(m) = bits
  BY <1>7, CodingIsRight DEF PagesAreCoded, BitsIn
<1>9. IsBitfield(b) /\ Indexed(b) /\ BitsOf(b) \subseteq 0 .. old - 1 /\ old \in Nat
  BY <1>1, PeerStateOfIsOne DEF IsPeerState, PeerStatesOK
<1> HIDE DEF m
<1>10. Told(p) = Insert(b, i * BitsPerPage, Decode(Encode(BytesOf(bits))))
  BY <1>4, <1>7 DEF Told, m
<1> HIDE DEF c, b, old
<1>11. HasPage(Told(p), b, i, BitsIn(m))
  BY <1>6, <1>8, <1>9, <1>10, MessageIsInserted
<1> DEFINE end == m.start + Len(Decode(m.tokens)) * BitsPerByte
           last == LastSet(Told(p), end)
<1>12. end = i * BitsPerPage + BitsPerPage /\ end \in Nat
  <2>1. Len(Decode(m.tokens)) = BytesPerPage
    BY <1>8, BytesAreSeq
  <2>2. BytesPerPage * BitsPerByte = BitsPerPage
    BY PageIsWhole
  <2>3. i * BitsPerPage \in Nat /\ BitsPerPage \in Nat
    BY <1>6, Sizes
  <2>4. QED
    BY <1>4, <2>1, <2>2, <2>3
<1>13. /\ last \in Int /\ last >= -1
       /\ \A n \in BitsOf(Told(p)) : n <= end => n <= last
  <2> HIDE DEF end
  <2>1. IsBitfield(Told(p)) /\ Indexed(Told(p))
    BY <1>11 DEF HasPage
  <2>2. end \in Nat
    BY <1>12
  <2>3. QED
    BY <2>1, <2>2, LastSetIs
<1> HIDE DEF last
<1>14. Length(p) = Max({old, last + 1}) /\ preHavesLength' = [preHavesLength EXCEPT ![c] = Length(p)]
  <2>1. Length(p) = Max({old, last + 1})
    BY DEF Length, last, old, c, m
  <2>2. InsertPreHaves(c, p, m.start, Decode(m.tokens))
    BY DEF HandleHaveMessage, HeadOf, m, c
  <2>3. preHavesLength' = [preHavesLength EXCEPT ![c] = Max({old, last + 1})]
    BY <2>2 DEF InsertPreHaves, last, old, Told, m, c
  <2>4. QED
    BY <2>1, <2>3
<1>15. Length(p) \in {old, last + 1} /\ old <= Length(p) /\ last + 1 <= Length(p)
  <2> DEFINE S == {old, last + 1}
             n == IF old <= last + 1 THEN last + 1 ELSE old
  <2>1. S \in SUBSET Int /\ S # {} /\ n \in Int /\ \A x \in S : x <= n
    BY <1>9, <1>13
  <2>2. old \in S /\ last + 1 \in S
    OBVIOUS
  <2> HIDE DEF S, n
  <2>3. Max(S) \in S /\ \A x \in S : x <= Max(S)
    BY <2>1, MaxIs, Zenon
  <2>4. Length(p) = Max(S)
    BY <1>14 DEF S
  <2>5. QED
    BY <2>2, <2>3, <2>4 DEF S
<1>16. Length(p) \in Nat
  BY <1>9, <1>13, <1>15
<1>17. ASSUME NEW n \in BitsOf(Told(p)) PROVE n \in 0 .. Length(p) - 1
  <2>1. IsBitfield(Told(p)) /\ Told(p).pages = [k \in DOMAIN b.pages \cup {i} |-> IF k = i THEN BitsIn(m) ELSE b.pages[k]]
    BY <1>11 DEF HasPage
  <2>2. n \in Nat
    BY <2>1, BitsOfIs
  <2>3. n \div BitsPerPage \in DOMAIN Told(p).pages /\ n % BitsPerPage \in Told(p).pages[n \div BitsPerPage]
    BY <2>1, <2>2, BitsOfIs
  <2>4. CASE n \div BitsPerPage # i
    <3>1. n \div BitsPerPage \in DOMAIN b.pages /\ n % BitsPerPage \in b.pages[n \div BitsPerPage]
      BY <2>1, <2>3, <2>4
    <3>2. n \in BitsOf(b)
      BY <1>9, <2>2, <3>1, BitsOfIs
    <3>3. QED
      BY <1>9, <1>15, <1>16, <3>2
  <2>5. CASE n \div BitsPerPage = i
    <3> DEFINE r == n % BitsPerPage
    <3>1. r \in 0 .. BitsPerPage - 1 /\ n = (n \div BitsPerPage) * BitsPerPage + r
      BY <2>2, Divided, Sizes
    <3>2. n = i * BitsPerPage + r
      BY <2>5, <3>1
    <3> HIDE DEF r
    <3>3. i * BitsPerPage \in Nat /\ BitsPerPage \in Nat
      BY <1>6, Sizes
    <3>4. n <= end
      BY <1>12, <3>1, <3>2, <3>3
    <3>5. n <= last
      BY <1>13, <3>4
    <3>6. QED
      BY <1>13, <1>15, <1>16, <2>2, <3>5
  <2>6. QED
    BY <2>4, <2>5
<1>18. QED
  BY <1>4, <1>6, <1>11, <1>14, <1>15, <1>16, <1>17 DEF b, c, m, old

\* What one device has of a core grows in length, and only where it says so.
LEMMA StoresGrow ==
  ASSUME StateTypes, [StateNext]_stateVars, NEW p \in Others, NEW c \in Cores
  PROVE  /\ PagesOf(store[p][c]) \in Nat /\ PagesOf(store'[p][c]) \in Nat
         /\ PagesOf(store[p][c]) <= PagesOf(store'[p][c])
         /\ store'[p][c] = store[p][c] \/ (OtherSteps(p) /\ (Writer[c] = p => Resend(p, c)))
<1>1. StoreTypes /\ StoreTypes'
  BY StepKeepsStateTypes DEF StateTypes
<1>2. store[p][c] \in Stores /\ store'[p][c] \in Stores
  BY <1>1 DEF StoreTypes
<1>3. store[p][c].length <= store'[p][c].length
      /\ (store'[p][c] = store[p][c] \/ (OtherSteps(p) /\ (Writer[c] = p => Resend(p, c))))
  <2>1. CASE store'[p][c] = store[p][c]
    BY <1>2, <2>1, StoreIs
  <2>2. CASE LocalSteps
    <3>1. PICK d \in Cores : \E s \in Stores : store' = [store EXCEPT ![Local][d] = s]
      BY <1>1, <2>2, LocalGets DEF LocalSteps
    <3>2. PICK s \in Stores : store' = [store EXCEPT ![Local][d] = s]
      BY <3>1
    <3>3. Local \in Others \cup {Local} /\ Local # p
      BY SyncStateAssumption
    <3>4. store'[p] = store[p]
      BY <1>1, <3>2, <3>3, StorePut
    <3>5. QED
      BY <2>1, <3>4
  <2>3. CASE \E q \in Others : OtherSteps(q)
    <3>1. PICK q \in Others : OtherSteps(q)
      BY <2>3
    <3>2. PICK d \in Cores : PeerAppends(q, d) \/ \E b : PeerClears(q, d, b) \/ PeerGets(q, d, b)
      BY <3>1 DEF OtherSteps
    <3>3. PICK s \in Stores : store' = [store EXCEPT ![q][d] = s] /\ store[q][d].length <= s.length
      BY <1>1, <3>2, OtherGets
    <3>4. CASE q = p /\ d = c
      <4>1. store'[p][c] = s /\ store[p][c].length <= s.length
        BY <1>1, <3>3, <3>4, StorePut
      <4>2. Writer[c] = p => Resend(p, c)
        BY <3>2, <3>4 DEF PeerAppends, PeerClears, PeerGets
      <4>3. QED
        BY <3>1, <3>4, <4>1, <4>2
    <3>5. CASE ~ (q = p /\ d = c)
      <4>1. store'[p][c] = store[p][c]
        BY <1>1, <3>3, <3>5, StorePut
      <4>2. QED
        BY <2>1, <4>1
    <3>6. QED
      BY <3>4, <3>5
  <2>4. CASE UNCHANGED store
    BY <2>1, <2>4
  <2>5. QED
    BY <2>2, <2>3, <2>4, StepsChange DEF stateVars
<1>4. PagesOf(store[p][c]) <= PagesOf(store'[p][c])
  BY <1>2, <1>3, PagesAre
<1>5. QED
  BY <1>2, <1>3, <1>4, PagesAre

\* What is known of a peer changes only as its messages tell, until it goes.
LEMMA PreHavesAreKept ==
  ASSUME StateTypes, PeerStatesOK, PreHavesOK, [StateNext]_stateVars, NEW p \in Others, ~ HandleHaveMessage(p),
         NEW c \in Cores
  PROVE  /\ p \in DOMAIN peerStates[c] /\ p \in online' => p \in DOMAIN peerStates'[c]
         /\ p \in DOMAIN peerStates'[c] => /\ IsPeerState(peerStates'[c][p])
                                          /\ peerStates'[c][p].preHaves = PeerStateOf(c, p).preHaves
<1> DEFINE Kept == p \in DOMAIN peerStates'[c] /\ p \in DOMAIN peerStates[c] /\ peerStates'[c][p] = peerStates[c][p]
           Same == IsPeerState(peerStates'[c][p]) /\ peerStates'[c][p].preHaves = PeerStateOf(c, p).preHaves
<1>1. ASSUME Kept PROVE Same
  BY <1>1 DEF PeerStateOf, PeerStatesOK
<1>2. ASSUME NEW q \in Others, Connect(q)
      PROVE  /\ p \in DOMAIN peerStates[c] => p \in DOMAIN peerStates'[c]
             /\ p \in DOMAIN peerStates'[c] => Same
  <2>1. CASE p \in DOMAIN peerStates[c]
    <3>1. Kept
      BY <1>2, <2>1, PeerIsAdded
    <3>2. QED
      BY <1>1, <3>1
  <2>2. CASE p \notin DOMAIN peerStates[c] /\ p \in DOMAIN peerStates'[c]
    <3>1. peerStates'[c][p] = NewPeerState
      BY <1>2, <2>2, PeerIsAdded
    <3>2. PeerStateOf(c, p) = NewPeerState
      BY <2>2 DEF PeerStateOf
    <3>3. QED
      BY <2>2, <3>1, <3>2, NewIsState
  <2>3. QED
    BY <2>1, <2>2
<1>3. ASSUME NEW q \in Others, DisconnectPeer(q)
      PROVE  /\ p \in DOMAIN peerStates[c] /\ p \in online' => p \in DOMAIN peerStates'[c]
             /\ p \in DOMAIN peerStates'[c] => Same
  <2>1. /\ DOMAIN peerStates'[c] = DOMAIN peerStates[c] \ {q}
        /\ \A r \in DOMAIN peerStates'[c] : peerStates'[c][r] = peerStates[c][r]
    BY <1>3, PeerIsRemoved
  <2>2. online' = online \ {q}
    BY <1>3 DEF DisconnectPeer
  <2>3. QED
    BY <1>1, <2>1, <2>2
<1>4. ASSUME NEW d \in Cores, NEW q \in Others, NEW s, IsPut(peerStates, peerStates', d, q, s), <<d, q>> # <<c, p>>
      PROVE  /\ p \in DOMAIN peerStates[c] => p \in DOMAIN peerStates'[c]
             /\ p \in DOMAIN peerStates'[c] => Same
  <2>1. p \in DOMAIN peerStates'[c] <=> p \in DOMAIN peerStates[c]
    BY <1>4 DEF IsPut
  <2>2. p \in DOMAIN peerStates[c] => peerStates'[c][p] = peerStates[c][p]
    BY <1>4 DEF IsPut
  <2>3. QED
    BY <1>1, <2>1, <2>2
<1>5. ASSUME NEW q \in Others, HandleHaveMessage(q)
      PROVE  /\ p \in DOMAIN peerStates[c] => p \in DOMAIN peerStates'[c]
             /\ p \in DOMAIN peerStates'[c] => Same
  <2>1. q # p
    BY <1>5
  <2>2. PICK s : HeadOf(q).core \in Cores /\ IsPut(peerStates, peerStates', HeadOf(q).core, q, s)
    BY <1>5, MessageIsPut
  <2>3. QED
    BY <1>4, <2>1, <2>2
<1>6. ASSUME NEW d \in Cores, NEW q \in Others,
             OnPeerAdd(d, q) \/ CoreUpdated(d, q) \/ OnBitfield(d, q) \/ OnPeerRemove(d, q)
      PROVE  /\ p \in DOMAIN peerStates[c] => p \in DOMAIN peerStates'[c]
             /\ p \in DOMAIN peerStates'[c] => Same
  <2>1. PICK s : /\ IsPut(peerStates, peerStates', d, q, s)
                 /\ IsPeerState(PeerStateOf(d, q)) => IsPeerState(s) /\ s.preHaves = PeerStateOf(d, q).preHaves
    BY <1>6, StateIsPut
  <2>2. CASE d = c /\ q = p
    <3>1. p \in DOMAIN peerStates'[c] /\ peerStates'[c][p] = s
      BY <2>1, <2>2 DEF IsPut
    <3>2. IsPeerState(PeerStateOf(d, q))
      BY PeerStateOfIsOne
    <3>3. QED
      BY <2>1, <2>2, <3>1, <3>2
  <2>3. CASE ~ (d = c /\ q = p)
    BY <1>4, <2>1, <2>3
  <2>4. QED
    BY <2>2, <2>3
<1>7. CASE UNCHANGED peerStates
  BY <1>1, <1>7
<1> DEFINE Goal == /\ p \in DOMAIN peerStates[c] /\ p \in online' => p \in DOMAIN peerStates'[c]
                   /\ p \in DOMAIN peerStates'[c] => Same
<1>8. /\ \A q \in Others : Connect(q) \/ HandleHaveMessage(q) \/ DisconnectPeer(q) => Goal
      /\ \A d \in Cores, q \in Others :
           OnPeerAdd(d, q) \/ CoreUpdated(d, q) \/ OnBitfield(d, q) \/ OnPeerRemove(d, q) => Goal
      /\ UNCHANGED peerStates => Goal
  <2> HIDE DEF Same
  <2>1. ASSUME NEW q \in Others, Connect(q) \/ HandleHaveMessage(q) \/ DisconnectPeer(q) PROVE Goal
    <3>1. CASE Connect(q)
      BY <1>2, <3>1
    <3>2. CASE HandleHaveMessage(q)
      BY <1>5, <3>2
    <3>3. CASE DisconnectPeer(q)
      BY <1>3, <3>3
    <3>4. QED
      BY <2>1, <3>1, <3>2, <3>3
  <2>2. ASSUME NEW d \in Cores, NEW q \in Others,
               OnPeerAdd(d, q) \/ CoreUpdated(d, q) \/ OnBitfield(d, q) \/ OnPeerRemove(d, q)
        PROVE  Goal
    BY <1>6, <2>2
  <2>3. ASSUME UNCHANGED peerStates PROVE Goal
    BY <1>7, <2>3 DEF Same
  <2> HIDE DEF Goal
  <2>4. QED
    BY <2>1, <2>2, <2>3
<1>9. Goal
  <2> HIDE DEF Goal
  <2>1. CASE StateNext
    BY <1>8, <2>1, StepsChange
  <2>2. CASE UNCHANGED stateVars
    BY <1>8, <2>2 DEF stateVars, cores
  <2>3. QED
    BY <2>1, <2>2
<1>10. QED
  BY <1>9

LEMMA LengthsGrow ==
  ASSUME StateTypes, PagesInv, [StateNext]_stateVars
  PROVE  /\ preHavesLength' \in [Cores -> Nat]
         /\ \A c \in Cores : preHavesLength[c] <= preHavesLength'[c]
<1> USE DEF PagesInv
<1>1. preHavesLength \in [Cores -> Nat]
  BY DEF PeerStatesOK
<1>2. CASE UNCHANGED preHavesLength
  BY <1>1, <1>2
<1>3. ASSUME NEW p \in Others, HandleHaveMessage(p)
      PROVE  preHavesLength' \in [Cores -> Nat] /\ \A c \in Cores : preHavesLength[c] <= preHavesLength'[c]
  <2>1. /\ preHavesLength' = [preHavesLength EXCEPT ![HeadOf(p).core] = Length(p)]
        /\ Length(p) \in Nat /\ preHavesLength[HeadOf(p).core] <= Length(p)
    BY <1>3, MessageIsHandled
  <2>2. HeadOf(p).core \in Cores
    BY <1>3, MessageIsPut
  <2>3. \A c \in Cores : preHavesLength[c] \in Nat /\ preHavesLength[c] <= preHavesLength[c]
    BY <1>1
  <2> DEFINE d == HeadOf(p).core
             n == Length(p)
  <2> HIDE DEF d, n
  <2>4. preHavesLength' = [preHavesLength EXCEPT ![d] = n] /\ d \in Cores /\ n \in Nat /\ preHavesLength[d] <= n
    BY <2>1, <2>2 DEF d, n
  <2>5. \A c \in Cores : preHavesLength'[c] = IF c = d THEN n ELSE preHavesLength[c]
    BY <1>1, <2>4
  <2>6. \A c \in Cores : preHavesLength[c] <= preHavesLength'[c]
    BY <2>3, <2>4, <2>5
  <2>7. QED
    BY <1>1, <2>4, <2>6
<1>4. QED
  BY <1>2, <1>3, StepsChange DEF stateVars, cores

LEMMA StepKeepsPeerStates ==
  ASSUME StateTypes, PagesInv, [StateNext]_stateVars
  PROVE  PeerStatesOK' /\ PreHavesOK'
<1> USE DEF PagesInv
<1>1. ASSUME NEW c \in Cores, NEW p \in DOMAIN peerStates'[c]
      PROVE  /\ IsPeerState(peerStates'[c][p])
             /\ DOMAIN peerStates'[c][p].preHaves.pages \subseteq 0 .. PagesOf(store'[p][c]) - 1
             /\ BitsOf(peerStates'[c][p].preHaves) \subseteq 0 .. preHavesLength'[c] - 1
             /\ Indexed(peerStates'[c][p].preHaves)
  <2>1. p \in Others
    BY StepKeepsStateTypes DEF StateTypes, PeersTypes, TransportTypes
  <2>2. preHavesLength[c] \in Nat /\ preHavesLength'[c] \in Nat /\ preHavesLength[c] <= preHavesLength'[c]
    BY LengthsGrow DEF PeerStatesOK
  <2>3. /\ PagesOf(store[p][c]) \in Nat /\ PagesOf(store'[p][c]) \in Nat
        /\ PagesOf(store[p][c]) <= PagesOf(store'[p][c])
    BY <2>1, StoresGrow
  <2>4. /\ IsPeerState(PeerStateOf(c, p)) /\ Indexed(PeerStateOf(c, p).preHaves)
        /\ DOMAIN PeerStateOf(c, p).preHaves.pages \subseteq 0 .. PagesOf(store[p][c]) - 1
        /\ BitsOf(PeerStateOf(c, p).preHaves) \subseteq 0 .. preHavesLength[c] - 1
    BY PeerStateOfIsOne
  <2>5. CASE ~ HandleHaveMessage(p)
    <3>1. IsPeerState(peerStates'[c][p]) /\ peerStates'[c][p].preHaves = PeerStateOf(c, p).preHaves
      BY <2>1, <2>5, PreHavesAreKept
    <3>2. QED
      BY <2>2, <2>3, <2>4, <3>1
  <2>6. CASE HandleHaveMessage(p) /\ c # HeadOf(p).core
    <3>1. peerStates'[c] = peerStates[c]
      BY <2>1, <2>6, MessageIsPut DEF IsPut
    <3>2. peerStates'[c][p] = PeerStateOf(c, p)
      BY <3>1 DEF PeerStateOf
    <3>3. QED
      BY <2>2, <2>3, <2>4, <3>2
  <2>7. CASE HandleHaveMessage(p) /\ c = HeadOf(p).core
    <3> DEFINE r == PeerStateOf(c, p)
    <3>1. peerStates'[c][p] = [r EXCEPT !.preHaves = Told(p)]
      BY <2>1, <2>7, MessageIsPut DEF IsPut
    <3>2. PICK i \in 0 .. PagesOf(store[p][c]) - 1 : HasPage(Told(p), r.preHaves, i, BitsIn(HeadOf(p)))
      BY <2>1, <2>7, MessageIsHandled
    <3>3. BitsOf(Told(p)) \subseteq 0 .. Length(p) - 1 /\ preHavesLength' = [preHavesLength EXCEPT ![c] = Length(p)]
      BY <2>1, <2>7, MessageIsHandled
    <3>4. preHavesLength'[c] = Length(p)
      BY <3>3 DEF PeerStatesOK
    <3> HIDE DEF r
    <3>5. IsRecord(r) /\ r.haves \in SUBSET Nat /\ r.status \in Statuses /\ r.updating \in Nat
      BY <2>4 DEF IsPeerState, IsRecord, r
    <3>6. peerStates'[c][p] = [preHaves |-> Told(p), haves |-> r.haves, status |-> r.status, updating |-> r.updating]
      BY <3>1, <3>5, FieldsAreSet
    <3>7. /\ IsBitfield(Told(p)) /\ Indexed(Told(p))
          /\ DOMAIN Told(p).pages = DOMAIN r.preHaves.pages \cup {i}
      BY <3>2 DEF HasPage
    <3>8. IsPeerState(peerStates'[c][p]) /\ peerStates'[c][p].preHaves = Told(p)
      BY <3>5, <3>6, <3>7, IsState
    <3>9. DOMAIN r.preHaves.pages \subseteq 0 .. PagesOf(store[p][c]) - 1
      BY <2>4 DEF r
    <3>10. DOMAIN Told(p).pages \subseteq 0 .. PagesOf(store'[p][c]) - 1
      BY <2>3, <3>2, <3>7, <3>9
    <3>11. QED
      BY <3>3, <3>4, <3>7, <3>8, <3>10
  <2>8. QED
    BY <2>5, <2>6, <2>7
<1>2. PeerStatesOK'
  BY <1>1, LengthsGrow DEF PeerStatesOK
<1>3. PreHavesOK'
  BY <1>1 DEF PreHavesOK
<1>4. QED
  BY <1>2, <1>3

\* A peer sends a message of each page it has of a core.
LEMMA HavesAreSent ==
  ASSUME StateTypes, NEW p \in Others, SendHaves(p)
  PROVE  LET c == Head(toSend[p])
             s == store[p][c]
             n == PagesOf(s)
             len == Len(channel[p])
         IN /\ c \in Cores /\ n \in Nat /\ len \in Nat
            /\ DOMAIN channel[p] = 1 .. len /\ DOMAIN channel'[p] = 1 .. len + n
            /\ \A k \in 1 .. len : channel'[p][k] = channel[p][k]
            /\ \A i \in 0 .. n - 1 : channel'[p][len + i + 1] = Message(c, s.blocks, i)
            /\ \A q \in Others \ {p} : channel'[q] = channel[q] /\ toSend'[q] = toSend[q]
            /\ Range(toSend[p]) \subseteq Range(toSend'[p]) \cup {c}
<1> DEFINE c == Head(toSend[p])
           s == store[p][c]
           n == PagesOf(s)
           len == Len(channel[p])
           sent == [k \in 1 .. n |-> Message(c, s.blocks, k - 1)]
<1>1. toSend[p] \in Seq(Cores) /\ toSend[p] # <<>> /\ channel[p] \in Seq(HaveMessage)
  BY DEF SendHaves, StateTypes, TransportTypes
<1>2. c \in Cores /\ len \in Nat /\ DOMAIN channel[p] = 1 .. len
  BY <1>1
<1>3. n \in Nat
  BY <1>2, PagesAre DEF StateTypes, StoreTypes
<1>4. toSend' = [toSend EXCEPT ![p] = Tail(toSend[p])] /\ channel' = [channel EXCEPT ![p] = channel[p] \o sent]
  BY DEF SendHaves
<1>5. /\ toSend'[p] = Tail(toSend[p]) /\ channel'[p] = channel[p] \o sent
      /\ \A q \in Others \ {p} : channel'[q] = channel[q] /\ toSend'[q] = toSend[q]
  BY <1>4 DEF StateTypes, TransportTypes
<1>6. Range(toSend[p]) \subseteq Range(toSend'[p]) \cup {c}
  <2>1. ASSUME NEW k \in DOMAIN toSend[p] PROVE toSend[p][k] \in Range(Tail(toSend[p])) \cup {c}
    <3>1. CASE k = 1
      BY <1>1, <3>1
    <3>2. CASE k # 1
      <4>1. k - 1 \in DOMAIN Tail(toSend[p]) /\ Tail(toSend[p])[k - 1] = toSend[p][k]
        BY <1>1, <3>2
      <4>2. QED
        BY <4>1 DEF Range
    <3>3. QED
      BY <3>1, <3>2
  <2>2. QED
    BY <1>5, <2>1 DEF Range
<1> DEFINE V == {Message(c, s.blocks, k - 1) : k \in 1 .. n}
<1>7. sent \in [1 .. n -> V] /\ \A i \in 1 .. n : sent[i] = Message(c, s.blocks, i - 1)
  OBVIOUS
<1> HIDE DEF sent, c, s, n, len, V
<1>8. sent \in Seq(V) /\ Len(sent) = n /\ channel[p] \in Seq(HaveMessage)
  BY <1>1, <1>3, <1>7
<1>9. /\ DOMAIN (channel[p] \o sent) = 1 .. len + n
      /\ \A k \in 1 .. len : (channel[p] \o sent)[k] = channel[p][k]
      /\ \A k \in len + 1 .. len + n : (channel[p] \o sent)[k] = sent[k - len]
  BY <1>2, <1>3, <1>8 DEF len
<1>10. ASSUME NEW i \in 0 .. n - 1 PROVE channel'[p][len + i + 1] = Message(c, s.blocks, i)
  <2> DEFINE k == len + i + 1
  <2>1. k \in len + 1 .. len + n /\ k - len = i + 1 /\ i + 1 \in 1 .. n /\ (i + 1) - 1 = i
    BY <1>2, <1>3
  <2> HIDE DEF k
  <2>2. channel'[p][k] = sent[i + 1] /\ sent[i + 1] = Message(c, s.blocks, i)
    BY <1>5, <1>7, <1>9, <2>1
  <2>3. QED
    BY <2>2 DEF k
<1>11. QED
  BY <1>2, <1>3, <1>5, <1>6, <1>9, <1>10 DEF c, s, n, len

\* The first message goes.
LEMMA HeadGoes ==
  ASSUME StateTypes, NEW p \in Others, HandleHaveMessage(p)
  PROVE  /\ Len(channel[p]) \in Nat /\ Len(channel[p]) > 0 /\ HeadOf(p) = channel[p][1]
         /\ DOMAIN channel[p] = 1 .. Len(channel[p]) /\ DOMAIN channel'[p] = 1 .. Len(channel[p]) - 1
         /\ \A k \in 1 .. Len(channel[p]) - 1 : channel'[p][k] = channel[p][k + 1]
         /\ \A q \in Others \ {p} : channel'[q] = channel[q]
<1>1. channel[p] \in Seq(HaveMessage) /\ channel[p] # <<>>
  BY DEF HandleHaveMessage, StateTypes, TransportTypes
<1>2. channel' = [channel EXCEPT ![p] = Tail(channel[p])]
  BY DEF HandleHaveMessage
<1>3. channel'[p] = Tail(channel[p]) /\ \A q \in Others \ {p} : channel'[q] = channel[q]
  BY <1>2 DEF StateTypes, TransportTypes
<1>4. QED
  BY <1>1, <1>3 DEF HeadOf

\* The other steps leave the channel of a peer, or it goes.
LEMMA ChannelIsKept ==
  ASSUME StateTypes, [StateNext]_stateVars, NEW p \in Others, ~ SendHaves(p), ~ HandleHaveMessage(p)
  PROVE  channel'[p] = channel[p] \/ (p \notin online' /\ channel'[p] = <<>>)
<1>1. channel \in [Others -> Seq(HaveMessage)]
  BY DEF StateTypes, TransportTypes
<1>2. ASSUME NEW q \in Others, SendHaves(q) PROVE channel'[p] = channel[p]
  BY <1>1, <1>2 DEF SendHaves
<1>3. ASSUME NEW q \in Others, HandleHaveMessage(q) PROVE channel'[p] = channel[p]
  BY <1>1, <1>3 DEF HandleHaveMessage
<1>4. ASSUME NEW q \in Others, DisconnectPeer(q)
      PROVE  channel'[p] = channel[p] \/ (p \notin online' /\ channel'[p] = <<>>)
  BY <1>1, <1>4 DEF DisconnectPeer
<1>5. ASSUME NEW q \in Others, Connect(q) \/ OtherSteps(q) PROVE channel'[p] = channel[p]
  BY <1>5 DEF Connect, OtherSteps, PeerAppends, PeerClears, PeerGets, transport
<1>6. CASE UNCHANGED transport
  BY <1>6 DEF transport
<1>7. QED
  BY <1>2, <1>3, <1>4, <1>5, <1>6, StepsChange DEF stateVars

\* A message m is of one of the pages of s.
OfPage(s, m) == \E i \in 0 .. PagesOf(s) - 1 : m.start = i * BitsPerPage

LEMMA StepKeepsMessages ==
  ASSUME StateTypes, MessagesOK, [StateNext]_stateVars
  PROVE  MessagesOK'
<1>1. StateTypes'
  BY StepKeepsStateTypes
<1>2. ASSUME NEW p \in Others, NEW m \in HaveMessage, OfPage(store[p][m.core], m)
      PROVE  OfPage(store'[p][m.core], m)
  <2>1. m.core \in Cores
    BY DEF HaveMessage
  <2>2. /\ PagesOf(store[p][m.core]) \in Nat /\ PagesOf(store'[p][m.core]) \in Nat
        /\ PagesOf(store[p][m.core]) <= PagesOf(store'[p][m.core])
    BY <2>1, StoresGrow
  <2>3. QED
    BY <1>2, <2>2 DEF OfPage
<1>3. ASSUME NEW p \in Others, NEW k \in DOMAIN channel'[p]
      PROVE  OfPage(store'[p][channel'[p][k].core], channel'[p][k])
  <2>1. channel'[p][k] \in HaveMessage
    BY <1>1 DEF StateTypes, TransportTypes
  <2> DEFINE len == Len(channel[p])
  <2>2. OfPage(store[p][channel'[p][k].core], channel'[p][k])
    <3>1. ASSUME NEW l \in DOMAIN channel[p] PROVE OfPage(store[p][channel[p][l].core], channel[p][l])
      BY DEF MessagesOK, OfPage
    <3>2. CASE SendHaves(p)
      <4> DEFINE c == Head(toSend[p])
                 n == PagesOf(store[p][c])
      <4>1. /\ len \in Nat /\ n \in Nat /\ k \in 1 .. len + n /\ DOMAIN channel[p] = 1 .. len
            /\ \A l \in 1 .. len : channel'[p][l] = channel[p][l]
            /\ \A i \in 0 .. n - 1 : channel'[p][len + i + 1] = Message(c, store[p][c].blocks, i)
        BY <3>2, HavesAreSent
      <4> HIDE DEF len, n, c
      <4>2. CASE k \in 1 .. len
        BY <3>1, <4>1, <4>2
      <4>3. CASE k \notin 1 .. len
        <5> DEFINE i == k - len - 1
        <5>1. i \in 0 .. n - 1 /\ k = len + i + 1
          BY <4>1, <4>3
        <5> HIDE DEF i
        <5>2. channel'[p][k] = Message(c, store[p][c].blocks, i)
          BY <4>1, <5>1
        <5>3. channel'[p][k].core = c /\ channel'[p][k].start = i * BitsPerPage
          BY <5>2 DEF Message
        <5>4. QED
          BY <5>1, <5>3 DEF OfPage, n
      <4>4. QED
        BY <4>2, <4>3
    <3>3. CASE HandleHaveMessage(p)
      <4>1. /\ len \in Nat /\ k \in 1 .. len - 1 /\ DOMAIN channel[p] = 1 .. len
            /\ \A l \in 1 .. len - 1 : channel'[p][l] = channel[p][l + 1]
        BY <3>3, HeadGoes
      <4> HIDE DEF len
      <4>2. k + 1 \in DOMAIN channel[p] /\ channel'[p][k] = channel[p][k + 1]
        BY <4>1
      <4>3. QED
        BY <3>1, <4>2
    <3>4. CASE ~ SendHaves(p) /\ ~ HandleHaveMessage(p)
      <4>1. channel'[p] = channel[p]
        BY <3>4, ChannelIsKept
      <4>2. QED
        BY <3>1, <4>1
    <3>5. QED
      BY <3>2, <3>3, <3>4
  <2>3. QED
    BY <1>2, <2>1, <2>2
<1>4. QED
  BY <1>3 DEF MessagesOK, OfPage

\* A core that its writer is not about to send was not before, and is as it was.
LEMMA WriterResends ==
  ASSUME StateTypes, [StateNext]_stateVars, NEW c \in Cores, NEW p \in Others, Writer[c] = p,
         p \in online', c \notin Range(toSend'[p]), ~ SendHaves(p)
  PROVE  p \in online /\ c \notin Range(toSend[p]) /\ store'[p][c] = store[p][c]
<1>1. toSend \in [Others -> Seq(Cores)] /\ toSend' \in [Others -> Seq(Cores)]
  BY StepKeepsStateTypes DEF StateTypes, TransportTypes
<1>2. store'[p][c] = store[p][c] \/ (OtherSteps(p) /\ Resend(p, c))
  BY StoresGrow
<1>3. ASSUME OtherSteps(p), Resend(p, c) PROVE FALSE
  <2>1. online' = online
    BY <1>3 DEF OtherSteps, PeerAppends, PeerClears, PeerGets, transport
  <2>2. CASE c \in Range(toSend[p])
    <3>1. toSend' = toSend
      BY <1>3, <2>2 DEF Resend
    <3>2. QED
      BY <2>2, <3>1
  <2>3. CASE c \notin Range(toSend[p])
    <3>1. toSend'[p] = Append(toSend[p], c) /\ toSend[p] \in Seq(Cores)
      BY <1>1, <1>3, <2>1, <2>3 DEF Resend
    <3>2. Len(toSend[p]) + 1 \in DOMAIN toSend'[p] /\ toSend'[p][Len(toSend[p]) + 1] = c
      BY <3>1
    <3>3. QED
      BY <3>2 DEF Range
  <2>4. QED
    BY <2>2, <2>3
<1>4. p \in online /\ c \notin Range(toSend[p])
  <2>1. ASSUME NEW q \in Others, Connect(q) PROVE p \in online /\ c \notin Range(toSend[p])
    <3>1. toSend' = [toSend EXCEPT ![q] = SetToSeq(Cores)] /\ online' = online \cup {q}
      BY <2>1 DEF Connect
    <3>2. CASE p = q
      <4>1. toSend'[p] = SetToSeq(Cores)
        BY <1>1, <3>1, <3>2
      <4>2. QED
        BY <4>1, SetToSeqIs, SyncStateAssumption
    <3>3. CASE p # q
      BY <1>1, <3>1, <3>3
    <3>4. QED
      BY <3>2, <3>3
  <2>2. ASSUME NEW q \in Others, SendHaves(q) PROVE p \in online /\ c \notin Range(toSend[p])
    BY <1>1, <2>2 DEF SendHaves
  <2>3. ASSUME NEW q \in Others, HandleHaveMessage(q) PROVE p \in online /\ c \notin Range(toSend[p])
    BY <2>3 DEF HandleHaveMessage
  <2>4. ASSUME NEW q \in Others, DisconnectPeer(q) PROVE p \in online /\ c \notin Range(toSend[p])
    BY <1>1, <2>4 DEF DisconnectPeer
  <2>5. ASSUME NEW q \in Others, OtherSteps(q) PROVE p \in online /\ c \notin Range(toSend[p])
    <3>1. online' = online
      BY <2>5 DEF OtherSteps, PeerAppends, PeerClears, PeerGets, transport
    <3>2. PICK d \in Cores : toSend' = toSend \/ toSend' = [toSend EXCEPT ![q] = Append(toSend[q], d)]
      BY <2>5 DEF OtherSteps, PeerAppends, PeerClears, PeerGets, transport, Resend
    <3>3. toSend'[p] = toSend[p] \/ toSend'[p] = Append(toSend[p], d)
      BY <1>1, <3>2
    <3>4. toSend[p] \in Seq(Cores)
      BY <1>1
    <3>5. Range(toSend[p]) \subseteq Range(Append(toSend[p], d))
      <4>1. \A k \in DOMAIN toSend[p] : k \in DOMAIN Append(toSend[p], d) /\ Append(toSend[p], d)[k] = toSend[p][k]
        BY <3>4
      <4>2. QED
        BY <4>1 DEF Range
    <3>6. QED
      BY <3>1, <3>3, <3>5
  <2>6. CASE UNCHANGED transport
    BY <2>6 DEF transport
  <2>7. QED
    BY <2>1, <2>2, <2>3, <2>4, <2>5, <2>6, StepsChange DEF stateVars
<1>5. QED
  BY <1>2, <1>3, <1>4

LEMMA PageIsSent ==
  ASSUME StateTypes, NEW p \in Others, SendHaves(p), NEW c, c = Head(toSend[p]),
         NEW i \in 0 .. PagesOf(store[p][c]) - 1
  PROVE  PageArrives(p, c, i)'
<1> DEFINE len == Len(channel[p])
           n == PagesOf(store[p][c])
           held == store[p][c].blocks
           k == len + i + 1
<1>1. /\ len \in Nat /\ n \in Nat /\ DOMAIN channel'[p] = 1 .. len + n
      /\ \A j \in 0 .. n - 1 : channel'[p][len + j + 1] = Message(c, held, j)
  BY HavesAreSent
<1>2. store' = store
  BY DEF SendHaves
<1>3. i \in 0 .. n - 1
  OBVIOUS
<1> HIDE DEF len, n, held
<1>4. k \in DOMAIN channel'[p] /\ channel'[p][k] = Message(c, held, i)
  BY <1>1, <1>3
<1>5. ASSUME NEW l \in DOMAIN channel'[p], l > k PROVE ~ IsOf(channel'[p][l], c, i)
  <2> DEFINE j == l - len - 1
  <2>1. j \in 0 .. n - 1 /\ l = len + j + 1 /\ i < j /\ i \in Nat /\ j \in Nat
    BY <1>1, <1>3, <1>5
  <2> HIDE DEF j
  <2>2. channel'[p][l] = Message(c, held, j)
    BY <1>1, <2>1
  <2>3. channel'[p][l].start = j * BitsPerPage
    BY <2>2 DEF Message
  <2>4. i * BitsPerPage + BitsPerPage <= j * BitsPerPage
    BY <2>1, NextPage, Sizes
  <2>5. i * BitsPerPage \in Nat /\ j * BitsPerPage \in Nat /\ BitsPerPage \in Nat \ {0}
    BY <2>1, Sizes
  <2>6. QED
    BY <2>3, <2>4, <2>5 DEF IsOf
<1> HIDE DEF k
<1>6. channel'[p][k] = Message(c, store'[p][c].blocks, i)
  BY <1>2, <1>4 DEF held
<1>7. \E l \in DOMAIN channel'[p] : /\ channel'[p][l] = Message(c, store'[p][c].blocks, i)
                                     /\ \A j \in DOMAIN channel'[p] : j > l => ~ IsOf(channel'[p][j], c, i)
  BY <1>4, <1>5, <1>6
<1>8. QED
  BY <1>7 DEF PageArrives

\* A step that has nothing to do with it leaves it.
LEMMA PageStays ==
  ASSUME StateTypes, PagesInv, [StateNext]_stateVars, NEW c \in Cores, NEW p \in Others, NEW i,
         ~ HandleHaveMessage(p), p \in online', channel'[p] = channel[p], store'[p][c] = store[p][c],
         PageArrives(p, c, i)
  PROVE  PageArrives(p, c, i)'
<1> DEFINE held == store[p][c].blocks
           told == \E k \in DOMAIN channel[p] :
                     /\ channel[p][k] = Message(c, held, i)
                     /\ \A l \in DOMAIN channel[p] : l > k => ~ IsOf(channel[p][l], c, i)
           untold == \A l \in DOMAIN channel[p] : ~ IsOf(channel[p][l], c, i)
<1>1. p \in DOMAIN peerStates[c]
        => p \in DOMAIN peerStates'[c] /\ peerStates'[c][p].preHaves = peerStates[c][p].preHaves
  BY PreHavesAreKept DEF PagesInv, PeerStateOf
<1>2. store'[p][c].blocks = held
  OBVIOUS
<1>3. \/ told
      \/ /\ untold /\ p \in DOMAIN peerStates[c]
         /\ i \in DOMAIN peerStates[c][p].preHaves.pages
         /\ peerStates[c][p].preHaves.pages[i] = PageBits(held, i)
  BY DEF PageArrives
<1> HIDE DEF held
<1>4. \/ told
      \/ /\ untold /\ p \in DOMAIN peerStates'[c]
         /\ i \in DOMAIN peerStates'[c][p].preHaves.pages
         /\ peerStates'[c][p].preHaves.pages[i] = PageBits(held, i)
  BY <1>1, <1>3
<1>5. QED
  BY <1>2, <1>4 DEF PageArrives

\* Messages of another core are sent after its own.
LEMMA OtherPagesAreSent ==
  ASSUME StateTypes, PagesInv, [StateNext]_stateVars, NEW c \in Cores, NEW p \in Others, NEW i,
         SendHaves(p), c # Head(toSend[p]), ~ HandleHaveMessage(p), PageArrives(p, c, i)
  PROVE  PageArrives(p, c, i)'
<1> DEFINE d == Head(toSend[p])
           len == Len(channel[p])
           n == PagesOf(store[p][d])
           held == store[p][c].blocks
           known == /\ p \in DOMAIN peerStates[c]
                    /\ i \in DOMAIN peerStates[c][p].preHaves.pages
                    /\ peerStates[c][p].preHaves.pages[i] = PageBits(held, i)
<1>1. /\ len \in Nat /\ n \in Nat /\ DOMAIN channel[p] = 1 .. len /\ DOMAIN channel'[p] = 1 .. len + n
      /\ \A k \in 1 .. len : channel'[p][k] = channel[p][k]
      /\ \A j \in 0 .. n - 1 : channel'[p][len + j + 1] = Message(d, store[p][d].blocks, j)
  BY HavesAreSent
<1>2. store' = store /\ peerStates' = peerStates
  BY DEF SendHaves, cores
<1>3. \/ \E k \in DOMAIN channel[p] :
           /\ channel[p][k] = Message(c, held, i)
           /\ \A l \in DOMAIN channel[p] : l > k => ~ IsOf(channel[p][l], c, i)
      \/ (\A l \in DOMAIN channel[p] : ~ IsOf(channel[p][l], c, i)) /\ known
  BY DEF PageArrives
<1> HIDE DEF len, n
<1>4. ASSUME NEW l \in 1 .. len + n, l \notin 1 .. len PROVE ~ IsOf(channel'[p][l], c, i)
  <2> DEFINE j == l - len - 1
  <2>1. j \in 0 .. n - 1 /\ l = len + j + 1
    BY <1>1, <1>4
  <2> HIDE DEF j, d
  <2>2. channel'[p][l] = Message(d, store[p][d].blocks, j)
    BY <1>1, <2>1
  <2>3. channel'[p][l].core = d
    BY <2>2 DEF Message
  <2>4. QED
    BY <2>3 DEF IsOf, d
<1> HIDE DEF d, held, known
<1>5. \/ \E k \in DOMAIN channel'[p] :
           /\ channel'[p][k] = Message(c, held, i)
           /\ \A l \in DOMAIN channel'[p] : l > k => ~ IsOf(channel'[p][l], c, i)
      \/ (\A l \in DOMAIN channel'[p] : ~ IsOf(channel'[p][l], c, i)) /\ known
  <2>1. CASE (\A l \in DOMAIN channel[p] : ~ IsOf(channel[p][l], c, i)) /\ known
    <3>1. ASSUME NEW l \in DOMAIN channel'[p] PROVE ~ IsOf(channel'[p][l], c, i)
      BY <1>1, <1>4, <2>1
    <3>2. QED
      BY <2>1, <3>1
  <2>2. CASE \E k \in DOMAIN channel[p] :
               /\ channel[p][k] = Message(c, held, i)
               /\ \A l \in DOMAIN channel[p] : l > k => ~ IsOf(channel[p][l], c, i)
    <3>1. PICK k \in DOMAIN channel[p] :
                 /\ channel[p][k] = Message(c, held, i)
                 /\ \A l \in DOMAIN channel[p] : l > k => ~ IsOf(channel[p][l], c, i)
      BY <2>2
    <3>2. k \in DOMAIN channel'[p] /\ channel'[p][k] = Message(c, held, i)
      BY <1>1, <3>1
    <3>3. ASSUME NEW l \in DOMAIN channel'[p], l > k PROVE ~ IsOf(channel'[p][l], c, i)
      BY <1>1, <1>4, <3>1, <3>3
    <3>4. QED
      BY <3>2, <3>3
  <2>3. QED
    BY <1>3, <2>1, <2>2
<1>6. store'[p][c].blocks = held
  BY <1>2 DEF held
<1>7. known => /\ p \in DOMAIN peerStates'[c]
               /\ i \in DOMAIN peerStates'[c][p].preHaves.pages
               /\ peerStates'[c][p].preHaves.pages[i] = PageBits(held, i)
  BY <1>2 DEF known
<1>8. QED
  BY <1>5, <1>6, <1>7 DEF PageArrives

\* A page is told, and is then known.
LEMMA PageIsHandled ==
  ASSUME StateTypes, PagesInv, [StateNext]_stateVars, NEW c \in Cores, NEW p \in Others,
         NEW i \in Nat, HandleHaveMessage(p), PageArrives(p, c, i)
  PROVE  PageArrives(p, c, i)'
<1> DEFINE len == Len(channel[p])
           m == HeadOf(p)
           held == store[p][c].blocks
           Known1(states) == /\ p \in DOMAIN states[c]
                             /\ i \in DOMAIN states[c][p].preHaves.pages
                             /\ states[c][p].preHaves.pages[i] = PageBits(held, i)
<1>1. /\ len \in Nat /\ len > 0 /\ m = channel[p][1]
      /\ DOMAIN channel[p] = 1 .. len /\ DOMAIN channel'[p] = 1 .. len - 1
      /\ \A k \in 1 .. len - 1 : channel'[p][k] = channel[p][k + 1]
  BY HeadGoes
<1>12. \A l \in DOMAIN channel'[p] : l + 1 \in DOMAIN channel[p] /\ l \in Nat /\ l > 0 /\ channel'[p][l] = channel[p][l + 1]
  BY <1>1
<1>2. \/ \E k \in DOMAIN channel[p] :
           /\ channel[p][k] = Message(c, held, i)
           /\ \A l \in DOMAIN channel[p] : l > k => ~ IsOf(channel[p][l], c, i)
      \/ (\A l \in DOMAIN channel[p] : ~ IsOf(channel[p][l], c, i)) /\ Known1(peerStates)
  BY DEF PageArrives
<1>3. store' = store
  BY DEF HandleHaveMessage
<1>4. m.core = c => \E j \in Nat : /\ m.start = j * BitsPerPage
                                  /\ HasPage(Told(p), PeerStateOf(c, p).preHaves, j, BitsIn(m))
  BY MessageIsHandled DEF PagesInv
<1>5. m.core = c => p \in DOMAIN peerStates'[c] /\ peerStates'[c][p].preHaves = Told(p)
  <2>1. ASSUME m.core = c PROVE p \in DOMAIN peerStates'[c] /\ peerStates'[c][p].preHaves = Told(p)
    <3> DEFINE r == PeerStateOf(c, p)
    <3>1. p \in DOMAIN peerStates'[c] /\ peerStates'[c][p] = [r EXCEPT !.preHaves = Told(p)]
      BY <2>1, MessageIsPut DEF IsPut
    <3>2. IsRecord(r)
      BY PeerStateOfIsOne DEF PagesInv, IsPeerState, IsRecord
    <3> HIDE DEF r
    <3>3. peerStates'[c][p] = [preHaves |-> Told(p), haves |-> r.haves, status |-> r.status, updating |-> r.updating]
      BY <3>1, <3>2, FieldsAreSet
    <3>4. QED
      BY <3>1, <3>3
  <2>2. QED
    BY <2>1
<1>6. m.core # c => peerStates'[c] = peerStates[c]
  BY MessageIsPut DEF IsPut
<1> HIDE DEF m, len, held
<1>7. ASSUME m = Message(c, held, i) PROVE Known1(peerStates')
  <2>1. m.core = c /\ m.start = i * BitsPerPage
    BY <1>7 DEF Message
  <2>2. BitsIn(m) = PageBits(held, i)
    BY <1>7, MessageTells
  <2>3. PICK j \in Nat : m.start = j * BitsPerPage /\ HasPage(Told(p), PeerStateOf(c, p).preHaves, j, BitsIn(m))
    BY <1>4, <2>1
  <2>4. j = i
    <3>1. i * BitsPerPage = j * BitsPerPage
      BY <2>1, <2>3
    <3>2. ~ (i < j) /\ ~ (j < i)
      <4>1. i < j => i * BitsPerPage + BitsPerPage <= j * BitsPerPage
        BY NextPage, Sizes
      <4>2. j < i => j * BitsPerPage + BitsPerPage <= i * BitsPerPage
        BY NextPage, Sizes
      <4>3. i * BitsPerPage \in Nat /\ j * BitsPerPage \in Nat /\ BitsPerPage \in Nat \ {0}
        BY Sizes
      <4>4. QED
        BY <3>1, <4>1, <4>2, <4>3
    <3>3. QED
      BY <3>2
  <2>5. i \in DOMAIN Told(p).pages /\ Told(p).pages[i] = BitsIn(m)
    BY <2>3, <2>4 DEF HasPage
  <2>6. QED
    BY <1>5, <2>1, <2>2, <2>5
<1>8. ASSUME ~ IsOf(m, c, i), Known1(peerStates) PROVE Known1(peerStates')
  <2>1. CASE m.core # c
    BY <1>6, <1>8, <2>1
  <2>2. CASE m.core = c
    <3>1. PICK j \in Nat : m.start = j * BitsPerPage /\ HasPage(Told(p), PeerStateOf(c, p).preHaves, j, BitsIn(m))
      BY <1>4, <2>2
    <3>2. j # i
      BY <1>8, <2>2, <3>1 DEF IsOf
    <3>3. PeerStateOf(c, p) = peerStates[c][p]
      BY <1>8 DEF PeerStateOf
    <3>4. i \in DOMAIN Told(p).pages /\ Told(p).pages[i] = PageBits(held, i)
      BY <1>8, <3>1, <3>2, <3>3 DEF HasPage
    <3>5. QED
      BY <1>5, <2>2, <3>4
  <2>3. QED
    BY <2>1, <2>2
<1> HIDE DEF Known1
<1>9. \/ \E k \in DOMAIN channel'[p] :
           /\ channel'[p][k] = Message(c, held, i)
           /\ \A l \in DOMAIN channel'[p] : l > k => ~ IsOf(channel'[p][l], c, i)
      \/ (\A l \in DOMAIN channel'[p] : ~ IsOf(channel'[p][l], c, i)) /\ Known1(peerStates')
  <2>1. CASE (\A l \in DOMAIN channel[p] : ~ IsOf(channel[p][l], c, i)) /\ Known1(peerStates)
    <3>1. ASSUME NEW l \in DOMAIN channel'[p] PROVE ~ IsOf(channel'[p][l], c, i)
      <4>1. l + 1 \in DOMAIN channel[p] /\ channel'[p][l] = channel[p][l + 1]
        BY <1>12
      <4>2. QED
        BY <2>1, <4>1, Zenon
    <3>2. 1 \in DOMAIN channel[p]
      BY <1>1
    <3>3. QED
      BY <1>1, <1>8, <2>1, <3>1, <3>2
  <2>2. CASE \E k \in DOMAIN channel[p] :
               /\ channel[p][k] = Message(c, held, i)
               /\ \A l \in DOMAIN channel[p] : l > k => ~ IsOf(channel[p][l], c, i)
    <3>1. PICK k \in DOMAIN channel[p] :
                 /\ channel[p][k] = Message(c, held, i)
                 /\ \A l \in DOMAIN channel[p] : l > k => ~ IsOf(channel[p][l], c, i)
      BY <2>2
    <3>2. CASE k = 1
      <4>1. Known1(peerStates')
        BY <1>1, <1>7, <3>1, <3>2
      <4>2. ASSUME NEW l \in DOMAIN channel'[p] PROVE ~ IsOf(channel'[p][l], c, i)
        <5>1. l + 1 \in DOMAIN channel[p] /\ channel'[p][l] = channel[p][l + 1]
          BY <1>12
        <5>2. l + 1 > k
          BY <1>12, <3>2
        <5>3. QED
          BY <3>1, <5>1, <5>2, Zenon
      <4>3. QED
        BY <4>1, <4>2
    <3>3. CASE k # 1
      <4> DEFINE h == k - 1
      <4>1. h \in DOMAIN channel'[p] /\ channel'[p][h] = channel[p][k]
        BY <1>1, <3>3
      <4>2. ASSUME NEW l \in DOMAIN channel'[p], l > h PROVE ~ IsOf(channel'[p][l], c, i)
        <5>1. l + 1 \in DOMAIN channel[p] /\ channel'[p][l] = channel[p][l + 1]
          BY <1>12
        <5>2. l + 1 > k
          <6>1. k \in Nat
            BY <1>1
          <6>2. QED
            BY <1>12, <4>2, <6>1
        <5>3. QED
          BY <3>1, <5>1, <5>2, Zenon
      <4> HIDE DEF h
      <4>3. QED
        BY <3>1, <4>1, <4>2
    <3>4. QED
      BY <3>2, <3>3
  <2>3. QED
    BY <1>2, <2>1, <2>2
<1>10. store'[p][c].blocks = held
  BY <1>3 DEF held
<1>11. QED
  BY <1>9, <1>10 DEF PageArrives, Known1

LEMMA StepKeepsPages ==
  ASSUME StateTypes, PagesInv, [StateNext]_stateVars
  PROVE  PagesArrive'
<1>1. ASSUME NEW p \in online', NEW c \in Cores, Writer[c] = p, c \notin Range(toSend'[p]),
             NEW i \in 0 .. PagesOf(store'[p][c]) - 1
      PROVE  PageArrives(p, c, i)'
  <2>1. p \in Others
    BY StepKeepsStateTypes DEF StateTypes, TransportTypes
  <2>2. PagesOf(store'[p][c]) \in Nat /\ i \in Nat
    BY <2>1, StoresGrow
  <2>3. CASE SendHaves(p)
    <3>1. store' = store /\ online' = online
      BY <2>3 DEF SendHaves
    <3>2. CASE c = Head(toSend[p])
      BY <2>1, <2>3, <3>1, <3>2, PageIsSent
    <3>3. CASE c # Head(toSend[p])
      <4>1. c \notin Range(toSend[p])
        BY <1>1, <2>1, <2>3, <3>3, HavesAreSent
      <4>2. PageArrives(p, c, i)
        BY <1>1, <3>1, <4>1 DEF PagesInv, PagesArrive
      <4>3. ~ HandleHaveMessage(p) \/ toSend' = toSend
        BY DEF HandleHaveMessage
      <4>4. toSend' # toSend
        <5>1. toSend[p] \in Seq(Cores) /\ toSend[p] # <<>> /\ toSend' = [toSend EXCEPT ![p] = Tail(toSend[p])]
          BY <2>1, <2>3 DEF SendHaves, StateTypes, TransportTypes
        <5>2. toSend'[p] = Tail(toSend[p])
          BY <2>1, <5>1 DEF StateTypes, TransportTypes
        <5>3. Len(Tail(toSend[p])) # Len(toSend[p])
          BY <5>1
        <5>4. QED
          BY <5>2, <5>3
      <4>5. QED
        BY <2>1, <2>3, <3>3, <4>2, <4>3, <4>4, OtherPagesAreSent
    <3>4. QED
      BY <3>2, <3>3
  <2>4. CASE ~ SendHaves(p)
    <3>1. p \in online /\ c \notin Range(toSend[p]) /\ store'[p][c] = store[p][c]
      BY <1>1, <2>1, <2>4, WriterResends
    <3>2. PageArrives(p, c, i)
      BY <1>1, <3>1 DEF PagesInv, PagesArrive
    <3>3. CASE HandleHaveMessage(p)
      BY <2>1, <2>2, <3>2, <3>3, PageIsHandled
    <3>4. CASE ~ HandleHaveMessage(p)
      <4>1. channel'[p] = channel[p]
        BY <2>1, <2>4, <3>4, ChannelIsKept
      <4>2. QED
        BY <2>1, <3>1, <3>2, <3>4, <4>1, PageStays
    <3>5. QED
      BY <3>3, <3>4
  <2>5. QED
    BY <2>3, <2>4
<1>2. QED
  BY <1>1 DEF PagesArrive

LEMMA InitHasPages ==
  ASSUME StateInit
  PROVE  PagesInv
<1>1. channel = [p \in Others |-> <<>>] /\ online = {} /\ peerStates = [c \in Cores |-> <<>>]
      /\ preHavesLength = [c \in Cores |-> 0]
  BY DEF StateInit
<1>2. MessagesOK
  BY <1>1 DEF MessagesOK
<1>3. PagesArrive
  BY <1>1 DEF PagesArrive
<1>4. PeerStatesOK /\ PreHavesOK
  BY <1>1 DEF PeerStatesOK, PreHavesOK
<1>5. QED
  BY <1>2, <1>3, <1>4 DEF PagesInv

LEMMA PagesAreInvariant == StateSpec => [](StateTypes /\ PagesInv)
<1>1. StateInit => StateTypes /\ PagesInv
  BY InitHasStateTypes, InitHasPages
<1>2. StateTypes /\ PagesInv /\ [StateNext]_stateVars => StateTypes' /\ PagesInv'
  BY StepKeepsStateTypes, StepKeepsMessages, StepKeepsPages, StepKeepsPeerStates DEF PagesInv
<1>3. QED
  BY <1>1, <1>2, PTL DEF StateSpec

LEMMA AllPagesHaveArrived ==
  ASSUME StateTypes, PagesInv, NEW p \in online, NEW c \in Cores, Writer[c] = p, store[p][c].length > 0,
         c \notin Range(toSend[p]), channel[p] = <<>>
  PROVE  p \in DOMAIN peerStates[c] /\ BitsOf(peerStates[c][p].preHaves) = store[p][c].blocks
<1> DEFINE s == store[p][c]
           b == peerStates[c][p].preHaves
<1>1. s \in Stores
  BY DEF StateTypes, StoreTypes, TransportTypes
<1>2. \A i \in 0 .. PagesOf(s) - 1 :
        p \in DOMAIN peerStates[c] /\ i \in DOMAIN b.pages /\ b.pages[i] = PageBits(s.blocks, i)
  <2>1. DOMAIN channel[p] = {}
    OBVIOUS
  <2>2. \A i \in 0 .. PagesOf(s) - 1 : PageArrives(p, c, i)
    BY DEF PagesInv, PagesArrive
  <2>3. QED
    BY <2>1, <2>2 DEF PageArrives
<1>3. \E i : i \in 0 .. PagesOf(s) - 1
  <2>1. 0 \in 0 .. s.length - 1
    BY <1>1, PagesAre
  <2>2. 0 \div BitsPerPage \in 0 .. PagesOf(s) - 1
    BY <1>1, <2>1, PagesAre
  <2>3. QED
    BY <2>2
<1>4. p \in DOMAIN peerStates[c]
  BY <1>2, <1>3
<1>5. IsBitfield(b) /\ DOMAIN b.pages \subseteq 0 .. PagesOf(s) - 1
  BY <1>4 DEF PagesInv, PeerStatesOK, PreHavesOK, IsPeerState
<1> HIDE DEF b
<1>6. BitsOf(b) = s.blocks
  BY <1>1, <1>2, <1>5, PagesAreBlocks
<1>7. QED
  BY <1>4, <1>6 DEF b

\* Every variable has its type.
THEOREM StateTypeCorrect == StateSpec => []StateTypeOK
<1>1. StateTypes /\ PagesInv => StateTypeOK
  BY DEF StateTypes, StoreTypes, TransportTypes, CoreTypes, PeersTypes, PagesInv, PeerStatesOK, StateTypeOK
<1>2. QED
  BY <1>1, PagesAreInvariant, PTL

\* And what a peer has sent is known as the peer has it.
THEOREM HavesHaveArrived == StateSpec => []HavesArrive
<1>1. StateTypes /\ PagesInv => HavesArrive
  BY AllPagesHaveArrived DEF StateTypes, PeersTypes, HavesArrive
<1>2. QED
  BY <1>1, PagesAreInvariant, PTL

-----------------------------------------------------------------------------
(***************************************************************************)
(* What is summed over the cores.                                          *)
(***************************************************************************)
\* The sum of the states is that of one after the other.
SumsTo(f, states, n) == /\ f[0] = NoState
                        /\ \A i \in 1 .. n : f[i] = AddCoreState(f[i - 1], states[i])

LEMMA SumsExist ==
  ASSUME NEW states
  PROVE  \A n \in Nat : \E f : f = [i \in 0 .. n |-> f[i]] /\ SumsTo(f, states, n)
<1> DEFINE S == {n \in Nat : \E f : f = [i \in 0 .. n |-> f[i]] /\ SumsTo(f, states, n)}
<1>1. 0 \in S
  <2> DEFINE f == [i \in 0 .. 0 |-> NoState]
  <2>1. f[0] = NoState /\ f = [i \in 0 .. 0 |-> f[i]]
    OBVIOUS
  <2> HIDE DEF f
  <2>2. SumsTo(f, states, 0)
    BY <2>1 DEF SumsTo
  <2>3. QED
    BY <2>1, <2>2
<1>2. ASSUME NEW n \in Nat, n \in S PROVE n + 1 \in S
  <2>1. PICK f : f = [i \in 0 .. n |-> f[i]] /\ SumsTo(f, states, n)
    BY <1>2
  <2> DEFINE new == AddCoreState(f[n], states[n + 1])
             g == [i \in 0 .. n + 1 |-> IF i = n + 1 THEN new ELSE f[i]]
  <2> HIDE DEF new
  <2>2. /\ g = [i \in 0 .. n + 1 |-> g[i]] /\ g[n + 1] = new
        /\ \A i \in 0 .. n : g[i] = f[i]
    OBVIOUS
  <2> HIDE DEF g
  <2>3. ASSUME NEW i \in 1 .. n + 1 PROVE g[i] = AddCoreState(g[i - 1], states[i])
    <3>1. CASE i = n + 1
      <4>1. i - 1 = n /\ n \in 0 .. n
        BY <3>1
      <4>3. g[n] = f[n]
        BY <2>2, <4>1
      <4>2. QED
        BY <2>2, <3>1, <4>1, <4>3 DEF new
    <3>2. CASE i # n + 1
      <4>1. i \in 1 .. n /\ i - 1 \in 0 .. n /\ i \in 0 .. n
        BY <3>2
      <4>2. g[i] = f[i] /\ g[i - 1] = f[i - 1]
        BY <2>2, <4>1
      <4>3. f[i] = AddCoreState(f[i - 1], states[i])
        BY <2>1, <4>1 DEF SumsTo
      <4>4. QED
        BY <4>2, <4>3
    <3>3. QED
      BY <3>1, <3>2
  <2>4. SumsTo(g, states, n + 1)
    <3>1. g[0] = NoState
      <4>1. 0 \in 0 .. n
        OBVIOUS
      <4>2. QED
        BY <2>1, <2>2, <4>1 DEF SumsTo
    <3>2. QED
      BY <2>3, <3>1 DEF SumsTo
  <2>5. QED
    BY <2>2, <2>4
<1> HIDE DEF S
<1>3. \A n \in Nat : n \in S
  BY <1>1, <1>2, SetInduction
<1>4. QED
  BY <1>3 DEF S

LEMMA SummedIs ==
  ASSUME NEW states, Len(states) \in Nat
  PROVE  \E f : SumsTo(f, states, Len(states)) /\ Summed(states) = f[Len(states)]
<1> DEFINE n == Len(states)
           Step(f, i) == IF i = 0 THEN NoState ELSE AddCoreState(f[i - 1], states[i])
           Is(f) == f = [i \in 0 .. n |-> Step(f, i)]
           upTo == CHOOSE f : Is(f)
<1>1. Summed(states) = upTo[n]
  BY DEF Summed
<1> HIDE DEF n
<1>2. n \in Nat
  BY DEF n
<1>3. \E f : Is(f)
  <2>1. PICK f : f = [i \in 0 .. n |-> f[i]] /\ SumsTo(f, states, n)
    BY <1>2, SumsExist
  <2>2. \A i \in 0 .. n : f[i] = Step(f, i)
    <3>1. ASSUME NEW i \in 0 .. n PROVE f[i] = Step(f, i)
      <4>1. CASE i = 0
        BY <2>1, <4>1 DEF SumsTo
      <4>2. CASE i # 0
        <5>1. i \in 1 .. n
          BY <1>2, <4>2
        <5>2. QED
          BY <2>1, <4>2, <5>1 DEF SumsTo
      <4>3. QED
        BY <4>1, <4>2
    <3>2. QED
      BY <3>1
  <2> HIDE DEF Step
  <2>3. f = [i \in 0 .. n |-> Step(f, i)]
    BY <2>1, <2>2
  <2>4. QED
    BY <2>3
<1>4. Is(upTo)
  BY <1>3
<1> HIDE DEF upTo
<1>5. \A i \in 0 .. n : upTo[i] = Step(upTo, i)
  BY <1>4
<1>6. SumsTo(upTo, states, n)
  <2>1. upTo[0] = NoState
    <3>1. 0 \in 0 .. n
      BY <1>2
    <3>2. QED
      BY <1>5, <3>1
  <2>2. ASSUME NEW i \in 1 .. n PROVE upTo[i] = AddCoreState(upTo[i - 1], states[i])
    <3>1. i \in 0 .. n /\ i # 0
      BY <1>2
    <3>2. QED
      BY <1>5, <3>1
  <2>3. QED
    BY <2>1, <2>2 DEF SumsTo
<1>7. QED
  BY <1>1, <1>6 DEF n

\* What each core wants is summed.
Counts(s) == /\ s = [have |-> s.have, want |-> s.want, wanted |-> s.wanted]
             /\ s.want \in Nat

LEMMA CountsAreAdded ==
  ASSUME NEW a, NEW b, Counts(a), b.want \in Nat
  PROVE  Counts(AddCounts(a, b)) /\ AddCounts(a, b).want = a.want + b.want
<1>1. AddCounts(a, b) = [[[a EXCEPT !.have = a.have + b.have] EXCEPT !.want = a.want + b.want]
                              EXCEPT !.wanted = a.wanted + b.wanted]
  BY Zenon DEF AddCounts
<1>2. \A x, y, z, u :
        /\ [[have |-> x, want |-> y, wanted |-> z] EXCEPT !.have = u] = [have |-> u, want |-> y, wanted |-> z]
        /\ [[have |-> x, want |-> y, wanted |-> z] EXCEPT !.want = u] = [have |-> x, want |-> u, wanted |-> z]
        /\ [[have |-> x, want |-> y, wanted |-> z] EXCEPT !.wanted = u] = [have |-> x, want |-> y, wanted |-> u]
  OBVIOUS
<1>3. PICK h, w, d : h = a.have + b.have /\ w = a.want + b.want /\ d = a.wanted + b.wanted
  OBVIOUS
<1>4. a = [have |-> a.have, want |-> a.want, wanted |-> a.wanted] /\ w \in Nat
  BY <1>3 DEF Counts
<1> DEFINE a1 == [a EXCEPT !.have = h]
           a2 == [a1 EXCEPT !.want = w]
<1>5. AddCounts(a, b) = [a2 EXCEPT !.wanted = d]
  BY <1>1, <1>3
<1>6. a1 = [have |-> h, want |-> a.want, wanted |-> a.wanted]
  BY <1>2, <1>4
<1> HIDE DEF a1
<1>7. a2 = [have |-> h, want |-> w, wanted |-> a.wanted]
  BY <1>2, <1>6
<1> HIDE DEF a2
<1>8. AddCounts(a, b) = [have |-> h, want |-> w, wanted |-> d]
  BY <1>2, <1>5, <1>7
<1>9. QED
  BY <1>3, <1>4, <1>8 DEF Counts

LEMMA WantsAreSummed ==
  ASSUME NEW states, Len(states) \in Nat, \A i \in 1 .. Len(states) : states[i].localState.want \in Nat
  PROVE  /\ Summed(states).localState.want \in Nat
         /\ \A i \in 1 .. Len(states) : states[i].localState.want <= Summed(states).localState.want
<1> DEFINE n == Len(states)
           wantOf(i) == states[i].localState.want
<1>1. PICK f : SumsTo(f, states, n) /\ Summed(states) = f[n]
  BY SummedIs
<1> DEFINE S == {k \in Nat : k <= n => /\ Counts(f[k].localState)
                                       /\ \A i \in 1 .. k : wantOf(i) <= f[k].localState.want}
<1> HIDE DEF n
<1>2. n \in Nat /\ \A i \in 1 .. n : wantOf(i) \in Nat
  BY DEF n
<1>3. 0 \in S
  <2>1. f[0] = NoState
    BY <1>1 DEF SumsTo
  <2>2. Counts(f[0].localState)
    BY <2>1 DEF NoState, Counts
  <2>3. QED
    BY <2>2
<1>4. ASSUME NEW k \in Nat, k \in S PROVE k + 1 \in S
  <2> SUFFICES ASSUME k + 1 <= n
               PROVE  /\ Counts(f[k + 1].localState)
                      /\ \A i \in 1 .. k + 1 : wantOf(i) <= f[k + 1].localState.want
    OBVIOUS
  <2>1. k + 1 \in 1 .. n /\ (k + 1) - 1 = k /\ k <= n
    BY <1>2
  <2>2. f[k + 1] = AddCoreState(f[k], states[k + 1])
    BY <1>1, <2>1 DEF SumsTo
  <2>3. f[k + 1].localState = AddCounts(f[k].localState, states[k + 1].localState)
    BY <2>2 DEF AddCoreState
  <2>4. Counts(f[k].localState) /\ \A i \in 1 .. k : wantOf(i) <= f[k].localState.want
    BY <1>4, <2>1
  <2>5. wantOf(k + 1) \in Nat
    BY <1>2, <2>1
  <2>6. Counts(f[k + 1].localState) /\ f[k + 1].localState.want = f[k].localState.want + wantOf(k + 1)
    BY <2>3, <2>4, <2>5, CountsAreAdded
  <2>7. f[k].localState.want \in Nat
    BY <2>4 DEF Counts
  <2> HIDE DEF wantOf
  <2>8. \A i \in 1 .. k + 1 : wantOf(i) <= f[k + 1].localState.want
    <3>1. ASSUME NEW i \in 1 .. k + 1 PROVE wantOf(i) <= f[k + 1].localState.want
      <4>1. wantOf(i) \in Nat
        BY <1>2, <2>1
      <4>2. CASE i = k + 1
        BY <2>5, <2>6, <2>7, <4>2
      <4>3. CASE i # k + 1
        <5>1. i \in 1 .. k
          BY <4>3
        <5>2. QED
          BY <2>4, <2>5, <2>6, <2>7, <4>1, <5>1
      <4>4. QED
        BY <4>2, <4>3
    <3>2. QED
      BY <3>1
  <2>9. QED
    BY <2>6, <2>8
<1> HIDE DEF S
<1>5. \A k \in Nat : k \in S
  BY <1>3, <1>4, SetInduction
<1>6. Counts(f[n].localState) /\ \A i \in 1 .. n : wantOf(i) <= f[n].localState.want
  BY <1>2, <1>5 DEF S
<1>7. QED
  BY <1>1, <1>6 DEF Counts, n

\* A core has finitely many blocks that count.
LEMMA LengthIs ==
  ASSUME StateTypes, PeerStatesOK, NEW c \in Cores
  PROVE  CoreLength(c) \in Nat /\ preHavesLength[c] <= CoreLength(c) /\ preHavesLength[c] \in Nat
<1> DEFINE a == LocalLength(c)
           b == preHavesLength[c]
           S == {a, b}
           n == IF a <= b THEN b ELSE a
<1>1. a \in Nat /\ b \in Nat
  BY StoreIs DEF StateTypes, StoreTypes, PeerStatesOK, LocalLength
<1> HIDE DEF a, b
<1>2. S \in SUBSET Int /\ S # {} /\ n \in Int /\ \A x \in S : x <= n
  BY <1>1
<1>3. b \in S /\ S \subseteq Nat
  BY <1>1
<1> HIDE DEF S, n
<1>4. Max(S) \in S /\ \A x \in S : x <= Max(S)
  BY <1>2, MaxIs, Zenon
<1>5. CoreLength(c) = Max(S)
  BY DEF CoreLength, S, a, b
<1>6. QED
  BY <1>1, <1>3, <1>4, <1>5 DEF b

WantedOf(c, barred) == UNION {PeerHaves(c, p) \ LocalHaves(c) : p \in Visible(c, barred)}

LEMMA WantedIsCounted ==
  ASSUME StateTypes, PeerStatesOK, NEW c \in Cores, NEW barred
  PROVE  /\ DeriveState(c, barred).localState.want = Cardinality(WantedOf(c, barred))
         /\ Cardinality(WantedOf(c, barred)) \in Nat
         /\ Cardinality(WantedOf(c, barred)) = 0 => WantedOf(c, barred) = {}
<1>1. DeriveState(c, barred).localState.want = Cardinality(WantedOf(c, barred))
  BY DEF DeriveState, WantedOf
<1>2. IsFiniteSet(WantedOf(c, barred))
  <2>1. WantedOf(c, barred) \in SUBSET (0 .. CoreLength(c) - 1)
    BY DEF WantedOf, PeerHaves
  <2>2. 0 \in Int /\ CoreLength(c) - 1 \in Int
    BY LengthIs
  <2>3. IsFiniteSet(0 .. CoreLength(c) - 1)
    BY <2>2, FS_Interval
  <2>4. QED
    BY <2>1, <2>3, FS_Subset
<1>3. QED
  BY <1>1, <1>2, FS_CardinalityType, FS_EmptySet

\* If there is no data to sync, this device has all that the writers have of
\* the cores they have told of.
THEOREM NothingIsMissed == StateSpec => []NoDataToSyncIsTrue
<1>1. ASSUME StateTypes, PagesInv, ~ Derived.dataToSync, NEW p \in online \ blocked, NEW c \in Cores,
             Writer[c] = p, c \notin Range(toSend[p]), channel[p] = <<>>
      PROVE  store[p][c].blocks \subseteq LocalHaves(c)
  <2>1. store[p][c] \in Stores
    BY <1>1 DEF StateTypes, StoreTypes, TransportTypes
  <2>2. CASE store[p][c].length = 0
    <3>1. store[p][c].blocks \subseteq 0 .. 0 - 1
      BY <2>1, <2>2, StoreIs
    <3>2. QED
      BY <3>1
  <2>3. CASE store[p][c].length > 0
    <3> DEFINE states == [i \in 1 .. Len(order) |-> DeriveState(order[i], blocked)]
    <3>1. p \in DOMAIN peerStates[c] /\ BitsOf(peerStates[c][p].preHaves) = store[p][c].blocks
      BY <1>1, <2>3, AllPagesHaveArrived
    <3>2. PICK k \in 1 .. Len(order) : order[k] = c
      <4>1. c \in Known /\ order \in Seq(Cores)
        BY <1>1, <3>1 DEF StateTypes, PeersTypes, CoreTypes
      <4>2. QED
        BY <4>1 DEF Known, Range
    <3>3. Len(states) = Len(order) /\ Len(order) \in Nat
      BY <1>1 DEF StateTypes, CoreTypes
    <3>4. \A i \in 1 .. Len(order) : /\ order[i] \in Cores
                                    /\ states[i].localState.want = Cardinality(WantedOf(order[i], blocked))
                                    /\ states[i].localState.want \in Nat
      <4>1. ASSUME NEW i \in 1 .. Len(order) PROVE order[i] \in Cores
        BY <1>1 DEF StateTypes, CoreTypes
      <4>2. QED
        BY <1>1, <4>1, WantedIsCounted DEF PagesInv
    <3>5. ~ (Summed(states).localState.want > 0)
      BY <1>1 DEF Derived, DerivedWithout
    <3> HIDE DEF states
    <3>6. /\ Summed(states).localState.want \in Nat
          /\ states[k].localState.want <= Summed(states).localState.want
      BY <3>2, <3>3, <3>4, WantsAreSummed
    <3>7. Cardinality(WantedOf(c, blocked)) = 0
      BY <3>2, <3>4, <3>5, <3>6
    <3>8. WantedOf(c, blocked) = {}
      BY <1>1, <3>7, WantedIsCounted DEF PagesInv
    <3>9. PeerHaves(c, p) \subseteq LocalHaves(c)
      <4>1. p \in Visible(c, blocked)
        BY <1>1, <3>1 DEF Visible
      <4>2. QED
        BY <3>8, <4>1 DEF WantedOf
    <3>10. store[p][c].blocks \subseteq 0 .. CoreLength(c) - 1
      <4>1. store[p][c].blocks \subseteq 0 .. preHavesLength[c] - 1
        BY <1>1, <3>1 DEF PagesInv, PreHavesOK
      <4>2. CoreLength(c) \in Nat /\ preHavesLength[c] <= CoreLength(c) /\ preHavesLength[c] \in Nat
        BY <1>1, LengthIs DEF PagesInv
      <4>3. QED
        BY <4>1, <4>2
    <3>11. QED
      BY <3>1, <3>9, <3>10 DEF PeerHaves
  <2>4. QED
    BY <2>1, <2>2, <2>3, StoreIs
<1>2. StateTypes /\ PagesInv => NoDataToSyncIsTrue
  BY <1>1 DEF NoDataToSyncIsTrue
<1>3. QED
  BY <1>2, PagesAreInvariant, PTL

-----------------------------------------------------------------------------
(***************************************************************************)
(* SyncControl.                                                            *)
(***************************************************************************)
USE SyncControlAssumption

\* A peer that is gone has left no capability and no reading of its role, so
\* one that comes back is a new one.
GoneIsUnknown == \A p \in Peers \ connected : cap[p] = "unknown" /\ reads[p] = 0

IInv == TypeOK /\ EnabledIsAllowed /\ TimerIsDue /\ GoneIsUnknown

\* What may be on for a peer with a capability, in a state of SyncApi.
Allowed(en, c, state) ==
  /\ en \subseteq Ns
  /\ en \cap BlockedNs(c) = {}
  /\ c \in Unknown => en \subseteq {"auth"}
  /\ state = "none" => en = {}
  /\ state # "all" => en \subseteq Presync

-----------------------------------------------------------------------------
(***************************************************************************)
(* What the operators yield.                                               *)
(***************************************************************************)
\* updateEnabledNamespaces() turns on what is allowed, whatever was on.
LEMMA NewEnabledAllowed ==
  ASSUME NEW en, NEW c, NEW sy, NEW state
  PROVE  Allowed(NewEnabled(en, c, sy, state), c, state)
BY DEF Allowed, NewEnabled, Presync

\* The invariant allows what is on for each peer.
LEMMA EnabledAllowed ==
  ASSUME IInv, NEW p \in Peers
  PROVE  Allowed(enabled[p], cap[p], syncEnabled)
BY DEF Allowed, IInv, EnabledIsAllowed, TypeOK

\* So does setSyncEnabledState(), with or without a change.
LEMMA ReenabledAllowed ==
  ASSUME IInv, NEW p \in Peers
  PROVE  Allowed(Reenabled(p), cap[p], syncEnabled')
BY NewEnabledAllowed, EnabledAllowed DEF Reenabled

\* What is allowed for every peer, and off for those that are gone, makes up
\* the invariant and the type of what is on.
LEMMA AllowedSuffices ==
  ASSUME NEW on, enabled' = [p \in Peers |-> on[p]],
         \A p \in Peers : /\ Allowed(on[p], cap'[p], syncEnabled')
                          /\ p \notin connected' => on[p] = {}
  PROVE  EnabledIsAllowed' /\ enabled' \in [Peers -> SUBSET Ns]
BY DEF Allowed, EnabledIsAllowed, BlockedNs, Presync

\* #updateState() leaves a state of the three, a timeout that is due only, and
\* none that was.
LEMMA UpdateStateYields ==
  ASSUME NEW w \in BOOLEAN, NEW stop \in BOOLEAN, NEW auto \in BOOLEAN,
         NEW running \in BOOLEAN, NEW isSynced \in BOOLEAN,
         running => auto,
         syncEnabled' = EnabledState(w, stop, isSynced),
         timer' = (w /\ ~stop /\ isSynced /\ (auto \/ (running /\ ~newData))),
         newData' = FALSE
  PROVE  /\ syncEnabled' \in {"none", "presync", "all"}
         /\ timer' \in BOOLEAN /\ newData' \in BOOLEAN
         /\ timer' => w /\ ~stop /\ auto /\ syncEnabled' = "all"
         /\ stop /\ syncEnabled = "none" => syncEnabled' = "none"
BY DEF EnabledState

\* isSynced() is TRUE or FALSE.
LEMMA IsSyncedType ==
  ASSUME NEW type, NEW gone
  PROVE  IsSynced(type, gone) \in BOOLEAN
BY DEF IsSynced

\* Caching keeps the types of the cache.
LEMMA CacheType ==
  ASSUME IInv
  PROVE  /\ CacheState => /\ dirty' \in SUBSET Ns
                          /\ hidden' \in [Ns -> SUBSET Peers]
         /\ \A S \in SUBSET Ns :
              Changed(S) => /\ dirty' \in SUBSET Ns /\ due' \in BOOLEAN
                            /\ hidden' \in [Ns -> SUBSET Peers]
<1>1. \A ns \in Ns : BlockedPeers(ns) \subseteq Peers /\ hidden[ns] \subseteq Peers
  BY DEF IInv, TypeOK, BlockedPeers
<1>2. hidden \in [Ns -> SUBSET Peers] /\ dirty \subseteq Ns
  BY DEF IInv, TypeOK
<1> QED
  BY <1>1, <1>2 DEF CacheState, Changed

-----------------------------------------------------------------------------
(***************************************************************************)
(* The steps.                                                              *)
(***************************************************************************)
\* What the application calls, and the timeout.
LEMMA CallKeeps ==
  ASSUME IInv, NEW w \in BOOLEAN, NEW stop \in BOOLEAN, NEW auto \in BOOLEAN,
         NEW running \in BOOLEAN, running => auto, Call(w, stop, auto, running)
  PROVE  /\ IInv'
         /\ fullStop' /\ syncEnabled = "none" => syncEnabled' = "none"
<1>1. UpdateState(w, stop, auto, running, IsSynced(Type(w), {}))
  BY DEF Call
<1>2. /\ syncEnabled' \in {"none", "presync", "all"}
      /\ timer' \in BOOLEAN /\ newData' \in BOOLEAN
      /\ timer' => w /\ ~stop /\ auto /\ syncEnabled' = "all"
      /\ stop /\ syncEnabled = "none" => syncEnabled' = "none"
  BY <1>1, IsSyncedType, UpdateStateYields DEF UpdateState
<1>3. EnabledIsAllowed' /\ enabled' \in [Peers -> SUBSET Ns]
  <2> DEFINE on == [p \in Peers |-> IF p \in connected THEN Reenabled(p) ELSE {}]
  <2>1. enabled' = [p \in Peers |-> on[p]] /\ connected' = connected /\ cap' = cap
    BY DEF Call, world
  <2>2. ASSUME NEW p \in Peers
        PROVE  /\ Allowed(on[p], cap'[p], syncEnabled')
               /\ p \notin connected' => on[p] = {}
    BY <2>1, ReenabledAllowed DEF Allowed
  <2> HIDE DEF on
  <2> QED
    BY <2>1, <2>2, AllowedSuffices
<1>4. TypeOK'
  BY <1>2, <1>3, CacheType DEF IInv, TypeOK, Call, world
<1>5. TimerIsDue' /\ GoneIsUnknown'
  BY <1>2 DEF IInv, TimerIsDue, GoneIsUnknown, Call, world
<1> QED
  BY <1>2, <1>3, <1>4, <1>5 DEF IInv, Call

\* A peer that connects.
LEMMA PeerAddKeeps ==
  ASSUME IInv, NEW p \in Peers, HandlePeerAdd(p)
  PROVE  /\ IInv'
         /\ fullStop' /\ syncEnabled = "none" => syncEnabled' = "none"
<1>0. /\ wants \in BOOLEAN /\ fullStop \in BOOLEAN /\ autostop \in BOOLEAN
      /\ timer \in BOOLEAN /\ timer => autostop
      /\ UNCHANGED <<wants, fullStop, autostop>>
  BY DEF IInv, TypeOK, TimerIsDue, HandlePeerAdd
<1>1. UpdateState(wants, fullStop, autostop, timer, FALSE)
  BY DEF HandlePeerAdd
<1>2. /\ syncEnabled' \in {"none", "presync", "all"}
      /\ timer' \in BOOLEAN /\ newData' \in BOOLEAN
      /\ timer' => wants /\ ~fullStop /\ autostop /\ syncEnabled' = "all"
      /\ fullStop /\ syncEnabled = "none" => syncEnabled' = "none"
  BY <1>0, <1>1, UpdateStateYields DEF UpdateState
<1>3. EnabledIsAllowed' /\ enabled' \in [Peers -> SUBSET Ns]
  <2> DEFINE on == [q \in Peers |->
                     IF q = p THEN NewEnabled({}, "unknown", {}, syncEnabled')
                     ELSE IF q \in connected THEN Reenabled(q) ELSE {}]
  <2>1. /\ enabled' = [q \in Peers |-> on[q]]
        /\ connected' = connected \cup {p} /\ cap' = cap /\ p \notin connected
    BY DEF HandlePeerAdd
  <2>2. cap[p] = "unknown"
    BY <2>1 DEF IInv, GoneIsUnknown
  <2>3. ASSUME NEW q \in Peers
        PROVE  /\ Allowed(on[q], cap'[q], syncEnabled')
               /\ q \notin connected' => on[q] = {}
    <3>1. CASE q = p
      BY <2>1, <2>2, <3>1, NewEnabledAllowed
    <3>2. CASE q # p
      BY <2>1, <3>2, ReenabledAllowed DEF Allowed
    <3> QED
      BY <3>1, <3>2
  <2> HIDE DEF on
  <2> QED
    BY <2>1, <2>3, AllowedSuffices
<1>4. TypeOK'
  <2>1. /\ dirty' \in SUBSET Ns /\ due' \in BOOLEAN
        /\ hidden' \in [Ns -> SUBSET Peers]
    BY CacheType DEF HandlePeerAdd
  <2>2. link' \in [Peers -> [Ns -> Links]]
    <3>1. \A q \in Peers : link[q] \in [Ns -> Links]
      BY DEF IInv, TypeOK
    <3> DEFINE l == IF OwnProject THEN "opening" ELSE "closed"
               f == [link[p] EXCEPT !["auth"] = l]
    <3>2. f \in [Ns -> Links]
      BY <3>1 DEF Links
    <3>3. link' = [link EXCEPT ![p] = f]
      BY DEF HandlePeerAdd
    <3> HIDE DEF f
    <3> QED
      BY <3>2, <3>3 DEF IInv, TypeOK
  <2>3. want' \in [Peers -> SUBSET Ns]
    <3>1. PICK S \in SUBSET (Ns \ {"auth"}) : want' = [want EXCEPT ![p] = S \cup {"auth"}]
      BY DEF HandlePeerAdd
    <3>2. S \cup {"auth"} \in SUBSET Ns
      OBVIOUS
    <3> QED
      BY <3>1, <3>2 DEF IInv, TypeOK
  <2>4. churn' \in 0 .. MaxChurn /\ connected' \in SUBSET Peers
    BY DEF IInv, TypeOK, HandlePeerAdd
  <2> QED
    BY <1>0, <1>2, <1>3, <2>1, <2>2, <2>3, <2>4 DEF IInv, TypeOK, HandlePeerAdd
<1>5. TimerIsDue' /\ GoneIsUnknown'
  BY <1>0, <1>2 DEF IInv, TimerIsDue, GoneIsUnknown, HandlePeerAdd
<1> QED
  BY <1>0, <1>2, <1>3, <1>4, <1>5 DEF IInv

\* A peer that disconnects.
LEMMA PeerDisconnectKeeps ==
  ASSUME IInv, NEW p \in Peers, HandlePeerDisconnect(p)
  PROVE  /\ IInv'
         /\ fullStop' /\ syncEnabled = "none" => syncEnabled' = "none"
<1>0. /\ wants \in BOOLEAN /\ fullStop \in BOOLEAN /\ autostop \in BOOLEAN
      /\ timer \in BOOLEAN /\ timer => autostop
      /\ UNCHANGED <<wants, fullStop, autostop>>
  BY DEF IInv, TypeOK, TimerIsDue, HandlePeerDisconnect
<1>1. UpdateState(wants, fullStop, autostop, timer, IsSynced(Type(wants), {p}))
  BY DEF HandlePeerDisconnect
<1>2. /\ syncEnabled' \in {"none", "presync", "all"}
      /\ timer' \in BOOLEAN /\ newData' \in BOOLEAN
      /\ timer' => wants /\ ~fullStop /\ autostop /\ syncEnabled' = "all"
      /\ fullStop /\ syncEnabled = "none" => syncEnabled' = "none"
  BY <1>0, <1>1, IsSyncedType, UpdateStateYields DEF UpdateState
<1>3. EnabledIsAllowed' /\ enabled' \in [Peers -> SUBSET Ns]
  <2> DEFINE on == [q \in Peers |->
                     IF q \in connected \ {p} THEN Reenabled(q) ELSE {}]
  <2>1. /\ enabled' = [q \in Peers |-> on[q]]
        /\ connected' = connected \ {p} /\ cap' = [cap EXCEPT ![p] = "unknown"]
    BY DEF HandlePeerDisconnect
  <2>2. ASSUME NEW q \in Peers
        PROVE  /\ Allowed(on[q], cap'[q], syncEnabled')
               /\ q \notin connected' => on[q] = {}
    <3>1. CASE q = p
      BY <2>1, <3>1 DEF Allowed
    <3>2. CASE q # p
      BY <2>1, <3>2, ReenabledAllowed DEF Allowed, IInv, TypeOK
    <3> QED
      BY <3>1, <3>2
  <2> HIDE DEF on
  <2> QED
    BY <2>1, <2>2, AllowedSuffices
<1>4. TypeOK'
  <2>1. /\ dirty' \in SUBSET Ns /\ due' \in BOOLEAN
        /\ hidden' \in [Ns -> SUBSET Peers]
    BY CacheType DEF HandlePeerDisconnect
  <2>2. [ns \in Ns |-> "closed"] \in [Ns -> Links]
    BY DEF Links
  <2>3. link' \in [Peers -> [Ns -> Links]]
    BY <2>2 DEF HandlePeerDisconnect, IInv, TypeOK
  <2>4. cap' \in [Peers -> Roles \cup Unknown]
    BY DEF HandlePeerDisconnect, IInv, TypeOK, Unknown
  <2> QED
    BY <1>0, <1>2, <1>3, <2>1, <2>3, <2>4 DEF IInv, TypeOK, HandlePeerDisconnect
<1>5. TimerIsDue' /\ GoneIsUnknown'
  BY <1>0, <1>2 DEF IInv, TypeOK, TimerIsDue, GoneIsUnknown, HandlePeerDisconnect
<1> QED
  BY <1>0, <1>2, <1>3, <1>4, <1>5 DEF IInv

\* A 'state' event.
LEMMA StateChangeKeeps ==
  ASSUME IInv, HandleStateChange
  PROVE  /\ IInv'
         /\ fullStop' /\ syncEnabled = "none" => syncEnabled' = "none"
<1>0. /\ wants \in BOOLEAN /\ fullStop \in BOOLEAN /\ autostop \in BOOLEAN
      /\ timer \in BOOLEAN /\ timer => autostop
      /\ UNCHANGED <<wants, fullStop, autostop, cap, world>>
  BY DEF IInv, TypeOK, TimerIsDue, HandleStateChange
<1>1. UpdateState(wants, fullStop, autostop, timer, IsSynced(Type(wants), {}))
  BY DEF HandleStateChange
<1>2. /\ syncEnabled' \in {"none", "presync", "all"}
      /\ timer' \in BOOLEAN /\ newData' \in BOOLEAN
      /\ timer' => wants /\ ~fullStop /\ autostop /\ syncEnabled' = "all"
      /\ fullStop /\ syncEnabled = "none" => syncEnabled' = "none"
  BY <1>0, <1>1, IsSyncedType, UpdateStateYields DEF UpdateState
<1> DEFINE readers == {p \in connected : DidUpdateAuth(p)}
<1>3. EnabledIsAllowed' /\ enabled' \in [Peers -> SUBSET Ns]
  <2> DEFINE on == [p \in Peers |->
                     IF p \notin connected THEN {}
                     ELSE IF p \in readers THEN Reenabled(p)
                     ELSE NewEnabled(Reenabled(p), cap[p], NewSynced(p), syncEnabled')]
  <2>1. /\ enabled' = [p \in Peers |-> on[p]]
        /\ connected' = connected /\ cap' = cap
    BY <1>0 DEF HandleStateChange, world
  <2>2. ASSUME NEW p \in Peers
        PROVE  /\ Allowed(on[p], cap'[p], syncEnabled')
               /\ p \notin connected' => on[p] = {}
    <3>1. Allowed({}, cap[p], syncEnabled')
      BY DEF Allowed
    <3> QED
      BY <2>1, <3>1, ReenabledAllowed, NewEnabledAllowed
  <2> HIDE DEF on
  <2> QED
    BY <2>1, <2>2, AllowedSuffices
<1>4. /\ readers \subseteq connected
      /\ synced' = [p \in Peers |-> IF p \in connected THEN NewSynced(p) ELSE {}]
      /\ authRead' = [p \in Peers |-> IF p \in readers THEN authHave ELSE authRead[p]]
      /\ reads' = [p \in Peers |-> IF p \in readers THEN reads[p] + 1 ELSE reads[p]]
  BY DEF HandleStateChange
<1> HIDE DEF readers
<1>5. TypeOK'
  <2>1. dirty' \in SUBSET Ns /\ hidden' \in [Ns -> SUBSET Peers] /\ due' \in BOOLEAN
    BY CacheType DEF HandleStateChange
  <2>2. synced' \in [Peers -> SUBSET Ns]
    BY <1>4 DEF NewSynced
  <2>3. authRead' \in [Peers -> Int] /\ reads' \in [Peers -> Nat]
    BY <1>4 DEF IInv, TypeOK
  <2> QED
    BY <1>0, <1>2, <1>3, <2>1, <2>2, <2>3 DEF IInv, TypeOK, world
<1>6. TimerIsDue' /\ GoneIsUnknown'
  BY <1>0, <1>2, <1>4 DEF IInv, TimerIsDue, GoneIsUnknown, world
<1> QED
  BY <1>0, <1>2, <1>3, <1>5, <1>6 DEF IInv

\* A role that is read, or the reading of which fails.
LEMMA ReadRoleKeeps ==
  ASSUME IInv, NEW p \in Peers, ReadRole(p)
  PROVE  IInv'
<1>0. PICK c \in {role[p], "failed"} :
        /\ cap' = [cap EXCEPT ![p] = c]
        /\ enabled' = [enabled EXCEPT ![p] = NewEnabled(@, c, synced[p], syncEnabled)]
  BY DEF ReadRole
<1> DEFINE on == NewEnabled(enabled[p], c, synced[p], syncEnabled)
<1>1. /\ cap' = [cap EXCEPT ![p] = c] /\ enabled' = [enabled EXCEPT ![p] = on]
      /\ reads' = [reads EXCEPT ![p] = @ - 1] /\ reads[p] > 0
      /\ UNCHANGED <<control, synced, authRead, view, world>>
  BY <1>0 DEF ReadRole
<1>2. Allowed(on, c, syncEnabled)
  BY NewEnabledAllowed
<1> HIDE DEF on
<1>3. p \in connected
  BY <1>1 DEF IInv, GoneIsUnknown
<1>4. TypeOK'
  BY <1>1, <1>2 DEF IInv, TypeOK, Unknown, Allowed, control, view, world
<1>5. EnabledIsAllowed'
  <2> SUFFICES ASSUME NEW q \in Peers
               PROVE  /\ enabled'[q] \cap BlockedNs(cap'[q]) = {}
                      /\ cap'[q] \in Unknown => enabled'[q] \subseteq {"auth"}
                      /\ syncEnabled = "none" \/ q \notin connected => enabled'[q] = {}
                      /\ syncEnabled # "all" => enabled'[q] \subseteq Presync
    BY <1>1 DEF EnabledIsAllowed, control, world
  <2>1. CASE q = p
    BY <1>1, <1>2, <1>3, <2>1 DEF Allowed, IInv, TypeOK
  <2>2. CASE q # p
    <3>1. enabled'[q] = enabled[q] /\ cap'[q] = cap[q]
      BY <1>1, <2>2 DEF IInv, TypeOK
    <3> QED
      BY <3>1 DEF IInv, EnabledIsAllowed
  <2> QED
    BY <2>1, <2>2
<1>6. TimerIsDue' /\ GoneIsUnknown'
  BY <1>1, <1>3 DEF IInv, TypeOK, TimerIsDue, GoneIsUnknown, control, world
<1> QED
  BY <1>4, <1>5, <1>6 DEF IInv

-----------------------------------------------------------------------------
(***************************************************************************)
(* Replication leaves SyncApi, the controllers and the connections alone,  *)
(* but for the news of data.                                               *)
(***************************************************************************)
LEMMA WorldKeeps ==
  ASSUME IInv, TypeOK',
         UNCHANGED <<wants, fullStop, autostop, timer, syncEnabled, peer, connected>>
  PROVE  IInv'
BY DEF IInv, EnabledIsAllowed, TimerIsDue, GoneIsUnknown, peer

\* A link goes from one status to another.
LEMMA SetLinkKeeps ==
  ASSUME IInv, NEW p \in Peers, NEW ns \in Ns, NEW l \in Links,
         link' = [link EXCEPT ![p][ns] = l], Changed({ns}),
         UNCHANGED <<control, peer, connected, want, wanted, role, authHave, blocks>>,
         churn' \in 0 .. MaxChurn
  PROVE  IInv'
<1> DEFINE f == [link[p] EXCEPT ![ns] = l]
<1>1. link[p] \in [Ns -> Links]
  BY DEF IInv, TypeOK
<1>2. f \in [Ns -> Links]
  BY <1>1
<1>3. link' = [link EXCEPT ![p] = f]
  OBVIOUS
<1> HIDE DEF f
<1>4. link' \in [Peers -> [Ns -> Links]]
  BY <1>2, <1>3 DEF IInv, TypeOK
<1>5. dirty' \in SUBSET Ns /\ due' \in BOOLEAN /\ hidden' \in [Ns -> SUBSET Peers]
  BY CacheType
<1>6. TypeOK'
  BY <1>4, <1>5 DEF IInv, TypeOK, control, peer
<1> QED
  BY <1>6, WorldKeeps DEF control

\* Links that open, close and start.
LEMMA LinkSteps ==
  ASSUME IInv, NEW p \in Peers, NEW ns \in Ns,
         \/ OpenLink(p, ns) \/ CloseLink(p, ns) \/ Updated(p, ns) \/ RemoteCloses(p, ns)
  PROVE  IInv'
<1>1. PICK l \in Links : link' = [link EXCEPT ![p][ns] = l] /\ Changed({ns})
  BY DEF OpenLink, CloseLink, Updated, RemoteCloses, Close, SetLink, Links
<1>2. /\ UNCHANGED <<control, peer, connected, want, wanted, role, authHave, blocks>>
      /\ churn' = churn \/ (churn < MaxChurn /\ churn' = churn + 1)
  BY DEF OpenLink, CloseLink, Updated, RemoteCloses, Close
<1>3. churn' \in 0 .. MaxChurn
  BY <1>2 DEF IInv, TypeOK
<1> QED
  BY <1>1, <1>2, <1>3, SetLinkKeeps

\* A block that the device comes to have.
LEMMA HasKeeps ==
  ASSUME IInv, NEW ns \in Ns, Has(ns), UNCHANGED link, blocks' \in 0 .. MaxBlocks,
         want' \in [Peers -> SUBSET Ns], wanted' \in [Peers -> SUBSET Ns]
  PROVE  IInv'
<1>1. newData' \in BOOLEAN /\ authHave' \in Nat
  BY DEF Has, IInv, TypeOK
<1>2. role' \in [Peers -> Roles]
  BY DEF Has, IInv, TypeOK
<1>3. dirty' \in SUBSET Ns /\ due' \in BOOLEAN /\ hidden' \in [Ns -> SUBSET Peers]
  BY CacheType DEF Has
<1>4. TypeOK'
  BY <1>1, <1>2, <1>3 DEF Has, IInv, TypeOK, peer
<1> QED
  BY <1>4, WorldKeeps DEF Has

\* Blocks that are told of, downloaded and uploaded.
LEMMA BlockSteps ==
  ASSUME IInv, NEW ns \in Ns, NEW p \in Peers,
         \/ RemoteHas(p, ns) \/ Upload(p, ns)
         \/ \E S \in SUBSET Peers : Download(p, ns, S)
  PROVE  IInv'
<1>0. /\ want \in [Peers -> SUBSET Ns] /\ wanted \in [Peers -> SUBSET Ns]
      /\ link \in [Peers -> [Ns -> Links]]
      /\ blocks \in 0 .. MaxBlocks
      /\ blocks < MaxBlocks => blocks + 1 \in 0 .. MaxBlocks
  BY DEF IInv, TypeOK
<1>1. CASE RemoteHas(p, ns)
  <2>1. wanted' \in [Peers -> SUBSET Ns] /\ blocks' \in 0 .. MaxBlocks
    <3>1. /\ wanted' = [wanted EXCEPT ![p] = @ \cup {ns}]
          /\ blocks < MaxBlocks /\ blocks' = blocks + 1
      BY <1>1 DEF RemoteHas
    <3>2. wanted[p] \cup {ns} \in SUBSET Ns
      BY <1>0
    <3> QED
      BY <1>0, <3>1, <3>2
  <2>2. link' \in [Peers -> [Ns -> Links]]
    <3>1. CASE UNCHANGED link
      BY <1>0, <3>1
    <3>2. CASE link' = [link EXCEPT ![p][ns] = "opening"]
      <4> DEFINE f == [link[p] EXCEPT ![ns] = "opening"]
      <4>1. f \in [Ns -> Links]
        BY <1>0 DEF Links
      <4>2. link' = [link EXCEPT ![p] = f]
        BY <3>2
      <4> HIDE DEF f
      <4> QED
        BY <1>0, <4>1, <4>2
    <3> QED
      BY <1>1, <3>1, <3>2 DEF RemoteHas
  <2>3. dirty' \in SUBSET Ns /\ due' \in BOOLEAN /\ hidden' \in [Ns -> SUBSET Peers]
    BY <1>1, CacheType DEF RemoteHas
  <2>4. TypeOK'
    BY <1>1, <2>1, <2>2, <2>3 DEF IInv, TypeOK, RemoteHas, control, peer
  <2> QED
    BY <1>1, <2>4, WorldKeeps DEF RemoteHas, control
<1>2. CASE Upload(p, ns)
  <2>1. want' \in [Peers -> SUBSET Ns]
    BY <1>0, <1>2 DEF Upload
  <2>2. dirty' \in SUBSET Ns /\ due' \in BOOLEAN /\ hidden' \in [Ns -> SUBSET Peers]
    BY <1>2, CacheType DEF Upload
  <2>3. TypeOK'
    BY <1>2, <2>1, <2>2 DEF IInv, TypeOK, Upload, control, peer
  <2> QED
    BY <1>2, <2>3, WorldKeeps DEF Upload, control
<1>3. CASE \E S \in SUBSET Peers : Download(p, ns, S)
  <2>1. PICK S \in SUBSET Peers : Download(p, ns, S)
    BY <1>3
  <2>2. wanted' \in [Peers -> SUBSET Ns] /\ want' \in [Peers -> SUBSET Ns]
    BY <1>0, <2>1 DEF Download
  <2>3. Has(ns) /\ UNCHANGED <<link, blocks>>
    BY <2>1 DEF Download
  <2> QED
    BY <1>0, <2>2, <2>3, HasKeeps
<1> QED
  BY <1>1, <1>2, <1>3

-----------------------------------------------------------------------------
(***************************************************************************)
(* Every step.                                                             *)
(***************************************************************************)
\* Nobody is connected and nothing is on at first.
LEMMA InitHolds == Init => IInv
<1> SUFFICES ASSUME Init PROVE IInv
  OBVIOUS
<1>1. link \in [Peers -> [Ns -> Links]]
  BY DEF Init, Links
<1>2. authHave \in Nat /\ blocks \in 0 .. MaxBlocks /\ churn \in 0 .. MaxChurn
  BY DEF Init
<1>3. /\ cap \in [Peers -> Roles \cup Unknown]
      /\ enabled \in [Peers -> SUBSET Ns] /\ synced \in [Peers -> SUBSET Ns]
      /\ want \in [Peers -> SUBSET Ns] /\ wanted \in [Peers -> SUBSET Ns]
      /\ dirty \in SUBSET Ns /\ hidden \in [Ns -> SUBSET Peers]
  BY DEF Init, Unknown
<1>4. authRead \in [Peers -> Int] /\ reads \in [Peers -> Nat]
  BY DEF Init
<1>5. TypeOK
  BY <1>1, <1>2, <1>3, <1>4 DEF Init, TypeOK
<1>6. EnabledIsAllowed /\ TimerIsDue /\ GoneIsUnknown
  BY DEF Init, EnabledIsAllowed, TimerIsDue, GoneIsUnknown
<1> QED
  BY <1>5, <1>6 DEF IInv

\* The steps of the application and the timeout are calls, with a timeout that
\* is kept only along with its setting.
LEMMA CallSteps ==
  ASSUME IInv, Application \/ AutostopDataSync
  PROVE  /\ IInv'
         /\ fullStop' /\ syncEnabled = "none" => syncEnabled' = "none"
<1>0. {wants, fullStop, autostop, timer} \subseteq BOOLEAN /\ (timer => autostop)
  BY DEF IInv, TypeOK, TimerIsDue
<1>1. PICK w \in BOOLEAN, stop \in BOOLEAN, auto \in BOOLEAN, running \in BOOLEAN :
        Call(w, stop, auto, running) /\ (running => auto)
  <2>1. CASE Start \/ Stop \/ AutostopDataSync
    BY <1>0, <2>1 DEF Start, Stop, AutostopDataSync
  <2>2. CASE RequestFullStop \/ RescindFullStopRequest
    BY <1>0, <2>2 DEF RequestFullStop, RescindFullStopRequest
  <2>3. CASE \E auto \in Autostops : StartWith(auto) \/ SetAutostopDataSyncTimeout(auto)
    <3>1. PICK auto \in BOOLEAN : Call(TRUE, fullStop, auto, FALSE) \/ Call(wants, fullStop, auto, FALSE)
      BY <2>3, SyncControlAssumption DEF StartWith, SetAutostopDataSyncTimeout
    <3> QED
      BY <1>0, <3>1
  <2> QED
    BY <2>1, <2>2, <2>3 DEF Application
<1> QED
  BY <1>1, CallKeeps

\* No step breaks the invariant, or starts sync that has stopped for good.
LEMMA StepHolds ==
  ASSUME IInv, [Next]_vars
  PROVE  /\ IInv'
         /\ fullStop /\ fullStop' /\ syncEnabled = "none" => syncEnabled' = "none"
<1>1. CASE Application \/ AutostopDataSync
  BY <1>1, CallSteps
<1>2. CASE HandleStateChange
  BY <1>2, StateChangeKeeps
<1>3. ASSUME NEW ns \in Ns, Write(ns)
      PROVE  IInv' /\ UNCHANGED syncEnabled
  <2>1. UNCHANGED syncEnabled
    BY <1>3 DEF Write, Has
  <2>2. /\ want' \in [Peers -> SUBSET Ns] /\ wanted' \in [Peers -> SUBSET Ns]
        /\ blocks' \in 0 .. MaxBlocks
    BY <1>3 DEF IInv, TypeOK, Write
  <2> QED
    BY <1>3, <2>1, <2>2, HasKeeps DEF Write
<1>4. ASSUME NEW p \in Peers, HandlePeerAdd(p) \/ HandlePeerDisconnect(p)
      PROVE  /\ IInv'
             /\ fullStop' /\ syncEnabled = "none" => syncEnabled' = "none"
  BY <1>4, PeerAddKeeps, PeerDisconnectKeeps
<1>5. ASSUME NEW p \in Peers, ReadRole(p)
      PROVE  IInv' /\ UNCHANGED syncEnabled
  BY <1>5, ReadRoleKeeps DEF ReadRole, control
<1>6. ASSUME NEW p \in Peers, NEW ns \in Ns, Link(p, ns)
      PROVE  IInv' /\ UNCHANGED syncEnabled
  <2>1. UNCHANGED syncEnabled
    BY <1>6 DEF Link, OpenLink, CloseLink, Updated, RemoteCloses, Close, RemoteHas,
                Download, Upload, Has, control
  <2> QED
    BY <1>6, <2>1, LinkSteps, BlockSteps DEF Link
<1>7. CASE UNCHANGED vars
  <2>1. UNCHANGED <<control, peer, view, world>>
    BY <1>7 DEF vars
  <2>2. TypeOK'
    BY <2>1 DEF IInv, TypeOK, control, peer, view, world
  <2> QED
    BY <2>1, <2>2, WorldKeeps DEF control, world
<1> QED
  BY <1>1, <1>2, <1>3, <1>4, <1>5, <1>6, <1>7 DEF Next

-----------------------------------------------------------------------------
(***************************************************************************)
(* The theorems.                                                           *)
(***************************************************************************)
\* The invariant holds, whatever the application calls and peers do.
THEOREM InvariantHolds == Spec => []IInv
<1>1. IInv /\ [Next]_vars => IInv'
  BY StepHolds
<1> QED
  BY <1>1, InitHolds, PTL DEF Spec

\* Every variable keeps its type.
THEOREM TypeCorrect == Spec => []TypeOK
<1>1. IInv => TypeOK
  BY DEF IInv
<1> QED
  BY <1>1, InvariantHolds, PTL

\* A namespace is on for a peer only as far as the role last read of it and
\* the state of SyncApi allow.
THEOREM OnlyAllowedIsEnabled == Spec => []EnabledIsAllowed
<1>1. IInv => EnabledIsAllowed
  BY DEF IInv
<1> QED
  BY <1>1, InvariantHolds, PTL

\* The timeout of autostop runs only while data sync is on and no full stop
\* is asked for.
THEOREM TimerRunsWhenDue == Spec => []TimerIsDue
<1>1. IInv => TimerIsDue
  BY DEF IInv
<1> QED
  BY <1>1, InvariantHolds, PTL

\* A full stop that has come ends by being rescinded only.
THEOREM FullStopIsLasting == Spec => FullStopLasts
<1>1. IInv /\ [Next]_vars
        => [fullStop /\ fullStop' /\ syncEnabled = "none" => syncEnabled' = "none"]_vars
  BY StepHolds
<1> QED
  BY <1>1, InvariantHolds, PTL DEF Spec, FullStopLasts
===============================================================================
