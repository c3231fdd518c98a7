------------------------------- MODULE Bitfields -------------------------------
(***************************************************************************)
(* The bitfields that tell which blocks of a core a peer has: the run-     *)
(* length coding in which they are sent (core-manager/bitfield-rle.js) and *)
(* the pages and segments in which they are kept                           *)
(* (core-manager/remote-bitfield.js).                                      *)
(*                                                                         *)
(* A bitfield to be sent is a sequence of bytes, of which only 0 and       *)
(* AllOnes matter to the coding.  One that is kept is a record: pages maps *)
(* the index of each page there is to its set bits, and index is the set   *)
(* of tree blocks that are not summarised as all zero.  A definition       *)
(* commented as a mutant is used nowhere (see Invites.tla).                *)
(***************************************************************************)
EXTENDS Integers, Sequences, FiniteSets, SequencesExt, FiniteSetsExt

CONSTANTS BitsPerByte,      \* 8
          BytesPerWord,     \* 4
          BitsPerTreeBlock, \* 128
          BitsPerPage,      \* 32768
          PagesPerSegment,  \* 64
          VarintBase        \* 128

BitsPerWord == BitsPerByte * BytesPerWord
BitsPerSegment == BitsPerPage * PagesPerSegment

\* What a bit of a byte counts, from the lowest to the first that is none of it.
Power[j \in 0 .. BitsPerByte] == IF j = 0 THEN 1 ELSE 2 * Power[j - 1]
AllOnes == Power[BitsPerByte] - 1
Bytes == 0 .. AllOnes

ASSUME BitfieldsAssumption ==
  /\ \A c \in {BitsPerByte, BytesPerWord, BitsPerTreeBlock, BitsPerPage,
               PagesPerSegment} : c \in Nat \ {0}
  /\ VarintBase \in Nat \ {0, 1}
  /\ BitsPerPage % BitsPerWord = 0 /\ BitsPerPage % BitsPerTreeBlock = 0

-----------------------------------------------------------------------------
(***************************************************************************)
(* Run-length coding.  The output is a sequence of tokens: a varint, and   *)
(* the bytes that follow it if the varint is even.                         *)
(***************************************************************************)
VarintLength(v) == 1 + Cardinality({k \in 1 .. 8 : v >= VarintBase ^ k})

Slice(input, from, to) == SubSeq(input, from + 1, to)

Literal(input, from, to) ==
  IF from = to THEN <<>>
  ELSE <<[varint |-> 2 * (to - from), bytes |-> Slice(input, from, to)]>>

LiteralCost(length) == IF length = 0 THEN 0 ELSE VarintLength(2 * length) + length

\* Mutant: the bytes before the run are forgotten.
EncodeUpdateRunOnly(input, s, i, len, bits) ==
  LET enc == 4 * len + (IF bits = AllOnes THEN 2 ELSE 0) + 1
      encCost == LiteralCost(i - len - s.inputOffset) + VarintLength(enc)
      baseCost == VarintLength(2 * (i - s.inputOffset)) + i - s.inputOffset
  IN IF encCost >= baseCost THEN s
     ELSE [tokens |-> s.tokens \o <<[varint |-> enc, bytes |-> <<>>]>>,
           outputOffset |-> s.outputOffset + encCost,
           inputOffset |-> i]

\* A run of len bytes ends before byte i.  It is written as a run, after the
\* bytes that were left before it, if that is shorter than to leave it; the
\* offset grows by the cost, as it does when only the length is asked for.
EncodeUpdate(input, s, i, len, bits) ==
  LET start == i - len
      enc == 4 * len + (IF bits = AllOnes THEN 2 ELSE 0) + 1
      encCost == LiteralCost(start - s.inputOffset) + VarintLength(enc)
      baseCost == VarintLength(2 * (i - s.inputOffset)) + i - s.inputOffset
  IN IF encCost >= baseCost THEN s
     ELSE [tokens |-> s.tokens \o Literal(input, s.inputOffset, start)
                               \o <<[varint |-> enc, bytes |-> <<>>]>>,
           outputOffset |-> s.outputOffset + encCost,
           inputOffset |-> i]

EncodeFinal(input, s) ==
  [tokens |-> s.tokens \o Literal(input, s.inputOffset, Len(input)),
   outputOffset |-> s.outputOffset + LiteralCost(Len(input) - s.inputOffset),
   inputOffset |-> Len(input)]

\* The run that is read: its length, the byte it is of, and the state before it.
Flush(input, r, i) == IF r.len = 0 THEN r.s ELSE EncodeUpdate(input, r.s, i, r.len, r.bits)

ReadByte(input, r, i) ==
  LET byte == input[i + 1]
  IN IF byte = r.bits THEN [r EXCEPT !.len = @ + 1]
     ELSE IF byte \in {0, AllOnes}
            THEN [s |-> Flush(input, r, i), len |-> 1, bits |-> byte]
            ELSE [s |-> Flush(input, r, i), len |-> 0, bits |-> r.bits]

StartState == [s |-> [tokens |-> <<>>, outputOffset |-> 0, inputOffset |-> 0],
               len |-> 0, bits |-> 0]

Rle(input) ==
  LET upTo[i \in 0 .. Len(input)] ==
        IF i = 0 THEN StartState ELSE ReadByte(input, upTo[i - 1], i - 1)
  IN EncodeFinal(input, Flush(input, upTo[Len(input)], Len(input)))

Encode(input) == Rle(input).tokens
EncodingLength(input) == Rle(input).outputOffset

\* What a token stands for.
Expand(token) ==
  IF token.varint % 2 = 0 THEN token.bytes
  ELSE [k \in 1 .. token.varint \div 4 |->
          IF (token.varint \div 2) % 2 = 1 THEN AllOnes ELSE 0]

ExpandAll(tokens) ==
  LET upTo[i \in 0 .. Len(tokens)] ==
        IF i = 0 THEN <<>> ELSE upTo[i - 1] \o Expand(tokens[i])
  IN upTo[Len(tokens)]

\* Filled up with zeros to whole words.
Decode(tokens) ==
  LET bytes == ExpandAll(tokens)
      padding == (- Len(bytes)) % BytesPerWord
  IN bytes \o [k \in 1 .. padding |-> 0]

-----------------------------------------------------------------------------
(***************************************************************************)
(* A bitfield that is kept.                                                *)
(***************************************************************************)
IsBitfield(b) ==
  /\ b = [pages |-> b.pages, index |-> b.index]
  /\ DOMAIN b.pages \subseteq Nat
  /\ b.pages \in [DOMAIN b.pages -> SUBSET (0 .. BitsPerPage - 1)]
  /\ b.index \subseteq Nat

NewBitfield == [pages |-> <<>>, index |-> {}]

\* The bits that are set.
BitsOf(b) == UNION {{i * BitsPerPage + j : j \in b.pages[i]} : i \in DOMAIN b.pages}

Segment(n) == n \div BitsPerSegment
TreeBlock(n) == n \div BitsPerTreeBlock
Segments(b) == {i \div PagesPerSegment : i \in DOMAIN b.pages}

\* Mutant: the index is kept as it was.
RefreshNothing(b, segment) == b

\* The index of a segment is derived anew from its pages.
Refresh(b, segment) ==
  [b EXCEPT !.index = {t \in @ : Segment(t * BitsPerTreeBlock) # segment}
                        \cup {TreeBlock(n) : n \in {m \in BitsOf(b) : Segment(m) = segment}}]

\* Where a search downwards from n may go on: at n unless its tree block is
\* summarised as zero, else at the end of one that is not, in the same segment.
SkipLast(b, n) ==
  LET first == Segment(n) * BitsPerSegment
      found == {t \in b.index : Segment(t * BitsPerTreeBlock) = Segment(n) /\ t <= TreeBlock(n)}
  IN IF found = {} THEN first
     ELSE IF Max(found) = TreeBlock(n) THEN n
     ELSE (Max(found) + 1) * BitsPerTreeBlock - 1

\* The search in one segment and in the ones below it.
FindLastInSegment(b, n) ==
  LET from == SkipLast(b, n)
      found == {m \in BitsOf(b) : Segment(m) = Segment(n) /\ m <= from}
  IN IF found = {} THEN -1 ELSE Max(found)

LastSet(b, n) ==
  LET from(s) == IF s = Segment(n) THEN n ELSE (s + 1) * BitsPerSegment - 1
      found == {FindLastInSegment(b, from(s)) : s \in Segments(b) \cap 0 .. Segment(n)}
  IN Max(found \cup {-1})

\* The bits of a sequence of bytes, the lowest first.
BitsOfBytes(bytes) ==
  {n \in 0 .. Len(bytes) * BitsPerByte - 1 :
     (bytes[n \div BitsPerByte + 1] \div Power[n % BitsPerByte]) % 2 = 1}

\* The words of a page are replaced by those of the bytes, which start at bit j.
InsertInPage(b, i, j, bytes) ==
  LET old == IF i \in DOMAIN b.pages THEN b.pages[i] ELSE {}
      new == {k \in old : k \notin j .. j + Len(bytes) * BitsPerByte - 1}
               \cup {j + k : k \in BitsOfBytes(bytes)}
      pages == [k \in DOMAIN b.pages \cup {i} |-> IF k = i THEN new ELSE b.pages[k]]
  IN Refresh([b EXCEPT !.pages = pages], i \div PagesPerSegment)

\* insert(), whose bytes may go on into the next pages.
Insert(b, start, bytes) ==
  IF start % BitsPerWord # 0 THEN b
  ELSE LET first == start \div BitsPerPage
           last == (start + Len(bytes) * BitsPerByte - 1) \div BitsPerPage
           From(i) == IF i = first THEN start % BitsPerPage ELSE 0
           Cut(i) == (i * BitsPerPage + From(i) - start) \div BitsPerByte
           Part(i) == Slice(bytes, Cut(i), IF i = last THEN Len(bytes) ELSE Cut(i + 1))
           upTo[i \in first - 1 .. last] ==
             IF i < first THEN b ELSE InsertInPage(upTo[i - 1], i, From(i), Part(i))
       IN upTo[last]
=============================================================================
