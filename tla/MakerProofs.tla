---------------------------- MODULE MakerProofs ----------------------------
(***************************************************************************)
(* The maker and the search in the file it writes, for every source, field *)
(* list, number of addresses and size of a block.                          *)
(*                                                                         *)
(* The operators first: the rounds of the binary search, the pieces of a   *)
(* split segment, the pointers SetVectorIndex leaves.  Then the state: the *)
(* inductive invariant IInv relates the entries in the file, the pieces    *)
(* still to write and the pointers in memory, and says that a vector index *)
(* in the file belongs to a complete segment index.                        *)
(***************************************************************************)
EXTENDS Maker, SegmentsProofs

-----------------------------------------------------------------------------
(* Blocks *)

\* An address lies between the first and the last of its block.
LEMMA BlockBounds ==
    ASSUME NEW x \in Nat
    PROVE  /\ Block(x) \in Nat
           /\ Block(x) * BlockSize <= x
           /\ x < Block(x) * BlockSize + BlockSize
BY BlockSizeAssumption DEF Block

\* The addresses between those two are of the block.
LEMMA BlockOfItsAddresses ==
    ASSUME NEW x \in Nat, NEW b \in Nat,
           b * BlockSize <= x, x < b * BlockSize + BlockSize
    PROVE  Block(x) = b
BY BlockSizeAssumption DEF Block

\* A later address is not in an earlier block.
LEMMA BlockMonotone ==
    ASSUME NEW x \in Nat, NEW y \in Nat, x <= y
    PROVE  Block(x) <= Block(y)
BY BlockSizeAssumption DEF Block

-----------------------------------------------------------------------------
(* The binary search *)

\* one round of the loop, with P for the rounds after it
ProbeRound(P, f, ip, sPtr, l, h) ==
    LET m == (l + h) \div 2
        p == sPtr + m
    IN  IF l > h THEN EmptyRegion
        ELSE IF p > Len(f.index) THEN ReadError
        ELSE IF ip < f.index[p].start THEN P[<<l, m - 1>>]
        ELSE IF ip > f.index[p].end THEN P[<<m + 1, h>>]
        ELSE f.index[p].region

Rounds(P, f, ip, sPtr, width) ==
    \A l \in 0..(width + 1), h \in -1..width :
        P[<<l, h>>] = ProbeRound(P, f, ip, sPtr, l, h)

\* The loop ends: each round leaves fewer entries between its bounds.
LEMMA ProbeRounds ==
    ASSUME NEW f, NEW ip, NEW sPtr, NEW width \in Nat
    PROVE  \E P : /\ ProbeAt(f, ip, sPtr, width) = P[<<0, width>>]
                  /\ Rounds(P, f, ip, sPtr, width)
<1> DEFINE Bounds == (0..(width + 1)) \X (-1..width)
           Round(P, b) == ProbeRound(P, f, ip, sPtr, b[1], b[2])
           Def(P) == P = [b \in Bounds |-> Round(P, b)]
           Left(b) == b[2] - b[1] + 1
           Ready == {k \in Nat : \E P : \A b \in Bounds :
                                    Left(b) <= k => P[b] = Round(P, b)}
<1>1. ProbeAt(f, ip, sPtr, width) = (CHOOSE P : Def(P))[<<0, width>>]
  BY Zenon DEF ProbeAt, ProbeRound
<1>2. ASSUME NEW P, NEW b \in Bounds, Left(b) <= 0
      PROVE  Round(P, b) = EmptyRegion
  BY <1>2 DEF ProbeRound
<1>3. ASSUME NEW l \in 0..(width + 1), NEW h \in -1..width, l <= h
      PROVE  LET m == (l + h) \div 2
             IN  /\ l <= m /\ m <= h
                 /\ <<l, m - 1>> \in Bounds /\ <<m + 1, h>> \in Bounds
                 /\ Left(<<l, m - 1>>) < h - l + 1
                 /\ Left(<<m + 1, h>>) < h - l + 1
  <2> DEFINE m == (l + h) \div 2
  <2>1. m \in Int /\ l <= m /\ m <= h
    BY <1>3
  <2> HIDE DEF m
  <2>2. m - 1 \in -1..width /\ m + 1 \in 0..(width + 1)
    BY <2>1
  <2> QED
    BY <2>1, <2>2 DEF m
\* a round depends on the rounds with fewer entries only
<1>4. ASSUME NEW P, NEW Q, NEW b \in Bounds,
             \A c \in Bounds : Left(c) < Left(b) => P[c] = Q[c]
      PROVE  Round(P, b) = Round(Q, b)
  <2> DEFINE l == b[1]
             h == b[2]
             m == (l + h) \div 2
  <2>1. l \in 0..(width + 1) /\ h \in -1..width
    OBVIOUS
  <2>2. CASE l > h
    BY <2>2 DEF ProbeRound
  <2>3. CASE ~(l > h)
    <3>1. l <= h
      BY <2>1, <2>3
    <3>2. P[<<l, m - 1>>] = Q[<<l, m - 1>>] /\ P[<<m + 1, h>>] = Q[<<m + 1, h>>]
      <4> HIDE DEF l, h, Bounds, Left
      <4>1. /\ <<l, m - 1>> \in Bounds /\ <<m + 1, h>> \in Bounds
            /\ Left(<<l, m - 1>>) < h - l + 1
            /\ Left(<<m + 1, h>>) < h - l + 1
        BY <1>3, <2>1, <3>1
      <4>2. Left(b) = h - l + 1
        BY DEF Left, l, h
      <4> HIDE DEF m
      <4> QED
        BY <4>1, <4>2, <1>4
    <3> QED
      BY <3>2, Zenon DEF ProbeRound
  <2> QED
    BY <2>2, <2>3
<1>5. 0 \in Ready
  <2> DEFINE P == [b \in Bounds |-> EmptyRegion]
  <2>1. \A b \in Bounds : Left(b) <= 0 => P[b] = Round(P, b)
    <3> HIDE DEF Round, Left
    <3> QED
      BY <1>2
  <2> HIDE DEF P, Bounds, Round, Left
  <2> QED
    BY <2>1
<1>6. \A b \in Bounds : Left(b) \in Int /\ Left(b) <= width + 1
  OBVIOUS
<1> HIDE DEF Bounds, Round, Left
<1>7. ASSUME NEW k \in Nat, k \in Ready
      PROVE  k + 1 \in Ready
  <2>1. PICK P : \A b \in Bounds : Left(b) <= k => P[b] = Round(P, b)
    BY <1>7
  <2> DEFINE Q == [b \in Bounds |-> IF Left(b) <= k THEN P[b] ELSE Round(P, b)]
  <2>2. \A c \in Bounds : Left(c) <= k => P[c] = Q[c]
    OBVIOUS
  <2>3. \A b \in Bounds : Q[b] = Round(P, b)
    BY <2>1
  <2> HIDE DEF Q
  <2>4. ASSUME NEW b \in Bounds, Left(b) <= k + 1
        PROVE  Q[b] = Round(Q, b)
    <3>1. \A c \in Bounds : Left(c) < Left(b) => P[c] = Q[c]
      BY <2>2, <2>4, <1>6
    <3>2. Round(P, b) = Round(Q, b)
      BY <3>1, <1>4
    <3> QED
      BY <3>2, <2>3
  <2>5. k + 1 \in Nat
    OBVIOUS
  <2> QED
    BY <2>4, <2>5
<1>8. \A k \in Nat : k \in Ready
  <2> HIDE DEF Ready
  <2> QED
    BY <1>5, <1>7, SetInduction
<1>9. \E P : Def(P)
  <2>1. width + 1 \in Nat
    OBVIOUS
  <2>2. PICK P : \A b \in Bounds : Left(b) <= width + 1 => P[b] = Round(P, b)
    BY <2>1, <1>8
  <2> DEFINE Q == [b \in Bounds |-> P[b]]
  <2>3. \A b \in Bounds : P[b] = Round(P, b)
    BY <2>2, <1>6
  <2>4. \A b \in Bounds : Q[b] = P[b]
    OBVIOUS
  <2>5. \A b \in Bounds : Round(P, b) = Round(Q, b)
    BY <1>4, <2>4
  <2>6. \A b \in Bounds : P[b] = Round(Q, b)
    BY <2>3, <2>5
  <2>7. Q = [b \in Bounds |-> Round(Q, b)]
    BY <2>6, Zenon
  <2> HIDE DEF Q
  <2> QED
    BY <2>7
<1> DEFINE P == CHOOSE Q : Def(Q)
<1>10. P = [b \in Bounds |-> Round(P, b)]
  BY <1>9, Zenon
<1> HIDE DEF P
<1>11. \A b \in Bounds : P[b] = Round(P, b)
  BY <1>10, Zenon
<1>12. ASSUME NEW l \in 0..(width + 1), NEW h \in -1..width
       PROVE  P[<<l, h>>] = ProbeRound(P, f, ip, sPtr, l, h)
  <2>1. <<l, h>> \in Bounds
    BY DEF Bounds
  <2> QED
    BY <2>1, <1>11 DEF Round
<1>13. Rounds(P, f, ip, sPtr, width)
  BY <1>12 DEF Rounds
<1> QED
  BY <1>1, <1>13 DEF P
\* The middle of two bounds, and the rounds after it, stay between them.
LEMMA Middle ==
    ASSUME NEW width \in Nat,
           NEW l \in 0..(width + 1), NEW h \in -1..width, l <= h
    PROVE  LET m == (l + h) \div 2
           IN  /\ m \in Nat /\ l <= m /\ m <= h
               /\ m - 1 \in -1..width /\ m + 1 \in 0..(width + 1)
               /\ l < h => m < h
<1> DEFINE m == (l + h) \div 2
<1>1. m \in Int /\ l <= m /\ m <= h /\ (l < h => m < h)
  OBVIOUS
<1> HIDE DEF m
<1>2. m \in Nat /\ m - 1 \in -1..width /\ m + 1 \in 0..(width + 1)
  BY <1>1
<1> QED
  BY <1>1, <1>2 DEF m

\* Whatever the bounds: what the search answers is the region of an entry
\* that contains the address, or nothing, or a failed read.
LEMMA ProbeSound ==
    ASSUME NEW R, NEW f, f.index \in Seq(SegmentsOver(R)),
           NEW ip \in IPs, NEW sPtr \in Nat, sPtr > 0, NEW width \in Nat
    PROVE  LET a == ProbeAt(f, ip, sPtr, width)
           IN  a \in {EmptyRegion, ReadError} \/ Says(f.index, ip, a)
<1> DEFINE Right(a) == a \in {EmptyRegion, ReadError} \/ Says(f.index, ip, a)
<1>0. PICK P : /\ ProbeAt(f, ip, sPtr, width) = P[<<0, width>>]
               /\ Rounds(P, f, ip, sPtr, width)
  BY ProbeRounds, Zenon
<1>1. /\ ProbeAt(f, ip, sPtr, width) = P[<<0, width>>]
      /\ \A l \in 0..(width + 1), h \in -1..width :
            P[<<l, h>>] = ProbeRound(P, f, ip, sPtr, l, h)
  BY <1>0 DEF Rounds
<1> DEFINE Done == {k \in Nat :
                       \A l \in 0..(width + 1), h \in -1..width :
                          h - l + 1 <= k => Right(P[<<l, h>>])}
<1> HIDE DEF Right
<1>2. 0 \in Done
  <2>1. ASSUME NEW l \in 0..(width + 1), NEW h \in -1..width, h - l + 1 <= 0
        PROVE  Right(P[<<l, h>>])
    <3>1. P[<<l, h>>] = EmptyRegion
      <4>1. P[<<l, h>>] = ProbeRound(P, f, ip, sPtr, l, h)
        BY <1>1
      <4>2. l > h
        BY <2>1
      <4> QED
        BY <4>1, <4>2 DEF ProbeRound
    <3> QED
      BY <3>1 DEF Right
  <2> QED
    BY <2>1
<1>3. ASSUME NEW k \in Nat, k \in Done
      PROVE  k + 1 \in Done
  <2>1. ASSUME NEW l \in 0..(width + 1), NEW h \in -1..width, h - l + 1 <= k + 1
        PROVE  Right(P[<<l, h>>])
    <3> DEFINE m == (l + h) \div 2
               p == sPtr + m
    <3>1. P[<<l, h>>] = ProbeRound(P, f, ip, sPtr, l, h)
      BY <1>1
    <3>2. CASE l > h
      BY <3>1, <3>2 DEF ProbeRound, Right
    <3>3. CASE ~(l > h)
      <4>1. /\ m \in Nat /\ l <= m /\ m <= h
            /\ m - 1 \in -1..width /\ m + 1 \in 0..(width + 1)
        BY <3>3, Middle
      <4> HIDE DEF m
      <4>2. Right(P[<<l, m - 1>>]) /\ Right(P[<<m + 1, h>>])
        <5>1. m - 1 - l + 1 <= k /\ h - (m + 1) + 1 <= k
          BY <2>1, <4>1
        <5> QED
          BY <4>1, <5>1, <1>3
      <4>3. CASE p > Len(f.index)
        BY <3>1, <3>3, <4>3 DEF ProbeRound, Right, m
      <4>4. CASE ~(p > Len(f.index))
        <5>1. p \in 1..Len(f.index)
          BY <4>1, <4>4
        <5>2. /\ f.index[p].start \in Nat /\ f.index[p].end \in Nat
              /\ ip \in Nat
          BY <5>1, SegmentTypes, MaxIPAssumption DEF IPs
        <5>3. CASE ip < f.index[p].start
          BY <3>1, <3>3, <4>2, <4>4, <5>3 DEF ProbeRound, m
        <5>4. CASE ~(ip < f.index[p].start) /\ ip > f.index[p].end
          BY <3>1, <3>3, <4>2, <4>4, <5>4 DEF ProbeRound, m
        <5>5. CASE ~(ip < f.index[p].start) /\ ~(ip > f.index[p].end)
          <6>1. P[<<l, h>>] = f.index[p].region
            BY <3>1, <3>3, <4>4, <5>5 DEF ProbeRound, m
          <6>2. SegSays(f.index[p], ip, f.index[p].region)
            BY <5>2, <5>5 DEF SegSays, SegContains
          <6> HIDE DEF p
          <6> QED
            BY <6>1, <6>2, <5>1 DEF Right, Says
        <5> QED
          BY <5>3, <5>4, <5>5
      <4> QED
        BY <4>3, <4>4
    <3> QED
      BY <3>2, <3>3
  <2> QED
    BY <2>1
<1>4. \A k \in Nat : k \in Done
  <2> HIDE DEF Done
  <2> QED
    BY <1>2, <1>3, SetInduction
<1>5. Right(P[<<0, width>>])
  <2>1. width + 1 \in Nat /\ width - 0 + 1 <= width + 1
        /\ 0 \in 0..(width + 1) /\ width \in -1..width
    OBVIOUS
  <2> QED
    BY <2>1, <1>4
<1> QED
  BY <1>1, <1>5 DEF Right

\* The entry of an index in order that contains an address is before, behind
\* or at position p as the comparisons of the search at p say.
LEMMA ProbeSide ==
    ASSUME NEW R, NEW list, list \in Seq(SegmentsOver(R)),
           Proper(list), Ordered(list),
           NEW ip \in IPs, NEW p \in 1..Len(list), NEW q \in 1..Len(list),
           SegContains(list[q], ip)
    PROVE  /\ ip < list[p].start => q < p
           /\ ip > list[p].end => p < q
           /\ ~(ip < list[p].start) /\ ~(ip > list[p].end) => p = q
<1> DEFINE ps == list[p].start
           pe == list[p].end
           qs == list[q].start
           qe == list[q].end
<1>1. ip \in Nat
  BY MaxIPAssumption DEF IPs
<1>2. \A i \in 1..Len(list) : list[i].start \in Nat /\ list[i].end \in Nat
  BY SegmentTypes
<1>3. ps \in Nat /\ pe \in Nat /\ qs \in Nat /\ qe \in Nat
  BY <1>2
<1>4. qs <= ip /\ ip <= qe
  BY DEF SegContains
<1>5. ps <= pe
  BY DEF Proper
<1>6. (p < q => pe < qs) /\ (q < p => qe < ps)
  BY DEF Ordered
<1>7. p = q => ps = qs /\ pe = qe
  OBVIOUS
<1>8. p < q \/ q < p \/ p = q
  OBVIOUS
<1> HIDE DEF ps, pe, qs, qe
<1>9. /\ ip < ps => q < p
      /\ ip > pe => p < q
      /\ ~(ip < ps) /\ ~(ip > pe) => p = q
  <2>1. CASE p < q
    BY <2>1, <1>1, <1>3, <1>4, <1>5, <1>6
  <2>2. CASE q < p
    BY <2>2, <1>1, <1>3, <1>4, <1>5, <1>6
  <2>3. CASE p = q
    BY <2>3, <1>1, <1>3, <1>4, <1>7
  <2> QED
    BY <2>1, <2>2, <2>3, <1>8
<1> QED
  BY <1>9 DEF ps, pe

\* In an index in order, the search finds the entry that contains the
\* address, if it is among the entries between the pointers; the position
\* the end pointer names, which may not exist, is never read.
LEMMA ProbeFinds ==
    ASSUME NEW R, NEW f, f.index \in Seq(SegmentsOver(R)),
           Proper(f.index), Ordered(f.index),
           NEW ip \in IPs, NEW sPtr \in Nat, sPtr > 0, NEW width \in Nat,
           sPtr + width <= Len(f.index) + 1,
           NEW t \in 0..(width - 1), SegContains(f.index[sPtr + t], ip)
    PROVE  ProbeAt(f, ip, sPtr, width) = f.index[sPtr + t].region
<1> DEFINE answer == f.index[sPtr + t].region
<1>0. PICK P : /\ ProbeAt(f, ip, sPtr, width) = P[<<0, width>>]
               /\ Rounds(P, f, ip, sPtr, width)
  BY ProbeRounds, Zenon
<1>1. /\ ProbeAt(f, ip, sPtr, width) = P[<<0, width>>]
      /\ \A l \in 0..(width + 1), h \in -1..width :
            P[<<l, h>>] = ProbeRound(P, f, ip, sPtr, l, h)
  BY <1>0 DEF Rounds
<1> DEFINE Done == {k \in Nat :
                       \A l \in 0..(width + 1), h \in -1..width :
                          h - l + 1 <= k /\ l <= t /\ t <= h
                             => P[<<l, h>>] = answer}
<1> HIDE DEF answer
<1>2. 0 \in Done
  OBVIOUS
<1>3. ASSUME NEW k \in Nat, k \in Done
      PROVE  k + 1 \in Done
  <2>1. ASSUME NEW l \in 0..(width + 1), NEW h \in -1..width,
               h - l + 1 <= k + 1, l <= t, t <= h
        PROVE  P[<<l, h>>] = answer
    <3> DEFINE m == (l + h) \div 2
               p == sPtr + m
               q == sPtr + t
    <3>1. P[<<l, h>>] = ProbeRound(P, f, ip, sPtr, l, h)
      BY <1>1
    <3>2. l <= h
      BY <2>1
    <3>3. /\ m \in Nat /\ l <= m /\ m <= h
          /\ m - 1 \in -1..width /\ m + 1 \in 0..(width + 1)
          /\ l < h => m < h
      BY <3>2, Middle
    <3> HIDE DEF m
    <3>4. m < width
      BY <2>1, <3>3
    <3>5. p \in 1..Len(f.index) /\ q \in 1..Len(f.index)
      BY <3>3, <3>4
    <3>6. SegContains(f.index[q], ip)
      OBVIOUS
    <3>7. /\ ip < f.index[p].start => q < p
          /\ ip > f.index[p].end => p < q
          /\ ~(ip < f.index[p].start) /\ ~(ip > f.index[p].end) => p = q
      <4> HIDE DEF p, q
      <4> QED
        BY <3>5, <3>6, ProbeSide
    <3>8. ~(l > h) /\ ~(p > Len(f.index))
      BY <3>2, <3>5
    <3>9. CASE ip < f.index[p].start
      <4>1. t < m
        BY <3>3, <3>7, <3>9
      <4>2. P[<<l, h>>] = P[<<l, m - 1>>]
        BY <3>1, <3>8, <3>9 DEF ProbeRound, m
      <4>3. m - 1 - l + 1 <= k /\ t <= m - 1
        BY <4>1, <2>1, <3>3
      <4>4. P[<<l, m - 1>>] = answer
        BY <4>3, <2>1, <3>3, <1>3
      <4> QED
        BY <4>2, <4>4
    <3>10. CASE ~(ip < f.index[p].start) /\ ip > f.index[p].end
      <4>1. m < t
        BY <3>3, <3>7, <3>10
      <4>2. P[<<l, h>>] = P[<<m + 1, h>>]
        BY <3>1, <3>8, <3>10 DEF ProbeRound, m
      <4>3. h - (m + 1) + 1 <= k /\ m + 1 <= t
        BY <4>1, <2>1, <3>3
      <4>4. P[<<m + 1, h>>] = answer
        BY <4>3, <2>1, <3>3, <1>3
      <4> QED
        BY <4>2, <4>4
    <3>11. CASE ~(ip < f.index[p].start) /\ ~(ip > f.index[p].end)
      <4>1. P[<<l, h>>] = f.index[p].region
        BY <3>1, <3>8, <3>11 DEF ProbeRound, m
      <4>2. p = q
        BY <3>7, <3>11
      <4> QED
        BY <4>1, <4>2 DEF answer
    <3> QED
      BY <3>9, <3>10, <3>11
  <2> QED
    BY <2>1
<1>4. \A k \in Nat : k \in Done
  <2> HIDE DEF Done
  <2> QED
    BY <1>2, <1>3, SetInduction
<1>5. P[<<0, width>>] = answer
  <2>1. /\ width + 1 \in Nat /\ width - 0 + 1 <= width + 1
        /\ 0 \in 0..(width + 1) /\ width \in -1..width
        /\ 0 <= t /\ t <= width
    OBVIOUS
  <2> QED
    BY <2>1, <1>4
<1> QED
  BY <1>1, <1>5 DEF answer
-----------------------------------------------------------------------------
(* Splitting *)

\* the part of a segment that lies in block b
Piece(seg, b) ==
    Segment(IF b = Block(seg.start) THEN seg.start ELSE b * BlockSize,
            IF b = Block(seg.end) THEN seg.end
                                  ELSE b * BlockSize + BlockSize - 1,
            seg.region)

\* The addresses of a later block are greater.
LEMMA LaterBlocks ==
    ASSUME NEW a \in Nat, NEW b \in Nat, a < b
    PROVE  a * BlockSize + BlockSize <= b * BlockSize
<1>1. (a + 1) * BlockSize <= b * BlockSize
  BY BlockSizeAssumption
<1>2. (a + 1) * BlockSize = a * BlockSize + BlockSize
  BY BlockSizeAssumption
<1> QED
  BY <1>1, <1>2

\* The piece of a segment in a block it reaches lies in the block and in
\* the segment, and holds every address of both.
LEMMA PieceInBlock ==
    ASSUME NEW R, NEW seg \in SegmentsOver(R), NEW b \in Nat,
           Block(seg.start) <= b, b <= Block(seg.end)
    PROVE  LET p == Piece(seg, b)
           IN  /\ p \in SegmentsOver(R) /\ p.region = seg.region
               /\ b * BlockSize <= p.start
               /\ p.start < b * BlockSize + BlockSize
               /\ b * BlockSize <= p.end
               /\ p.end < b * BlockSize + BlockSize
               /\ seg.start <= p.start /\ p.end <= seg.end
               /\ seg.start <= seg.end => p.start <= p.end
               /\ \A ip \in Nat :
                     SegContains(seg, ip) /\ Block(ip) = b
                        => SegContains(p, ip)
<1> DEFINE p == Piece(seg, b)
           first == Block(seg.start)
           last == Block(seg.end)
           low == b * BlockSize
<1>1. /\ seg.start \in Nat /\ seg.end \in Nat /\ seg.start <= MaxIP
      /\ seg.end <= MaxIP /\ seg.region \in R
  BY MaxIPAssumption DEF SegmentsOver, IPs
<1>2. /\ p.start = IF b = first THEN seg.start ELSE low
      /\ p.end = IF b = last THEN seg.end ELSE low + BlockSize - 1
      /\ p.region = seg.region
      /\ p = [start |-> p.start, end |-> p.end, region |-> p.region]
  BY DEF Piece, Segment
<1>3. /\ first \in Nat /\ first * BlockSize <= seg.start
      /\ seg.start < first * BlockSize + BlockSize
      /\ last \in Nat /\ last * BlockSize <= seg.end
      /\ seg.end < last * BlockSize + BlockSize
  BY <1>1, BlockBounds
<1>4. /\ first * BlockSize \in Nat /\ last * BlockSize \in Nat
      /\ low \in Nat /\ BlockSize \in Nat \ {0}
  BY <1>3, BlockSizeAssumption
<1>5. b # first => first * BlockSize + BlockSize <= low
  BY <1>3, LaterBlocks
<1>6. b # last => low + BlockSize <= last * BlockSize
  BY <1>3, LaterBlocks
<1>7. \A ip \in Nat : Block(ip) = b => low <= ip /\ ip < low + BlockSize
  BY BlockBounds
<1>8. b = first => low = first * BlockSize
  OBVIOUS
<1>9. b = last => low = last * BlockSize
  OBVIOUS
<1> HIDE DEF p, low, first, last
<1>10. /\ p.start \in Nat /\ low <= p.start /\ p.start < low + BlockSize
       /\ seg.start <= p.start
  BY <1>1, <1>2, <1>3, <1>4, <1>5, <1>8
<1>11. /\ p.end \in Nat /\ low <= p.end /\ p.end < low + BlockSize
       /\ p.end <= seg.end
  BY <1>1, <1>2, <1>3, <1>4, <1>6, <1>9
<1>12. p.start <= MaxIP
  BY <1>1, <1>2, <1>3, <1>4, <1>6, <1>9, MaxIPAssumption
<1>13. seg.start <= seg.end => p.start <= p.end
  BY <1>1, <1>2, <1>3, <1>4, <1>6, <1>8, <1>9
<1>14. p \in SegmentsOver(R)
  BY <1>1, <1>2, <1>10, <1>11, <1>12, MaxIPAssumption DEF SegmentsOver, IPs
<1>15. ASSUME NEW ip \in Nat, SegContains(seg, ip), Block(ip) = b
       PROVE  SegContains(p, ip)
  BY <1>1, <1>2, <1>4, <1>7, <1>15 DEF SegContains
<1> QED
  BY <1>2, <1>10, <1>11, <1>13, <1>14, <1>15 DEF p, low

\* Split gives one piece for each block the segment touches, in order, and
\* together they say what the segment says.
LEMMA SplitIsPieces ==
    ASSUME NEW R, NEW seg \in SegmentsOver(R)
    PROVE  LET s == Split(seg)
               first == Block(seg.start)
               last == Block(seg.end)
           IN  /\ s \in Seq(SegmentsOver(R))
               /\ Len(s) = IF first <= last THEN last - first + 1 ELSE 0
               /\ \A i \in 1..Len(s) :
                     /\ first + i - 1 \in first..last
                     /\ s[i] = Piece(seg, first + i - 1)
<1> DEFINE first == Block(seg.start)
           last == Block(seg.end)
           n == last - first + 1
           s == Split(seg)
<1>1. /\ seg.start \in Nat /\ seg.end \in Nat
  BY MaxIPAssumption DEF SegmentsOver, IPs
<1>2. first \in Nat /\ last \in Nat
  BY <1>1, BlockBounds
<1>3. s = [i \in 1..n |-> Piece(seg, first + i - 1)]
  BY DEF Split, Piece
<1> HIDE DEF s, first, last
<1>4. \A i \in 1..n : first + i - 1 \in first..last /\ first + i - 1 \in Nat
  BY <1>2
<1>5. \A i \in 1..n : Piece(seg, first + i - 1) \in SegmentsOver(R)
  BY <1>4, PieceInBlock DEF first, last
<1>6. CASE first <= last
  <2>1. n \in Nat
    BY <1>2, <1>6
  <2> HIDE DEF n
  <2>2. s \in [1..n -> SegmentsOver(R)]
    BY <1>3, <1>5
  <2>3. s \in Seq(SegmentsOver(R)) /\ Len(s) = n
    BY <2>1, <2>2
  <2> QED
    BY <2>3, <1>3, <1>4, <1>6 DEF s, first, last, n
<1>7. CASE ~(first <= last)
  <2>1. 1..n = {}
    BY <1>2, <1>7
  <2>2. s = <<>>
    BY <2>1, <1>3
  <2>3. s \in Seq(SegmentsOver(R)) /\ Len(s) = 0
    BY <2>2
  <2> QED
    BY <2>3, <1>7 DEF s, first, last
<1> QED
  BY <1>6, <1>7

OneBlock(list) ==
    \A i \in 1..Len(list) : Block(list[i].start) = Block(list[i].end)

\* Split gives pieces in order, each in one block, that say of an address
\* what the segment says.
LEMMA SplitSays ==
    ASSUME NEW R, NEW seg \in SegmentsOver(R), seg.start <= seg.end
    PROVE  LET s == Split(seg)
           IN  /\ s \in Seq(SegmentsOver(R))
               /\ Proper(s) /\ Ordered(s) /\ OneBlock(s)
               /\ \A i \in 1..Len(s) :
                     seg.start <= s[i].start /\ s[i].end <= seg.end
               /\ \A ip \in IPs : \A r : Says(s, ip, r) <=> SegSays(seg, ip, r)
<1> DEFINE first == Block(seg.start)
           last == Block(seg.end)
           s == Split(seg)
           low(i) == (first + i - 1) * BlockSize
<1>1. seg.start \in Nat /\ seg.end \in Nat
  BY MaxIPAssumption DEF SegmentsOver, IPs
<1>2. first \in Nat /\ last \in Nat /\ first <= last
  BY <1>1, BlockBounds, BlockMonotone
<1>3. /\ s \in Seq(SegmentsOver(R)) /\ Len(s) = last - first + 1
      /\ \A i \in 1..Len(s) : /\ first + i - 1 \in first..last
                              /\ s[i] = Piece(seg, first + i - 1)
  BY <1>2, SplitIsPieces
<1> HIDE DEF s, first, last
<1>4. ASSUME NEW i \in 1..Len(s)
      PROVE  /\ first + i - 1 \in Nat /\ low(i) \in Nat
             /\ s[i].start \in Nat /\ s[i].end \in Nat
             /\ low(i) <= s[i].start /\ s[i].start < low(i) + BlockSize
             /\ low(i) <= s[i].end /\ s[i].end < low(i) + BlockSize
             /\ seg.start <= s[i].start /\ s[i].end <= seg.end
             /\ s[i].start <= s[i].end /\ s[i].region = seg.region
             /\ \A ip \in Nat :
                   SegContains(seg, ip) /\ Block(ip) = first + i - 1
                      => SegContains(s[i], ip)
  <2>1. /\ first + i - 1 \in Nat /\ first <= first + i - 1
        /\ first + i - 1 <= last
    BY <1>2, <1>3
  <2>2. s[i].start \in Nat /\ s[i].end \in Nat
    BY <1>3, SegmentTypes
  <2>3. low(i) \in Nat
    BY <2>1, BlockSizeAssumption
  <2>4. s[i] = Piece(seg, first + i - 1)
    BY <1>3
  <2> QED
    BY <2>1, <2>2, <2>3, <2>4, PieceInBlock DEF first, last
<1>5. Proper(s)
  BY <1>4 DEF Proper
<1>6. ASSUME NEW i \in 1..Len(s)
      PROVE  /\ Block(s[i].start) = first + i - 1
             /\ Block(s[i].end) = first + i - 1
  BY <1>4, BlockOfItsAddresses
<1>7. OneBlock(s)
  BY <1>6 DEF OneBlock
<1>8. ASSUME NEW i \in 1..Len(s), NEW j \in 1..Len(s), i < j
      PROVE  s[i].end < s[j].start
  <2>1. first + i - 1 < first + j - 1
    BY <1>8, <1>2
  <2>2. low(i) + BlockSize <= low(j)
    BY <2>1, <1>4, LaterBlocks
  <2>3. /\ s[i].end \in Nat /\ low(i) \in Nat
        /\ s[i].end < low(i) + BlockSize
    BY <1>4
  <2>4. s[j].start \in Nat /\ low(j) \in Nat /\ low(j) <= s[j].start
    BY <1>4
  <2> HIDE DEF low
  <2> QED
    BY <2>2, <2>3, <2>4, BlockSizeAssumption
<1>9. Ordered(s)
  BY <1>8 DEF Ordered
<1>10. ASSUME NEW ip \in IPs, NEW r
       PROVE  Says(s, ip, r) <=> SegSays(seg, ip, r)
  <2>1. ip \in Nat
    BY MaxIPAssumption DEF IPs
  <2>2. ASSUME Says(s, ip, r)
        PROVE  SegSays(seg, ip, r)
    <3>1. PICK i \in 1..Len(s) : SegSays(s[i], ip, r)
      BY <2>2 DEF Says
    <3> QED
      BY <3>1, <2>1, <1>1, <1>4, SMTT(30) DEF SegSays, SegContains
  <2>3. ASSUME SegSays(seg, ip, r)
        PROVE  Says(s, ip, r)
    <3>1. SegContains(seg, ip) /\ seg.region = r
      BY <2>3 DEF SegSays
    <3>2. Block(ip) \in Nat /\ first <= Block(ip) /\ Block(ip) <= last
      BY <3>1, <2>1, <1>1, BlockBounds, BlockMonotone
         DEF SegContains, first, last
    <3> DEFINE i == Block(ip) - first + 1
    <3>3. i \in 1..Len(s) /\ Block(ip) = first + i - 1
      BY <3>2, <1>2, <1>3
    <3> HIDE DEF i
    <3>4. SegContains(s[i], ip) /\ s[i].region = r
      BY <3>1, <3>3, <2>1, <1>4
    <3> QED
      BY <3>3, <3>4 DEF Says, SegSays
  <2> QED
    BY <2>2, <2>3
<1> QED
  BY <1>3, <1>4, <1>5, <1>7, <1>9, <1>10 DEF s

-----------------------------------------------------------------------------
(* The pieces of all segments, one after the other *)

SplitAll(segs) == FlattenSeq([i \in DOMAIN segs |-> Split(segs[i])])

\* Splitting a list of segments gives segments over the same regions.
LEMMA SplitAllType ==
    ASSUME NEW R, NEW segs \in Seq(SegmentsOver(R))
    PROVE  SplitAll(segs) \in Seq(SegmentsOver(R))
<1> DEFINE n == Len(segs)
           splits == [i \in 1..n |-> Split(segs[i])]
<1>1. n \in Nat /\ DOMAIN segs = 1..n
  OBVIOUS
<1>2. SplitAll(segs) = FlattenSeq(splits)
  BY <1>1 DEF SplitAll
<1>3. \A i \in 1..n : Split(segs[i]) \in Seq(SegmentsOver(R))
  BY SegmentTypes, SplitIsPieces
<1> HIDE DEF n
<1>4. splits \in Seq(Seq(SegmentsOver(R))) /\ Len(splits) = n
  <2>1. splits \in [1..n -> Seq(SegmentsOver(R))]
    BY <1>3
  <2> HIDE DEF splits
  <2> QED
    BY <1>1, <2>1
<1>5. \A i \in 1..n : splits[i] \in Seq(SegmentsOver(R))
  BY <1>3
<1> HIDE DEF splits
<1>6. CASE n = 0
  <2>1. FlattenSeq(splits) = splits
    BY <1>4, <1>6 DEF FlattenSeq
  <2>2. splits = <<>>
    BY <1>4, <1>6
  <2> QED
    BY <1>2, <2>1, <2>2
<1>7. CASE n # 0
  <2>1. n > 0
    BY <1>1, <1>7
  <2>2. PICK F : /\ FlattenSeq(splits) = F[n]
                 /\ F[1] = splits[1]
                 /\ \A i \in 1..(n - 1) : F[i + 1] = F[i] \o splits[i + 1]
    BY <1>1, <1>4, <2>1, FlattenSteps
  <2> DEFINE Done == {k \in Nat : k \in 1..n => F[k] \in Seq(SegmentsOver(R))}
  <2>3. 0 \in Done
    OBVIOUS
  <2>4. ASSUME NEW k \in Nat, k \in Done
        PROVE  k + 1 \in Done
    <3> SUFFICES ASSUME k + 1 \in 1..n
                 PROVE  F[k + 1] \in Seq(SegmentsOver(R))
      OBVIOUS
    <3>1. CASE k = 0
      BY <3>1, <2>2, <1>5
    <3>2. CASE k # 0
      <4>1. k \in 1..n /\ k \in 1..(n - 1)
        BY <3>2, <1>1
      <4>2. F[k + 1] = F[k] \o splits[k + 1]
        BY <4>1, <2>2, Zenon
      <4>3. F[k] \in Seq(SegmentsOver(R))
        BY <4>1, <2>4
      <4> QED
        BY <4>2, <4>3, <1>5, ConcatProperties
    <3> QED
      BY <3>1, <3>2
  <2>5. \A k \in Nat : k \in Done
    <3> HIDE DEF Done
    <3> QED
      BY <2>3, <2>4, SetInduction
  <2>6. F[n] \in Seq(SegmentsOver(R))
    BY <2>1, <2>5, <1>1
  <2> QED
    BY <1>2, <2>2, <2>6
<1> QED
  BY <1>6, <1>7

\* The pieces of ordered segments are in order, each in one block, and say
\* what the segments say.
LEMMA SplitAllSays ==
    ASSUME NEW R, NEW segs \in Seq(SegmentsOver(R)), segs # <<>>,
           Proper(segs), Ordered(segs)
    PROVE  LET all == SplitAll(segs)
           IN  /\ Proper(all) /\ Ordered(all) /\ OneBlock(all)
               /\ \A ip \in IPs : \A r : Says(all, ip, r) <=> Says(segs, ip, r)
<1> DEFINE n == Len(segs)
           splits == [i \in 1..n |-> Split(segs[i])]
<1>1. n \in Nat /\ n > 0 /\ DOMAIN segs = 1..n
  OBVIOUS
<1>2. SplitAll(segs) = FlattenSeq(splits)
  BY <1>1 DEF SplitAll
<1>3. ASSUME NEW i \in 1..n
      PROVE  LET s == Split(segs[i])
             IN  /\ s \in Seq(SegmentsOver(R))
                 /\ Proper(s) /\ Ordered(s) /\ OneBlock(s)
                 /\ \A j \in 1..Len(s) : /\ segs[i].start <= s[j].start
                                         /\ s[j].end <= segs[i].end
                 /\ \A ip \in IPs : \A r :
                       Says(s, ip, r) <=> SegSays(segs[i], ip, r)
  <2>1. segs[i] \in SegmentsOver(R) /\ segs[i].start <= segs[i].end
    BY DEF Proper
  <2> QED
    BY <2>1, SplitSays
<1>4. \A i \in 1..n : segs[i].start \in Nat /\ segs[i].end \in Nat
  BY SegmentTypes
<1>5. Len(splits) = n /\ \A i \in 1..n : splits[i] = Split(segs[i])
  <2> HIDE DEF n
  <2>1. DOMAIN splits = 1..n
    OBVIOUS
  <2>2. splits \in Seq({Split(segs[i]) : i \in 1..n})
    BY <1>1
  <2> QED
    BY <1>1, <2>1, <2>2
<1> HIDE DEF n, splits
<1>6. PICK F : /\ FlattenSeq(splits) = F[n]
               /\ F[1] = splits[1]
               /\ \A i \in 1..(n - 1) : F[i + 1] = F[i] \o splits[i + 1]
  BY <1>1, <1>5, FlattenSteps
<1> DEFINE SaidBy(k, ip, r) == \E i \in 1..k : SegSays(segs[i], ip, r)
           Good(k) == /\ F[k] \in Seq(SegmentsOver(R))
                      /\ Proper(F[k]) /\ Ordered(F[k]) /\ OneBlock(F[k])
                      /\ \A j \in 1..Len(F[k]) : F[k][j].end <= segs[k].end
                      /\ \A ip \in IPs : \A r :
                            Says(F[k], ip, r) <=> SaidBy(k, ip, r)
           Done == {k \in Nat : k \in 1..n => Good(k)}
<1>7. 0 \in Done
  OBVIOUS
<1>8. ASSUME NEW k \in Nat, k \in Done, k + 1 \in 1..n
      PROVE  Good(k + 1)
  <2> DEFINE s == Split(segs[k + 1])
  <2>1. /\ s \in Seq(SegmentsOver(R))
        /\ Proper(s) /\ Ordered(s) /\ OneBlock(s)
        /\ \A j \in 1..Len(s) : /\ segs[k + 1].start <= s[j].start
                                /\ s[j].end <= segs[k + 1].end
        /\ \A ip \in IPs : \A r :
              Says(s, ip, r) <=> SegSays(segs[k + 1], ip, r)
    BY <1>3, <1>8
  <2> HIDE DEF s
  <2>2. \A ip, r : SaidBy(k + 1, ip, r) <=>
                      SaidBy(k, ip, r) \/ SegSays(segs[k + 1], ip, r)
    OBVIOUS
  <2>3. CASE k = 0
    <3>1. F[k + 1] = s
      BY <2>3, <1>5, <1>6, <1>8 DEF s
    <3>2. \A ip, r : ~SaidBy(k, ip, r)
      BY <2>3
    <3> HIDE DEF SaidBy
    <3> QED
      BY <2>1, <2>2, <3>1, <3>2
  <2>4. CASE k # 0
    <3>1. k \in 1..n /\ k \in 1..(n - 1)
      BY <2>4, <1>1, <1>8
    <3>2. F[k + 1] = F[k] \o s
      <4>1. F[k + 1] = F[k] \o splits[k + 1]
        BY <3>1, <1>6, Zenon
      <4>2. splits[k + 1] = s
        BY <1>5, <1>8 DEF s
      <4> QED
        BY <4>1, <4>2, <3>1, Zenon
    <3>3. Good(k)
      <4> HIDE DEF Good
      <4> QED
        BY <3>1, <1>8
    <3> HIDE DEF SaidBy
    <3>4. \A i \in 1..Len(F[k]) : F[k][i] \in SegmentsOver(R) /\ F[k][i].end \in Nat
      BY <3>3, SegmentTypes
    <3>5. \A j \in 1..Len(s) : s[j].start \in Nat /\ s[j].end \in Nat
      BY <2>1, SegmentTypes
    <3>6. segs[k].end < segs[k + 1].start /\ segs[k + 1].start <= segs[k + 1].end
      BY <3>1, <1>8 DEF Ordered, Proper, n
    <3>7. \A i \in 1..Len(F[k]), j \in 1..Len(s) : F[k][i].end < s[j].start
      <4>1. ASSUME NEW i \in 1..Len(F[k]), NEW j \in 1..Len(s)
            PROVE  F[k][i].end < s[j].start
        <5>1. F[k][i].end <= segs[k].end /\ segs[k + 1].start <= s[j].start
          BY <2>1, <3>3
        <5>2. /\ F[k][i].end \in Nat /\ s[j].start \in Nat
              /\ segs[k].end \in Nat /\ segs[k + 1].start \in Nat
          BY <3>1, <3>4, <3>5, <1>4, <1>8
        <5> QED
          BY <5>1, <5>2, <3>6, SMTT(30)
      <4> QED
        BY <4>1
    <3>8. /\ F[k + 1] \in Seq(SegmentsOver(R))
          /\ Len(F[k + 1]) = Len(F[k]) + Len(s)
          /\ Proper(F[k + 1]) /\ Ordered(F[k + 1])
          /\ \A ip : \A r : Says(F[k + 1], ip, r) <=>
                               Says(F[k], ip, r) \/ Says(s, ip, r)
      <4> DEFINE c == F[k] \o s
      <4>1. /\ F[k] \in Seq(SegmentsOver(R)) /\ s \in Seq(SegmentsOver(R))
            /\ Proper(F[k]) /\ Proper(s) /\ Ordered(F[k]) /\ Ordered(s)
        BY <3>3, <2>1
      <4>2. /\ c \in Seq(SegmentsOver(R)) /\ Len(c) = Len(F[k]) + Len(s)
            /\ Proper(c) /\ Ordered(c)
            /\ \A ip : \A r : Says(c, ip, r) <=>
                                 Says(F[k], ip, r) \/ Says(s, ip, r)
        BY <3>7, <4>1, ConcatSays
      <4> QED
        BY <3>2, <4>2
    <3>9. \A i \in 1..Len(F[k + 1]) :
             \/ i \in 1..Len(F[k]) /\ F[k + 1][i] = F[k][i]
             \/ \E j \in 1..Len(s) : F[k + 1][i] = s[j]
      <4>1. \A i \in 1..(Len(F[k]) + Len(s)) :
               (F[k] \o s)[i] = IF i <= Len(F[k]) THEN F[k][i]
                                                  ELSE s[i - Len(F[k])]
        BY <3>3, <2>1, ConcatProperties
      <4>2. Len(F[k]) \in Nat /\ Len(s) \in Nat
        BY <3>3, <2>1
      <4>3. \A i \in 1..(Len(F[k]) + Len(s)) :
               /\ i <= Len(F[k]) => i \in 1..Len(F[k])
               /\ ~(i <= Len(F[k])) => i - Len(F[k]) \in 1..Len(s)
        BY <4>2
      <4>4. \A i \in 1..(Len(F[k]) + Len(s)) :
               \/ i \in 1..Len(F[k]) /\ (F[k] \o s)[i] = F[k][i]
               \/ \E j \in 1..Len(s) : (F[k] \o s)[i] = s[j]
        BY <4>1, <4>3, Zenon
      <4> QED
        BY <4>4, <3>2, <3>8
    <3>10. OneBlock(F[k + 1])
      BY <3>3, <3>9, <2>1 DEF OneBlock
    <3>11. \A j \in 1..Len(F[k + 1]) : F[k + 1][j].end <= segs[k + 1].end
      <4>1. ASSUME NEW j \in 1..Len(F[k])
            PROVE  F[k][j].end <= segs[k + 1].end
        <5>1. F[k][j].end <= segs[k].end /\ F[k][j].end \in Nat
          BY <3>3, <3>4
        <5>2. /\ segs[k].end \in Nat /\ segs[k + 1].start \in Nat
              /\ segs[k + 1].end \in Nat
          BY <3>1, <1>4, <1>8
        <5> QED
          BY <5>1, <5>2, <3>6, SMTT(30)
      <4> QED
        BY <4>1, <3>9, <2>1
    <3>12. ASSUME NEW ip \in IPs, NEW r
           PROVE  Says(F[k + 1], ip, r) <=> SaidBy(k + 1, ip, r)
      BY <2>1, <2>2, <3>3, <3>8
    <3> QED
      BY <3>8, <3>10, <3>11, <3>12
  <2> HIDE DEF Good
  <2> QED
    BY <2>3, <2>4
<1>9. \A k \in Nat : k \in Done => k + 1 \in Done
  <2> HIDE DEF Good
  <2> QED
    BY <1>8
<1>10. \A k \in Nat : k \in Done
  <2> HIDE DEF Done
  <2> QED
    BY <1>7, <1>9, SetInduction
<1>11. Good(n)
  <2> HIDE DEF Good
  <2> QED
    BY <1>1, <1>10
<1>12. ASSUME NEW ip \in IPs, NEW r
       PROVE  Says(F[n], ip, r) <=> Says(segs, ip, r)
  <2>1. SaidBy(n, ip, r) <=> Says(segs, ip, r)
    BY DEF Says, n
  <2> HIDE DEF SaidBy
  <2> QED
    BY <2>1, <1>11
<1> QED
  BY <1>2, <1>6, <1>11, <1>12

-----------------------------------------------------------------------------
(* The vector index *)

\* the pointers of block b delimit its entries
Delimits(v, index, b) ==
    \/ /\ v[b].s = 0 /\ v[b].e = 0
       /\ \A p \in 1..Len(index) : Block(index[p].start) # b
    \/ /\ 0 < v[b].s /\ v[b].s < v[b].e /\ v[b].e <= Len(index) + 1
       /\ \A p \in 1..Len(index) :
             Block(index[p].start) = b <=> v[b].s <= p /\ p < v[b].e

VectorOf(v, index) == \A b \in Blocks : Delimits(v, index, b)

Vectors == [Blocks -> [s : Nat, e : Nat]]

\* SetVectorIndex changes the pointers of one block: the first position
\* only if there was none, the end always.
LEMMA SetVectorIndexType ==
    ASSUME NEW v \in Vectors, NEW ip \in IPs, NEW pos \in Nat
    PROVE  LET w == SetVectorIndex(v, ip, pos)
               c == Block(ip)
           IN  /\ w \in Vectors /\ c \in Blocks
               /\ \A b \in Blocks : b # c => w[b] = v[b]
               /\ w[c].s = IF v[c].s = 0 THEN pos ELSE v[c].s
               /\ w[c].e = pos + 1
<1> DEFINE c == Block(ip)
           new == [s |-> IF v[c].s = 0 THEN pos ELSE v[c].s, e |-> pos + 1]
           w == [v EXCEPT ![c] = new]
<1>1. c \in Blocks
  BY DEF Blocks
<1>2. SetVectorIndex(v, ip, pos) = w
  BY DEF SetVectorIndex
<1>3. v[c] \in [s : Nat, e : Nat]
  BY <1>1 DEF Vectors
<1> HIDE DEF c
<1>4. new \in [s : Nat, e : Nat]
  BY <1>3
<1>5. /\ new.s = IF v[c].s = 0 THEN pos ELSE v[c].s
      /\ new.e = pos + 1
  OBVIOUS
<1> HIDE DEF new
<1>6. /\ w \in Vectors /\ w[c] = new
      /\ \A b \in Blocks : b # c => w[b] = v[b]
  BY <1>1, <1>4 DEF Vectors
<1> HIDE DEF w
<1> QED
  BY <1>1, <1>2, <1>5, <1>6 DEF c

\* An entry whose block is not before that of any other entry: setting the
\* pointers of its block keeps every block delimited.
LEMMA VectorExtends ==
    ASSUME NEW R, NEW index \in Seq(SegmentsOver(R)),
           NEW seg \in SegmentsOver(R), NEW v \in Vectors,
           VectorOf(v, index),
           \A p, q \in 1..Len(index) :
               p < q => Block(index[p].start) <= Block(index[q].start),
           \A p \in 1..Len(index) : Block(index[p].start) <= Block(seg.start)
    PROVE  VectorOf(SetVectorIndex(v, seg.start, Len(index) + 1),
                    Append(index, seg))
<1> DEFINE n == Len(index)
           longer == Append(index, seg)
           w == SetVectorIndex(v, seg.start, n + 1)
           c == Block(seg.start)
<1>1. /\ n \in Nat /\ n + 1 \in Nat
      /\ seg.start \in IPs /\ seg.start \in Nat
  BY MaxIPAssumption DEF SegmentsOver, IPs
<1>2. /\ w \in Vectors /\ c \in Blocks
      /\ \A b \in Blocks : b # c => w[b] = v[b]
      /\ w[c].s = IF v[c].s = 0 THEN n + 1 ELSE v[c].s
      /\ w[c].e = n + 1 + 1
  <2> DEFINE pos == n + 1
             ip == seg.start
  <2>1. pos \in Nat /\ ip \in IPs
    BY <1>1
  <2>2. /\ SetVectorIndex(v, ip, pos) \in Vectors
        /\ Block(ip) \in Blocks
        /\ \A b \in Blocks :
              b # Block(ip) => SetVectorIndex(v, ip, pos)[b] = v[b]
        /\ SetVectorIndex(v, ip, pos)[Block(ip)].s =
              IF v[Block(ip)].s = 0 THEN pos ELSE v[Block(ip)].s
        /\ SetVectorIndex(v, ip, pos)[Block(ip)].e = pos + 1
    <3> HIDE DEF pos, ip
    <3> QED
      BY <2>1, SetVectorIndexType
  <2> QED
    BY <2>2
<1>3. /\ Len(longer) = n + 1 /\ longer[n + 1] = seg
      /\ \A p \in 1..n : longer[p] = index[p]
  OBVIOUS
<1>4. \A b \in Blocks : v[b].s \in Nat /\ v[b].e \in Nat
  BY DEF Vectors
<1>5. \A p \in 1..n : Block(index[p].start) \in Nat
  BY SegmentTypes, BlockBounds
<1>6. c \in Nat
  BY <1>1, BlockBounds
<1>7. \A p \in 1..(n + 1) : p \in 1..n \/ p = n + 1
  BY <1>1
<1> HIDE DEF longer, w, c, n
<1>8. ASSUME NEW b \in Blocks, b # c
      PROVE  Delimits(w, longer, b)
  <2>1. w[b] = v[b] /\ Delimits(v, index, b)
    BY <1>2, <1>8 DEF VectorOf
  <2>2. Block(longer[n + 1].start) # b
    BY <1>3, <1>8 DEF c
  <2>3. CASE v[b].s = 0
    <3>1. /\ v[b].e = 0 /\ \A p \in 1..n : Block(index[p].start) # b
      BY <2>1, <2>3 DEF Delimits, n
    <3>2. \A p \in 1..(n + 1) : Block(longer[p].start) # b
      BY <3>1, <2>2, <1>3, <1>7
    <3> QED
      BY <3>1, <3>2, <2>1, <2>3, <1>3 DEF Delimits
  <2>4. CASE v[b].s # 0
    <3>1. /\ 0 < v[b].s /\ v[b].s < v[b].e /\ v[b].e <= n + 1
          /\ \A p \in 1..n : Block(index[p].start) = b <=>
                                v[b].s <= p /\ p < v[b].e
      BY <2>1, <2>4 DEF Delimits, n
    <3>2. ASSUME NEW p \in 1..(n + 1)
          PROVE  Block(longer[p].start) = b <=> v[b].s <= p /\ p < v[b].e
      <4>1. CASE p \in 1..n
        BY <4>1, <3>1, <1>3
      <4>2. CASE p = n + 1
        BY <4>2, <3>1, <2>2, <1>1, <1>4
      <4> QED
        BY <4>1, <4>2, <1>7
    <3>3. v[b].e <= n + 1 + 1
      BY <3>1, <1>1, <1>4
    <3> QED
      BY <3>1, <3>2, <3>3, <2>1, <1>3 DEF Delimits
  <2> QED
    BY <2>3, <2>4
<1>9. Delimits(w, longer, c)
  <2>1. Delimits(v, index, c)
    BY <1>2 DEF VectorOf
  <2>2. Block(longer[n + 1].start) = c
    BY <1>3 DEF c
  <2>3. CASE v[c].s = 0
    <3>1. \A p \in 1..n : Block(index[p].start) # c
      BY <2>1, <2>3 DEF Delimits, n
    <3>2. w[c].s = n + 1
      BY <2>3, <1>2
    <3>3. ASSUME NEW p \in 1..(n + 1)
          PROVE  Block(longer[p].start) = c <=> w[c].s <= p /\ p < w[c].e
      <4>1. CASE p \in 1..n
        BY <4>1, <3>1, <3>2, <1>1, <1>3
      <4>2. CASE p = n + 1
        BY <4>2, <3>2, <2>2, <1>1, <1>2
      <4> QED
        BY <4>1, <4>2, <1>7
    <3>4. 0 < w[c].s /\ w[c].s < w[c].e /\ w[c].e <= n + 1 + 1
      BY <3>2, <1>1, <1>2
    <3> QED
      BY <3>3, <3>4, <1>3 DEF Delimits
  <2>4. CASE v[c].s # 0
    <3>1. /\ 0 < v[c].s /\ v[c].s < v[c].e /\ v[c].e <= n + 1
          /\ \A p \in 1..n : Block(index[p].start) = c <=>
                                v[c].s <= p /\ p < v[c].e
      BY <2>1, <2>4 DEF Delimits, n
    <3>2. w[c].s = v[c].s
      BY <2>4, <1>2
    \* the last entry is of the block, so the block's entries reach the end
    <3>3. v[c].e = n + 1
      <4>1. SUFFICES ASSUME v[c].e <= n
                     PROVE  FALSE
        BY <3>1, <1>1, <1>2, <1>4
      <4> DEFINE s == v[c].s
      <4>2. s \in 1..n /\ n \in 1..n /\ s < n
        BY <4>1, <3>1, <1>1, <1>2, <1>4
      <4>3. Block(index[s].start) = c
        BY <4>2, <3>1, <1>2, <1>4
      <4>4. Block(index[s].start) <= Block(index[n].start)
        BY <4>2 DEF n
      <4>5. Block(index[n].start) <= c
        BY <4>2 DEF n, c
      <4>6. Block(index[n].start) = c
        BY <4>2, <4>3, <4>4, <4>5, <1>5, <1>6
      <4>7. n < v[c].e
        BY <4>2, <4>6, <3>1
      <4> QED
        BY <4>1, <4>7, <1>1, <1>2, <1>4
    <3>4. ASSUME NEW p \in 1..(n + 1)
          PROVE  Block(longer[p].start) = c <=> w[c].s <= p /\ p < w[c].e
      <4>1. CASE p \in 1..n
        BY <4>1, <3>1, <3>2, <3>3, <1>1, <1>2, <1>3, <1>4
      <4>2. CASE p = n + 1
        BY <4>2, <3>1, <3>2, <3>3, <2>2, <1>1, <1>2, <1>4
      <4> QED
        BY <4>1, <4>2, <1>7
    <3>5. 0 < w[c].s /\ w[c].s < w[c].e /\ w[c].e <= n + 1 + 1
      BY <3>1, <3>2, <3>3, <1>1, <1>2, <1>4
    <3> QED
      BY <3>4, <3>5, <1>3 DEF Delimits
  <2> QED
    BY <2>3, <2>4
<1> QED
  BY <1>8, <1>9 DEF VectorOf, longer, w, n

\* The empty vector index delimits the entries of an empty index.
LEMMA VectorOfNothing == VectorOf(ZeroVector, <<>>)
BY DEF VectorOf, Delimits, ZeroVector, NoPtrs

-----------------------------------------------------------------------------
(* Search *)

\* Without vector pointers a search finds nothing or cannot be read.
LEMMA SearchInZeroVector ==
    ASSUME NEW f, f.vector = ZeroVector, NEW ip \in IPs
    PROVE  Search(f, ip) \in {EmptyRegion, ReadError}
<1>1. Block(ip) \in Blocks
  BY DEF Blocks
<1>2. f.vector[Block(ip)].s = 0
  BY <1>1 DEF ZeroVector, NoPtrs
<1> QED
  BY <1>2 DEF Search

\* Search answers nothing where a block has no entries, and otherwise runs
\* the loop over the entries its block has.
LEMMA SearchPointers ==
    ASSUME NEW f, f.vector \in Vectors, VectorOf(f.vector, f.index),
           NEW ip \in IPs
    PROVE  LET v == f.vector[Block(ip)]
           IN  /\ Delimits(f.vector, f.index, Block(ip))
               /\ v.s \in Nat /\ v.e \in Nat
               /\ \/ v.s = 0 /\ Search(f, ip) \in {EmptyRegion, ReadError}
                  \/ /\ v.s > 0 /\ v.s < v.e /\ v.e # 0
                     /\ \/ ~HasVector(f) /\ Search(f, ip) = ReadError
                        \/ /\ HasVector(f)
                           /\ Search(f, ip) = ProbeAt(f, ip, v.s, v.e - v.s)
<1> DEFINE v == f.vector[Block(ip)]
<1>1. Block(ip) \in Blocks
  BY DEF Blocks
<1>2. Delimits(f.vector, f.index, Block(ip))
  BY <1>1 DEF VectorOf
<1>3. v.s \in Nat /\ v.e \in Nat
  BY <1>1 DEF Vectors
<1>4. v.s = 0 \/ (v.s > 0 /\ v.s < v.e /\ v.e # 0)
  BY <1>2, <1>3 DEF Delimits
<1>5. Search(f, ip) = IF ~HasVector(f) THEN ReadError
                      ELSE IF v.s = 0 \/ v.e = 0 THEN EmptyRegion
                      ELSE ProbeAt(f, ip, v.s, v.e - v.s)
  BY DEF Search
<1> HIDE DEF v
<1>6. CASE v.s = 0
  BY <1>2, <1>3, <1>5, <1>6 DEF v
<1>7. CASE v.s # 0
  <2>1. v.s > 0 /\ v.s < v.e /\ v.e # 0
    BY <1>4, <1>7
  <2> QED
    BY <1>2, <1>3, <1>5, <2>1 DEF v
<1> QED
  BY <1>6, <1>7

\* What a search finds, an entry of the index says of the address.
LEMMA SearchSound ==
    ASSUME NEW R, NEW f, f.index \in Seq(SegmentsOver(R)),
           f.vector \in Vectors, VectorOf(f.vector, f.index), NEW ip \in IPs
    PROVE  \/ Search(f, ip) \in {EmptyRegion, ReadError}
           \/ Says(f.index, ip, Search(f, ip))
<1> DEFINE v == f.vector[Block(ip)]
<1>1. \/ Search(f, ip) \in {EmptyRegion, ReadError}
      \/ /\ v.s \in Nat /\ v.e \in Nat /\ v.s > 0 /\ v.s < v.e
         /\ Search(f, ip) = ProbeAt(f, ip, v.s, v.e - v.s)
  BY SearchPointers
<1> HIDE DEF v
<1>2. ASSUME v.s \in Nat, v.e \in Nat, v.s > 0, v.s < v.e
      PROVE  LET a == ProbeAt(f, ip, v.s, v.e - v.s)
             IN  a \in {EmptyRegion, ReadError} \/ Says(f.index, ip, a)
  <2>1. v.e - v.s \in Nat
    BY <1>2
  <2> QED
    BY <1>2, <2>1, ProbeSound
<1> QED
  BY <1>1, <1>2

\* In an ordered index whose entries lie in one block each, a search finds
\* whatever an entry says of the address.
LEMMA SearchComplete ==
    ASSUME NEW R, NEW f, f.index \in Seq(SegmentsOver(R)),
           Proper(f.index), Ordered(f.index), OneBlock(f.index),
           f.vector \in Vectors, VectorOf(f.vector, f.index),
           NEW ip \in IPs, NEW r, Says(f.index, ip, r)
    PROVE  Search(f, ip) = r
<1> DEFINE v == f.vector[Block(ip)]
<1>1. PICK p \in 1..Len(f.index) : SegSays(f.index[p], ip, r)
  BY DEF Says
<1>2. /\ f.index[p].start \in Nat /\ f.index[p].end \in Nat
      /\ ip \in Nat
  BY SegmentTypes, MaxIPAssumption DEF IPs
<1>3. f.index[p].start <= ip /\ ip <= f.index[p].end /\ f.index[p].region = r
  BY <1>1 DEF SegSays, SegContains
<1>4. Block(f.index[p].start) = Block(ip)
  <2>1. /\ Block(f.index[p].start) <= Block(ip)
        /\ Block(ip) <= Block(f.index[p].end)
    BY <1>2, <1>3, BlockMonotone
  <2>2. Block(f.index[p].start) = Block(f.index[p].end)
    BY DEF OneBlock
  <2>3. Block(f.index[p].start) \in Nat /\ Block(ip) \in Nat
    BY <1>2, BlockBounds
  <2> QED
    BY <2>1, <2>2, <2>3
<1>5. HasVector(f)
  <2>1. f.index # <<>>
    BY <1>1
  <2> QED
    BY <2>1 DEF HasVector
<1>6. /\ Delimits(f.vector, f.index, Block(ip))
      /\ v.s \in Nat /\ v.e \in Nat
      /\ \/ v.s = 0
         \/ /\ v.s > 0 /\ v.s < v.e
            /\ Search(f, ip) = ProbeAt(f, ip, v.s, v.e - v.s)
  BY <1>5, SearchPointers
<1>7. v.s # 0
  BY <1>4, <1>6 DEF Delimits
<1>8. v.s <= p /\ p < v.e /\ v.e <= Len(f.index) + 1
  BY <1>4, <1>6, <1>7 DEF Delimits
<1>9. v.s > 0 /\ Search(f, ip) = ProbeAt(f, ip, v.s, v.e - v.s)
  BY <1>6, <1>7
<1> DEFINE width == v.e - v.s
           t == p - v.s
<1> HIDE DEF v
<1>10. /\ width \in Nat /\ t \in 0..(width - 1) /\ v.s + t = p
       /\ v.s + width <= Len(f.index) + 1
  BY <1>6, <1>8
<1>11. SegContains(f.index[v.s + t], ip)
  BY <1>1, <1>10 DEF SegSays
<1> HIDE DEF width, t
<1>12. ProbeAt(f, ip, v.s, width) = f.index[v.s + t].region
  <2> DEFINE sPtr == v.s
  <2>1. sPtr \in Nat /\ sPtr > 0 /\ sPtr + width <= Len(f.index) + 1
    BY <1>6, <1>9, <1>10
  <2>2. SegContains(f.index[sPtr + t], ip)
    BY <1>11
  <2> HIDE DEF sPtr
  <2>3. width \in Nat /\ t \in 0..(width - 1)
    BY <1>10
  <2>4. /\ f.index \in Seq(SegmentsOver(R))
        /\ Proper(f.index) /\ Ordered(f.index) /\ ip \in IPs
    OBVIOUS
  <2>5. ProbeAt(f, ip, sPtr, width) = f.index[sPtr + t].region
    BY <2>1, <2>2, <2>3, <2>4, ProbeFinds, ZenonT(180)
  <2> QED
    BY <2>5 DEF sPtr
<1> QED
  BY <1>3, <1>9, <1>10, <1>12 DEF width

-----------------------------------------------------------------------------
(* The source and the segments loaded from it *)

\* No line at address 0 comes right behind a line of its region that ends at
\* the last address: the lines that RightBehind merges across the width.
NoWrap ==
    \A i \in 1..(Len(source) - 1) :
        ~(/\ source[i].end = MaxIP /\ source[i + 1].start = 0
          /\ RegionFiltering(source[i].region, fields)
                = RegionFiltering(source[i + 1].region, fields))

\* The set of index entries, as a set of records.
LEMMA IndexedIsSegments == Indexed = SegmentsOver(NewRegions)
<1>1. \A x \in Indexed : x \in SegmentsOver(NewRegions)
  BY DEF Indexed, SegmentsOver, Segment
<1>2. \A x \in SegmentsOver(NewRegions) : x \in Indexed
  <2>1. SUFFICES ASSUME NEW x \in SegmentsOver(NewRegions)
                 PROVE  x \in Indexed
    OBVIOUS
  <2>2. /\ x = [start |-> x.start, end |-> x.end, region |-> x.region]
        /\ x.start \in IPs /\ x.end \in IPs /\ x.region \in NewRegions
    BY DEF SegmentsOver
  <2> QED
    BY <2>2 DEF Indexed, Segment
<1> QED
  BY <1>1, <1>2

\* The filter changes the region of a line and nothing else.
LEMMA FilteredLines ==
    ASSUME source \in Sources
    PROVE  /\ Filtered \in Seq(SegmentsOver(NewRegions))
           /\ Len(Filtered) = Len(source) /\ Len(source) \in Nat
           /\ DOMAIN source = 1..Len(source)
           /\ \A i \in 1..Len(source) :
                 /\ Filtered[i].start = source[i].start
                 /\ Filtered[i].end = source[i].end
                 /\ Filtered[i].region
                       = RegionFiltering(source[i].region, fields)
<1> DEFINE n == Len(source)
<1>1. source \in Seq(SegmentsOver(Regions))
  <2>1. source \in Seq(Line)
    BY SourcesAssumption
  <2> QED
    BY <2>1, LineIsSegment
<1>2. n \in Nat /\ DOMAIN source = 1..n
  BY <1>1
<1>3. ASSUME NEW i \in 1..n
      PROVE  LET new == [source[i] EXCEPT !.region = RegionFiltering(@, fields)]
             IN  /\ new \in SegmentsOver(NewRegions)
                 /\ new.start = source[i].start /\ new.end = source[i].end
                 /\ new.region = RegionFiltering(source[i].region, fields)
  <2>1. source[i] \in SegmentsOver(Regions)
    BY <1>1
  <2>2. RegionFiltering(source[i].region, fields) \in NewRegions
    BY <1>2 DEF NewRegions
  <2> QED
    BY <2>1, <2>2 DEF SegmentsOver
<1>4. \A i \in 1..n :
          Filtered[i] = [source[i] EXCEPT !.region = RegionFiltering(@, fields)]
  BY <1>2 DEF Filtered
<1>5. Filtered \in [1..n -> SegmentsOver(NewRegions)]
  BY <1>2, <1>3 DEF Filtered
<1>6. Filtered \in Seq(SegmentsOver(NewRegions)) /\ Len(Filtered) = n
  BY <1>2, <1>5
<1> QED
  BY <1>2, <1>3, <1>4, <1>6

\* Without a wrap no two filtered lines meet at the seam.
LEMMA FilteredSeams ==
    ASSUME source \in Sources, NoWrap
    PROVE  NoSeam(Filtered)
<1>1. /\ Len(Filtered) = Len(source) /\ Len(source) \in Nat
      /\ \A i \in 1..Len(source) :
            /\ Filtered[i].start = source[i].start
            /\ Filtered[i].end = source[i].end
            /\ Filtered[i].region = RegionFiltering(source[i].region, fields)
  BY FilteredLines
<1>2. SUFFICES ASSUME NEW i \in 1..(Len(source) - 1)
               PROVE  ~Seam(Filtered[i], Filtered[i + 1])
  BY <1>1 DEF NoSeam
<1>3. i \in 1..Len(source) /\ i + 1 \in 1..Len(source)
  BY <1>1
<1>4. ~(/\ source[i].end = MaxIP /\ source[i + 1].start = 0
        /\ RegionFiltering(source[i].region, fields)
              = RegionFiltering(source[i + 1].region, fields))
  BY DEF NoWrap
<1> QED
  BY <1>1, <1>3, <1>4 DEF Seam

\* Loading a source gives segments over the filtered regions.
LEMMA LoadedType ==
    ASSUME source \in Sources
    PROVE  Loaded \in Seq(SegmentsOver(NewRegions))
BY FilteredLines, MergeType, LoadOrderSays DEF Loaded

\* Pieces, as the operator the lemmas above are about.
LEMMA PiecesAreSplit == Pieces = SplitAll(segments)
BY DEF Pieces, SplitAll

\* Start was reached: every line was read, and the segments are in order.
Accepted ==
    /\ \A i \in 1..Len(source) : source[i].start <= source[i].end
    /\ segments = Loaded /\ segments # <<>> /\ InOrder(segments)

\* The pieces of an accepted source are in order, each in one block, and say
\* of every address what the filtered lines say.
LEMMA AcceptedPieces ==
    ASSUME source \in Sources, fields \in FilterFields, NoWrap, Accepted
    PROVE  /\ Pieces \in Seq(SegmentsOver(NewRegions))
           /\ Proper(Pieces) /\ Ordered(Pieces) /\ OneBlock(Pieces)
           /\ \A ip \in IPs : \A r : Says(Pieces, ip, r) <=> Says(Filtered, ip, r)
<1> DEFINE R == NewRegions
           merged == MergeLines(Filtered)
<1>1. /\ Filtered \in Seq(SegmentsOver(R))
      /\ Len(Filtered) = Len(source) /\ Len(source) \in Nat
      /\ \A i \in 1..Len(source) :
            /\ Filtered[i].start = source[i].start
            /\ Filtered[i].end = source[i].end
            /\ Filtered[i].region = RegionFiltering(source[i].region, fields)
  BY FilteredLines
<1>2. Proper(Filtered)
  BY <1>1 DEF Proper, Accepted
<1>3. NoSeam(Filtered)
  BY FilteredSeams
<1> HIDE DEF R
<1>4. /\ merged \in Seq(SegmentsOver(R)) /\ Proper(merged)
      /\ \A ip \in IPs : \A r : Says(merged, ip, r) <=> Says(Filtered, ip, r)
  BY <1>1, <1>2, <1>3, MergeType, MergeSays
<1>5. segments = LoadOrder(merged) /\ segments # <<>> /\ InOrder(segments)
  BY DEF Accepted, Loaded
<1> HIDE DEF merged
<1>6. /\ segments \in Seq(SegmentsOver(R)) /\ Proper(segments)
      /\ \A ip, r : Says(segments, ip, r) <=> Says(merged, ip, r)
  BY <1>4, <1>5, LoadOrderSays
<1>7. Ordered(segments)
  BY <1>5, <1>6, InOrderIsOrder
<1>8. /\ SplitAll(segments) \in Seq(SegmentsOver(R))
      /\ Proper(SplitAll(segments)) /\ Ordered(SplitAll(segments))
      /\ OneBlock(SplitAll(segments))
      /\ \A ip \in IPs : \A r :
            Says(SplitAll(segments), ip, r) <=> Says(segments, ip, r)
  BY <1>5, <1>6, <1>7, SplitAllType, SplitAllSays
<1> QED
  BY <1>4, <1>6, <1>8, PiecesAreSplit DEF R

\* What the source gives an address is what its first line that holds the
\* address says, filtered.
LEMMA SourceRegionSays ==
    ASSUME source \in Sources, NEW ip \in IPs
    PROVE  \/ /\ SourceRegion(ip) = EmptyRegion
              /\ \A r : ~Says(Filtered, ip, r)
           \/ Says(Filtered, ip, SourceRegion(ip))
<1> DEFINE n == Len(source)
           holds == {i \in 1..n : SegContains(source[i], ip)}
           first == SelectInSeq(source, LAMBDA l : SegContains(l, ip))
<1>1. /\ Len(Filtered) = n /\ n \in Nat
      /\ \A i \in 1..n :
            /\ Filtered[i].start = source[i].start
            /\ Filtered[i].end = source[i].end
            /\ Filtered[i].region = RegionFiltering(source[i].region, fields)
  BY FilteredLines
<1>2. \A i \in 1..n : \A r :
          SegSays(Filtered[i], ip, r) <=>
             /\ i \in holds
             /\ r = RegionFiltering(source[i].region, fields)
  BY <1>1 DEF SegSays, SegContains
<1>3. first = IF holds # {} THEN Min(holds) ELSE 0
  BY DEF SelectInSeq
<1>4. holds \subseteq 1..n /\ holds \subseteq Nat
  BY <1>1
<1>5. SourceRegion(ip) = IF first = 0 THEN EmptyRegion
                         ELSE RegionFiltering(source[first].region, fields)
  BY DEF SourceRegion
<1> HIDE DEF holds, first, n
<1>6. CASE holds = {}
  <2>1. SourceRegion(ip) = EmptyRegion
    BY <1>3, <1>5, <1>6
  <2>2. \A r : ~Says(Filtered, ip, r)
    BY <1>1, <1>2, <1>6 DEF Says
  <2> QED
    BY <2>1, <2>2
<1>7. CASE holds # {}
  <2>1. first \in holds
    BY <1>3, <1>4, <1>7, MinIsLeast
  <2>2. first \in 1..n /\ first # 0
    BY <2>1, <1>4, <1>1
  <2>3. SegSays(Filtered[first], ip, SourceRegion(ip))
    BY <2>1, <2>2, <1>2, <1>5
  <2> QED
    BY <2>2, <2>3, <1>1 DEF Says
<1> QED
  BY <1>6, <1>7

\* The pieces of an accepted source say of an address what the source gives
\* it, and nothing else.
LEMMA PiecesSaySource ==
    ASSUME source \in Sources, fields \in FilterFields, NoWrap, Accepted,
           NEW ip \in IPs
    PROVE  /\ \A r : Says(Pieces, ip, r) => r = SourceRegion(ip)
           /\ SourceRegion(ip) # EmptyRegion => Says(Pieces, ip, SourceRegion(ip))
<1>1. /\ Pieces \in Seq(SegmentsOver(NewRegions)) /\ Ordered(Pieces)
      /\ \A r : Says(Pieces, ip, r) <=> Says(Filtered, ip, r)
  BY AcceptedPieces
<1>2. \/ SourceRegion(ip) = EmptyRegion /\ \A r : ~Says(Filtered, ip, r)
      \/ Says(Filtered, ip, SourceRegion(ip))
  BY SourceRegionSays
<1>3. ASSUME NEW r, Says(Pieces, ip, r)
      PROVE  r = SourceRegion(ip)
  <2>1. Says(Pieces, ip, SourceRegion(ip))
    BY <1>1, <1>2, <1>3
  <2> QED
    BY <1>1, <1>3, <2>1, OrderedSaysOnce
<1> QED
  BY <1>1, <1>2, <1>3

-----------------------------------------------------------------------------
(* The steps *)

\* The maker starts with a file that has the type of one.
LEMMA MakerInitType == ASSUME Init PROVE TypeOK
<1>1. ZeroVector \in [Blocks -> [s : Nat, e : Nat]]
  BY DEF ZeroVector, NoPtrs
<1> QED
  BY <1>1 DEF Init, TypeOK, EmptyFile, NoPtrs

\* The regions to write are filtered regions of the source.
LEMMA SourceRegionsType ==
    ASSUME TypeOK
    PROVE  SourceRegions \subseteq NewRegions
<1>1. segments \in Seq(SegmentsOver(NewRegions))
  BY IndexedIsSegments DEF TypeOK
<1> QED
  BY <1>1, SegmentTypes DEF SourceRegions

\* Every step keeps the types: what is loaded, split and written consists
\* of segments over the filtered regions.
LEMMA MakerStepType == ASSUME TypeOK, [Next]_vars PROVE TypeOK'
<1> DEFINE R == NewRegions
           FileType == [header : BOOLEAN, vector : Vectors, data : SUBSET R,
                        index : Seq(Indexed), ptrs : [s : Nat, e : Nat]]
<1>1. /\ source \in Sources /\ fields \in FilterFields
      /\ segments \in Seq(Indexed) /\ pieces \in Seq(Indexed)
      /\ vector \in Vectors /\ file \in FileType
  BY DEF TypeOK, Vectors
<1>2. source' = source /\ fields' = fields
  BY DEF Next, vars, InitDbHeader, LoadSegments, WriteRegion, DataDone,
         WriteIndex, WriteVector, WritePtrs, Stop
<1>3. NewRegions' = NewRegions /\ Indexed' = Indexed
  BY <1>2 DEF NewRegions, Indexed
<1>4. Indexed = SegmentsOver(R)
  BY IndexedIsSegments
<1>5. SUFFICES /\ segments' \in Seq(Indexed) /\ pieces' \in Seq(Indexed)
               /\ vector' \in Vectors /\ file' \in FileType
               /\ step' \in {"header", "load", "data", "index", "ptrs",
                             "done", "failed", "stopped"}
  BY <1>1, <1>2, <1>3 DEF TypeOK, Vectors
<1> HIDE DEF R
<1>6. CASE InitDbHeader
  BY <1>1, <1>6 DEF InitDbHeader
<1>7. CASE LoadSegments
  <2>1. Loaded \in Seq(Indexed)
    BY <1>1, <1>4, LoadedType DEF R
  <2> QED
    BY <1>1, <1>7, <2>1 DEF LoadSegments
<1>8. ASSUME NEW r \in SourceRegions, WriteRegion(r)
      PROVE  /\ segments' \in Seq(Indexed) /\ pieces' \in Seq(Indexed)
             /\ vector' \in Vectors /\ file' \in FileType
             /\ step' = step
  <2>1. r \in R
    BY SourceRegionsType DEF R
  <2> QED
    BY <1>1, <1>8, <2>1 DEF WriteRegion
<1>9. CASE DataDone
  <2>1. Pieces \in Seq(Indexed)
    BY <1>1, <1>4, PiecesAreSplit, SplitAllType
  <2> QED
    BY <1>1, <1>9, <2>1 DEF DataDone
<1>10. CASE WriteIndex
  <2>1. /\ Head(pieces) \in Indexed /\ Tail(pieces) \in Seq(Indexed)
        /\ pieces # <<>>
    BY <1>1, <1>10 DEF WriteIndex
  <2>2. Head(pieces).start \in IPs
    BY <2>1, <1>4 DEF SegmentsOver
  <2>3. file.index \in Seq(Indexed)
    BY <1>1
  <2>4. Len(file.index) + 1 \in Nat
    BY <2>3
  <2> DEFINE ip == Head(pieces).start
             pos == Len(file.index) + 1
  <2>5. SetVectorIndex(vector, ip, pos) \in Vectors
    <3> HIDE DEF ip, pos
    <3>1. ip \in IPs /\ pos \in Nat
      BY <2>2, <2>4 DEF ip, pos
    <3> QED
      BY <3>1, <1>1, SetVectorIndexType
  <2>6. Append(file.index, Head(pieces)) \in Seq(Indexed)
    BY <2>1, <2>3
  <2>7. file' \in FileType
    BY <1>1, <1>10, <2>6 DEF WriteIndex
  <2>8. step' = step /\ step = "index"
    BY <1>10 DEF WriteIndex
  <2> QED
    BY <1>1, <1>10, <2>1, <2>5, <2>7, <2>8 DEF WriteIndex
<1>11. CASE WriteVector
  BY <1>1, <1>11 DEF WriteVector
<1>12. CASE WritePtrs
  <2>1. file.index \in Seq(Indexed)
    BY <1>1
  <2>2. [s |-> IF file.index = <<>> THEN 0 ELSE 1, e |-> Len(file.index)]
           \in [s : Nat, e : Nat]
    BY <2>1
  <2> QED
    BY <1>1, <1>12, <2>2 DEF WritePtrs
<1>13. CASE Stop
  BY <1>1, <1>13 DEF Stop
<1>14. CASE UNCHANGED vars
  BY <1>1, <1>14 DEF vars, TypeOK
<1>15. step \in {"header", "load", "data", "index", "ptrs",
                 "done", "failed", "stopped"}
  BY DEF TypeOK
<1> QED
  BY <1>6, <1>7, <1>8, <1>9, <1>10, <1>11, <1>12, <1>13, <1>14, <1>15 DEF Next

\* The maker's state has its type in every reachable state: loading,
\* merging, sorting, filtering and splitting any source gives segments over
\* the filtered regions, and every write keeps the file a file.
THEOREM MakerTypeOK == Spec => []TypeOK
<1>1. Init => TypeOK
  BY MakerInitType
<1>2. TypeOK /\ [Next]_vars => TypeOK'
  BY MakerStepType
<1> QED
  BY <1>1, <1>2, PTL DEF Spec

-----------------------------------------------------------------------------
(* The inductive invariant *)

\* the index and the vector index are still empty
NothingIndexed == file.index = <<>> /\ vector = ZeroVector

\* While the index is written, the entries in the file and the pieces left
\* make up the pieces, and the pointers in memory delimit the entries there.
Indexing == /\ file.index \o pieces = Pieces
            /\ VectorOf(vector, file.index)

Complete == /\ file.index = Pieces /\ file.vector = vector
            /\ VectorOf(vector, file.index)

\* The vector index reaches the file when the segment index is complete.
VectorLast ==
    \/ file.vector = ZeroVector
    \/ Accepted /\ file.index = Pieces /\ VectorOf(file.vector, file.index)

IInv ==
    /\ TypeOK
    /\ step \in {"data", "index", "ptrs", "done"} => Accepted
    /\ step \in {"header", "load", "data"} => NothingIndexed
    /\ step \in {"header", "load", "data", "index"} => file.vector = ZeroVector
    /\ step = "index" => Indexing
    /\ step \in {"ptrs", "done"} => Complete
    /\ VectorLast

\* The empty file has an empty vector index.
LEMMA MakerInitInv == ASSUME Init PROVE IInv
<1>1. TypeOK
  BY MakerInitType
<1> QED
  BY <1>1 DEF Init, IInv, NothingIndexed, VectorLast, EmptyFile

\* In ordered segments the blocks of the starts only grow.
LEMMA OrderedBlocks ==
    ASSUME NEW R, NEW list \in Seq(SegmentsOver(R)),
           Proper(list), Ordered(list),
           NEW p \in 1..Len(list), NEW q \in 1..Len(list), p < q
    PROVE  Block(list[p].start) <= Block(list[q].start)
<1>1. /\ list[p].start \in Nat /\ list[p].end \in Nat /\ list[q].start \in Nat
  BY SegmentTypes
<1>2. list[p].start <= list[p].end /\ list[p].end < list[q].start
  BY DEF Proper, Ordered
<1>3. list[p].start <= list[q].start
  BY <1>1, <1>2
<1> QED
  BY <1>1, <1>3, BlockMonotone

\* The entry written next keeps the written ones a beginning of the pieces
\* and its block delimited.
LEMMA WriteIndexKeeps ==
    ASSUME NEW R, NEW index \in Seq(SegmentsOver(R)),
           NEW rest \in Seq(SegmentsOver(R)), rest # <<>>,
           Proper(index \o rest), Ordered(index \o rest),
           NEW v \in Vectors, VectorOf(v, index)
    PROVE  /\ Append(index, Head(rest)) \o Tail(rest) = index \o rest
           /\ VectorOf(SetVectorIndex(v, Head(rest).start, Len(index) + 1),
                       Append(index, Head(rest)))
<1> DEFINE n == Len(index)
           all == index \o rest
<1>1. /\ n \in Nat /\ Len(rest) \in Nat /\ Len(rest) > 0
      /\ Head(rest) = rest[1] /\ Head(rest) \in SegmentsOver(R)
      /\ Tail(rest) \in Seq(SegmentsOver(R))
  OBVIOUS
<1>2. /\ all \in Seq(SegmentsOver(R)) /\ Len(all) = n + Len(rest)
      /\ all[n + 1] = Head(rest)
      /\ \A i \in 1..n : all[i] = index[i]
  BY <1>1
<1> HIDE DEF all
<1>3. Append(index, Head(rest)) \o Tail(rest) = all
  <2> DEFINE a == Append(index, Head(rest))
             b == Tail(rest)
             c == a \o b
  <2>1. /\ a \in Seq(SegmentsOver(R)) /\ Len(a) = n + 1
        /\ a[n + 1] = rest[1]
        /\ \A i \in 1..n : a[i] = index[i]
    BY <1>1
  <2>2. /\ b \in Seq(SegmentsOver(R)) /\ Len(b) = Len(rest) - 1
        /\ \A i \in 1..Len(b) : b[i] = rest[i + 1]
    BY <1>1
  <2> HIDE DEF a, b
  <2>3. c \in Seq(SegmentsOver(R)) /\ Len(c) = Len(a) + Len(b)
    BY <2>1, <2>2, ConcatSays
  <2>4. Len(c) = Len(all)
    BY <2>1, <2>2, <2>3, <1>1, <1>2
  <2>5. ASSUME NEW i \in 1..Len(all)
        PROVE  c[i] = all[i]
    <3>1. CASE i \in 1..n
      BY <3>1, <2>1, <2>2, <1>1, <1>2
    <3>2. CASE i = n + 1
      BY <3>2, <2>1, <2>2, <1>1, <1>2
    <3>3. CASE i > n + 1
      <4>1. /\ i - (n + 1) \in 1..Len(b) /\ i - n \in 1..Len(rest)
            /\ i - (n + 1) + 1 = i - n
        BY <3>3, <2>2, <1>1, <1>2
      <4>2. c[i] = b[i - (n + 1)]
        BY <4>1, <3>3, <2>1, <2>2, <1>1, <1>2
      <4>3. all[i] = rest[i - n]
        BY <4>1, <3>3, <1>1, <1>2 DEF all
      <4> QED
        BY <4>1, <4>2, <4>3, <2>2
    <3>4. i \in 1..n \/ i = n + 1 \/ i > n + 1
      BY <1>1, <1>2
    <3> QED
      BY <3>1, <3>2, <3>3, <3>4
  <2> HIDE DEF c
  <2>6. c = all
    BY <2>3, <2>4, <2>5, <1>2, SeqEqual
  <2> QED
    BY <2>6 DEF a, b, c
<1>4. /\ Proper(all) /\ Ordered(all)
  BY DEF all
<1>5. \A p, q \in 1..n :
          p < q => Block(index[p].start) <= Block(index[q].start)
  <2>1. SUFFICES ASSUME NEW p \in 1..n, NEW q \in 1..n, p < q
                 PROVE  Block(index[p].start) <= Block(index[q].start)
    OBVIOUS
  <2>2. p \in 1..Len(all) /\ q \in 1..Len(all)
    BY <1>1, <1>2
  <2>3. Block(all[p].start) <= Block(all[q].start)
    BY <2>1, <2>2, <1>2, <1>4, OrderedBlocks
  <2> QED
    BY <2>3, <1>2
<1>6. \A p \in 1..n : Block(index[p].start) <= Block(Head(rest).start)
  <2>1. SUFFICES ASSUME NEW p \in 1..n
                 PROVE  Block(index[p].start) <= Block(Head(rest).start)
    OBVIOUS
  <2> DEFINE q == n + 1
  <2>2. p \in 1..Len(all) /\ q \in 1..Len(all) /\ p < q
    BY <1>1, <1>2
  <2>3. all[q] = Head(rest)
    BY <1>2
  <2> HIDE DEF q
  <2>4. Block(all[p].start) <= Block(all[q].start)
    BY <2>2, <1>2, <1>4, OrderedBlocks
  <2> QED
    BY <2>3, <2>4, <1>2
<1>7. VectorOf(SetVectorIndex(v, Head(rest).start, n + 1),
               Append(index, Head(rest)))
  BY <1>1, <1>5, <1>6, VectorExtends
<1> QED
  BY <1>3, <1>7 DEF all

\* After Init no step changes the segments, and with them the pieces and
\* whether the source was accepted.
LEMMA SegmentsKept ==
    ASSUME UNCHANGED <<source, fields, segments>>
    PROVE  (Accepted' <=> Accepted) /\ Pieces' = Pieces
BY DEF Accepted, Pieces, Loaded, Filtered

\* Each step of the maker keeps IInv; WriteIndex by WriteIndexKeeps, the
\* others because they leave the index and its pointers alone.
LEMMA MakerStepInv ==
    ASSUME NoWrap, IInv, [Next]_vars
    PROVE  IInv'
<1> DEFINE R == NewRegions
<1>1. TypeOK /\ TypeOK'
  BY MakerStepType DEF IInv
<1>2. /\ source \in Sources /\ fields \in FilterFields
      /\ file.index \in Seq(SegmentsOver(R)) /\ pieces \in Seq(SegmentsOver(R))
      /\ vector \in Vectors
      /\ DOMAIN file = {"header", "vector", "data", "index", "ptrs"}
  BY <1>1, IndexedIsSegments DEF TypeOK, Vectors
<1>3. /\ step \in {"data", "index", "ptrs", "done"} => Accepted
      /\ step \in {"header", "load", "data"} => NothingIndexed
      /\ step \in {"header", "load", "data", "index"}
            => file.vector = ZeroVector
      /\ step = "index" => Indexing
      /\ step \in {"ptrs", "done"} => Complete
      /\ VectorLast
  BY DEF IInv
<1>4. file \in [header : BOOLEAN, vector : [Blocks -> [s : Nat, e : Nat]],
                data : SUBSET NewRegions, index : Seq(Indexed),
                ptrs : [s : Nat, e : Nat]]
  BY <1>1 DEF TypeOK
<1> HIDE DEF R
<1>5. CASE InitDbHeader
  <2>1. /\ step = "header" /\ step' = "load"
        /\ file'.index = file.index /\ file'.vector = file.vector
        /\ UNCHANGED <<source, fields, segments, pieces, vector>>
    BY <1>4, <1>5 DEF InitDbHeader
  <2>2. NothingIndexed' /\ file'.vector = ZeroVector
    BY <2>1, <1>3 DEF NothingIndexed
  <2> QED
    BY <2>1, <2>2, <1>1 DEF IInv, VectorLast, ZeroVector
<1>6. CASE LoadSegments
  <2>1. /\ step = "load" /\ step' \in {"data", "failed"}
        /\ UNCHANGED <<source, fields, pieces, vector, file>>
    BY <1>6 DEF LoadSegments
  <2>2. NothingIndexed' /\ file'.vector = ZeroVector
    BY <2>1, <1>3 DEF NothingIndexed
  <2>3. ASSUME step' = "data"
        PROVE  Accepted'
    <3>1. /\ \A i \in DOMAIN source : Readable(source[i])
          /\ segments' = Loaded /\ Loaded # <<>> /\ InOrder(Loaded)
      BY <1>6, <2>3 DEF LoadSegments
    <3>2. \A i \in 1..Len(source) : source[i].start <= source[i].end
      BY <3>1, <1>2, FilteredLines DEF Readable
    <3>3. Loaded' = Loaded
      BY <2>1 DEF Loaded, Filtered
    <3>4. InOrder(segments')
      BY <3>1
    <3> QED
      BY <3>1, <3>2, <3>3, <3>4, <2>1 DEF Accepted, InOrder
  <2> QED
    BY <2>1, <2>2, <2>3, <1>1 DEF IInv, VectorLast
<1>7. ASSUME NEW r \in SourceRegions, WriteRegion(r)
      PROVE  IInv'
  <2>1. /\ step = "data" /\ step' = "data"
        /\ file'.index = file.index /\ file'.vector = file.vector
        /\ UNCHANGED <<source, fields, segments, pieces, vector>>
    BY <1>4, <1>7 DEF WriteRegion
  <2>2. NothingIndexed' /\ file'.vector = ZeroVector
    BY <2>1, <1>3 DEF NothingIndexed
  <2>3. Accepted'
    BY <2>1, <1>3, SegmentsKept
  <2> QED
    BY <2>1, <2>2, <2>3, <1>1 DEF IInv, VectorLast
<1>8. CASE DataDone
  <2>1. /\ step = "data" /\ step' = "index" /\ pieces' = Pieces
        /\ UNCHANGED <<source, fields, segments, vector, file>>
    BY <1>8 DEF DataDone
  <2>2. Accepted /\ file.index = <<>> /\ vector = ZeroVector
        /\ file.vector = ZeroVector
    BY <2>1, <1>3 DEF NothingIndexed
  <2>3. Accepted' /\ Pieces' = Pieces
    BY <2>1, <2>2, SegmentsKept
  <2>4. Pieces \in Seq(SegmentsOver(R))
    BY <2>2, <1>2, AcceptedPieces DEF R
  <2>5. <<>> \o Pieces = Pieces
    BY <2>4
  <2>6. VectorOf(ZeroVector, <<>>)
    BY VectorOfNothing
  <2>7. Indexing'
    BY <2>1, <2>2, <2>3, <2>5, <2>6 DEF Indexing
  <2> QED
    BY <2>1, <2>2, <2>3, <2>7, <1>1 DEF IInv, VectorLast
<1>9. CASE WriteIndex
  <2>1. /\ step = "index" /\ step' = "index" /\ pieces # <<>>
        /\ file'.index = Append(file.index, Head(pieces))
        /\ file'.vector = file.vector
        /\ pieces' = Tail(pieces)
        /\ vector' = SetVectorIndex(vector, Head(pieces).start,
                                    Len(file.index) + 1)
        /\ UNCHANGED <<source, fields, segments>>
    BY <1>4, <1>9 DEF WriteIndex
  <2>2. /\ Accepted /\ file.vector = ZeroVector
        /\ file.index \o pieces = Pieces /\ VectorOf(vector, file.index)
    BY <2>1, <1>3 DEF Indexing
  <2>3. Accepted' /\ Pieces' = Pieces
    BY <2>1, <2>2, SegmentsKept
  <2>4. Proper(Pieces) /\ Ordered(Pieces)
    BY <2>2, <1>2, AcceptedPieces
  <2>5. /\ Append(file.index, Head(pieces)) \o Tail(pieces)
              = file.index \o pieces
        /\ VectorOf(SetVectorIndex(vector, Head(pieces).start,
                                   Len(file.index) + 1),
                    Append(file.index, Head(pieces)))
    BY <2>1, <2>2, <2>4, <1>2, WriteIndexKeeps
  <2>6. VectorOf(vector', file'.index)
    BY <2>1, <2>5
  <2>7. Indexing'
    BY <2>1, <2>2, <2>3, <2>5, <2>6 DEF Indexing, VectorOf, Delimits
  <2>8. file'.vector = ZeroVector
    BY <2>1, <2>2
  <2> QED
    BY <2>1, <2>3, <2>7, <2>8, <1>1 DEF IInv, VectorLast
<1>10. CASE WriteVector
  <2>1. /\ step = "index" /\ step' = "ptrs" /\ pieces = <<>>
        /\ file'.index = file.index /\ file'.vector = vector
        /\ UNCHANGED <<source, fields, segments, pieces, vector>>
    BY <1>4, <1>10 DEF WriteVector
  <2>2. /\ Accepted /\ file.index \o pieces = Pieces
        /\ VectorOf(vector, file.index)
    BY <2>1, <1>3 DEF Indexing
  <2>3. Accepted' /\ Pieces' = Pieces
    BY <2>1, <2>2, SegmentsKept
  <2>4. file.index = Pieces
    BY <2>1, <2>2, <1>2
  <2>5. VectorOf(vector', file'.index)
    BY <2>1, <2>2
  <2>6. Complete'
    BY <2>1, <2>3, <2>4, <2>5 DEF Complete, VectorOf, Delimits
  <2> QED
    BY <2>1, <2>3, <2>6, <1>1 DEF IInv, VectorLast, Complete
<1>11. CASE WritePtrs
  <2>1. /\ step = "ptrs" /\ step' = "done"
        /\ file'.index = file.index /\ file'.vector = file.vector
        /\ UNCHANGED <<source, fields, segments, pieces, vector>>
    BY <1>4, <1>11 DEF WritePtrs
  <2>2. Accepted /\ Complete
    BY <2>1, <1>3
  <2>3. Accepted' /\ Pieces' = Pieces
    BY <2>1, <2>2, SegmentsKept
  <2>4. VectorOf(vector', file'.index)
    BY <2>1, <2>2 DEF Complete
  <2>5. Complete'
    BY <2>1, <2>2, <2>3, <2>4 DEF Complete
  <2> QED
    BY <2>1, <2>3, <2>5, <1>1 DEF IInv, VectorLast, Complete
<1>12. CASE Stop
  <2>1. /\ step' = "stopped"
        /\ UNCHANGED <<source, fields, segments, pieces, vector, file>>
    BY <1>12 DEF Stop
  <2>2. (Accepted' <=> Accepted) /\ Pieces' = Pieces
    BY <2>1, SegmentsKept
  <2>3. VectorLast'
    BY <2>1, <2>2, <1>3 DEF VectorLast
  <2> QED
    BY <2>1, <2>3, <1>1 DEF IInv
<1>13. CASE UNCHANGED vars
  <2>1. UNCHANGED <<source, fields, step, segments, pieces, vector, file>>
    BY <1>13 DEF vars
  <2>2. (Accepted' <=> Accepted) /\ Pieces' = Pieces
    BY <2>1, SegmentsKept
  <2>3. VectorLast' /\ (Indexing' <=> Indexing) /\ (Complete' <=> Complete)
        /\ (NothingIndexed' <=> NothingIndexed)
    BY <2>1, <2>2, <1>3 DEF VectorLast, Indexing, Complete, NothingIndexed
  <2> QED
    BY <2>1, <2>2, <2>3, <1>1, <1>3 DEF IInv
<1> QED
  BY <1>5, <1>6, <1>7, <1>8, <1>9, <1>10, <1>11, <1>12, <1>13 DEF Next

\* No step changes the source or the field list.
LEMMA WrapKept == ASSUME NoWrap, [Next]_vars PROVE NoWrap'
<1>1. UNCHANGED <<source, fields>>
  BY DEF Next, vars, InitDbHeader, LoadSegments, WriteRegion, DataDone,
         WriteIndex, WriteVector, WritePtrs, Stop
<1> QED
  BY <1>1 DEF NoWrap

\* IInv holds in every reachable state.
LEMMA MakerInv == Spec /\ NoWrap => [](NoWrap /\ IInv)
<1>1. Init => IInv
  BY MakerInitInv
<1>2. (NoWrap /\ IInv) /\ [Next]_vars => (NoWrap /\ IInv)'
  BY MakerStepInv, WrapKept
<1> QED
  BY <1>1, <1>2, PTL DEF Spec

\* Whatever part of the file was written, a vector index in it delimits the
\* entries of the whole segment index of an accepted source.
LEMMA FileOfPieces ==
    ASSUME NoWrap, IInv
    PROVE  /\ source \in Sources /\ fields \in FilterFields
           /\ file.index \in Seq(SegmentsOver(NewRegions))
           /\ file.vector \in Vectors
           /\ \/ file.vector = ZeroVector
              \/ Accepted /\ file.index = Pieces
                          /\ VectorOf(file.vector, file.index)
           /\ step = "done" => /\ Accepted /\ file.index = Pieces
                               /\ VectorOf(file.vector, file.index)
<1>1. TypeOK
  BY DEF IInv
<1>2. /\ source \in Sources /\ fields \in FilterFields
      /\ file.index \in Seq(SegmentsOver(NewRegions))
      /\ file.vector \in Vectors
  BY <1>1, IndexedIsSegments DEF TypeOK, Vectors
<1>3. VectorLast /\ (step = "done" => Accepted /\ Complete)
  BY DEF IInv
<1> QED
  BY <1>2, <1>3 DEF VectorLast, Complete

\* SearchFinds follows from IInv: the index is the pieces, they say what the
\* source says, and the search is complete.
LEMMA InvSearchFinds == ASSUME NoWrap, IInv PROVE SearchFinds
<1> SUFFICES ASSUME step = "done", NEW ip \in IPs,
                    SourceRegion(ip) # EmptyRegion
             PROVE  Search(file, ip) = SourceRegion(ip)
  BY DEF SearchFinds
<1>1. /\ source \in Sources /\ fields \in FilterFields /\ Accepted
      /\ file.index = Pieces /\ file.vector \in Vectors
      /\ VectorOf(file.vector, file.index)
  BY FileOfPieces
<1>2. /\ Pieces \in Seq(SegmentsOver(NewRegions))
      /\ Proper(Pieces) /\ Ordered(Pieces) /\ OneBlock(Pieces)
  BY <1>1, AcceptedPieces
<1>3. Says(Pieces, ip, SourceRegion(ip))
  BY <1>1, PiecesSaySource
<1> QED
  BY <1>1, <1>2, <1>3, SearchComplete

\* NeverWrongRegion follows from IInv: with no vector index nothing is
\* found; with one, the index is the pieces and the search is sound.
LEMMA InvNeverWrongRegion == ASSUME NoWrap, IInv PROVE NeverWrongRegion
<1> SUFFICES ASSUME NEW ip \in IPs
             PROVE  Search(file, ip) \in
                       {SourceRegion(ip), EmptyRegion, ReadError}
  BY DEF NeverWrongRegion
<1>1. /\ source \in Sources /\ fields \in FilterFields
      /\ file.index \in Seq(SegmentsOver(NewRegions))
      /\ file.vector \in Vectors
      /\ \/ file.vector = ZeroVector
         \/ Accepted /\ file.index = Pieces
                     /\ VectorOf(file.vector, file.index)
  BY FileOfPieces
<1>2. CASE file.vector = ZeroVector
  BY <1>2, SearchInZeroVector
<1>3. CASE Accepted /\ file.index = Pieces /\ VectorOf(file.vector, file.index)
  <2>1. \/ Search(file, ip) \in {EmptyRegion, ReadError}
        \/ Says(Pieces, ip, Search(file, ip))
    BY <1>1, <1>3, SearchSound
  <2>2. \A r : Says(Pieces, ip, r) => r = SourceRegion(ip)
    BY <1>1, <1>3, PiecesSaySource
  <2> QED
    BY <2>1, <2>2
<1> QED
  BY <1>1, <1>2, <1>3

\* The pointers of a block delimit its entries, which lie in it alone, both
\* for blocks with entries and for those without.
LEMMA InvBlocks ==
    ASSUME NoWrap, IInv, step = "done", NEW b \in Blocks
    PROVE  LET inBlock == {p \in DOMAIN file.index :
                              Block(file.index[p].start) = b}
               v == file.vector[b]
           IN  /\ inBlock = {p \in DOMAIN file.index :
                                v.s <= p /\ p < v.e}
               /\ \A p \in inBlock : Block(file.index[p].end) = b
<1>1. /\ source \in Sources /\ fields \in FilterFields /\ Accepted
      /\ file.index = Pieces /\ file.vector \in Vectors
      /\ Delimits(file.vector, file.index, b)
  BY FileOfPieces DEF VectorOf
<1>2. file.index \in Seq(SegmentsOver(NewRegions)) /\ OneBlock(file.index)
  BY <1>1, AcceptedPieces
<1>3. DOMAIN file.index = 1..Len(file.index)
  BY <1>2
<1>4. \A p \in 1..Len(file.index) :
          Block(file.index[p].start) = b
             <=> file.vector[b].s <= p /\ p < file.vector[b].e
  <2>1. CASE file.vector[b].s = 0
    <3>1. /\ file.vector[b].e = 0
          /\ \A p \in 1..Len(file.index) : Block(file.index[p].start) # b
      BY <1>1, <2>1 DEF Delimits
    <3>2. \A p \in 1..Len(file.index) : ~(p < file.vector[b].e)
      BY <3>1, <1>2
    <3> QED
      BY <3>1, <3>2
  <2>2. CASE file.vector[b].s # 0
    BY <1>1, <2>2 DEF Delimits
  <2> QED
    BY <2>1, <2>2
<1>5. \A p \in 1..Len(file.index) :
          Block(file.index[p].start) = Block(file.index[p].end)
  BY <1>2 DEF OneBlock
<1> QED
  BY <1>3, <1>4, <1>5

\* VectorDelimitsBlocks follows from IInv: the index is the pieces, which are
\* in order.
LEMMA InvVectorDelimitsBlocks ==
    ASSUME NoWrap, IInv PROVE VectorDelimitsBlocks
<1>1. ASSUME step = "done", NEW p \in DOMAIN file.index,
             NEW q \in DOMAIN file.index, p < q
      PROVE  file.index[p].end < file.index[q].start
  <2>1. source \in Sources /\ fields \in FilterFields /\ Accepted
        /\ file.index = Pieces
    BY <1>1, FileOfPieces
  <2>2. file.index \in Seq(SegmentsOver(NewRegions)) /\ Ordered(file.index)
    BY <2>1, AcceptedPieces
  <2>3. p \in 1..Len(file.index) /\ q \in 1..Len(file.index)
    BY <2>2
  <2> QED
    BY <1>1, <2>2, <2>3 DEF Ordered
<1> QED
  BY <1>1, InvBlocks DEF VectorDelimitsBlocks

\* In a finished file every address of the source is found with its region,
\* whatever the source, the filter and the size of a block.
THEOREM MakerSearchFinds == Spec /\ NoWrap => []SearchFinds
<1>1. NoWrap /\ IInv => SearchFinds
  BY InvSearchFinds
<1> QED
  BY <1>1, MakerInv, PTL

\* Whatever a stopped maker left behind, a search in it answers the region
\* the source gives the address, nothing, or an error.
THEOREM MakerNeverWrongRegion == Spec /\ NoWrap => []NeverWrongRegion
<1>1. NoWrap /\ IInv => NeverWrongRegion
  BY InvNeverWrongRegion
<1> QED
  BY <1>1, MakerInv, PTL

\* In a finished file the entries are in address order, the pointers of a
\* block delimit exactly its entries, and each entry lies in one block.
THEOREM MakerVectorDelimitsBlocks == Spec /\ NoWrap => []VectorDelimitsBlocks
<1>1. NoWrap /\ IInv => VectorDelimitsBlocks
  BY InvVectorDelimitsBlocks
<1> QED
  BY <1>1, MakerInv, PTL

-----------------------------------------------------------------------------
(* What Pipeline takes from here *)

\* Whatever part of the file was written, a search answers what some line
\* says of the address, filtered, or nothing, or an error; in a finished file
\* it answers what any line says of it.
LEMMA FileSays ==
    ASSUME NoWrap, IInv, NEW ip \in IPs
    PROVE  /\ \/ Search(file, ip) \in {EmptyRegion, ReadError}
              \/ \E i \in 1..Len(source) :
                    /\ SegContains(source[i], ip)
                    /\ Search(file, ip)
                          = RegionFiltering(source[i].region, fields)
           /\ step = "done" =>
                 \A i \in 1..Len(source) :
                    SegContains(source[i], ip) =>
                       Search(file, ip)
                          = RegionFiltering(source[i].region, fields)
<1>1. /\ source \in Sources /\ fields \in FilterFields
      /\ file.index \in Seq(SegmentsOver(NewRegions))
      /\ file.vector \in Vectors
      /\ \/ file.vector = ZeroVector
         \/ Accepted /\ file.index = Pieces
                     /\ VectorOf(file.vector, file.index)
      /\ step = "done" => /\ Accepted /\ file.index = Pieces
                          /\ VectorOf(file.vector, file.index)
  BY FileOfPieces
<1>2. ASSUME NEW r
      PROVE  Says(Filtered, ip, r) <=>
                \E i \in 1..Len(source) :
                   /\ SegContains(source[i], ip)
                   /\ r = RegionFiltering(source[i].region, fields)
  <2>1. /\ Len(Filtered) = Len(source)
        /\ \A i \in 1..Len(source) :
              /\ Filtered[i].start = source[i].start
              /\ Filtered[i].end = source[i].end
              /\ Filtered[i].region = RegionFiltering(source[i].region, fields)
    BY <1>1, FilteredLines
  <2> QED
    BY <2>1 DEF Says, SegSays, SegContains
<1>3. ASSUME Accepted, file.index = Pieces, VectorOf(file.vector, file.index)
      PROVE  /\ Proper(file.index) /\ Ordered(file.index)
             /\ OneBlock(file.index)
             /\ \A r : Says(file.index, ip, r) <=> Says(Filtered, ip, r)
  BY <1>1, <1>3, AcceptedPieces
<1>4. \/ Search(file, ip) \in {EmptyRegion, ReadError}
      \/ \E i \in 1..Len(source) :
            /\ SegContains(source[i], ip)
            /\ Search(file, ip) = RegionFiltering(source[i].region, fields)
  <2>1. CASE file.vector = ZeroVector
    BY <2>1, SearchInZeroVector
  <2>2. CASE Accepted /\ file.index = Pieces
                      /\ VectorOf(file.vector, file.index)
    <3>1. \/ Search(file, ip) \in {EmptyRegion, ReadError}
          \/ Says(file.index, ip, Search(file, ip))
      BY <1>1, <2>2, SearchSound
    <3>2. Says(file.index, ip, Search(file, ip))
             <=> Says(Filtered, ip, Search(file, ip))
      BY <1>3, <2>2
    <3> QED
      BY <3>1, <3>2, <1>2
  <2> QED
    BY <1>1, <2>1, <2>2
<1>5. ASSUME step = "done", NEW i \in 1..Len(source),
             SegContains(source[i], ip)
      PROVE  Search(file, ip) = RegionFiltering(source[i].region, fields)
  <2> DEFINE r == RegionFiltering(source[i].region, fields)
  <2> HIDE DEF r
  <2>1. Says(Filtered, ip, r)
    BY <1>2, <1>5 DEF r
  <2>2. Says(file.index, ip, r)
    BY <1>1, <1>3, <1>5, <2>1
  <2>3. Search(file, ip) = r
    BY <1>1, <1>3, <1>5, <2>2, SearchComplete
  <2> QED
    BY <2>3 DEF r
<1> QED
  BY <1>4, <1>5

\* The segments loaded from lines that can be read are in order exactly when
\* no two lines overlap, and there are none when there are no lines, and only
\* then.
LEMMA LoadedInOrder ==
    ASSUME source \in Sources, NoWrap,
           \A i \in 1..Len(source) : source[i].start <= source[i].end
    PROVE  /\ InOrder(Loaded) <=> Apart(source)
           /\ Loaded = <<>> <=> source = <<>>
<1> DEFINE R == NewRegions
           merged == MergeLines(Filtered)
<1>1. /\ Filtered \in Seq(SegmentsOver(R))
      /\ Len(Filtered) = Len(source) /\ Len(source) \in Nat
      /\ \A i \in 1..Len(source) :
            /\ Filtered[i].start = source[i].start
            /\ Filtered[i].end = source[i].end
            /\ Filtered[i].region = RegionFiltering(source[i].region, fields)
  BY FilteredLines
<1>2. Proper(Filtered)
  BY <1>1 DEF Proper
<1>3. NoSeam(Filtered)
  BY <1>1, FilteredSeams
<1> HIDE DEF R
<1>4. /\ merged \in Seq(SegmentsOver(R)) /\ Proper(merged)
      /\ \A ip \in IPs : \A r : Says(merged, ip, r) <=> Says(Filtered, ip, r)
      /\ Apart(merged) <=> Apart(Filtered)
  BY <1>1, <1>2, <1>3, MergeType, MergeSays, MergeApart
<1>5. Apart(Filtered) <=> Apart(source)
  BY <1>1 DEF Apart, Separate
<1>6. Loaded = LoadOrder(merged)
  BY DEF Loaded
<1> HIDE DEF merged
<1>7. InOrder(Loaded) <=> Apart(source)
  BY <1>4, <1>5, <1>6, LoadOrderApart
<1>8. ASSUME source # <<>>
      PROVE  Loaded # <<>>
  <2>1. source \in Seq(Line)
    BY SourcesAssumption
  <2>2. 1 \in 1..Len(source)
    BY <1>1, <1>8, <2>1
  <2>3. /\ Filtered[1].start \in Nat /\ Filtered[1].end \in Nat
        /\ Filtered[1].start \in IPs
        /\ Filtered[1].start <= Filtered[1].end
    BY <1>1, <1>2, <2>2, SegmentTypes DEF Proper
  <2>4. Says(Filtered, Filtered[1].start, Filtered[1].region)
    BY <1>1, <2>2, <2>3 DEF Says, SegSays, SegContains
  <2>5. Says(Loaded, Filtered[1].start, Filtered[1].region)
    BY <1>4, <1>6, <2>3, <2>4, LoadOrderSays
  <2>6. Len(<<>>) = 0 /\ 1..0 = {}
    OBVIOUS
  <2> QED
    BY <2>5, <2>6 DEF Says
<1>9. ASSUME source = <<>>
      PROVE  Loaded = <<>>
  <2>1. Len(Filtered) = 0
    BY <1>1, <1>9
  <2>2. MergeLines(Filtered) = <<>>
    BY <1>1, <2>1, MergeSteps
  <2>3. Loaded \in Seq(SegmentsOver(R)) /\ Len(Loaded) = 0
    BY <1>4, <1>6, <2>2, LoadOrderSays DEF merged
  <2> QED
    BY <2>3
<1> QED
  BY <1>7, <1>8, <1>9
=============================================================================
