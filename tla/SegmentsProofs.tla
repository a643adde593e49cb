--------------------------- MODULE SegmentsProofs ---------------------------
(***************************************************************************)
(* What the operators of Segments compute, for every list of lines:        *)
(* merging says of each address what the lines said, an order by starts    *)
(* exists and is a rearrangement, and ordered segments do not overlap.     *)
(*                                                                         *)
(* The facts about all lists are proved by induction on a number.  The     *)
(* induction theorems of the library take an operator, so SetInduction     *)
(* below states the principle for a set of numbers and derives it from     *)
(* WFMin: a non-empty set of numbers has a least member.                   *)
(***************************************************************************)
EXTENDS Segments, WellFoundedInduction, FiniteSetTheorems, SequenceTheorems,
        TLAPS

-----------------------------------------------------------------------------
(* Numbers *)

\* A set of numbers with a member has a least one.
LEMMA LeastNumber ==
    ASSUME NEW S, S \subseteq Nat, S # {}
    PROVE  \E n \in S : \A m \in S : n <= m
<1> DEFINE R == {p \in Nat \X Nat : p[1] < p[2]}
<1>1. IsWellFoundedOn(R, Nat)
  BY NatLessThanWellFounded DEF OpToRel
<1> HIDE DEF R
<1>2. PICK n \in S : \A m \in S : <<m, n>> \notin R
  BY <1>1, WFMin
<1>3. \A m \in S : <<m, n>> \in R <=> m < n
  BY DEF R
<1>4. \A m \in S : ~(m < n)
  BY <1>2, <1>3, Zenon
<1> QED
  BY <1>4

\* A set that holds 0, and with each number the next, holds every number.
LEMMA SetInduction ==
    ASSUME NEW S, 0 \in S, \A n \in Nat : n \in S => n + 1 \in S
    PROVE  \A n \in Nat : n \in S
<1>1. ASSUME NEW x \in Nat \ S
      PROVE  FALSE
  <2>1. PICK n \in Nat \ S : \A m \in Nat \ S : n <= m
    <3>1. Nat \ S # {}
      OBVIOUS
    <3> QED
      BY <3>1, LeastNumber
  <2>2. n # 0
    OBVIOUS
  <2>3. n - 1 \in Nat /\ n = (n - 1) + 1
    BY <2>2
  <2>4. n - 1 \notin S
    BY <2>3
  <2>5. n - 1 \in Nat \ S
    BY <2>3, <2>4
  <2>6. n <= n - 1
    BY <2>1, <2>5
  <2> QED
    BY <2>6
<1>2. Nat \ S = {}
  BY <1>1
<1> QED
  BY <1>2

\* Min is the least member.
LEMMA MinIsLeast ==
    ASSUME NEW S, S \subseteq Nat, S # {}
    PROVE  Min(S) \in S /\ \A m \in S : Min(S) <= m
<1>1. \E n \in S : \A m \in S : n <= m
  BY LeastNumber
<1> QED
  BY <1>1, Zenon DEF Min

\* Max of a set of positions is its greatest member.
LEMMA MaxIsGreatest ==
    ASSUME NEW n \in Nat, NEW S, S \subseteq 1..n, S # {}
    PROVE  Max(S) \in S /\ \A m \in S : Max(S) >= m
<1> DEFINE U == {u \in Nat : \A m \in S : m <= u}
<1>1. n \in U
  OBVIOUS
<1>2. PICK u \in U : \A w \in U : u <= w
  BY <1>1, LeastNumber
<1>3. u \in S
  <2>1. SUFFICES ASSUME u \notin S
                 PROVE  FALSE
    OBVIOUS
  <2>2. PICK x \in S : TRUE
    OBVIOUS
  <2>3. u - 1 \in Nat
    BY <1>2, <2>2
  <2>4. \A m \in S : m <= u - 1
    BY <1>2, <2>1
  <2>5. u - 1 \in U
    BY <2>3, <2>4
  <2> QED
    BY <2>5, <1>2
<1>4. \E x \in S : \A m \in S : x >= m
  BY <1>2, <1>3
<1> QED
  BY <1>4, Zenon DEF Max

\* The last number of a range is its greatest.
LEMMA MaxOfRange ==
    ASSUME NEW n \in Nat, n > 0
    PROVE  Max(1..n) = n
<1>1. Max(1..n) \in 1..n /\ \A m \in 1..n : Max(1..n) >= m
  <2>1. 1..n # {}
    OBVIOUS
  <2> QED
    BY <2>1, MaxIsGreatest
<1> QED
  BY <1>1

-----------------------------------------------------------------------------
(* Merging *)

\* MergeLines is the last of a list of results: the pending segments before
\* the first line, after it, and so on.
LEMMA MergeSteps ==
    ASSUME NEW T, NEW lines \in Seq(T)
    PROVE  \E M : /\ M[0] = <<>>
                  /\ \A k \in 1..Len(lines) :
                         M[k] = MergeLine(M[k - 1], lines[k])
                  /\ MergeLines(lines) = M[Len(lines)]
<1> DEFINE n == Len(lines)
           Body(g, s) == IF s = {} THEN <<>>
                         ELSE MergeLine(g[s \ {Max(s)}], lines[Max(s)])
           Iter(g) == g = [s \in SUBSET DOMAIN lines |-> Body(g, s)]
           Ready == {k \in Nat : \E g : \A s \in SUBSET (1..k) :
                                            g[s] = Body(g, s)}
<1>1. MergeLines(lines) = (CHOOSE g : Iter(g))[DOMAIN lines]
  BY Zenon DEF MergeLines, FoldLeft, MapThenFoldSet
<1>2. n \in Nat /\ DOMAIN lines = 1..n
  OBVIOUS
<1> HIDE DEF n
<1>3. 0 \in Ready
  <2> DEFINE g0 == [s \in SUBSET (1..0) |-> <<>>]
  <2>1. \A s \in SUBSET (1..0) : s = {}
    OBVIOUS
  <2>2. \A s \in SUBSET (1..0) : g0[s] = Body(g0, s)
    BY <2>1, Zenon
  <2> QED
    BY <2>2
<1>4. ASSUME NEW k \in Nat, k \in Ready
      PROVE  k + 1 \in Ready
  <2>1. PICK g : \A s \in SUBSET (1..k) : g[s] = Body(g, s)
    BY <1>4
  <2> DEFINE h == [s \in SUBSET (1..(k + 1)) |->
                      IF s \in SUBSET (1..k) THEN g[s] ELSE Body(g, s)]
  <2>2. ASSUME NEW s \in SUBSET (1..(k + 1)), s # {}
        PROVE  s \ {Max(s)} \in SUBSET (1..k)
    <3>1. k + 1 \in Nat /\ s \subseteq 1..(k + 1)
      OBVIOUS
    <3>2. Max(s) \in s /\ \A m \in s : Max(s) >= m
      BY <2>2, <3>1, MaxIsGreatest
    <3>3. ASSUME NEW x \in s \ {Max(s)}
          PROVE  x \in 1..k
      <4>1. x \in 1..(k + 1) /\ Max(s) \in 1..(k + 1)
        BY <3>1, <3>2
      <4>2. x <= Max(s) /\ x # Max(s)
        BY <3>2, <4>1
      <4> QED
        BY <4>1, <4>2
    <3> QED
      BY <3>3
  <2>3. ASSUME NEW s \in SUBSET (1..k)
        PROVE  s \in SUBSET (1..(k + 1)) /\ h[s] = g[s]
    <3>1. s \in SUBSET (1..(k + 1))
      OBVIOUS
    <3> QED
      BY <3>1, Zenon
  <2>4. ASSUME NEW s \in SUBSET (1..(k + 1))
        PROVE  h[s] = Body(h, s)
    <3>1. h[s] = Body(g, s)
      BY <2>1, Zenon
    <3>2. s # {} => h[s \ {Max(s)}] = g[s \ {Max(s)}]
      BY <2>2, <2>3, Zenon
    <3> HIDE DEF h
    <3> QED
      BY <3>1, <3>2, Zenon
  <2> HIDE DEF h
  <2>5. \E f : \A s \in SUBSET (1..(k + 1)) : f[s] = Body(f, s)
    BY <2>4, Zenon
  <2>6. k + 1 \in Nat
    OBVIOUS
  <2> QED
    BY <2>5, <2>6, Zenon
<1>5. n \in Ready
  <2> HIDE DEF Ready
  <2> QED
    BY <1>2, <1>3, <1>4, SetInduction
<1>6. PICK g : \A s \in SUBSET (1..n) : g[s] = Body(g, s)
  BY <1>5
<1>7. \E h : Iter(h)
  <2> DEFINE h == [s \in SUBSET (1..n) |-> g[s]]
  <2>1. ASSUME NEW s \in SUBSET (1..n)
        PROVE  g[s] = Body(h, s)
    <3>1. g[s] = Body(g, s)
      BY <1>6
    <3>2. s # {} => s \ {Max(s)} \in SUBSET (1..n)
      OBVIOUS
    <3>3. s # {} => h[s \ {Max(s)}] = g[s \ {Max(s)}]
      BY <3>2
    <3> HIDE DEF h
    <3> QED
      BY <3>1, <3>3, Zenon
  <2>2. h = [s \in SUBSET (1..n) |-> Body(h, s)]
    BY <2>1, Zenon
  <2> HIDE DEF h
  <2> QED
    BY <2>2, <1>2
<1> DEFINE iter == CHOOSE h : Iter(h)
<1>8. iter = [s \in SUBSET (1..n) |-> Body(iter, s)]
  BY <1>7, <1>2, Zenon
<1> HIDE DEF iter
<1>9. \A s \in SUBSET (1..n) : iter[s] = Body(iter, s)
  BY <1>8, Zenon
<1> DEFINE M == [k \in 0..n |-> iter[1..k]]
<1>10. M[0] = <<>>
  <2>1. 1..0 = {} /\ 1..0 \in SUBSET (1..n) /\ 0 \in 0..n
    BY <1>2
  <2>2. iter[1..0] = <<>>
    BY <2>1, <1>9, Zenon
  <2> QED
    BY <2>1, <2>2
<1>11. ASSUME NEW k \in 1..n
       PROVE  M[k] = MergeLine(M[k - 1], lines[k])
  <2>1. /\ k \in Nat /\ k > 0 /\ k \in 0..n /\ k - 1 \in 0..n
        /\ 1..k \in SUBSET (1..n) /\ 1..k # {} /\ (1..k) \ {k} = 1..(k - 1)
    <3>1. n \in Nat /\ k \in Nat /\ 1 <= k /\ k <= n
      BY <1>2
    <3>2. k > 0 /\ k \in 0..n /\ k - 1 \in 0..n
      BY <3>1
    <3>3. 1..k \subseteq 1..n
      BY <3>1
    <3>4. k \in 1..k
      BY <3>1
    <3>5. (1..k) \ {k} = 1..(k - 1)
      BY <3>1
    <3> HIDE DEF M
    <3> QED
      BY <3>1, <3>2, <3>3, <3>4, <3>5
  <2>2. Max(1..k) = k
    BY <2>1, MaxOfRange
  <2>3. iter[1..k] = Body(iter, 1..k)
    BY <2>1, <1>9
  <2>4. iter[1..k] = MergeLine(iter[1..(k - 1)], lines[k])
    BY <2>1, <2>2, <2>3, Zenon
  <2>5. M[k] = iter[1..k] /\ M[k - 1] = iter[1..(k - 1)]
    BY <2>1
  <2> QED
    BY <2>4, <2>5
<1>12. MergeLines(lines) = M[n]
  <2>1. n \in 0..n
    BY <1>2
  <2>2. MergeLines(lines) = iter[1..n]
    BY <1>1, <1>2 DEF iter
  <2> QED
    BY <2>1, <2>2
<1> HIDE DEF M
<1> QED
  BY <1>10, <1>11, <1>12 DEF n
SegmentsOver(R) == [start : IPs, end : IPs, region : R]

\* A line of a source is a segment over the region texts.
LEMMA LineIsSegment == Line \subseteq SegmentsOver(Regions)
<1>1. ASSUME NEW sip \in IPs, NEW eip \in IPs, NEW r \in Regions
      PROVE  Segment(sip, eip, r) \in SegmentsOver(Regions)
  BY DEF Segment, SegmentsOver
<1> QED
  BY <1>1 DEF Line

\* The types of the parts of a segment of a list.
LEMMA SegmentTypes ==
    ASSUME NEW R, NEW list \in Seq(SegmentsOver(R)), NEW i \in 1..Len(list)
    PROVE  /\ list[i] \in SegmentsOver(R)
           /\ list[i].start \in IPs /\ list[i].end \in IPs
           /\ list[i].start \in Nat /\ list[i].end \in Nat
           /\ list[i].region \in R
<1>1. list[i] \in SegmentsOver(R)
  OBVIOUS
<1>2. /\ list[i].start \in IPs /\ list[i].end \in IPs
      /\ list[i].region \in R
  BY <1>1 DEF SegmentsOver
<1> QED
  BY <1>1, <1>2, MaxIPAssumption DEF IPs

\* One line either prolongs the pending segment or becomes the pending one.
LEMMA MergeLineCases ==
    ASSUME NEW R, NEW list \in Seq(SegmentsOver(R)),
           NEW line \in SegmentsOver(R)
    PROVE  LET k == Len(list)
               new == MergeLine(list, line)
           IN  /\ new \in Seq(SegmentsOver(R))
               /\ \/ /\ k >= 1
                     /\ list[k].region = line.region
                     /\ IPAddOne(list[k].end) = line.start
                     /\ Len(new) = k
                     /\ \A i \in 1..(k - 1) : new[i] = list[i]
                     /\ new[k].start = list[k].start
                     /\ new[k].end = line.end
                     /\ new[k].region = line.region
                  \/ /\ Len(new) = k + 1
                     /\ \A i \in 1..k : new[i] = list[i]
                     /\ new[k + 1] = line
<1> DEFINE k == Len(list)
           Joins == list # <<>> /\ list[k].region = line.region
                      /\ IPAddOne(list[k].end) = line.start
           longer == [list[k] EXCEPT !.end = line.end]
<1>1. MergeLine(list, line) =
        IF Joins THEN Append(Front(list), longer) ELSE Append(list, line)
  BY DEF MergeLine, Last, RightBehind
<1>2. k \in Nat
  OBVIOUS
<1>3. CASE Joins
  <2>1. k >= 1 /\ k - 1 \in Nat /\ list[k] \in SegmentsOver(R)
    BY <1>3
  <2>2. /\ Front(list) \in Seq(SegmentsOver(R)) /\ Len(Front(list)) = k - 1
        /\ \A i \in 1..(k - 1) : Front(list)[i] = list[i]
    <3>1. \A i \in 1..(k - 1) : list[i] \in SegmentsOver(R)
      BY <1>2
    <3>2. /\ SubSeq(list, 1, k - 1) \in Seq(SegmentsOver(R))
          /\ Len(SubSeq(list, 1, k - 1)) = k - 1
          /\ \A i \in 1..(k - 1) : SubSeq(list, 1, k - 1)[i] = list[i]
      <4>1. /\ SubSeq(list, 1, k - 1) \in Seq(SegmentsOver(R))
            /\ Len(SubSeq(list, 1, k - 1)) =
                 IF 1 <= k - 1 THEN k - 1 - 1 + 1 ELSE 0
            /\ \A i \in 1..(k - 1 - 1 + 1) :
                  SubSeq(list, 1, k - 1)[i] = list[1 + i - 1]
        BY <3>1, <2>1, SubSeqProperties
      <4>2. /\ k - 1 - 1 + 1 = k - 1
            /\ (IF 1 <= k - 1 THEN k - 1 - 1 + 1 ELSE 0) = k - 1
            /\ \A i \in 1..(k - 1) : 1 + i - 1 = i
        BY <2>1, <1>2
      <4> HIDE DEF k
      <4> QED
        BY <4>1, <4>2
    <3> QED
      BY <3>2 DEF Front
  <2>3. /\ longer \in SegmentsOver(R)
        /\ longer.start = list[k].start
        /\ longer.end = line.end /\ longer.region = line.region
    BY <2>1, <1>3 DEF SegmentsOver
  <2> DEFINE new == Append(Front(list), longer)
  <2> HIDE DEF longer
  <2>4. /\ new \in Seq(SegmentsOver(R)) /\ Len(new) = k
        /\ \A i \in 1..(k - 1) : new[i] = list[i]
        /\ new[k] = longer
    BY <2>1, <2>2, <2>3
  <2>5. MergeLine(list, line) = new
    BY <1>1, <1>3 DEF longer
  <2> HIDE DEF new
  <2> QED
    BY <1>3, <2>1, <2>3, <2>4, <2>5
<1>4. CASE ~Joins
  <2>1. MergeLine(list, line) = Append(list, line)
    BY <1>1, <1>4
  <2> QED
    BY <2>1
<1> QED
  BY <1>3, <1>4

\* What a segment says, and a list of them: the address has the region.
SegSays(seg, ip, r) == SegContains(seg, ip) /\ seg.region = r

Says(list, ip, r) == \E i \in 1..Len(list) : SegSays(list[i], ip, r)

Proper(list) == \A i \in 1..Len(list) : list[i].start <= list[i].end

\* A line at address 0 behind one that ends at the last address, with its
\* region: RightBehind takes them for neighbours.
Seam(a, b) == a.end = MaxIP /\ b.start = 0 /\ a.region = b.region

NoSeam(list) == \A i \in 1..(Len(list) - 1) : ~Seam(list[i], list[i + 1])

\* IPAddOne is the successor, except of the last address.
LEMMA SuccessorInWidth ==
    ASSUME NEW x \in IPs
    PROVE  IPAddOne(x) = IF x = MaxIP THEN 0 ELSE x + 1
BY MaxIPAssumption DEF IPs, IPAddOne

\* The last segment, and those before it, say what a list says.
LEMMA SaysSplit ==
    ASSUME NEW list, NEW k \in Nat, Len(list) = k + 1, NEW ip, NEW r
    PROVE  Says(list, ip, r) <=>
              \/ \E i \in 1..k : SegSays(list[i], ip, r)
              \/ SegSays(list[k + 1], ip, r)
<1> DEFINE P(i) == SegSays(list[i], ip, r)
<1>1. Says(list, ip, r) <=> \E i \in 1..(k + 1) : P(i)
  BY DEF Says
<1> HIDE DEF P
<1>2. (\E i \in 1..(k + 1) : P(i)) <=> (\E i \in 1..k : P(i)) \/ P(k + 1)
  OBVIOUS
<1> QED
  BY <1>1, <1>2 DEF P

\* Unless it closes the seam, merging a line adds what the line says, and
\* nothing else, and leaves the line's end and region last.
LEMMA MergeLineSays ==
    ASSUME NEW R, NEW list \in Seq(SegmentsOver(R)), Proper(list),
           NEW line \in SegmentsOver(R), line.start <= line.end,
           list # <<>> => ~Seam(list[Len(list)], line)
    PROVE  LET new == MergeLine(list, line)
           IN  /\ Proper(new)
               /\ Len(new) >= 1
               /\ new[Len(new)].end = line.end
               /\ new[Len(new)].region = line.region
               /\ \A ip \in IPs : \A r :
                     Says(new, ip, r) <=>
                        \/ Says(list, ip, r)
                        \/ SegSays(line, ip, r)
<1> DEFINE k == Len(list)
           new == MergeLine(list, line)
           Joined == /\ k >= 1
                     /\ list[k].region = line.region
                     /\ IPAddOne(list[k].end) = line.start
                     /\ Len(new) = k
                     /\ \A i \in 1..(k - 1) : new[i] = list[i]
                     /\ new[k].start = list[k].start
                     /\ new[k].end = line.end
                     /\ new[k].region = line.region
           Added == /\ Len(new) = k + 1
                    /\ \A i \in 1..k : new[i] = list[i]
                    /\ new[k + 1] = line
<1>1. Joined \/ Added
  BY MergeLineCases
<1>2. k \in Nat /\ \A i \in 1..k : list[i] \in SegmentsOver(R)
  OBVIOUS
<1>3. line.start \in Nat /\ line.end \in Nat
  BY MaxIPAssumption DEF SegmentsOver, IPs
<1> HIDE DEF new
<1>4. CASE Added
  <2>1. Proper(new)
    BY <1>2, <1>4 DEF Proper
  <2>2. Len(new) >= 1 /\ new[Len(new)] = line
    BY <1>2, <1>4
  <2>3. ASSUME NEW ip \in IPs, NEW r
        PROVE  Says(new, ip, r) <=>
                  Says(list, ip, r) \/ SegSays(line, ip, r)
    <3>1. Says(new, ip, r) <=>
             \/ \E i \in 1..k : SegSays(new[i], ip, r)
             \/ SegSays(new[k + 1], ip, r)
      BY <1>2, <1>4, SaysSplit
    <3> QED
      BY <3>1, <1>4 DEF Says
  <2> QED
    BY <2>1, <2>2, <2>3 DEF new
<1>5. CASE Joined
  <2>1. /\ list[k].end \in IPs /\ list[k].start \in Nat /\ list[k].end \in Nat
        /\ list[k].start <= list[k].end
    BY <1>2, <1>5, MaxIPAssumption DEF SegmentsOver, IPs, Proper
  <2>2. list[k].end # MaxIP /\ line.start = list[k].end + 1
    BY <1>5, <1>2, <2>1, <1>3, SuccessorInWidth DEF Seam
  <2>3. Proper(new)
    <3>1. ASSUME NEW i \in 1..k
          PROVE  new[i].start <= new[i].end
      <4>1. CASE i = k
        BY <4>1, <1>5, <1>3, <2>1, <2>2
      <4>2. CASE i # k
        BY <4>2, <1>5, <1>2 DEF Proper
      <4> QED
        BY <4>1, <4>2
    <3> QED
      BY <3>1, <1>5 DEF Proper
  <2>4. /\ Len(new) >= 1 /\ new[Len(new)].end = line.end
        /\ new[Len(new)].region = line.region
    BY <1>5
  <2>5. ASSUME NEW ip \in IPs, NEW r
        PROVE  Says(new, ip, r) <=>
                  Says(list, ip, r) \/ SegSays(line, ip, r)
    <3>1. ip \in Nat
      BY MaxIPAssumption DEF IPs
    <3>2. SegContains(new[k], ip) <=>
             SegContains(list[k], ip) \/ SegContains(line, ip)
      BY <3>1, <1>5, <1>3, <2>1, <2>2 DEF SegContains
    <3>3. k - 1 \in Nat /\ Len(list) = k - 1 + 1 /\ Len(new) = k - 1 + 1
      BY <1>2, <1>5
    <3>4. Says(new, ip, r) <=>
             \/ \E i \in 1..(k - 1) :
                   SegSays(new[i], ip, r)
             \/ SegSays(new[k - 1 + 1], ip, r)
      BY <3>3, SaysSplit
    <3>5. Says(list, ip, r) <=>
             \/ \E i \in 1..(k - 1) :
                   SegSays(list[i], ip, r)
             \/ SegSays(list[k - 1 + 1], ip, r)
      BY <3>3, SaysSplit
    <3>6. (\E i \in 1..(k - 1) :
              SegSays(new[i], ip, r))
            <=> (\E i \in 1..(k - 1) :
                    SegSays(list[i], ip, r))
      BY <1>5
    <3>7. new[k].region = list[k].region /\ line.region = list[k].region
          /\ k - 1 + 1 = k
      BY <1>5, <1>2
    <3> QED
      BY <3>2, <3>4, <3>5, <3>6, <3>7 DEF SegSays
  <2> QED
    BY <2>3, <2>4, <2>5 DEF new
<1> QED
  BY <1>1, <1>4, <1>5
\* Merging lines gives segments over the regions of the lines.
LEMMA MergeType ==
    ASSUME NEW R, NEW lines \in Seq(SegmentsOver(R))
    PROVE  MergeLines(lines) \in Seq(SegmentsOver(R))
<1> DEFINE n == Len(lines)
<1>1. PICK M : /\ M[0] = <<>>
               /\ \A k \in 1..n : M[k] = MergeLine(M[k - 1], lines[k])
               /\ MergeLines(lines) = M[n]
  BY MergeSteps
<1> DEFINE Done == {k \in Nat : k <= n => M[k] \in Seq(SegmentsOver(R))}
<1>2. n \in Nat
  OBVIOUS
<1>3. 0 \in Done
  <2>1. <<>> \in Seq(SegmentsOver(R))
    OBVIOUS
  <2> QED
    BY <1>1, <2>1
<1>4. ASSUME NEW k \in Nat, k \in Done
      PROVE  k + 1 \in Done
  <2>1. SUFFICES ASSUME k + 1 <= n
                 PROVE  M[k + 1] \in Seq(SegmentsOver(R))
    OBVIOUS
  <2>2. /\ k + 1 \in 1..n /\ k + 1 - 1 = k
        /\ M[k] \in Seq(SegmentsOver(R)) /\ lines[k + 1] \in SegmentsOver(R)
    BY <1>2, <1>4, <2>1
  <2>3. M[k + 1] = MergeLine(M[k], lines[k + 1])
    BY <1>1, <2>2
  <2> QED
    BY <2>2, <2>3, MergeLineCases, ZenonT(40)
<1> HIDE DEF Done
<1>5. \A k \in Nat : k \in Done
  BY <1>3, <1>4, SetInduction
<1> QED
  BY <1>1, <1>2, <1>5 DEF Done

\* Merging a source changes nothing of what it says, unless two of its lines
\* meet at the seam.
LEMMA MergeSays ==
    ASSUME NEW R, NEW lines \in Seq(SegmentsOver(R)),
           Proper(lines), NoSeam(lines)
    PROVE  /\ Proper(MergeLines(lines))
           /\ \A ip \in IPs : \A r :
                 Says(MergeLines(lines), ip, r) <=> Says(lines, ip, r)
<1> DEFINE n == Len(lines)
<1>1. PICK M : /\ M[0] = <<>>
               /\ \A k \in 1..n : M[k] = MergeLine(M[k - 1], lines[k])
               /\ MergeLines(lines) = M[n]
  BY MergeSteps
<1> DEFINE SaidBy(k, ip, r) == \E i \in 1..k : SegSays(lines[i], ip, r)
           Good(k) == /\ M[k] \in Seq(SegmentsOver(R)) /\ Proper(M[k])
                      /\ k >= 1 => /\ Len(M[k]) >= 1
                                   /\ M[k][Len(M[k])].end = lines[k].end
                                   /\ M[k][Len(M[k])].region = lines[k].region
                      /\ k = 0 => M[k] = <<>>
                      /\ \A ip \in IPs : \A r :
                            Says(M[k], ip, r) <=> SaidBy(k, ip, r)
           Done == {k \in Nat : k <= n => Good(k)}
<1>2. n \in Nat
  OBVIOUS
<1>3. 0 \in Done
  <2>1. Len(<<>>) = 0 /\ 1..0 = {} /\ <<>> \in Seq(SegmentsOver(R))
    OBVIOUS
  <2>2. Proper(<<>>)
    BY <2>1 DEF Proper
  <2>3. \A ip \in IPs : \A r : Says(<<>>, ip, r) <=> SaidBy(0, ip, r)
    BY <2>1 DEF Says
  <2> HIDE DEF SaidBy
  <2>4. Good(0)
    BY <1>1, <2>1, <2>2, <2>3
  <2> HIDE DEF Good
  <2> QED
    BY <2>4
<1>4. ASSUME NEW k \in Nat, k \in Done
      PROVE  k + 1 \in Done
  <2>1. SUFFICES ASSUME k + 1 <= n
                 PROVE  Good(k + 1)
    <3> HIDE DEF Good
    <3> QED
      OBVIOUS
  <2>2. Good(k)
    <3> HIDE DEF Good
    <3> QED
      BY <1>2, <1>4, <2>1
  <2>3. /\ k + 1 \in 1..n /\ k + 1 - 1 = k
        /\ lines[k + 1] \in SegmentsOver(R)
        /\ lines[k + 1].start <= lines[k + 1].end
    BY <1>2, <2>1 DEF Proper
  <2>4. M[k + 1] = MergeLine(M[k], lines[k + 1])
    BY <1>1, <2>3
  <2>5. M[k + 1] \in Seq(SegmentsOver(R))
    BY <2>2, <2>3, <2>4, MergeLineCases
  <2>6. M[k] # <<>> => ~Seam(M[k][Len(M[k])], lines[k + 1])
    <3>1. CASE k = 0
      BY <3>1, <2>2
    <3>2. CASE k # 0
      <4>1. k \in 1..(n - 1)
        BY <3>2, <2>3, <1>2
      <4>2. ~Seam(lines[k], lines[k + 1])
        BY <4>1 DEF NoSeam
      <4> HIDE DEF SaidBy
      <4> QED
        BY <4>1, <4>2, <2>2 DEF Seam
    <3> QED
      BY <3>1, <3>2
  <2>7. /\ Proper(M[k + 1])
        /\ Len(M[k + 1]) >= 1
        /\ M[k + 1][Len(M[k + 1])].end = lines[k + 1].end
        /\ M[k + 1][Len(M[k + 1])].region = lines[k + 1].region
        /\ \A ip \in IPs : \A r :
              Says(M[k + 1], ip, r) <=>
                 \/ Says(M[k], ip, r)
                 \/ SegSays(lines[k + 1], ip, r)
    BY <2>2, <2>3, <2>4, <2>6, MergeLineSays
  <2>8. ASSUME NEW ip \in IPs, NEW r
        PROVE  Says(M[k + 1], ip, r) <=> SaidBy(k + 1, ip, r)
    <3>1. SaidBy(k + 1, ip, r) <=>
             SaidBy(k, ip, r) \/ SegSays(lines[k + 1], ip, r)
      OBVIOUS
    <3>2. Says(M[k], ip, r) <=> SaidBy(k, ip, r)
      <4> HIDE DEF SaidBy
      <4> QED
        BY <2>2
    <3>3. Says(M[k + 1], ip, r) <=>
             Says(M[k], ip, r) \/ SegSays(lines[k + 1], ip, r)
      BY <2>7
    <3> QED
      BY <3>1, <3>2, <3>3
  <2> HIDE DEF SaidBy
  <2> QED
    BY <2>5, <2>7, <2>8
<1>5. \A k \in Nat : k \in Done
  <2> HIDE DEF Done
  <2> QED
    BY <1>3, <1>4, SetInduction
<1>6. Good(n)
  <2> HIDE DEF Good
  <2> QED
    BY <1>2, <1>5
<1>7. ASSUME NEW ip \in IPs, NEW r
      PROVE  Says(M[n], ip, r) <=> Says(lines, ip, r)
  <2>1. SaidBy(n, ip, r) <=> Says(lines, ip, r)
    BY DEF Says
  <2> HIDE DEF SaidBy
  <2> QED
    BY <2>1, <1>6
<1> QED
  BY <1>1, <1>6, <1>7
-----------------------------------------------------------------------------
(* Sorting *)

\* Among finitely many numbers there is a greatest.
LEMMA GreatestExists ==
    ASSUME NEW n \in Nat, n > 0, NEW u \in [1..n -> Nat]
    PROVE  \E m \in 1..n : \A i \in 1..n : u[i] <= u[m]
<1> DEFINE HasOne == {k \in Nat : k \in 1..n => \E m \in 1..k :
                                        \A i \in 1..k : u[i] <= u[m]}
<1>1. 0 \in HasOne
  OBVIOUS
<1>2. ASSUME NEW k \in Nat, k \in HasOne
      PROVE  k + 1 \in HasOne
  <2> SUFFICES ASSUME k + 1 \in 1..n
               PROVE  \E m \in 1..(k + 1) :
                         \A i \in 1..(k + 1) : u[i] <= u[m]
    OBVIOUS
  <2>1. \A i \in 1..(k + 1) : i \in 1..n /\ u[i] \in Nat
    OBVIOUS
  <2>2. k + 1 \in 1..(k + 1)
    OBVIOUS
  <2>3. CASE k = 0
    BY <2>1, <2>2, <2>3
  <2>4. CASE k # 0
    <3>1. k \in 1..n
      BY <2>4
    <3>2. PICK m \in 1..k : \A i \in 1..k : u[i] <= u[m]
      BY <3>1, <1>2
    <3>3. \A i \in 1..(k + 1) : i \in 1..k \/ i = k + 1
      OBVIOUS
    <3>4. m \in 1..(k + 1) /\ u[m] \in Nat /\ u[k + 1] \in Nat
      BY <2>1, <2>2
    <3>5. CASE u[m] <= u[k + 1]
      <4>1. \A i \in 1..(k + 1) : u[i] <= u[k + 1]
        BY <3>2, <3>3, <3>4, <3>5, <2>1, SMTT(30)
      <4> QED
        BY <4>1, <2>2
    <3>6. CASE u[k + 1] <= u[m]
      <4>1. \A i \in 1..(k + 1) : u[i] <= u[m]
        BY <3>2, <3>3, <3>6
      <4> QED
        BY <4>1, <3>4
    <3> QED
      BY <3>4, <3>5, <3>6
  <2> QED
    BY <2>3, <2>4
<1>3. \A k \in Nat : k \in HasOne
  <2> HIDE DEF HasOne
  <2> QED
    BY <1>1, <1>2, SetInduction
<1>4. n \in HasOne /\ n \in 1..n
  <2> HIDE DEF HasOne
  <2> QED
    BY <1>3
<1> QED
  BY <1>4

\* Every finite list of numbers can be brought in ascending order.
LEMMA OrderExists ==
    ASSUME NEW n \in Nat, NEW s \in [1..n -> Nat]
    PROVE  \E f \in Bijection(1..n, 1..n) :
               \A i, j \in 1..n : i < j => s[f[i]] <= s[f[j]]
<1> DEFINE Orders(k, u, f) ==
               /\ f \in [1..k -> 1..k]
               /\ \A i, j \in 1..k : f[i] = f[j] => i = j
               /\ \A w \in 1..k : \E i \in 1..k : f[i] = w
               /\ \A i, j \in 1..k : i < j => u[f[i]] <= u[f[j]]
           Sortable == {k \in Nat : \A u \in [1..k -> Nat] :
                                        \E f : Orders(k, u, f)}
<1>1. 0 \in Sortable
  <2> SUFFICES ASSUME NEW u \in [1..0 -> Nat]
               PROVE  \E f : Orders(0, u, f)
    OBVIOUS
  <2>1. Orders(0, u, [i \in 1..0 |-> i])
    OBVIOUS
  <2> HIDE DEF Orders
  <2> QED
    BY <2>1
<1>2. ASSUME NEW k \in Nat, k \in Sortable
      PROVE  k + 1 \in Sortable
  <2> SUFFICES ASSUME NEW u \in [1..(k + 1) -> Nat]
               PROVE  \E f : Orders(k + 1, u, f)
    <3> HIDE DEF Orders
    <3> QED
      OBVIOUS
  \* the position of a greatest number goes last
  <2>1. k + 1 \in Nat /\ k + 1 > 0
    OBVIOUS
  <2>2. PICK m \in 1..(k + 1) : \A i \in 1..(k + 1) : u[i] <= u[m]
    BY <2>1, GreatestExists
  <2> DEFINE other == [i \in 1..k |-> IF i = m THEN k + 1 ELSE i]
             v == [i \in 1..k |-> u[other[i]]]
  <2>3. /\ other \in [1..k -> 1..(k + 1) \ {m}]
        /\ \A i, j \in 1..k : other[i] = other[j] => i = j
        /\ \A w \in 1..(k + 1) \ {m} : \E i \in 1..k : other[i] = w
    <3>1. ASSUME NEW i \in 1..k
          PROVE  other[i] \in 1..(k + 1) \ {m}
      OBVIOUS
    <3>2. ASSUME NEW i \in 1..k, NEW j \in 1..k, other[i] = other[j]
          PROVE  i = j
      BY <3>2
    <3>3. ASSUME NEW w \in 1..(k + 1) \ {m}
          PROVE  \E i \in 1..k : other[i] = w
      <4>1. CASE w = k + 1
        <5>1. m \in 1..k /\ other[m] = w
          BY <4>1
        <5> QED
          BY <5>1
      <4>2. CASE w # k + 1
        <5>1. w \in 1..k /\ other[w] = w
          BY <4>2
        <5> QED
          BY <5>1
      <4> QED
        BY <4>1, <4>2
    <3> QED
      BY <3>1, <3>2, <3>3
  <2>4. v \in [1..k -> Nat]
    <3> HIDE DEF other
    <3> QED
      BY <2>3
  <2>5. PICK g : Orders(k, v, g)
    <3> HIDE DEF v, Orders
    <3> QED
      BY <2>4, <1>2
  <2> DEFINE f == [i \in 1..(k + 1) |-> IF i = k + 1 THEN m ELSE other[g[i]]]
  <2> HIDE DEF other
  <2>6. /\ f[k + 1] = m
        /\ \A i \in 1..k : /\ i \in 1..(k + 1) /\ i # k + 1
                           /\ g[i] \in 1..k /\ f[i] = other[g[i]]
                           /\ f[i] \in 1..(k + 1) \ {m}
    <3>1. k + 1 \in 1..(k + 1)
      OBVIOUS
    <3>2. ASSUME NEW i \in 1..k
          PROVE  i \in 1..(k + 1) /\ i # k + 1 /\ g[i] \in 1..k
      <4>1. g \in [1..k -> 1..k]
        BY <2>5
      <4>2. g[i] \in 1..k
        BY <4>1
      <4> HIDE DEF f, v, Orders
      <4> QED
        BY <4>2
    <3>3. ASSUME NEW i \in 1..k
          PROVE  f[i] = other[g[i]] /\ other[g[i]] \in 1..(k + 1) \ {m}
      BY <3>2, <2>3
    <3>4. f[k + 1] = m
      BY <3>1
    <3> HIDE DEF f
    <3> QED
      BY <3>2, <3>3, <3>4
  <2>7. f \in [1..(k + 1) -> 1..(k + 1)]
    <3>1. ASSUME NEW i \in 1..(k + 1)
          PROVE  (IF i = k + 1 THEN m ELSE other[g[i]]) \in 1..(k + 1)
      <4>1. CASE i = k + 1
        BY <4>1, <2>2
      <4>2. CASE i # k + 1
        <5>1. i \in 1..k
          BY <4>2
        <5> QED
          BY <5>1, <4>2, <2>6
      <4> QED
        BY <4>1, <4>2
    <3> QED
      BY <3>1
  <2> HIDE DEF f
  <2>8. ASSUME NEW i \in 1..(k + 1), NEW j \in 1..(k + 1), f[i] = f[j]
        PROVE  i = j
    <3>1. \A x \in 1..(k + 1) : x = k + 1 \/ x \in 1..k
      OBVIOUS
    <3>2. CASE i \in 1..k /\ j \in 1..k
      <4>1. g[i] \in 1..k /\ g[j] \in 1..k /\ other[g[i]] = other[g[j]]
        BY <3>2, <2>6, <2>8
      <4>2. g[i] = g[j]
        BY <4>1, <2>3
      <4> QED
        BY <4>2, <3>2, <2>5
    <3>3. CASE ~(i \in 1..k /\ j \in 1..k)
      BY <3>1, <3>3, <2>6, <2>8
    <3> QED
      BY <3>2, <3>3
  <2>9. ASSUME NEW w \in 1..(k + 1)
        PROVE  \E i \in 1..(k + 1) : f[i] = w
    <3>1. CASE w = m
      <4>1. k + 1 \in 1..(k + 1)
        OBVIOUS
      <4> QED
        BY <4>1, <3>1, <2>6
    <3>2. CASE w # m
      <4>1. PICK x \in 1..k : other[x] = w
        BY <3>2, <2>3
      <4>2. PICK i \in 1..k : g[i] = x
        BY <2>5
      <4> QED
        BY <4>1, <4>2, <2>6
    <3> QED
      BY <3>1, <3>2
  <2>10. ASSUME NEW i \in 1..(k + 1), NEW j \in 1..(k + 1), i < j
         PROVE  u[f[i]] <= u[f[j]]
    <3>1. i \in 1..k
      BY <2>10
    <3>2. CASE j = k + 1
      BY <3>1, <3>2, <2>2, <2>6
    <3>3. CASE j # k + 1
      <4>1. j \in 1..k
        BY <3>3
      <4>2. v[g[i]] <= v[g[j]]
        BY <3>1, <4>1, <2>5, <2>10
      <4> QED
        BY <4>1, <4>2, <3>1, <2>6
    <3> QED
      BY <3>2, <3>3
  <2>11. Orders(k + 1, u, f)
    BY <2>7, <2>8, <2>9, <2>10
  <2> HIDE DEF Orders
  <2> QED
    BY <2>11
<1>3. \A k \in Nat : k \in Sortable
  <2> HIDE DEF Sortable
  <2> QED
    BY <1>1, <1>2, SetInduction
<1>4. PICK f : Orders(n, s, f)
  <2> HIDE DEF Orders
  <2> QED
    BY <1>3
<1>5. f \in Bijection(1..n, 1..n)
  BY <1>4 DEF Bijection, Injection, Surjection, IsInjective
<1> QED
  BY <1>4, <1>5
\* Whatever order of a list the sort gives: nothing of the list is lost or
\* added, and every segment starts at or after the one before it.
LEMMA SortedIsRearranged ==
    ASSUME NEW R, NEW list \in Seq(SegmentsOver(R)), NEW t \in SortedOrders(list)
    PROVE  LET n == Len(list)
           IN  /\ t \in Seq(SegmentsOver(R)) /\ Len(t) = n
               /\ \E f \in [1..n -> 1..n] :
                     /\ \A i \in 1..n : t[i] = list[f[i]]
                     /\ \A i, j \in 1..n : f[i] = f[j] => i = j
                     /\ \A j \in 1..n : \E i \in 1..n : f[i] = j
               /\ \A i, j \in 1..n : i < j => t[i].start <= t[j].start
<1> DEFINE n == Len(list)
           Along(f) == [i \in DOMAIN list |-> list[f[i]]]
           Ascends == \A i, j \in DOMAIN t : i < j => t[i].start <= t[j].start
<1>1. n \in Nat /\ DOMAIN list = 1..n
  OBVIOUS
<1>2. \A i \in 1..n : list[i] \in SegmentsOver(R)
  BY SegmentTypes
<1>3. Ascends /\ \E f \in Bijection(1..n, 1..n) : t = Along(f)
  BY <1>1, Zenon DEF SortedOrders
<1> HIDE DEF n
<1>4. PICK f \in Bijection(1..n, 1..n) : t = Along(f)
  <2> HIDE DEF Along, Ascends
  <2> QED
    BY <1>3
<1>5. /\ f \in [1..n -> 1..n]
      /\ \A i, j \in 1..n : f[i] = f[j] => i = j
      /\ \A j \in 1..n : \E i \in 1..n : f[i] = j
  BY <1>4 DEF Bijection, Injection, Surjection, IsInjective
<1>6. \A i \in 1..n : f[i] \in 1..n
  BY <1>5
<1>7. DOMAIN t = 1..n /\ \A i \in 1..n : t[i] = list[f[i]]
  BY <1>1, <1>4
<1>8. t \in Seq(SegmentsOver(R)) /\ Len(t) = n
  <2>1. t = [i \in 1..n |-> list[f[i]]]
    BY <1>1, <1>4
  <2>2. \A i \in 1..n : list[f[i]] \in SegmentsOver(R)
    BY <1>2, <1>6
  <2>3. t \in [1..n -> SegmentsOver(R)]
    BY <2>1, <2>2
  <2> QED
    BY <1>1, <2>3
<1>9. \A i, j \in 1..n : i < j => t[i].start <= t[j].start
  BY <1>3, <1>7
<1>10. \E g \in [1..n -> 1..n] :
          /\ \A i \in 1..n : t[i] = list[g[i]]
          /\ \A i, j \in 1..n : g[i] = g[j] => i = j
          /\ \A j \in 1..n : \E i \in 1..n : g[i] = j
  BY <1>5, <1>7, Zenon
<1> HIDE DEF Ascends
<1> QED
  BY <1>8, <1>9, <1>10 DEF n

\* A list has such an order, and SortedByStart is one.
LEMMA SortedExists ==
    ASSUME NEW R, NEW list \in Seq(SegmentsOver(R))
    PROVE  SortedByStart(list) \in SortedOrders(list)
<1> DEFINE n == Len(list)
           Along(f) == [i \in DOMAIN list |-> list[f[i]]]
           Ascends(t) == \A i, j \in DOMAIN t : i < j => t[i].start <= t[j].start
           s == [i \in 1..n |-> list[i].start]
<1>1. n \in Nat /\ DOMAIN list = 1..n
  OBVIOUS
<1>2. \A t : t \in SortedOrders(list) <=>
                /\ \E f \in Bijection(1..n, 1..n) : t = Along(f)
                /\ Ascends(t)
  BY <1>1, Zenon DEF SortedOrders
<1>3. s \in [1..n -> Nat]
  BY SegmentTypes
<1> HIDE DEF n
<1>4. PICK f \in Bijection(1..n, 1..n) :
             \A i, j \in 1..n : i < j => s[f[i]] <= s[f[j]]
  <2> HIDE DEF s
  <2> QED
    BY <1>1, <1>3, OrderExists
<1>5. \A i \in 1..n : f[i] \in 1..n
  BY <1>4 DEF Bijection, Injection
<1>6. DOMAIN Along(f) = 1..n /\ \A i \in 1..n : Along(f)[i] = list[f[i]]
  BY <1>1
<1>7. \A i \in 1..n : s[f[i]] = list[f[i]].start
  BY <1>5
<1>8. Ascends(Along(f))
  <2> HIDE DEF Along, s
  <2> QED
    BY <1>4, <1>6, <1>7
<1>9. Along(f) \in SortedOrders(list)
  <2> HIDE DEF Along, Ascends
  <2> QED
    BY <1>2, <1>4, <1>8
<1> QED
  BY <1>9, Zenon DEF SortedByStart

\* A sorted list says what the list said.
LEMMA SortedSays ==
    ASSUME NEW R, NEW list \in Seq(SegmentsOver(R)), NEW t \in SortedOrders(list)
    PROVE  /\ t \in Seq(SegmentsOver(R)) /\ Len(t) = Len(list)
           /\ Proper(list) => Proper(t)
           /\ \A ip, r : Says(t, ip, r) <=> Says(list, ip, r)
<1> DEFINE n == Len(list)
<1>1. PICK f \in [1..n -> 1..n] :
             /\ \A i \in 1..n : t[i] = list[f[i]]
             /\ \A i, j \in 1..n : f[i] = f[j] => i = j
             /\ \A j \in 1..n : \E i \in 1..n : f[i] = j
  BY SortedIsRearranged
<1>2. t \in Seq(SegmentsOver(R)) /\ Len(t) = n
  BY SortedIsRearranged
<1>3. /\ \A i \in 1..n : \E j \in 1..n : t[i] = list[j]
      /\ \A j \in 1..n : \E i \in 1..n : t[i] = list[j]
  <2>1. \A i \in 1..n : f[i] \in 1..n
    OBVIOUS
  <2>2. ASSUME NEW j \in 1..n
        PROVE  \E i \in 1..n : t[i] = list[j]
    <3>1. PICK i \in 1..n : f[i] = j
      BY <1>1
    <3> QED
      BY <3>1, <1>1
  <2> QED
    BY <2>1, <2>2, <1>1, Zenon
<1>4. Proper(list) => Proper(t)
  BY <1>2, <1>3 DEF Proper
<1>5. ASSUME NEW ip, NEW r
      PROVE  Says(t, ip, r) <=> Says(list, ip, r)
  BY <1>2, <1>3 DEF Says
<1> QED
  BY <1>2, <1>4, <1>5

\* Both loaders hand on what the lines said, in whatever order these came.
LEMMA LoadOrderSays ==
    ASSUME NEW R, NEW list \in Seq(SegmentsOver(R))
    PROVE  /\ LoadOrder(list) \in Seq(SegmentsOver(R))
           /\ Len(LoadOrder(list)) = Len(list)
           /\ Proper(list) => Proper(LoadOrder(list))
           /\ \A ip, r : Says(LoadOrder(list), ip, r) <=> Says(list, ip, r)
BY SortedExists, SortedSays DEF LoadOrder

-----------------------------------------------------------------------------
(* Order *)

Ordered(list) ==
    \A i, j \in 1..Len(list) : i < j => list[i].end < list[j].start

\* The test of neighbours that the loaders make orders every two segments.
LEMMA InOrderIsOrder ==
    ASSUME NEW R, NEW list \in Seq(SegmentsOver(R)), Proper(list),
           InOrder(list)
    PROVE  Ordered(list)
<1> DEFINE n == Len(list)
           Before(j) == \A i \in 1..n : i < j => list[i].end < list[j].start
           Done == {j \in Nat : j \in 1..n => Before(j)}
<1>1. n \in Nat
  OBVIOUS
<1>2. \A i \in 1..n : /\ list[i].start \in Nat /\ list[i].end \in Nat
                      /\ list[i].start <= list[i].end
  BY SegmentTypes DEF Proper
<1> HIDE DEF n
<1>3. 0 \in Done
  OBVIOUS
<1>4. ASSUME NEW j \in Nat, j \in Done
      PROVE  j + 1 \in Done
  <2> SUFFICES ASSUME j + 1 \in 1..n, NEW i \in 1..n, i < j + 1
               PROVE  list[i].end < list[j + 1].start
    OBVIOUS
  <2>1. j \in 1..(n - 1) /\ j \in 1..n /\ i <= j
    BY <1>1
  <2>2. list[j].end < list[j + 1].start
    BY <2>1 DEF InOrder, After, n
  <2>3. CASE i = j
    BY <2>2, <2>3
  <2>4. CASE i # j
    <3>1. i < j
      BY <2>1, <2>4
    <3>2. list[i].end < list[j].start
      BY <3>1, <2>1, <1>4
    <3> QED
      BY <3>2, <2>2, <2>1, <1>2
  <2> QED
    BY <2>3, <2>4
<1>5. \A j \in Nat : j \in Done
  <2> HIDE DEF Done
  <2> QED
    BY <1>3, <1>4, SetInduction
<1>6. \A j \in 1..n : Before(j)
  BY <1>5
<1> QED
  BY <1>6 DEF n, Ordered

\* Segments in order never say two things of one address.
LEMMA OrderedSaysOnce ==
    ASSUME NEW R, NEW list \in Seq(SegmentsOver(R)), Ordered(list),
           NEW ip \in IPs, NEW q, NEW r, Says(list, ip, q), Says(list, ip, r)
    PROVE  q = r
<1>1. PICK i \in 1..Len(list) : SegSays(list[i], ip, q)
  BY DEF Says
<1>2. PICK j \in 1..Len(list) : SegSays(list[j], ip, r)
  BY DEF Says
<1>3. /\ list[i].start \in Nat /\ list[i].end \in Nat
      /\ list[j].start \in Nat /\ list[j].end \in Nat /\ ip \in Nat
  BY SegmentTypes, MaxIPAssumption DEF IPs
<1>4. /\ list[i].start <= ip /\ ip <= list[i].end
      /\ list[j].start <= ip /\ ip <= list[j].end
  BY <1>1, <1>2 DEF SegSays, SegContains
<1>5. ~(i < j) /\ ~(j < i)
  BY <1>3, <1>4 DEF Ordered
<1>6. i = j
  BY <1>5
<1> QED
  BY <1>1, <1>2, <1>6 DEF SegSays

\* Two lists put together say what each of them says.
LEMMA ConcatSays ==
    ASSUME NEW R, NEW a \in Seq(SegmentsOver(R)),
           NEW b \in Seq(SegmentsOver(R))
    PROVE  LET c == a \o b
           IN  /\ c \in Seq(SegmentsOver(R)) /\ Len(c) = Len(a) + Len(b)
               /\ Proper(a) /\ Proper(b) => Proper(c)
               /\ Ordered(a) /\ Ordered(b)
                    /\ (\A i \in 1..Len(a), j \in 1..Len(b) :
                           a[i].end < b[j].start)
                  => Ordered(c)
               /\ \A ip : \A r :
                     Says(c, ip, r) <=> Says(a, ip, r) \/ Says(b, ip, r)
<1> DEFINE c == a \o b
           m == Len(a)
           n == Len(b)
<1>1. m \in Nat /\ n \in Nat
  OBVIOUS
<1>2. /\ c \in Seq(SegmentsOver(R)) /\ Len(c) = m + n
      /\ \A i \in 1..(m + n) : c[i] = IF i <= m THEN a[i] ELSE b[i - m]
  BY ConcatProperties
<1>3. \A i \in 1..m : i \in 1..(m + n) /\ c[i] = a[i]
  BY <1>1, <1>2
<1>4. \A j \in 1..n : m + j \in 1..(m + n) /\ c[m + j] = b[j]
  BY <1>1, <1>2
<1>5. \A i \in 1..(m + n) : \/ i \in 1..m /\ c[i] = a[i]
                            \/ ~(i <= m) /\ i - m \in 1..n /\ c[i] = b[i - m]
  BY <1>1, <1>2
<1> HIDE DEF c
<1>6. Proper(a) /\ Proper(b) => Proper(c)
  BY <1>2, <1>5 DEF Proper
<1>7. ASSUME Ordered(a), Ordered(b),
             \A i \in 1..m, j \in 1..n : a[i].end < b[j].start
      PROVE  Ordered(c)
  <2>1. ASSUME NEW i \in 1..(m + n), NEW j \in 1..(m + n), i < j
        PROVE  c[i].end < c[j].start
    <3>1. CASE i <= m /\ j <= m
      BY <3>1, <2>1, <1>5, <1>7, <1>1 DEF Ordered
    <3>2. CASE i <= m /\ ~(j <= m)
      <4>1. i \in 1..m /\ c[i] = a[i] /\ j - m \in 1..n /\ c[j] = b[j - m]
        BY <3>2, <1>5, <1>1
      <4> QED
        BY <4>1, <1>7
    <3>3. CASE ~(i <= m) /\ ~(j <= m)
      <4>1. /\ i - m \in 1..n /\ c[i] = b[i - m]
            /\ j - m \in 1..n /\ c[j] = b[j - m]
            /\ i - m < j - m
        BY <3>3, <2>1, <1>5, <1>1
      <4> QED
        BY <4>1, <1>7 DEF Ordered
    <3> QED
      BY <3>1, <3>2, <3>3, <2>1, <1>1
  <2> QED
    BY <2>1, <1>2 DEF Ordered
<1>8. ASSUME NEW ip, NEW r
      PROVE  Says(c, ip, r) <=> (Says(a, ip, r) \/ Says(b, ip, r))
  <2>1. Says(c, ip, r) => Says(a, ip, r) \/ Says(b, ip, r)
    BY <1>2, <1>5 DEF Says
  <2>2. Says(a, ip, r) => Says(c, ip, r)
    BY <1>2, <1>3 DEF Says
  <2>3. Says(b, ip, r) => Says(c, ip, r)
    BY <1>2, <1>4 DEF Says
  <2> QED
    BY <2>1, <2>2, <2>3
<1> QED
  BY <1>2, <1>6, <1>7, <1>8 DEF c

-----------------------------------------------------------------------------
(* Lists put together from lists *)

\* FlattenSeq appends one sequence after the other.
LEMMA FlattenSteps ==
    ASSUME NEW seqs, NEW n \in Nat, Len(seqs) = n, n > 0
    PROVE  \E F : /\ FlattenSeq(seqs) = F[n]
                  /\ F[1] = seqs[1]
                  /\ \A i \in 1..(n - 1) : F[i + 1] = F[i] \o seqs[i + 1]
<1> DEFINE Step(F, i) == IF i = 1 THEN seqs[i] ELSE F[i - 1] \o seqs[i]
           Def(F) == F = [i \in 1..n |-> Step(F, i)]
           Ready == {k \in Nat : \E F : \A i \in 1..k : F[i] = Step(F, i)}
<1>1. FlattenSeq(seqs) = (CHOOSE F : Def(F))[n]
  <2>1. Len(seqs) # 0
    OBVIOUS
  <2> QED
    BY <2>1, Zenon DEF FlattenSeq
<1>2. 0 \in Ready
  OBVIOUS
<1>3. ASSUME NEW k \in Nat, k \in Ready
      PROVE  k + 1 \in Ready
  <2>1. PICK F : \A i \in 1..k : F[i] = Step(F, i)
    BY <1>3
  <2> DEFINE G == [i \in 1..(k + 1) |-> IF i <= k THEN F[i] ELSE Step(F, i)]
  <2>2. \A i \in 1..k : i \in 1..(k + 1) /\ G[i] = F[i]
    OBVIOUS
  <2>3. \A i \in 1..(k + 1) : G[i] = Step(F, i)
    <3> HIDE DEF Step
    <3> QED
      BY <2>1
  <2> HIDE DEF G
  <2>4. \A i \in 1..(k + 1) : i # 1 => i - 1 \in 1..k
    OBVIOUS
  <2>5. \A i \in 1..(k + 1) : Step(F, i) = Step(G, i)
    BY <2>2, <2>4
  <2>6. \A i \in 1..(k + 1) : G[i] = Step(G, i)
    <3> HIDE DEF Step
    <3> QED
      BY <2>3, <2>5
  <2>7. k + 1 \in Nat
    OBVIOUS
  <2> HIDE DEF Step
  <2> QED
    BY <2>6, <2>7
<1>4. \A k \in Nat : k \in Ready
  <2> HIDE DEF Ready
  <2> QED
    BY <1>2, <1>3, SetInduction
<1>5. \E F : Def(F)
  <2>1. PICK F : \A i \in 1..n : F[i] = Step(F, i)
    BY <1>4
  <2> DEFINE G == [i \in 1..n |-> F[i]]
  <2>2. \A i \in 1..n : G[i] = F[i] /\ (i # 1 => i - 1 \in 1..n)
    OBVIOUS
  <2> HIDE DEF G
  <2>3. \A i \in 1..n : Step(F, i) = Step(G, i)
    BY <2>2
  <2>4. \A i \in 1..n : F[i] = Step(G, i)
    <3> HIDE DEF Step
    <3> QED
      BY <2>1, <2>3
  <2>5. G = [i \in 1..n |-> Step(G, i)]
    <3> HIDE DEF Step
    <3> QED
      BY <2>4, Zenon DEF G
  <2> QED
    BY <2>5
<1> DEFINE F == CHOOSE G : Def(G)
<1>6. F = [i \in 1..n |-> Step(F, i)]
  BY <1>5, Zenon
<1> HIDE DEF F
<1>7. \A i \in 1..n : F[i] = Step(F, i)
  <2> HIDE DEF Step
  <2> QED
    BY <1>6, Zenon
<1>8. F[1] = seqs[1]
  <2>1. 1 \in 1..n
    OBVIOUS
  <2> QED
    BY <2>1, <1>7
<1>9. ASSUME NEW i \in 1..(n - 1)
      PROVE  F[i + 1] = F[i] \o seqs[i + 1]
  <2> DEFINE j == i + 1
  <2>1. j \in 1..n /\ j # 1 /\ j - 1 = i
    OBVIOUS
  <2> HIDE DEF j
  <2>2. F[j] = Step(F, j)
    <3> HIDE DEF Step
    <3> QED
      BY <2>1, <1>7
  <2>3. Step(F, j) = F[j - 1] \o seqs[j]
    BY <2>1, Zenon
  <2> HIDE DEF Step
  <2>4. F[j] = F[i] \o seqs[j]
    BY <2>1, <2>2, <2>3, Zenon
  <2> QED
    BY <2>4 DEF j
<1> QED
  BY <1>1, <1>8, <1>9 DEF F

\* n lists in order, each before the next
InTurn(R, n, parts) ==
    /\ \A k \in 1..n : /\ parts[k] \in Seq(SegmentsOver(R))
                       /\ Proper(parts[k]) /\ Ordered(parts[k])
    /\ \A j, k \in 1..n : j < k =>
          \A p \in 1..Len(parts[j]), q \in 1..Len(parts[k]) :
             parts[j][p].end < parts[k][q].start

\* every element of list is one of the n lists' elements
MadeOf(list, n, parts) ==
    \A i \in 1..Len(list) : \E k \in 1..n :
        \E q \in 1..Len(parts[k]) : list[i] = parts[k][q]

\* Lists in turn, put together: the whole is in order, has their elements,
\* and says what they say.
LEMMA FlattenKeeps ==
    ASSUME NEW R, NEW n \in Nat, n > 0, NEW parts, Len(parts) = n,
           InTurn(R, n, parts)
    PROVE  LET all == FlattenSeq(parts)
           IN  /\ all \in Seq(SegmentsOver(R))
               /\ Proper(all) /\ Ordered(all)
               /\ MadeOf(all, n, parts)
               /\ \A ip : \A r : Says(all, ip, r) <=>
                                    \E k \in 1..n : Says(parts[k], ip, r)
<1>1. PICK F : /\ FlattenSeq(parts) = F[n]
               /\ F[1] = parts[1]
               /\ \A i \in 1..(n - 1) : F[i + 1] = F[i] \o parts[i + 1]
  BY FlattenSteps
<1> DEFINE From(i, k) == \E j \in 1..k :
                            \E q \in 1..Len(parts[j]) : F[k][i] = parts[j][q]
           SaidBy(ip, r, k) == \E j \in 1..k : Says(parts[j], ip, r)
           Good(k) == /\ F[k] \in Seq(SegmentsOver(R))
                      /\ Proper(F[k]) /\ Ordered(F[k])
                      /\ \A i \in 1..Len(F[k]) : From(i, k)
                      /\ \A ip : \A r : Says(F[k], ip, r) <=> SaidBy(ip, r, k)
           Done == {k \in Nat : k >= 1 /\ k <= n => Good(k)}
<1>2. /\ \A k \in 1..n : /\ parts[k] \in Seq(SegmentsOver(R))
                         /\ Proper(parts[k]) /\ Ordered(parts[k])
      /\ \A j, k \in 1..n : j < k =>
            \A p \in 1..Len(parts[j]), q \in 1..Len(parts[k]) :
               parts[j][p].end < parts[k][q].start
  BY DEF InTurn
<1>3. Good(1)
  <2>1. /\ 1 \in 1..n /\ 1 \in 1..1 /\ \A j \in 1..1 : j = 1
    OBVIOUS
  <2>2. /\ parts[1] \in Seq(SegmentsOver(R)) /\ Proper(parts[1])
        /\ Ordered(parts[1])
    BY <2>1, <1>2
  <2>3. \A i \in 1..Len(F[1]) : From(i, 1)
    BY <1>1, <2>1
  <2>4. \A ip : \A r : Says(F[1], ip, r) <=> SaidBy(ip, r, 1)
    BY <1>1, <2>1
  <2> HIDE DEF From, SaidBy
  <2> QED
    BY <1>1, <2>2, <2>3, <2>4
<1>4. ASSUME NEW k \in Nat, k >= 1, k + 1 <= n, Good(k)
      PROVE  Good(k + 1)
  <2> DEFINE a == F[k]
             b == parts[k + 1]
             c == a \o b
  <2>1. k \in 1..(n - 1) /\ k + 1 \in 1..n
    BY <1>4
  <2>2. F[k + 1] = c
    BY <1>1, <2>1, Zenon
  <2>3. /\ b \in Seq(SegmentsOver(R)) /\ Proper(b) /\ Ordered(b)
    BY <2>1, <1>2
  <2>4. /\ a \in Seq(SegmentsOver(R)) /\ Proper(a) /\ Ordered(a)
        /\ \A i \in 1..Len(a) : \E j \in 1..k :
              \E q \in 1..Len(parts[j]) : a[i] = parts[j][q]
        /\ \A ip : \A r : Says(a, ip, r) <=> SaidBy(ip, r, k)
    BY <1>4
  <2>5. \A j \in 1..k : j \in 1..n /\ j < k + 1 /\ j \in 1..(k + 1)
    BY <1>4
  <2>6. ASSUME NEW i \in 1..Len(a), NEW q \in 1..Len(b)
        PROVE  a[i].end < b[q].start
    <3>1. PICK j \in 1..k : \E p \in 1..Len(parts[j]) : a[i] = parts[j][p]
      BY <2>4
    <3>2. PICK p \in 1..Len(parts[j]) : a[i] = parts[j][p]
      BY <3>1
    <3>3. parts[j][p].end < parts[k + 1][q].start
      BY <2>1, <2>5, <1>2
    <3> QED
      BY <3>2, <3>3
  <2> HIDE DEF a, b
  <2>7. /\ c \in Seq(SegmentsOver(R)) /\ Len(c) = Len(a) + Len(b)
        /\ Proper(c) /\ Ordered(c)
        /\ \A ip : \A r : Says(c, ip, r) <=> Says(a, ip, r) \/ Says(b, ip, r)
    BY <2>3, <2>4, <2>6, ConcatSays
  <2>8. \A i \in 1..Len(c) : \/ i \in 1..Len(a) /\ c[i] = a[i]
                             \/ \E q \in 1..Len(b) : c[i] = b[q]
    <3>1. Len(a) \in Nat /\ Len(b) \in Nat
      BY <2>3, <2>4
    <3>2. \A i \in 1..(Len(a) + Len(b)) :
             c[i] = IF i <= Len(a) THEN a[i] ELSE b[i - Len(a)]
      BY <2>3, <2>4, ConcatProperties
    <3>3. \A i \in 1..(Len(a) + Len(b)) :
             /\ i <= Len(a) => i \in 1..Len(a)
             /\ ~(i <= Len(a)) => i - Len(a) \in 1..Len(b)
      BY <3>1
    <3> HIDE DEF c
    <3> QED
      BY <3>2, <3>3, <2>7, Zenon
  <2> HIDE DEF c
  <2>9. \A i \in 1..Len(F[k + 1]) : From(i, k + 1)
    <3>1. SUFFICES ASSUME NEW i \in 1..Len(c)
                   PROVE  \E j \in 1..(k + 1) :
                             \E q \in 1..Len(parts[j]) : c[i] = parts[j][q]
      BY <2>2
    <3>2. CASE i \in 1..Len(a) /\ c[i] = a[i]
      BY <3>2, <2>4, <2>5
    <3>3. CASE \E q \in 1..Len(b) : c[i] = b[q]
      <4>1. k + 1 \in 1..(k + 1)
        BY <1>4
      <4> QED
        BY <3>3, <4>1 DEF b
    <3> QED
      BY <3>2, <3>3, <2>8
  <2>10. \A ip : \A r : Says(F[k + 1], ip, r) <=> SaidBy(ip, r, k + 1)
    <3>1. SUFFICES ASSUME NEW ip, NEW r
                   PROVE  Says(F[k + 1], ip, r) <=> SaidBy(ip, r, k + 1)
      OBVIOUS
    <3>2. \A j : j \in 1..(k + 1) <=> j \in 1..k \/ j = k + 1
      BY <1>4
    <3>3. SaidBy(ip, r, k + 1) <=> SaidBy(ip, r, k) \/ Says(parts[k + 1], ip, r)
      BY <3>2, Zenon
    <3>4. Says(a, ip, r) <=> SaidBy(ip, r, k)
      BY <2>4
    <3> HIDE DEF SaidBy
    <3> QED
      BY <2>2, <2>7, <3>3, <3>4 DEF b
  <2> HIDE DEF From, SaidBy
  <2> QED
    BY <2>2, <2>7, <2>9, <2>10
<1>5. \A k \in Nat : k \in Done
  <2> HIDE DEF Good
  <2>1. 0 \in Done
    OBVIOUS
  <2>2. ASSUME NEW k \in Nat, k \in Done
        PROVE  k + 1 \in Done
    <3>1. CASE k = 0
      BY <3>1, <1>3
    <3>2. CASE k >= 1 /\ k + 1 <= n
      BY <3>2, <2>2, <1>4
    <3>3. CASE k + 1 > n
      BY <3>3
    <3> QED
      BY <3>1, <3>2, <3>3
  <2> HIDE DEF Done
  <2> QED
    BY <2>1, <2>2, SetInduction
<1>6. Good(n)
  <2> HIDE DEF Good
  <2> QED
    BY <1>5
<1>7. MadeOf(F[n], n, parts)
  BY <1>6 DEF MadeOf
<1> HIDE DEF From
<1> QED
  BY <1>1, <1>6, <1>7

-----------------------------------------------------------------------------
(* Overlaps *)

Separate(a, b) == a.end < b.start \/ b.end < a.start

\* the segments of a list do not overlap segment x, and not each other
FreeOf(list, x) == \A i \in 1..Len(list) : Separate(list[i], x)

Apart(list) ==
    \A i, j \in 1..Len(list) : i < j => Separate(list[i], list[j])

\* Unless it closes the seam, merging a line hides no overlap and makes none.
LEMMA MergeLineApart ==
    ASSUME NEW R, NEW list \in Seq(SegmentsOver(R)), Proper(list),
           NEW line \in SegmentsOver(R), line.start <= line.end,
           list # <<>> => ~Seam(list[Len(list)], line)
    PROVE  LET new == MergeLine(list, line)
           IN  /\ Apart(new) <=> Apart(list) /\ FreeOf(list, line)
               /\ \A x \in SegmentsOver(R) :
                     x.start <= x.end =>
                        (FreeOf(new, x) <=> FreeOf(list, x) /\ Separate(line, x))
<1> DEFINE k == Len(list)
           new == MergeLine(list, line)
           Joined == /\ k >= 1
                     /\ list[k].region = line.region
                     /\ IPAddOne(list[k].end) = line.start
                     /\ Len(new) = k
                     /\ \A i \in 1..(k - 1) : new[i] = list[i]
                     /\ new[k].start = list[k].start
                     /\ new[k].end = line.end
                     /\ new[k].region = line.region
           Added == /\ Len(new) = k + 1
                    /\ \A i \in 1..k : new[i] = list[i]
                    /\ new[k + 1] = line
<1>1. Joined \/ Added
  BY MergeLineCases
<1>2. /\ k \in Nat
      /\ \A i \in 1..k : /\ list[i] \in SegmentsOver(R)
                         /\ list[i].start \in Nat /\ list[i].end \in Nat
                         /\ list[i].start <= list[i].end
  BY SegmentTypes DEF Proper
<1>3. line.start \in Nat /\ line.end \in Nat /\ line.start <= line.end
  BY MaxIPAssumption DEF SegmentsOver, IPs
<1>4. \A x \in SegmentsOver(R) : x.start \in Nat /\ x.end \in Nat
  BY MaxIPAssumption DEF SegmentsOver, IPs
<1> HIDE DEF new, k
<1>5. CASE Added
  <2>1. \A i \in 1..(k + 1) : i \in 1..k \/ i = k + 1
    BY <1>2
  <2>2. \A i \in 1..k : i \in 1..(k + 1) /\ i < k + 1 /\ ~(k + 1 < i)
    BY <1>2
  <2>3. k + 1 \in 1..(k + 1) /\ ~(k + 1 < k + 1)
    BY <1>2
  <2>4. Apart(new) <=> Apart(list) /\ FreeOf(list, line)
    <3> DEFINE Sep(i, j) == Separate(new[i], new[j])
    <3>1. Apart(new) <=> \A i, j \in 1..(k + 1) : i < j => Sep(i, j)
      BY <1>5 DEF Apart
    <3>2. Apart(list) <=> \A i, j \in 1..k : i < j => Sep(i, j)
      BY <1>5 DEF Apart, k
    <3>3. FreeOf(list, line) <=> \A i \in 1..k : Sep(i, k + 1)
      BY <1>5 DEF FreeOf, k
    <3> HIDE DEF Sep
    <3> QED
      BY <3>1, <3>2, <3>3, <2>1, <2>2, <2>3, Zenon
  <2>5. ASSUME NEW x
        PROVE  FreeOf(new, x) <=> FreeOf(list, x) /\ Separate(line, x)
    <3> DEFINE Sep(i) == Separate(new[i], x)
    <3>1. FreeOf(new, x) <=> \A i \in 1..(k + 1) : Sep(i)
      BY <1>5 DEF FreeOf
    <3>2. FreeOf(list, x) <=> \A i \in 1..k : Sep(i)
      BY <1>5 DEF FreeOf, k
    <3>3. Separate(line, x) <=> Sep(k + 1)
      BY <1>5
    <3> HIDE DEF Sep
    <3> QED
      BY <3>1, <3>2, <3>3, <2>1, <2>2, <2>3, Zenon
  <2> QED
    BY <2>4, <2>5 DEF new
<1>6. CASE Joined
  <2>1. k \in 1..k /\ k >= 1
    BY <1>2, <1>6
  <2>2. line.start = list[k].end + 1
    <3>1. list # <<>> /\ list[k].end \in IPs
      BY <1>2, <2>1 DEF SegmentsOver, k
    <3>2. ~Seam(list[k], line)
      BY <3>1 DEF k
    <3> QED
      BY <3>1, <3>2, <1>6, <1>3, <2>1, SuccessorInWidth DEF Seam
  <2>3. ASSUME NEW x \in SegmentsOver(R), x.start <= x.end
        PROVE  Separate(new[k], x) <=>
                  Separate(list[k], x) /\ Separate(line, x)
    BY <2>3, <2>2, <2>1, <1>2, <1>3, <1>4, <1>6 DEF Separate
  <2>4. \A i \in 1..k : i \in 1..(k - 1) \/ i = k
    BY <1>2
  <2>5. \A i \in 1..(k - 1) : i \in 1..k /\ i < k /\ ~(k < i)
    BY <1>2
  <2>6. Separate(list[k], line)
    BY <2>1, <2>2, <1>2, <1>3 DEF Separate
  <2>7. \A i \in 1..(k - 1) : Separate(list[i], new[k]) <=>
            Separate(list[i], list[k]) /\ Separate(list[i], line)
    <3>1. SUFFICES ASSUME NEW i \in 1..(k - 1)
                   PROVE  Separate(list[i], new[k]) <=>
                             /\ Separate(list[i], list[k])
                             /\ Separate(list[i], line)
      OBVIOUS
    <3>2. Separate(new[k], list[i]) <=>
             Separate(list[k], list[i]) /\ Separate(line, list[i])
      BY <2>3, <2>5, <1>2
    <3> QED
      BY <3>2, Zenon DEF Separate
  <2>8. Apart(new) <=> Apart(list) /\ FreeOf(list, line)
    <3>1. Apart(new) <=> \A i, j \in 1..k : i < j => Separate(new[i], new[j])
      BY <1>6 DEF Apart
    <3>2. Apart(list) <=>
             \A i, j \in 1..k : i < j => Separate(list[i], list[j])
      BY DEF Apart, k
    <3>3. FreeOf(list, line) <=> \A i \in 1..k : Separate(list[i], line)
      BY DEF FreeOf, k
    <3>4. \A i \in 1..(k - 1) : new[i] = list[i]
      BY <1>6
    <3>5. ~(k < k)
      BY <1>2
    <3>6. ASSUME \A i, j \in 1..k : i < j => Separate(new[i], new[j])
          PROVE  /\ \A i, j \in 1..k : i < j => Separate(list[i], list[j])
                 /\ \A i \in 1..k : Separate(list[i], line)
      BY <3>6, <2>1, <2>4, <2>5, <2>6, <2>7, <3>4, <3>5, Zenon
    <3>7. ASSUME \A i, j \in 1..k : i < j => Separate(list[i], list[j]),
                 \A i \in 1..k : Separate(list[i], line)
          PROVE  \A i, j \in 1..k : i < j => Separate(new[i], new[j])
      BY <3>7, <2>1, <2>4, <2>5, <2>6, <2>7, <3>4, <3>5, Zenon
    <3> QED
      BY <3>1, <3>2, <3>3, <3>6, <3>7, Zenon
  <2>9. ASSUME NEW x \in SegmentsOver(R), x.start <= x.end
        PROVE  FreeOf(new, x) <=> FreeOf(list, x) /\ Separate(line, x)
    <3>1. FreeOf(new, x) <=> \A i \in 1..k : Separate(new[i], x)
      BY <1>6 DEF FreeOf
    <3>2. FreeOf(list, x) <=> \A i \in 1..k : Separate(list[i], x)
      BY DEF FreeOf, k
    <3>3. \A i \in 1..(k - 1) : new[i] = list[i]
      BY <1>6
    <3> QED
      BY <3>1, <3>2, <3>3, <2>1, <2>3, <2>4, <2>5, <2>9, Zenon
  <2> QED
    BY <2>8, <2>9 DEF new
<1> QED
  BY <1>1, <1>5, <1>6

\* Merging a source hides no overlap and makes none, unless two of its lines
\* meet at the seam.
LEMMA MergeApart ==
    ASSUME NEW R, NEW lines \in Seq(SegmentsOver(R)),
           Proper(lines), NoSeam(lines)
    PROVE  Apart(MergeLines(lines)) <=> Apart(lines)
<1> DEFINE n == Len(lines)
<1>1. PICK M : /\ M[0] = <<>>
               /\ \A k \in 1..n : M[k] = MergeLine(M[k - 1], lines[k])
               /\ MergeLines(lines) = M[n]
  BY MergeSteps
<1> DEFINE ApartTo(k) == \A i, j \in 1..k : i < j => Separate(lines[i], lines[j])
           FreeTo(k, x) == \A i \in 1..k : Separate(lines[i], x)
           Good(k) == /\ M[k] \in Seq(SegmentsOver(R)) /\ Proper(M[k])
                      /\ k >= 1 => /\ Len(M[k]) >= 1
                                   /\ M[k][Len(M[k])].end = lines[k].end
                                   /\ M[k][Len(M[k])].region = lines[k].region
                      /\ k = 0 => M[k] = <<>>
                      /\ Apart(M[k]) <=> ApartTo(k)
                      /\ \A x \in SegmentsOver(R) :
                            x.start <= x.end => (FreeOf(M[k], x) <=> FreeTo(k, x))
           Done == {k \in Nat : k <= n => Good(k)}
<1>2. n \in Nat /\ \A k \in 1..n : /\ lines[k] \in SegmentsOver(R)
                                   /\ lines[k].start <= lines[k].end
  BY DEF Proper
<1>3. 0 \in Done
  <2>1. M[0] = <<>> /\ <<>> \in Seq(SegmentsOver(R)) /\ Len(<<>>) = 0
    BY <1>1
  <2>2. Proper(M[0]) /\ Apart(M[0]) /\ \A x : FreeOf(M[0], x)
    BY <2>1 DEF Proper, Apart, FreeOf
  <2>3. ApartTo(0) /\ \A x : FreeTo(0, x)
    OBVIOUS
  <2> HIDE DEF ApartTo, FreeTo
  <2>4. Good(0)
    BY <2>1, <2>2, <2>3
  <2> HIDE DEF Good
  <2> QED
    BY <2>4
<1>4. ASSUME NEW k \in Nat, k \in Done
      PROVE  k + 1 \in Done
  <2>1. SUFFICES ASSUME k + 1 <= n
                 PROVE  Good(k + 1)
    <3> HIDE DEF Good
    <3> QED
      OBVIOUS
  <2>2. Good(k)
    <3> HIDE DEF Good
    <3> QED
      BY <1>2, <1>4, <2>1
  <2> DEFINE line == lines[k + 1]
             old == M[k]
             new == MergeLine(old, line)
  <2>3. k + 1 \in 1..n /\ line \in SegmentsOver(R) /\ line.start <= line.end
    BY <1>2, <2>1
  <2>4. M[k + 1] = new
    BY <1>1, <2>3
  <2>5. /\ old \in Seq(SegmentsOver(R)) /\ Proper(old)
        /\ Apart(old) <=> ApartTo(k)
        /\ \A x \in SegmentsOver(R) :
              x.start <= x.end => (FreeOf(old, x) <=> FreeTo(k, x))
    BY <2>2
  <2>6. old # <<>> => ~Seam(old[Len(old)], line)
    <3>1. SUFFICES ASSUME old # <<>>
                   PROVE  ~Seam(old[Len(old)], line)
      OBVIOUS
    <3>2. k >= 1
      BY <3>1, <2>2
    <3>3. ~Seam(lines[k], line)
      <4>1. k \in 1..(n - 1)
        BY <3>2, <2>3, <1>2
      <4> QED
        BY <4>1 DEF NoSeam
    <3> QED
      BY <3>2, <3>3, <2>2 DEF Seam
  <2> HIDE DEF ApartTo, FreeTo
  <2>7. /\ new \in Seq(SegmentsOver(R)) /\ Proper(new) /\ Len(new) >= 1
        /\ new[Len(new)].end = line.end /\ new[Len(new)].region = line.region
    <3> HIDE DEF old, line
    <3>1. new \in Seq(SegmentsOver(R))
      BY <2>3, <2>5, MergeLineCases
    <3>2. /\ Proper(new) /\ Len(new) >= 1
          /\ new[Len(new)].end = line.end /\ new[Len(new)].region = line.region
      BY <2>3, <2>5, <2>6, MergeLineSays
    <3> QED
      BY <3>1, <3>2
  <2>8. /\ Apart(new) <=> Apart(old) /\ FreeOf(old, line)
        /\ \A x \in SegmentsOver(R) :
              x.start <= x.end =>
                 (FreeOf(new, x) <=> FreeOf(old, x) /\ Separate(line, x))
    <3> HIDE DEF old, line
    <3> QED
      BY <2>3, <2>5, <2>6, MergeLineApart
  <2>9. FreeOf(old, line) <=> FreeTo(k, line)
    BY <2>3, <2>5
  <2>10. \A i : i \in 1..(k + 1) <=> i \in 1..k \/ i = k + 1
    OBVIOUS
  <2>11. ApartTo(k + 1) <=> ApartTo(k) /\ FreeTo(k, line)
    <3>1. \A i \in 1..k : i < k + 1 /\ ~(k + 1 < i)
      OBVIOUS
    <3>2. ~(k + 1 < k + 1)
      OBVIOUS
    <3> QED
      BY <2>10, <3>1, <3>2, Zenon DEF ApartTo, FreeTo
  <2>12. \A x : FreeTo(k + 1, x) <=> FreeTo(k, x) /\ Separate(line, x)
    BY <2>10, Zenon DEF FreeTo
  <2> HIDE DEF old, new
  <2> QED
    BY <2>4, <2>5, <2>7, <2>8, <2>9, <2>11, <2>12 DEF line
<1>5. \A k \in Nat : k \in Done
  <2> HIDE DEF Done
  <2> QED
    BY <1>3, <1>4, SetInduction
<1>6. Good(n)
  <2> HIDE DEF Good
  <2> QED
    BY <1>2, <1>5
<1> QED
  BY <1>1, <1>6 DEF Apart

\* Sorting neither.
LEMMA SortedApart ==
    ASSUME NEW R, NEW list \in Seq(SegmentsOver(R)), NEW t \in SortedOrders(list)
    PROVE  Apart(t) <=> Apart(list)
<1> DEFINE n == Len(list)
<1>1. n \in Nat /\ Len(t) = n
  BY SortedIsRearranged
<1>2. PICK f \in [1..n -> 1..n] :
             /\ \A i \in 1..n : t[i] = list[f[i]]
             /\ \A i, j \in 1..n : f[i] = f[j] => i = j
             /\ \A j \in 1..n : \E i \in 1..n : f[i] = j
  BY SortedIsRearranged
<1>3. \A a, b : Separate(a, b) <=> Separate(b, a)
  BY DEF Separate
<1>4. \A i, j \in 1..n : i < j \/ j < i \/ i = j
  BY <1>1
<1>5. \A i \in 1..n : f[i] \in 1..n
  OBVIOUS
<1>6. \A i, j \in 1..n : i < j => i # j
  BY <1>1
<1> HIDE DEF n
<1>7. Apart(t) <=> \A i, j \in 1..n : i # j => Separate(t[i], t[j])
  BY <1>1, <1>3, <1>4, <1>6, Zenon DEF Apart
<1>8. Apart(list) <=> \A i, j \in 1..n : i # j => Separate(list[i], list[j])
  BY <1>3, <1>4, <1>6, Zenon DEF Apart, n
<1>9. ASSUME \A i, j \in 1..n : i # j => Separate(list[i], list[j]),
             NEW i \in 1..n, NEW j \in 1..n, i # j
      PROVE  Separate(t[i], t[j])
  <2>1. f[i] # f[j]
    BY <1>2, <1>9
  <2>2. f[i] \in 1..n /\ f[j] \in 1..n
    BY <1>5
  <2>3. Separate(list[f[i]], list[f[j]])
    BY <2>1, <2>2, <1>9, Zenon
  <2>4. t[i] = list[f[i]] /\ t[j] = list[f[j]]
    BY <1>2
  <2> QED
    BY <2>3, <2>4, Zenon
<1>10. ASSUME \A i, j \in 1..n : i # j => Separate(t[i], t[j]),
              NEW i \in 1..n, NEW j \in 1..n, i # j
       PROVE  Separate(list[i], list[j])
  <2>1. PICK p \in 1..n : f[p] = i
    BY <1>2
  <2>2. PICK q \in 1..n : f[q] = j
    BY <1>2
  <2>3. p # q
    BY <2>1, <2>2, <1>10
  <2>4. Separate(t[p], t[q])
    BY <2>3, <1>10, Zenon
  <2>5. t[p] = list[i] /\ t[q] = list[j]
    BY <2>1, <2>2, <1>2
  <2> QED
    BY <2>4, <2>5, Zenon
<1> QED
  BY <1>7, <1>8, <1>9, <1>10, Zenon

\* The test of neighbours finds any overlap in segments sorted by start.
LEMMA InOrderIsApart ==
    ASSUME NEW R, NEW list \in Seq(SegmentsOver(R)), Proper(list)
    PROVE  /\ InOrder(list) => Apart(list)
           /\ (/\ Apart(list)
               /\ \A i, j \in 1..Len(list) :
                     i < j => list[i].start <= list[j].start) => InOrder(list)
<1>1. InOrder(list) => Apart(list)
  BY InOrderIsOrder DEF Ordered, Apart, Separate
<1>2. ASSUME Apart(list),
             \A i, j \in 1..Len(list) : i < j => list[i].start <= list[j].start,
             NEW i \in 1..(Len(list) - 1)
      PROVE  list[i].end < list[i + 1].start
  <2>1. i \in 1..Len(list) /\ i + 1 \in 1..Len(list) /\ i < i + 1
    OBVIOUS
  <2>2. /\ list[i].start \in Nat /\ list[i].end \in Nat
        /\ list[i + 1].start \in Nat /\ list[i + 1].end \in Nat
        /\ list[i + 1].start <= list[i + 1].end
    BY <2>1, SegmentTypes DEF Proper
  <2>3. list[i].start <= list[i + 1].start
    BY <1>2, <2>1
  <2>4. list[i].end < list[i + 1].start \/ list[i + 1].end < list[i].start
    BY <1>2, <2>1 DEF Apart, Separate
  <2> QED
    BY <2>2, <2>3, <2>4
<1> QED
  BY <1>1, <1>2 DEF InOrder, After

\* Whatever order of a list without overlaps the sort gives is in order.
LEMMA SortedInOrder ==
    ASSUME NEW R, NEW list \in Seq(SegmentsOver(R)), Proper(list),
           NEW t \in SortedOrders(list)
    PROVE  InOrder(t) <=> Apart(list)
BY SortedIsRearranged, SortedSays, SortedApart, InOrderIsApart

\* The loaders refuse a list exactly when two of its segments overlap.
LEMMA LoadOrderApart ==
    ASSUME NEW R, NEW list \in Seq(SegmentsOver(R)), Proper(list)
    PROVE  InOrder(LoadOrder(list)) <=> Apart(list)
BY SortedExists, SortedInOrder, InOrderIsApart DEF LoadOrder
=============================================================================
