---------------------------- MODULE EditorProofs ----------------------------
(***************************************************************************)
(* The source editor, for every number of addresses and every sequence of  *)
(* puts, saves, errors, kills and restarts.  What a list says of an        *)
(* address (Says of SegmentsProofs) carries the argument: loading, padding *)
(* and saving keep it, a put changes it for the range it is given, and     *)
(* RegionAt is the one thing it can be.  Tiles is the invariant of the     *)
(* list: in order, and every address is in a segment.  SavingPart, that    *)
(* what is written and what is not make up the save, says what a cut save  *)
(* leaves in the file.                                                     *)
(***************************************************************************)
EXTENDS Editor, SegmentsProofs

Texts == Regions \cup {EmptyRegion}
Stored == SegmentsOver(Texts)

-----------------------------------------------------------------------------
(* The table of a list *)

\* no two segments say different things of one address
SaysOnce(list) ==
    \A ip \in IPs : \A q, r : Says(list, ip, q) /\ Says(list, ip, r) => q = r

\* RegionAt is what some segment says of the address, or nothing.
LEMMA RegionAtSays ==
    ASSUME NEW R, NEW list \in Seq(SegmentsOver(R)), NEW ip \in IPs
    PROVE  \/ /\ RegionAt(list, ip) = EmptyRegion
              /\ \A r : ~Says(list, ip, r)
           \/ Says(list, ip, RegionAt(list, ip))
<1> DEFINE n == Len(list)
           holds == {i \in 1..n : SegContains(list[i], ip)}
           first == SelectInSeq(list, LAMBDA s : SegContains(s, ip))
<1>1. n \in Nat
  OBVIOUS
<1>2. \A i \in 1..n : \A r :
          SegSays(list[i], ip, r) <=> i \in holds /\ r = list[i].region
  BY DEF SegSays
<1>3. first = IF holds # {} THEN Min(holds) ELSE 0
  BY DEF SelectInSeq
<1>4. holds \subseteq 1..n /\ holds \subseteq Nat
  BY <1>1
<1>5. RegionAt(list, ip) = IF first = 0 THEN EmptyRegion
                                        ELSE list[first].region
  BY DEF RegionAt
<1> HIDE DEF holds, first
<1>6. CASE holds = {}
  BY <1>2, <1>3, <1>5, <1>6 DEF Says
<1>7. CASE holds # {}
  <2>1. first \in holds
    BY <1>3, <1>4, <1>7, MinIsLeast
  <2>2. first \in 1..n /\ first # 0
    BY <2>1, <1>4, <1>1
  <2>3. SegSays(list[first], ip, RegionAt(list, ip))
    BY <2>1, <2>2, <1>2, <1>5
  <2> QED
    BY <2>2, <2>3 DEF Says
<1> QED
  BY <1>6, <1>7

\* In a list that says one thing of each address, what it says is RegionAt.
LEMMA RegionAtIs ==
    ASSUME NEW R, NEW list \in Seq(SegmentsOver(R)), SaysOnce(list),
           NEW ip \in IPs, NEW r, Says(list, ip, r)
    PROVE  RegionAt(list, ip) = r
BY RegionAtSays DEF SaysOnce

\* A list in order says one thing of each address.
LEMMA OrderedOnce ==
    ASSUME NEW R, NEW list \in Seq(SegmentsOver(R)), Ordered(list)
    PROVE  SaysOnce(list)
BY OrderedSaysOnce DEF SaysOnce

\* Lists that say the same, but for empty regions, have the same table.
LEMMA SameTable ==
    ASSUME NEW R, NEW a \in Seq(SegmentsOver(R)),
           NEW S, NEW b \in Seq(SegmentsOver(S)), SaysOnce(a), SaysOnce(b),
           \A ip \in IPs : \A r : r # EmptyRegion =>
              (Says(a, ip, r) <=> Says(b, ip, r))
    PROVE  TableOf(a) = TableOf(b)
<1>1. ASSUME NEW ip \in IPs
      PROVE  RegionAt(a, ip) = RegionAt(b, ip)
  <2>1. \/ RegionAt(a, ip) = EmptyRegion
        \/ Says(a, ip, RegionAt(a, ip))
    BY RegionAtSays
  <2>2. \/ RegionAt(b, ip) = EmptyRegion
        \/ Says(b, ip, RegionAt(b, ip))
    BY RegionAtSays
  <2>3. \A r : Says(a, ip, r) => RegionAt(a, ip) = r
    BY RegionAtIs
  <2>4. \A r : Says(b, ip, r) => RegionAt(b, ip) = r
    BY RegionAtIs
  <2> QED
    BY <2>1, <2>2, <2>3, <2>4
<1> QED
  BY <1>1 DEF TableOf

-----------------------------------------------------------------------------
(* Lists that cover a range *)

\* list is in order and its segments make up the addresses from lo to hi
Tiles(list, lo, hi) ==
    /\ Proper(list) /\ Ordered(list)
    /\ \A i \in 1..Len(list) : lo <= list[i].start /\ list[i].end <= hi
    /\ \A x \in IPs : lo <= x /\ x <= hi =>
          \E i \in 1..Len(list) : SegContains(list[i], x)

\* What covers the addresses from 0 to hi is continuous.
LEMMA TilesContinuous ==
    ASSUME NEW R, NEW list \in Seq(SegmentsOver(R)),
           NEW hi \in IPs, Tiles(list, 0, hi)
    PROVE  /\ Len(list) \in Nat /\ Len(list) > 0
           /\ list[1].start = 0 /\ list[Len(list)].end = hi
           /\ \A i \in 1..Len(list) : list[i].start <= list[i].end
           /\ \A i \in 1..(Len(list) - 1) : list[i + 1].start = list[i].end + 1
<1> DEFINE n == Len(list)
<1>1. /\ n \in Nat
      /\ \A i \in 1..n : /\ list[i].start \in Nat /\ list[i].end \in Nat
                         /\ list[i].start <= list[i].end
                         /\ list[i].end <= hi
      /\ hi \in Nat /\ hi <= MaxIP
  BY SegmentTypes, MaxIPAssumption DEF Tiles, Proper, IPs
<1>2. \A i, j \in 1..n : i < j => list[i].end < list[j].start
  BY DEF Tiles, Ordered
<1>3. ASSUME NEW x \in Nat, x <= hi
      PROVE  \E i \in 1..n : list[i].start <= x /\ x <= list[i].end
  <2>1. x \in IPs /\ 0 <= x
    BY <1>3, <1>1, MaxIPAssumption DEF IPs
  <2> QED
    BY <2>1, <1>3 DEF Tiles, SegContains
<1> HIDE DEF n
<1>4. n > 0 /\ list[1].start = 0
  <2>1. PICK i \in 1..n : list[i].start <= 0 /\ 0 <= list[i].end
    BY <1>1, <1>3
  <2>2. i \in Nat /\ 1 \in 1..n /\ n > 0
    BY <1>1
  <2>3. i = 1
    <3>1. CASE 1 < i
      <4>1. list[1].end < list[i].start
        BY <3>1, <2>2, <1>2
      <4> QED
        BY <4>1, <2>1, <2>2, <1>1
    <3> QED
      BY <3>1, <2>2
  <2> QED
    BY <2>1, <2>2, <2>3, <1>1
<1>5. list[n].end = hi
  <2>1. PICK i \in 1..n : list[i].start <= hi /\ hi <= list[i].end
    BY <1>1, <1>3
  <2>2. i \in Nat /\ n \in 1..n
    BY <1>1, <1>4
  <2>3. i = n
    <3>1. CASE i < n
      <4>1. list[i].end < list[n].start
        BY <3>1, <2>2, <1>2
      <4>2. list[n].start <= list[n].end /\ list[n].end <= hi
        BY <2>2, <1>1
      <4> QED
        BY <4>1, <4>2, <2>1, <2>2, <1>1
    <3> QED
      BY <3>1, <2>2
  <2> QED
    BY <2>1, <2>2, <2>3, <1>1
<1>6. ASSUME NEW i \in 1..(n - 1)
      PROVE  list[i + 1].start = list[i].end + 1
  <2> DEFINE x == list[i].end + 1
  <2>1. i \in 1..n /\ i + 1 \in 1..n /\ i \in Nat /\ i < i + 1
    BY <1>1
  <2>2. list[i].end < list[i + 1].start
    BY <2>1, <1>2
  <2>3. /\ list[i].end \in Nat /\ list[i + 1].start \in Nat
        /\ list[i + 1].start <= hi
    <3>1. /\ list[i + 1].start \in Nat /\ list[i + 1].end \in Nat
          /\ list[i + 1].start <= list[i + 1].end /\ list[i + 1].end <= hi
      BY <2>1, <1>1
    <3> QED
      BY <3>1, <2>1, <1>1
  <2>4. x \in Nat /\ x <= hi /\ x <= list[i + 1].start
    BY <2>2, <2>3, <1>1
  <2>5. PICK k \in 1..n : list[k].start <= x /\ x <= list[k].end
    BY <2>4, <1>3
  <2>6. /\ k \in Nat /\ list[k].start \in Nat /\ list[k].end \in Nat
    BY <1>1
  <2>7. ~(k < i)
    <3>1. ASSUME k < i PROVE FALSE
      <4>1. list[k].end < list[i].start /\ list[i].start <= list[i].end
        BY <3>1, <2>1, <1>1, <1>2
      <4>2. list[i].start \in Nat
        BY <2>1, <1>1
      <4> QED
        BY <4>1, <4>2, <2>3, <2>5, <2>6
    <3> QED
      BY <3>1
  <2>8. k # i
    BY <2>3, <2>5
  <2>9. ~(i + 1 < k)
    <3>1. ASSUME i + 1 < k PROVE FALSE
      <4>1. /\ list[i + 1].end < list[k].start
            /\ list[i + 1].start <= list[i + 1].end
            /\ list[i + 1].end \in Nat
        BY <3>1, <2>1, <1>1, <1>2
      <4> QED
        BY <4>1, <2>3, <2>4, <2>5, <2>6, SMTT(30)
    <3> QED
      BY <3>1
  <2>10. k = i + 1
    BY <2>1, <2>6, <2>7, <2>8, <2>9
  <2> QED
    BY <2>3, <2>4, <2>5, <2>10
<1> QED
  BY <1>1, <1>4, <1>5, <1>6 DEF n

\* Where the elements of two lists are in their concatenation.
LEMMA ConcatItems ==
    ASSUME NEW T, NEW a \in Seq(T), NEW b \in Seq(T)
    PROVE  LET c == a \o b
           IN  /\ Len(a) \in Nat /\ Len(b) \in Nat
               /\ \A i \in 1..Len(a) : i \in 1..Len(c) /\ c[i] = a[i]
               /\ \A i \in 1..Len(b) : /\ Len(a) + i \in 1..Len(c)
                                       /\ c[Len(a) + i] = b[i]
               /\ \A i \in 1..Len(c) : \/ i \in 1..Len(a)
                                       \/ i - Len(a) \in 1..Len(b)
               /\ \A i \in 1..Len(c) : Len(a) + (i - Len(a)) = i
<1> DEFINE c == a \o b
<1>1. Len(a) \in Nat /\ Len(b) \in Nat /\ Len(c) = Len(a) + Len(b)
  BY ConcatProperties
<1>2. \A i \in 1..(Len(a) + Len(b)) :
         c[i] = IF i <= Len(a) THEN a[i] ELSE b[i - Len(a)]
  BY ConcatProperties
<1> HIDE DEF c
<1>3. ASSUME NEW i \in 1..Len(a)
      PROVE  i \in 1..Len(c) /\ c[i] = a[i]
  <2>1. i \in 1..(Len(a) + Len(b)) /\ i <= Len(a)
    BY <1>1
  <2> QED
    BY <2>1, <1>1, <1>2
<1>4. ASSUME NEW i \in 1..Len(b)
      PROVE  Len(a) + i \in 1..Len(c) /\ c[Len(a) + i] = b[i]
  <2>1. /\ Len(a) + i \in 1..(Len(a) + Len(b)) /\ ~(Len(a) + i <= Len(a))
        /\ (Len(a) + i) - Len(a) = i
    BY <1>1
  <2> QED
    BY <2>1, <1>1, <1>2
<1>5. \A i \in 1..Len(c) : /\ i \in 1..Len(a) \/ i - Len(a) \in 1..Len(b)
                           /\ Len(a) + (i - Len(a)) = i
  BY <1>1
<1> QED
  BY <1>1, <1>3, <1>4, <1>5 DEF c

\* Two lists side by side cover what they cover together.
LEMMA TilesConcat ==
    ASSUME NEW R, NEW a \in Seq(SegmentsOver(R)),
           NEW b \in Seq(SegmentsOver(R)),
           NEW lo \in Int, NEW mid \in Int, NEW hi \in Int,
           lo <= mid + 1, mid <= hi,
           Tiles(a, lo, mid), Tiles(b, mid + 1, hi)
    PROVE  /\ a \o b \in Seq(SegmentsOver(R)) /\ Tiles(a \o b, lo, hi)
           /\ \A ip : \A r : Says(a \o b, ip, r)
                                <=> Says(a, ip, r) \/ Says(b, ip, r)
<1> DEFINE c == a \o b
<1>1. /\ Proper(a) /\ Ordered(a) /\ Proper(b) /\ Ordered(b)
      /\ \A i \in 1..Len(a) : lo <= a[i].start /\ a[i].end <= mid
      /\ \A i \in 1..Len(b) : mid + 1 <= b[i].start /\ b[i].end <= hi
  BY DEF Tiles
<1>2. /\ \A i \in 1..Len(a) : a[i].start \in Nat /\ a[i].end \in Nat
      /\ \A i \in 1..Len(b) : b[i].start \in Nat /\ b[i].end \in Nat
  BY SegmentTypes
<1>3. \A i \in 1..Len(a), j \in 1..Len(b) : a[i].end < b[j].start
  <2>1. SUFFICES ASSUME NEW i \in 1..Len(a), NEW j \in 1..Len(b)
                 PROVE  a[i].end < b[j].start
    OBVIOUS
  <2> QED
    BY <1>1, <1>2
<1>4. /\ c \in Seq(SegmentsOver(R)) /\ Len(c) = Len(a) + Len(b)
      /\ Proper(c) /\ Ordered(c)
      /\ \A ip : \A r : Says(c, ip, r) <=> Says(a, ip, r) \/ Says(b, ip, r)
  BY <1>1, <1>3, ConcatSays
<1>5. /\ Len(a) \in Nat /\ Len(b) \in Nat
      /\ \A i \in 1..Len(a) : i \in 1..Len(c) /\ c[i] = a[i]
      /\ \A i \in 1..Len(b) : /\ Len(a) + i \in 1..Len(c)
                              /\ c[Len(a) + i] = b[i]
      /\ \A i \in 1..Len(c) : \/ i \in 1..Len(a)
                              \/ i - Len(a) \in 1..Len(b)
      /\ \A i \in 1..Len(c) : Len(a) + (i - Len(a)) = i
  BY ConcatItems
<1> HIDE DEF c
<1>6. ASSUME NEW i \in 1..Len(c)
      PROVE  lo <= c[i].start /\ c[i].end <= hi
  <2>1. CASE i \in 1..Len(a)
    <3>1. c[i] = a[i] /\ lo <= a[i].start /\ a[i].end <= mid
      BY <2>1, <1>1, <1>5
    <3>2. a[i].end \in Nat
      BY <2>1, <1>2
    <3> QED
      BY <3>1, <3>2
  <2>2. CASE i - Len(a) \in 1..Len(b)
    <3> DEFINE j == i - Len(a)
    <3>1. j \in 1..Len(b) /\ c[i] = b[j]
      BY <2>2, <1>5
    <3> HIDE DEF j
    <3> QED
      BY <3>1, <1>1, <1>2
  <2> QED
    BY <2>1, <2>2, <1>5
<1>7. ASSUME NEW x \in IPs, lo <= x, x <= hi
      PROVE  \E i \in 1..Len(c) : SegContains(c[i], x)
  <2>1. x \in Int
    BY MaxIPAssumption DEF IPs
  <2>2. CASE x <= mid
    BY <2>2, <1>7, <1>5 DEF Tiles
  <2>3. CASE mid + 1 <= x
    BY <2>3, <1>7, <1>5 DEF Tiles
  <2> QED
    BY <2>1, <2>2, <2>3
<1> QED
  BY <1>4, <1>6, <1>7 DEF Tiles, c

\* The same, said with the address at which the second list begins.
LEMMA TilesJoin ==
    ASSUME NEW R, NEW a \in Seq(SegmentsOver(R)),
           NEW b \in Seq(SegmentsOver(R)),
           NEW lo \in Nat, NEW m \in Nat, NEW hi \in Nat,
           lo <= m, m <= hi + 1,
           Tiles(a, lo, m - 1), Tiles(b, m, hi)
    PROVE  /\ a \o b \in Seq(SegmentsOver(R)) /\ Tiles(a \o b, lo, hi)
           /\ \A ip : \A r : Says(a \o b, ip, r)
                                <=> Says(a, ip, r) \/ Says(b, ip, r)
<1> DEFINE mid == m - 1
<1>1. mid \in Int /\ mid + 1 = m /\ lo <= mid + 1 /\ mid <= hi
  OBVIOUS
<1>2. Tiles(a, lo, mid) /\ Tiles(b, mid + 1, hi)
  <2>1. Tiles(a, lo, mid)
    OBVIOUS
  <2> HIDE DEF mid
  <2> QED
    BY <1>1, <2>1
<1>3. lo \in Int /\ hi \in Int
  OBVIOUS
<1> HIDE DEF mid
<1> QED
  BY <1>1, <1>2, <1>3, TilesConcat

\* A list without segments covers nothing.
LEMMA TilesNothing ==
    ASSUME NEW lo \in Int
    PROVE  Tiles(<<>>, lo, lo - 1)
<1>1. \A x \in IPs : ~(lo <= x /\ x <= lo - 1)
  BY MaxIPAssumption DEF IPs
<1> QED
  BY <1>1 DEF Tiles, Proper, Ordered

\* A segment covers its addresses.
LEMMA TilesOne ==
    ASSUME NEW R, NEW seg \in SegmentsOver(R), seg.start <= seg.end
    PROVE  /\ <<seg>> \in Seq(SegmentsOver(R))
           /\ Tiles(<<seg>>, seg.start, seg.end)
           /\ \A ip : \A r : Says(<<seg>>, ip, r) <=> SegSays(seg, ip, r)
<1>1. seg.start \in Nat /\ seg.end \in Nat
  BY MaxIPAssumption DEF SegmentsOver, IPs
<1>2. /\ <<seg>> \in Seq(SegmentsOver(R))
      /\ Len(<<seg>>) = 1 /\ <<seg>>[1] = seg /\ \A i \in 1..1 : i = 1
  OBVIOUS
<1>3. Proper(<<seg>>) /\ Ordered(<<seg>>)
  BY <1>2 DEF Proper, Ordered
<1>4. \A x \in IPs : seg.start <= x /\ x <= seg.end =>
         \E i \in 1..Len(<<seg>>) : SegContains(<<seg>>[i], x)
  BY <1>2 DEF SegContains
<1>5. \A ip : \A r : Says(<<seg>>, ip, r) <=> SegSays(seg, ip, r)
  BY <1>2 DEF Says
<1> QED
  BY <1>1, <1>2, <1>3, <1>4, <1>5 DEF Tiles

\* The segments before and behind one of a covering list cover the rest.
LEMMA TilesAround ==
    ASSUME NEW R, NEW list \in Seq(SegmentsOver(R)), Tiles(list, 0, MaxIP),
           NEW i \in 1..Len(list)
    PROVE  LET a == SubSeq(list, 1, i - 1)
               b == SubSeq(list, i + 1, Len(list))
           IN  /\ a \in Seq(SegmentsOver(R)) /\ b \in Seq(SegmentsOver(R))
               /\ Tiles(a, 0, list[i].start - 1)
               /\ Tiles(b, list[i].end + 1, MaxIP)
               /\ \A ip : \A r : Says(a, ip, r) \/ Says(b, ip, r)
                                    => Says(list, ip, r)
<1> DEFINE n == Len(list)
           a == SubSeq(list, 1, i - 1)
           b == SubSeq(list, i + 1, n)
<1>1. /\ n \in Nat /\ i \in Nat /\ 1 <= i /\ i <= n
  OBVIOUS
<1>2. /\ a \in Seq(SegmentsOver(R)) /\ Len(a) = i - 1
      /\ \A k \in 1..(i - 1) : a[k] = list[k]
  BY <1>1
<1>3. /\ b \in Seq(SegmentsOver(R)) /\ Len(b) = n - i
      /\ \A k \in 1..(n - i) : b[k] = list[i + k]
  BY <1>1
<1>4. /\ \A k \in 1..n : /\ list[k].start \in Nat /\ list[k].end \in Nat
                         /\ list[k].start <= list[k].end
                         /\ 0 <= list[k].start /\ list[k].end <= MaxIP
      /\ \A j, k \in 1..n : j < k => list[j].end < list[k].start
  BY SegmentTypes DEF Tiles, Proper, Ordered
<1>5. MaxIP \in Nat /\ \A x \in IPs : x \in Nat /\ 0 <= x /\ x <= MaxIP
  BY MaxIPAssumption DEF IPs
<1>6. \A x \in IPs : \E k \in 1..n : SegContains(list[k], x)
  BY <1>5 DEF Tiles
<1> HIDE DEF a, b, n
<1>7. Tiles(a, 0, list[i].start - 1)
  <2>1. \A k \in 1..(i - 1) : k \in 1..n /\ k < i /\ k \in Nat
    BY <1>1
  <2>2. Proper(a)
    BY <2>1, <1>2, <1>4 DEF Proper
  <2>5. Ordered(a)
    BY <2>1, <1>2, <1>4 DEF Ordered
  <2>3. ASSUME NEW k \in 1..(i - 1)
        PROVE  0 <= a[k].start /\ a[k].end <= list[i].start - 1
    <3>1. /\ list[k].end < list[i].start /\ list[k].end \in Nat
          /\ list[i].start \in Nat /\ 0 <= list[k].start
      BY <2>1, <1>1, <1>4
    <3> QED
      BY <3>1, <1>2
  <2>4. ASSUME NEW x \in IPs, 0 <= x, x <= list[i].start - 1
        PROVE  \E k \in 1..Len(a) : SegContains(a[k], x)
    <3>1. PICK k \in 1..n : SegContains(list[k], x)
      BY <1>6
    <3>2. /\ list[k].start <= x /\ x <= list[k].end /\ k \in Nat
          /\ list[k].start \in Nat /\ list[k].end \in Nat
          /\ list[i].start \in Nat /\ list[i].end \in Nat
          /\ list[i].start <= list[i].end
      BY <3>1, <1>1, <1>4 DEF SegContains
    <3>3. ~(i < k)
      <4>1. ASSUME i < k PROVE FALSE
        <5>1. list[i].end < list[k].start
          BY <4>1, <1>1, <1>4
        <5> QED
          BY <5>1, <3>2, <2>4, <1>5
      <4> QED
        BY <4>1
    <3>4. k # i
      BY <3>2, <2>4, <1>5
    <3>5. k \in 1..(i - 1)
      BY <3>2, <3>3, <3>4, <1>1
    <3> QED
      BY <3>1, <3>5, <1>2
  <2> QED
    BY <2>2, <2>3, <2>4, <2>5, <1>2 DEF Tiles
<1>8. Tiles(b, list[i].end + 1, MaxIP)
  <2>1. \A k \in 1..(n - i) : i + k \in 1..n /\ i < i + k /\ k \in Nat
    BY <1>1
  <2>2. Proper(b) /\ Ordered(b)
    <3>1. Proper(b)
      BY <2>1, <1>3, <1>4 DEF Proper
    <3>2. \A j, k \in 1..(n - i) : j < k => i + j < i + k
      BY <2>1, <1>1
    <3> QED
      BY <2>1, <3>1, <3>2, <1>3, <1>4 DEF Ordered
  <2>3. ASSUME NEW k \in 1..(n - i)
        PROVE  list[i].end + 1 <= b[k].start /\ b[k].end <= MaxIP
    <3>1. /\ list[i].end < list[i + k].start /\ list[i + k].end <= MaxIP
          /\ list[i].end \in Nat /\ list[i + k].start \in Nat
      BY <2>1, <1>1, <1>4
    <3> QED
      BY <3>1, <1>3
  <2>4. ASSUME NEW x \in IPs, list[i].end + 1 <= x, x <= MaxIP
        PROVE  \E k \in 1..Len(b) : SegContains(b[k], x)
    <3>1. PICK k \in 1..n : SegContains(list[k], x)
      BY <1>6
    <3>2. /\ list[k].start <= x /\ x <= list[k].end /\ k \in Nat
          /\ list[k].start \in Nat /\ list[k].end \in Nat
          /\ list[i].start \in Nat /\ list[i].end \in Nat
          /\ list[i].start <= list[i].end
      BY <3>1, <1>1, <1>4 DEF SegContains
    <3>3. ~(k < i)
      <4>1. ASSUME k < i PROVE FALSE
        <5>1. list[k].end < list[i].start
          BY <4>1, <1>1, <1>4
        <5> QED
          BY <5>1, <3>2, <2>4, <1>5
      <4> QED
        BY <4>1
    <3>4. k # i
      BY <3>2, <2>4, <1>5
    <3>5. k - i \in 1..(n - i) /\ i + (k - i) = k
      BY <3>2, <3>3, <3>4, <1>1
    <3>6. b[k - i] = list[k]
      BY <3>5, <1>3
    <3> QED
      BY <3>1, <3>5, <3>6, <1>3
  <2> QED
    BY <2>2, <2>3, <2>4, <1>3 DEF Tiles
<1>9. ASSUME NEW ip, NEW r, Says(a, ip, r) \/ Says(b, ip, r)
      PROVE  Says(list, ip, r)
  <2>1. CASE Says(a, ip, r)
    <3>1. PICK k \in 1..(i - 1) : SegSays(a[k], ip, r)
      BY <2>1, <1>2 DEF Says
    <3>2. k \in 1..n
      BY <1>1
    <3> QED
      BY <3>1, <3>2, <1>2 DEF Says, n
  <2>2. CASE Says(b, ip, r)
    <3>1. PICK k \in 1..(n - i) : SegSays(b[k], ip, r)
      BY <2>2, <1>3 DEF Says
    <3>2. i + k \in 1..n
      BY <1>1
    <3> QED
      BY <3>1, <3>2, <1>3 DEF Says, n
  <2> QED
    BY <1>9, <2>1, <2>2
<1> QED
  BY <1>2, <1>3, <1>7, <1>8, <1>9 DEF a, b, n

-----------------------------------------------------------------------------
(* Putting a segment *)

\* The types of the parts of a line of a source.
LEMMA SourceLineTypes ==
    ASSUME NEW seg \in SourceLines
    PROVE  /\ seg \in SegmentsOver(Regions) /\ seg \in Stored
           /\ seg.start \in IPs /\ seg.end \in IPs /\ seg.region \in Regions
           /\ seg.start \in Nat /\ seg.end \in Nat
           /\ seg.start <= seg.end /\ seg.end <= MaxIP
           /\ seg \in AnyLine /\ seg # BadLine /\ seg \notin OtherLines
<1>1. seg \in SegmentsOver(Regions) /\ seg.start <= seg.end
  BY LineIsSegment DEF SourceLines
<1>2. seg \in AnyLine
  BY <1>1 DEF SegmentsOver, AnyLine, AnyIP
<1>3. \A l \in OtherLines : l.start \notin IPs
  BY OtherAssumption, MaxIPAssumption DEF OtherIPs, IPs
<1>4. seg # BadLine /\ seg \notin OtherLines
  BY <1>1, <1>2, <1>3, BadLineAssumption DEF SegmentsOver
<1> QED
  BY <1>1, <1>2, <1>4, MaxIPAssumption
     DEF SegmentsOver, Stored, Texts, IPs

\* Addresses of the version are ordered, and have the neighbours, of numbers.
LEMMA OwnAddresses ==
    ASSUME NEW a \in IPs, NEW b \in IPs
    PROVE  /\ IPLess(a, b) <=> a < b
           /\ AddOne(a) = IPAddOne(a) /\ SubOne(a) = IPSubOne(a)
<1>1. a \notin OtherIPs /\ b \notin OtherIPs
  BY MaxIPAssumption, OtherAssumption DEF IPs, OtherIPs
<1> QED
  BY <1>1 DEF IPLess, AddOne, SubOne

\* A segment of the version holds what it contains.
LEMMA OwnHolds ==
    ASSUME NEW R, NEW seg \in SegmentsOver(R), NEW ip \in IPs
    PROVE  Holds(seg, ip) <=> SegContains(seg, ip)
<1>1. /\ seg.start \in IPs /\ seg.end \in IPs
      /\ seg.start \in Nat /\ seg.end \in Nat /\ ip \in Nat
  BY MaxIPAssumption DEF SegmentsOver, IPs
<1>2. IPLess(ip, seg.start) <=> ip < seg.start
  BY <1>1, OwnAddresses
<1>3. IPLess(seg.end, ip) <=> seg.end < ip
  BY <1>1, OwnAddresses
<1> QED
  BY <1>1, <1>2, <1>3 DEF Holds, SegContains

\* FirstHit and LastHit are the segments with the first and the last address.
LEMMA Hits ==
    ASSUME NEW R, NEW list \in Seq(SegmentsOver(R)), Tiles(list, 0, MaxIP),
           NEW seg \in SourceLines
    PROVE  LET i == FirstHit(list, seg)
               j == LastHit(list, seg)
           IN  /\ i \in 1..Len(list) /\ j \in 1..Len(list) /\ i <= j /\ i # 0
               /\ SegContains(list[i], seg.start)
               /\ SegContains(list[j], seg.end)
<1> DEFINE n == Len(list)
           holds == {k \in 1..n : SegContains(list[k], seg.start)}
           i == FirstHit(list, seg)
           j == LastHit(list, seg)
           reach == {k \in i..n : seg.end <= list[k].end}
<1>1. /\ seg.start \in IPs /\ seg.end \in IPs /\ seg.start <= seg.end
      /\ seg.start \in Nat /\ seg.end \in Nat /\ n \in Nat /\ MaxIP \in Nat
      /\ seg.end <= MaxIP
  BY SourceLineTypes, MaxIPAssumption
<1>2. /\ \A k \in 1..n : /\ list[k].start \in Nat /\ list[k].end \in Nat
                         /\ list[k].start <= list[k].end
      /\ \A k, l \in 1..n : k < l => list[k].end < list[l].start
  BY SegmentTypes DEF Tiles, Proper, Ordered
<1>3. \A x \in IPs : \E k \in 1..n : SegContains(list[k], x)
  BY MaxIPAssumption DEF Tiles, IPs
<1>4. i \in 1..n /\ SegContains(list[i], seg.start)
  <2>1. i = IF holds # {} THEN Min(holds) ELSE 0
    <3> DEFINE hits == {k \in 1..n : Holds(list[k], seg.start)}
    <3>1. i = IF hits # {} THEN Min(hits) ELSE 0
      BY DEF FirstHit, SelectInSeq
    <3>2. \A k \in 1..n : Holds(list[k], seg.start)
                             <=> SegContains(list[k], seg.start)
      BY <1>1, SegmentTypes, OwnHolds
    <3>3. hits = holds
      BY <3>2
    <3> HIDE DEF hits, holds, i
    <3> QED
      BY <3>1, <3>3
  <2>2. holds # {} /\ holds \subseteq Nat
    BY <1>1, <1>3
  <2> HIDE DEF i
  <2>3. i \in holds
    <3> HIDE DEF holds
    <3> QED
      BY <2>1, <2>2, MinIsLeast
  <2> QED
    BY <2>3
<1>5. j = IF reach = {} THEN n
          ELSE CHOOSE k \in reach : \A l \in reach : k <= l
  <2> DEFINE far == {k \in i..n : ~IPLess(list[k].end, seg.end)}
  <2>1. j = IF far = {} THEN n
            ELSE CHOOSE k \in far : \A l \in far : k <= l
    BY DEF LastHit
  <2>2. \A k \in i..n : k \in 1..n
    BY <1>1, <1>4
  <2>3. \A k \in i..n : ~IPLess(list[k].end, seg.end)
                           <=> seg.end <= list[k].end
    BY <2>2, <1>1, <1>2, SegmentTypes, OwnAddresses
  <2>4. far = reach
    BY <2>3
  <2> HIDE DEF far, reach, j
  <2> QED
    BY <2>1, <2>4
<1> HIDE DEF i, j, n
<1>6. PICK k \in 1..n : SegContains(list[k], seg.end)
  BY <1>1, <1>3
<1>7. /\ list[k].start <= seg.end /\ seg.end <= list[k].end
      /\ list[i].start <= seg.start /\ seg.start <= list[i].end
      /\ i \in Nat /\ k \in Nat
  BY <1>4, <1>6 DEF SegContains
<1>8. k \in reach
  <2>1. ~(k < i)
    <3>1. ASSUME k < i PROVE FALSE
      <4>1. list[k].end < list[i].start
        BY <3>1, <1>2, <1>4
      <4> QED
        BY <4>1, <1>1, <1>2, <1>4, <1>7
    <3> QED
      BY <3>1
  <2>2. k \in i..n
    BY <2>1, <1>1, <1>7
  <2> QED
    BY <2>2, <1>7
<1>9. PICK least \in reach : \A l \in reach : least <= l
  <2>1. reach \subseteq Nat
    BY <1>7
  <2> HIDE DEF reach
  <2> QED
    BY <2>1, <1>8, LeastNumber
<1>10. j \in reach /\ \A l \in reach : j <= l
  <2> HIDE DEF reach
  <2> QED
    BY <1>5, <1>8, <1>9
<1>11. /\ j \in 1..n /\ i <= j /\ j \in Nat /\ j <= k
       /\ seg.end <= list[j].end
  BY <1>1, <1>4, <1>7, <1>8, <1>10
<1>12. j = k
  <2>1. ASSUME j < k PROVE FALSE
    <3>1. list[j].end < list[k].start
      BY <2>1, <1>2, <1>11
    <3> QED
      BY <3>1, <1>1, <1>2, <1>7, <1>11
  <2> QED
    BY <2>1, <1>7, <1>11
<1> QED
  BY <1>4, <1>6, <1>7, <1>11, <1>12 DEF i, j, n

\* What is left of the first segment covers its addresses before the put.
LEMMA HeadPartTiles ==
    ASSUME NEW R, NEW head \in SegmentsOver(R), NEW seg \in SourceLines,
           SegContains(head, seg.start)
    PROVE  LET h == HeadPart(head, seg)
           IN  /\ h \in Seq(SegmentsOver(R))
               /\ Tiles(h, head.start, seg.start - 1)
               /\ \A ip \in IPs : \A r : Says(h, ip, r) => SegSays(head, ip, r)
<1> DEFINE h == HeadPart(head, seg)
           rest == Segment(head.start, IPSubOne(seg.start), head.region)
<1>1. /\ seg.start \in Nat /\ seg.start \in IPs /\ seg.start <= MaxIP
      /\ head.start \in Nat /\ head.end \in Nat /\ head.region \in R
      /\ head.start <= seg.start /\ seg.start <= head.end /\ MaxIP \in Nat
  BY SourceLineTypes, MaxIPAssumption DEF SegmentsOver, IPs, SegContains
<1> DEFINE cut == IPLess(head.start, seg.start)
<1>4. /\ cut <=> head.start < seg.start
      /\ SubOne(seg.start) = IPSubOne(seg.start)
  <2>1. head.start \in IPs
    BY DEF SegmentsOver
  <2> QED
    BY <2>1, <1>1, OwnAddresses
<1>5. h = IF cut THEN <<rest>> ELSE <<>>
  BY <1>4 DEF HeadPart
<1> HIDE DEF cut
<1>2. CASE seg.start > head.start
  <2>1. IPSubOne(seg.start) = seg.start - 1
    BY <1>1, <1>2 DEF IPSubOne
  <2>2. /\ rest.start = head.start /\ rest.end = seg.start - 1
        /\ rest.region = head.region
    BY <2>1 DEF Segment
  <2>3. rest \in SegmentsOver(R) /\ rest.start <= rest.end
    <3>1. head.start \in IPs /\ seg.start - 1 \in IPs
      BY <1>1, <1>2 DEF IPs
    <3>2. head.start <= seg.start - 1
      BY <1>1, <1>2
    <3> QED
      BY <2>1, <2>2, <3>1, <3>2, <1>1 DEF SegmentsOver, Segment
  <2>4. h = <<rest>>
    BY <1>1, <1>2, <1>4, <1>5
  <2> HIDE DEF rest, h
  <2>5. /\ <<rest>> \in Seq(SegmentsOver(R))
        /\ Tiles(<<rest>>, rest.start, rest.end)
        /\ \A ip : \A r : Says(<<rest>>, ip, r) <=> SegSays(rest, ip, r)
    BY <2>3, TilesOne
  <2>6. \A ip \in IPs : \A r : SegSays(rest, ip, r) => SegSays(head, ip, r)
    BY <2>2, <1>1 DEF SegSays, SegContains, IPs
  <2> QED
    BY <2>2, <2>4, <2>5, <2>6 DEF h
<1>3. CASE ~(seg.start > head.start)
  <2>1. h = <<>> /\ head.start = seg.start
    BY <1>1, <1>3, <1>4, <1>5
  <2>2. Tiles(<<>>, head.start, head.start - 1)
    BY <1>1, TilesNothing
  <2>3. \A ip : \A r : ~Says(<<>>, ip, r)
    BY DEF Says
  <2> QED
    BY <2>1, <2>2, <2>3
<1> QED
  BY <1>2, <1>3

\* What is left of the last segment covers its addresses behind the put.
LEMMA TailPartTiles ==
    ASSUME NEW R, NEW tail \in SegmentsOver(R), NEW seg \in SourceLines,
           SegContains(tail, seg.end)
    PROVE  LET t == TailPart(tail, seg)
           IN  /\ t \in Seq(SegmentsOver(R))
               /\ Tiles(t, seg.end + 1, tail.end)
               /\ \A ip \in IPs : \A r : Says(t, ip, r) => SegSays(tail, ip, r)
<1> DEFINE t == TailPart(tail, seg)
           rest == Segment(IPAddOne(seg.end), tail.end, tail.region)
<1>1. /\ seg.end \in Nat /\ seg.end \in IPs
      /\ tail.start \in Nat /\ tail.end \in Nat /\ tail.region \in R
      /\ tail.start <= seg.end /\ seg.end <= tail.end /\ MaxIP \in Nat
      /\ tail.end <= MaxIP
  BY SourceLineTypes, MaxIPAssumption DEF SegmentsOver, IPs, SegContains
<1> DEFINE cut == IPLess(seg.end, tail.end)
<1>4. /\ cut <=> seg.end < tail.end
      /\ AddOne(seg.end) = IPAddOne(seg.end)
  <2>1. tail.end \in IPs
    BY DEF SegmentsOver
  <2> QED
    BY <2>1, <1>1, OwnAddresses
<1>5. t = IF cut THEN <<rest>> ELSE <<>>
  BY <1>4 DEF TailPart
<1> HIDE DEF cut
<1>2. CASE seg.end < tail.end
  <2>1. IPAddOne(seg.end) = seg.end + 1
    <3>1. seg.end # MaxIP
      BY <1>1, <1>2
    <3> QED
      BY <3>1, <1>1, SuccessorInWidth
  <2>2. /\ rest.start = seg.end + 1 /\ rest.end = tail.end
        /\ rest.region = tail.region
    BY <2>1 DEF Segment
  <2>3. rest \in SegmentsOver(R) /\ rest.start <= rest.end
    <3>1. tail.end \in IPs /\ seg.end + 1 \in IPs
      BY <1>1, <1>2 DEF IPs
    <3>2. seg.end + 1 <= tail.end
      BY <1>1, <1>2
    <3> QED
      BY <2>1, <2>2, <3>1, <3>2, <1>1 DEF SegmentsOver, Segment
  <2>4. t = <<rest>>
    BY <1>2, <1>4, <1>5
  <2> HIDE DEF rest, t
  <2>5. /\ <<rest>> \in Seq(SegmentsOver(R))
        /\ Tiles(<<rest>>, rest.start, rest.end)
        /\ \A ip : \A r : Says(<<rest>>, ip, r) <=> SegSays(rest, ip, r)
    BY <2>3, TilesOne
  <2>6. \A ip \in IPs : \A r : SegSays(rest, ip, r) => SegSays(tail, ip, r)
    BY <2>2, <1>1 DEF SegSays, SegContains, IPs
  <2> QED
    BY <2>2, <2>4, <2>5, <2>6 DEF t
<1>3. CASE ~(seg.end < tail.end)
  <2>1. t = <<>> /\ tail.end = seg.end
    BY <1>1, <1>3, <1>4, <1>5
  <2> DEFINE next == seg.end + 1
  <2>4. next \in Int /\ next - 1 = seg.end
    BY <1>1
  <2>5. Tiles(<<>>, next, next - 1)
    <3> HIDE DEF next
    <3> QED
      BY <2>4, TilesNothing
  <2>2. Tiles(<<>>, seg.end + 1, seg.end)
    BY <2>4, <2>5
  <2>3. \A ip : \A r : ~Says(<<>>, ip, r)
    BY DEF Says
  <2> QED
    BY <2>1, <2>2, <2>3
<1> QED
  BY <1>2, <1>3

\* A put keeps the list a cover of all addresses, gives the addresses of the
\* segment its region, and leaves the others what they had.
LEMMA PutSays ==
    ASSUME NEW R, Regions \subseteq R,
           NEW list \in Seq(SegmentsOver(R)), Tiles(list, 0, MaxIP),
           NEW seg \in SourceLines
    PROVE  LET new == PutSegment(list, seg)
           IN  /\ new \in Seq(SegmentsOver(R)) /\ Tiles(new, 0, MaxIP)
               /\ FirstHit(list, seg) # 0
               /\ \A ip \in IPs : \A r : Says(new, ip, r) =>
                     IF SegContains(seg, ip) THEN r = seg.region
                                             ELSE Says(list, ip, r)
<1> DEFINE n == Len(list)
           i == FirstHit(list, seg)
           j == LastHit(list, seg)
           a == SubSeq(list, 1, i - 1)
           h == HeadPart(list[i], seg)
           t == TailPart(list[j], seg)
           b == SubSeq(list, j + 1, n)
           S == SegmentsOver(R)
           ah == a \o h
           ahs == ah \o <<seg>>
           ahst == ahs \o t
           new == ahst \o b
<1>1. /\ i \in 1..n /\ j \in 1..n /\ i # 0
      /\ SegContains(list[i], seg.start) /\ SegContains(list[j], seg.end)
  BY Hits
<1>2. PutSegment(list, seg) = new
  BY <1>1 DEF PutSegment
<1>3. /\ seg \in S /\ seg.start \in Nat /\ seg.end \in Nat
      /\ seg.start <= seg.end /\ seg.end <= MaxIP /\ MaxIP \in Nat
  <2>1. seg \in SegmentsOver(Regions)
    BY SourceLineTypes
  <2>2. seg \in SegmentsOver(R)
    BY <2>1 DEF SegmentsOver
  <2> QED
    BY <2>2, SourceLineTypes, MaxIPAssumption
<1>4. /\ list[i] \in S /\ list[j] \in S
      /\ list[i].start \in Nat /\ list[j].end \in Nat
      /\ list[i].start <= seg.start /\ seg.end <= list[j].end
      /\ list[j].end <= MaxIP
  <2>1. list[j].end <= MaxIP
    BY <1>1 DEF Tiles
  <2> QED
    BY <1>1, <2>1, SegmentTypes DEF SegContains
<1> HIDE DEF i, j
<1>5. /\ a \in Seq(S) /\ Tiles(a, 0, list[i].start - 1)
      /\ \A ip : \A r : Says(a, ip, r) => Says(list, ip, r)
  BY <1>1, TilesAround
<1>6. /\ b \in Seq(S) /\ Tiles(b, list[j].end + 1, MaxIP)
      /\ \A ip : \A r : Says(b, ip, r) => Says(list, ip, r)
  BY <1>1, TilesAround
<1>7. /\ h \in Seq(S) /\ Tiles(h, list[i].start, seg.start - 1)
      /\ \A ip \in IPs : \A r : Says(h, ip, r) => Says(list, ip, r)
  <2>1. /\ h \in Seq(S) /\ Tiles(h, list[i].start, seg.start - 1)
        /\ \A ip \in IPs : \A r : Says(h, ip, r) => SegSays(list[i], ip, r)
    BY <1>1, <1>4, HeadPartTiles
  <2> QED
    BY <2>1, <1>1 DEF Says
<1>8. /\ t \in Seq(S) /\ Tiles(t, seg.end + 1, list[j].end)
      /\ \A ip \in IPs : \A r : Says(t, ip, r) => Says(list, ip, r)
  <2>1. /\ t \in Seq(S) /\ Tiles(t, seg.end + 1, list[j].end)
        /\ \A ip \in IPs : \A r : Says(t, ip, r) => SegSays(list[j], ip, r)
    BY <1>1, <1>4, TailPartTiles
  <2> QED
    BY <2>1, <1>1 DEF Says
<1>9. /\ <<seg>> \in Seq(S) /\ Tiles(<<seg>>, seg.start, seg.end)
      /\ \A ip : \A r : Says(<<seg>>, ip, r) <=> SegSays(seg, ip, r)
  BY <1>3, TilesOne
<1> DEFINE p == list[i].start
           q == seg.start
           u == seg.end
           v == list[j].end
<1>10. /\ p \in Nat /\ q \in Nat /\ u \in Nat /\ v \in Nat
       /\ p <= q /\ q <= u /\ u <= v /\ v <= MaxIP
  <2>1. p \in Nat /\ v \in Nat /\ p <= q /\ u <= v /\ v <= MaxIP
    BY <1>4
  <2>2. q \in Nat /\ u \in Nat /\ q <= u
    BY <1>3
  <2> QED
    BY <2>1, <2>2
<1>11. /\ Tiles(a, 0, p - 1) /\ Tiles(h, p, q - 1) /\ Tiles(<<seg>>, q, u)
       /\ Tiles(t, u + 1, v) /\ Tiles(b, v + 1, MaxIP)
  BY <1>5, <1>6, <1>7, <1>8, <1>9
<1> HIDE DEF a, h, t, b, p, q, u, v
<1>12. /\ ah \in Seq(S) /\ Tiles(ah, 0, q - 1)
       /\ \A ip : \A r : Says(ah, ip, r) <=> Says(a, ip, r) \/ Says(h, ip, r)
  <2> DEFINE e == q - 1
             d == p - 1
  <2>1. /\ d \in Int /\ e \in Int /\ 0 \in Int /\ d + 1 = p
        /\ 0 <= d + 1 /\ d <= e
    BY <1>10
  <2>2. Tiles(a, 0, d) /\ Tiles(h, p, e)
    BY <1>11
  <2> HIDE DEF e, d
  <2>3. Tiles(h, d + 1, e)
    BY <2>1, <2>2
  <2>4. /\ ah \in Seq(S) /\ Tiles(ah, 0, e)
        /\ \A ip : \A r : Says(ah, ip, r)
                             <=> Says(a, ip, r) \/ Says(h, ip, r)
    BY <1>5, <1>7, <2>1, <2>2, <2>3, TilesConcat
  <2> QED
    BY <2>4 DEF e
<1> HIDE DEF ah
<1>13. /\ ahs \in Seq(S) /\ Tiles(ahs, 0, u)
       /\ \A ip : \A r : Says(ahs, ip, r)
                            <=> Says(ah, ip, r) \/ Says(<<seg>>, ip, r)
  <2>1. 0 \in Nat /\ 0 <= q /\ q <= u + 1 /\ q \in Nat /\ u \in Nat
    BY <1>10
  <2> QED
    BY <2>1, <1>9, <1>11, <1>12, TilesJoin
<1> HIDE DEF ahs
<1>14. /\ ahst \in Seq(S) /\ Tiles(ahst, 0, v)
       /\ \A ip : \A r : Says(ahst, ip, r)
                            <=> Says(ahs, ip, r) \/ Says(t, ip, r)
  <2>1. 0 \in Int /\ 0 <= u + 1 /\ u <= v /\ u \in Int /\ v \in Int
    BY <1>10
  <2> QED
    BY <2>1, <1>8, <1>11, <1>13, TilesConcat
<1> HIDE DEF ahst
<1>15. /\ new \in Seq(S) /\ Tiles(new, 0, MaxIP)
       /\ \A ip : \A r : Says(new, ip, r)
                            <=> Says(ahst, ip, r) \/ Says(b, ip, r)
  <2>1. /\ 0 \in Int /\ 0 <= v + 1 /\ v <= MaxIP /\ v \in Int
        /\ MaxIP \in Int
    BY <1>10, <1>3
  <2> QED
    BY <2>1, <1>6, <1>11, <1>14, TilesConcat
<1> HIDE DEF new
<1>16. ASSUME NEW ip \in IPs, NEW r, Says(new, ip, r)
       PROVE  IF SegContains(seg, ip) THEN r = seg.region
                                      ELSE Says(list, ip, r)
  <2>1. Says(list, ip, r) \/ SegSays(seg, ip, r)
    BY <1>16, <1>5, <1>6, <1>7, <1>8, <1>9, <1>12, <1>13, <1>14, <1>15
  <2>2. CASE ~SegContains(seg, ip)
    BY <2>1, <2>2 DEF SegSays
  <2>3. CASE SegContains(seg, ip)
    <3>1. Says(<<seg>>, ip, seg.region)
      BY <2>3, <1>9 DEF SegSays
    <3>2. Says(new, ip, seg.region)
      BY <3>1, <1>13, <1>14, <1>15
    <3> QED
      BY <3>2, <1>15, <1>16, <2>3, OrderedSaysOnce DEF Tiles
  <2> QED
    BY <2>2, <2>3
<1>17. PutSegment(list, seg) = new /\ FirstHit(list, seg) # 0
  BY <1>1, <1>2 DEF i
<1> QED
  BY <1>15, <1>16, <1>17

\* Of every address a covering list says something, and one thing only.
LEMMA TilesSay ==
    ASSUME NEW R, NEW list \in Seq(SegmentsOver(R)), Tiles(list, 0, MaxIP),
           NEW ip \in IPs
    PROVE  /\ Says(list, ip, RegionAt(list, ip))
           /\ \A r : Says(list, ip, r) => r = RegionAt(list, ip)
           /\ RegionAt(list, ip) \in R
<1>1. PICK i \in 1..Len(list) : SegContains(list[i], ip)
  BY MaxIPAssumption DEF Tiles, IPs
<1>2. Says(list, ip, list[i].region)
  BY <1>1 DEF Says, SegSays
<1>3. \A r : Says(list, ip, r) => RegionAt(list, ip) = r
  BY OrderedOnce, RegionAtIs DEF Tiles
<1> QED
  BY <1>2, <1>3, SegmentTypes

\* the table with the range of a line set to its region
PutLine(t, line) == Table!Override(t, line.start, line.end, line.region)

\* A put is an override of the table.
LEMMA PutTable ==
    ASSUME NEW list \in Seq(Stored), Tiles(list, 0, MaxIP),
           NEW seg \in SourceLines
    PROVE  /\ PutSegment(list, seg) \in Seq(Stored)
           /\ Tiles(PutSegment(list, seg), 0, MaxIP)
           /\ PutChangesFlag(list, seg)
           /\ TableOf(PutSegment(list, seg)) = PutLine(TableOf(list), seg)
<1> DEFINE new == PutSegment(list, seg)
<1>1. /\ new \in Seq(Stored) /\ Tiles(new, 0, MaxIP)
      /\ FirstHit(list, seg) # 0
      /\ \A ip \in IPs : \A r : Says(new, ip, r) =>
            IF SegContains(seg, ip) THEN r = seg.region ELSE Says(list, ip, r)
  <2>1. Regions \subseteq Texts
    BY DEF Texts
  <2> QED
    BY <2>1, PutSays DEF Stored
<1> HIDE DEF new
<1>2. ASSUME NEW ip \in IPs
      PROVE  RegionAt(new, ip) = IF SegContains(seg, ip) THEN seg.region
                                 ELSE RegionAt(list, ip)
  <2>1. Says(new, ip, RegionAt(new, ip))
    BY <1>1, TilesSay DEF Stored
  <2>2. \A r : Says(list, ip, r) => r = RegionAt(list, ip)
    BY TilesSay DEF Stored
  <2> QED
    BY <2>1, <2>2, <1>1
<1>3. ASSUME NEW ip \in IPs
      PROVE  ip \in seg.start..seg.end <=> SegContains(seg, ip)
  BY SourceLineTypes, MaxIPAssumption DEF SegContains, IPs
<1>4. TableOf(new) = PutLine(TableOf(list), seg)
  BY <1>2, <1>3 DEF TableOf, PutLine, Table!Override, IPs
<1> QED
  BY <1>1, <1>4 DEF PutChangesFlag, new

-----------------------------------------------------------------------------
(* Loading *)

\* A gap between two addresses covers them, and says the empty region.
LEMMA GapTiles ==
    ASSUME NEW lo \in IPs, NEW hi \in IPs, lo <= hi
    PROVE  /\ Gap(lo, hi) \in Stored
           /\ <<Gap(lo, hi)>> \in Seq(Stored)
           /\ Tiles(<<Gap(lo, hi)>>, lo, hi)
           /\ \A ip : \A r : Says(<<Gap(lo, hi)>>, ip, r) => r = EmptyRegion
<1> DEFINE g == Gap(lo, hi)
<1>1. /\ g.start = lo /\ g.end = hi /\ g.region = EmptyRegion
      /\ g \in SegmentsOver(Texts)
  BY DEF Gap, Segment, SegmentsOver, Texts
<1> HIDE DEF g
<1>2. /\ <<g>> \in Seq(SegmentsOver(Texts)) /\ Tiles(<<g>>, g.start, g.end)
      /\ \A ip : \A r : Says(<<g>>, ip, r) <=> SegSays(g, ip, r)
  BY <1>1, TilesOne
<1>3. \A ip : \A r : Says(<<g>>, ip, r) => r = EmptyRegion
  BY <1>1, <1>2 DEF SegSays
<1> QED
  BY <1>1, <1>2, <1>3 DEF g, Stored

\* What is pushed for a segment covers the addresses from the end of the one
\* before it, or from address 0, and says of them what the segment says.
LEMMA PadPart ==
    ASSUME NEW list \in Seq(Stored), Proper(list), Ordered(list),
           NEW i \in 1..Len(list)
    PROVE  LET lo == IF i = 1 THEN 0 ELSE list[i - 1].end + 1
               part == Append(PadBefore(list, i), list[i])
           IN  /\ part \in Seq(Stored) /\ Tiles(part, lo, list[i].end)
               /\ \A ip : \A r : r # EmptyRegion =>
                     (Says(part, ip, r) <=> SegSays(list[i], ip, r))
<1> DEFINE lo == IF i = 1 THEN 0 ELSE list[i - 1].end + 1
           pad == PadBefore(list, i)
           seg == list[i]
           part == pad \o <<seg>>
           m == seg.start
           hi == seg.end
<1>1. /\ seg \in Stored /\ m \in Nat /\ hi \in Nat /\ m <= hi /\ m \in IPs
      /\ hi <= MaxIP /\ MaxIP \in Nat /\ m <= MaxIP
  BY SegmentTypes, MaxIPAssumption DEF Proper, Stored, IPs
<1>2. /\ lo \in Nat /\ lo <= m
      /\ i # 1 => /\ i - 1 \in 1..Len(list) /\ list[i - 1].end \in IPs
                  /\ list[i - 1].end < m /\ lo = list[i - 1].end + 1
  <2>1. CASE i = 1
    BY <2>1, <1>1
  <2>2. CASE i # 1
    <3>1. i - 1 \in 1..Len(list) /\ i - 1 < i
      BY <2>2
    <3>2. list[i - 1].end \in IPs /\ list[i - 1].end \in Nat
      BY <3>1, SegmentTypes DEF Stored
    <3>3. list[i - 1].end < m
      BY <3>1 DEF Ordered
    <3> QED
      BY <2>2, <3>1, <3>2, <3>3, <1>1
  <2> QED
    BY <2>1, <2>2
<1>3. /\ pad \in Seq(Stored) /\ Tiles(pad, lo, m - 1)
      /\ \A ip : \A r : Says(pad, ip, r) => r = EmptyRegion
  <2> DEFINE l == lo
             e == m - 1
  <2>1. CASE lo = m
    <3>1. pad = <<>>
      <4>1. CASE i = 1
        BY <4>1, <2>1, <1>1 DEF PadBefore
      <4>2. CASE i # 1
        <5>1. IPAddOne(list[i - 1].end) = m
          <6>1. list[i - 1].end # MaxIP
            BY <4>2, <1>1, <1>2
          <6> QED
            BY <6>1, <4>2, <2>1, <1>2, SuccessorInWidth
        <5> QED
          BY <5>1, <4>2 DEF PadBefore, RightBehind
      <4> QED
        BY <4>1, <4>2
    <3>2. Tiles(<<>>, m, m - 1)
      <4>1. m \in Int
        BY <1>1
      <4> HIDE DEF m
      <4> QED
        BY <4>1, TilesNothing
    <3> HIDE DEF pad, lo, m
    <3> QED
      BY <3>1, <3>2, <2>1 DEF Says
  <2>2. CASE lo < m
    <3>1. /\ l \in IPs /\ e \in IPs /\ l <= e
      BY <2>2, <1>1, <1>2 DEF IPs
    <3>2. IPSubOne(m) = e
      BY <2>2, <1>1, <1>2 DEF IPSubOne
    <3>3. pad = <<Gap(l, e)>>
      <4>1. CASE i = 1
        BY <4>1, <3>2, <2>2, <1>1 DEF PadBefore
      <4>2. CASE i # 1
        <5>1. IPAddOne(list[i - 1].end) = l
          <6>1. list[i - 1].end # MaxIP
            BY <4>2, <1>1, <1>2
          <6> QED
            BY <6>1, <4>2, <1>2, SuccessorInWidth
        <5>2. ~RightBehind(list[i], list[i - 1])
          BY <5>1, <2>2, <1>1, <1>2 DEF RightBehind
        <5> QED
          BY <5>1, <5>2, <4>2, <3>2 DEF PadBefore
      <4> QED
        BY <4>1, <4>2
    <3> HIDE DEF pad, l, e
    <3>4. /\ pad \in Seq(Stored) /\ Tiles(pad, l, e)
          /\ \A ip : \A r : Says(pad, ip, r) => r = EmptyRegion
      BY <3>1, <3>3, GapTiles
    <3> QED
      BY <3>4 DEF l, e
  <2> QED
    BY <2>1, <2>2, <1>1, <1>2
<1>4. Append(pad, seg) = part
  <2> HIDE DEF pad, seg
  <2> QED
    BY <1>1, <1>3, AppendIsConcat
<1>5. /\ <<seg>> \in Seq(Stored) /\ Tiles(<<seg>>, m, hi)
      /\ \A ip : \A r : Says(<<seg>>, ip, r) <=> SegSays(seg, ip, r)
  <2> HIDE DEF seg
  <2> QED
    BY <1>1, TilesOne DEF Stored
<1>6. lo <= m /\ m <= hi + 1
  BY <1>1, <1>2
<1> HIDE DEF pad, seg, m, hi, lo
<1>7. /\ part \in Seq(Stored) /\ Tiles(part, lo, hi)
      /\ \A ip : \A r : Says(part, ip, r)
                           <=> Says(pad, ip, r) \/ Says(<<seg>>, ip, r)
  BY <1>1, <1>2, <1>3, <1>5, <1>6, TilesJoin DEF Stored
<1> HIDE DEF part
<1>8. \A ip : \A r : r # EmptyRegion =>
         (Says(part, ip, r) <=> SegSays(seg, ip, r))
  BY <1>3, <1>5, <1>7
<1> QED
  BY <1>4, <1>7, <1>8 DEF pad, seg, hi, lo

\* Padding a list in order makes it cover all addresses, and adds nothing to
\* what it says but empty regions.
LEMMA PadSays ==
    ASSUME NEW list \in Seq(Stored), list # <<>>, Proper(list), Ordered(list)
    PROVE  /\ PadAll(list) \in Seq(Stored) /\ Tiles(PadAll(list), 0, MaxIP)
           /\ \A ip : \A r : r # EmptyRegion =>
                 (Says(PadAll(list), ip, r) <=> Says(list, ip, r))
<1> DEFINE n == Len(list)
           parts == [i \in DOMAIN list |->
                        Append(PadBefore(list, i), list[i])]
           lo(i) == IF i = 1 THEN 0 ELSE list[i - 1].end + 1
           all == FlattenSeq(parts)
<1>1. /\ n \in Nat /\ n > 0 /\ DOMAIN list = 1..n /\ Len(parts) = n
      /\ MaxIP \in Nat /\ MaxIP \in IPs
  BY MaxIPAssumption DEF IPs
<1>2. \A i \in 1..n : /\ list[i] \in Stored /\ list[i].end \in IPs
                      /\ list[i].end \in Nat /\ list[i].end <= MaxIP
                      /\ list[i].start \in Nat
                      /\ list[i].start <= list[i].end
  BY SegmentTypes, MaxIPAssumption DEF Stored, Proper, IPs
<1>3. \A i \in 1..n :
         /\ parts[i] \in Seq(Stored) /\ Tiles(parts[i], lo(i), list[i].end)
         /\ \A ip : \A r : r # EmptyRegion =>
               (Says(parts[i], ip, r) <=> SegSays(list[i], ip, r))
  <2>1. \A i \in 1..n : parts[i] = Append(PadBefore(list, i), list[i])
    BY <1>1
  <2> HIDE DEF parts
  <2> QED
    BY <2>1, PadPart, ZenonT(60)
<1> HIDE DEF parts
<1>4. PICK F : /\ FlattenSeq(parts) = F[n]
               /\ F[1] = parts[1]
               /\ \A i \in 1..(n - 1) : F[i + 1] = F[i] \o parts[i + 1]
  BY <1>1, FlattenSteps
<1> DEFINE Good(k) == /\ F[k] \in Seq(Stored) /\ Tiles(F[k], 0, list[k].end)
                      /\ \A ip : \A r : r # EmptyRegion =>
                            (Says(F[k], ip, r) <=>
                                \E i \in 1..k : SegSays(list[i], ip, r))
           Done == {k \in Nat : k \in 1..n => Good(k)}
<1> HIDE DEF n
<1>5. 0 \in Done
  <2> HIDE DEF Good
  <2> QED
    OBVIOUS
<1>6. ASSUME NEW k \in Nat, k \in Done
      PROVE  k + 1 \in Done
  <2>1. SUFFICES ASSUME k + 1 \in 1..n
                 PROVE  Good(k + 1)
    <3> HIDE DEF Good
    <3> QED
      OBVIOUS
  <2>2. CASE k = 0
    <3>1. k + 1 = 1 /\ 1 \in 1..n
      BY <2>1, <2>2
    <3>2. Good(1)
      <4>1. lo(1) = 0
        OBVIOUS
      <4>2. \A i \in 1..1 : i = 1
        OBVIOUS
      <4>3. 1 \in 1..1
        OBVIOUS
      <4> HIDE DEF lo
      <4> QED
        BY <1>3, <1>4, <3>1, <4>1, <4>2, <4>3
    <3> HIDE DEF Good
    <3> QED
      BY <3>1, <3>2
  <2>3. CASE k # 0
    <3> DEFINE l == k + 1
               mid == list[k].end
    <3>1. k \in 1..n /\ k \in 1..(n - 1) /\ l \in 1..n /\ l # 1 /\ l - 1 = k
          /\ k < l
      BY <2>1, <2>3, <1>1
    <3>2. Good(k)
      <4> HIDE DEF Good
      <4> QED
        BY <3>1, <1>6
    <3>3. F[l] = F[k] \o parts[l]
      BY <3>1, <1>4
    <3>4. lo(l) = mid + 1
      BY <3>1
    <3>5. mid \in Nat /\ list[l].end \in Nat /\ mid <= list[l].end
      <4>1. list[k].end < list[l].start
        BY <3>1 DEF Ordered, n
      <4> QED
        BY <4>1, <3>1, <1>2
    <3>6. /\ 0 \in Int /\ mid \in Int /\ list[l].end \in Int /\ 0 <= mid + 1
      BY <3>5
    <3>7. /\ parts[l] \in Seq(Stored)
          /\ Tiles(parts[l], mid + 1, list[l].end)
          /\ \A ip : \A r : r # EmptyRegion =>
                (Says(parts[l], ip, r) <=> SegSays(list[l], ip, r))
      <4> HIDE DEF lo, mid, l
      <4> QED
        BY <3>1, <3>4, <1>3
    <3>8. F[k] \in Seq(Stored) /\ Tiles(F[k], 0, mid)
      BY <3>2
    <3> HIDE DEF lo, mid
    <3>9. /\ F[l] \in Seq(Stored) /\ Tiles(F[l], 0, list[l].end)
          /\ \A ip : \A r : Says(F[l], ip, r)
                               <=> Says(F[k], ip, r) \/ Says(parts[l], ip, r)
      <4> HIDE DEF l, Good
      <4> QED
        BY <3>3, <3>5, <3>6, <3>7, <3>8, TilesConcat DEF Stored
    <3>10. ASSUME NEW ip, NEW r, r # EmptyRegion
           PROVE  Says(F[l], ip, r)
                     <=> \E i \in 1..l : SegSays(list[i], ip, r)
      <4>1. Says(F[k], ip, r) <=> \E i \in 1..k : SegSays(list[i], ip, r)
        BY <3>2, <3>10
      <4>2. Says(parts[l], ip, r) <=> SegSays(list[l], ip, r)
        BY <3>7, <3>10
      <4>3. \A i : i \in 1..l <=> i \in 1..k \/ i = l
        BY <3>1
      <4> HIDE DEF l
      <4> QED
        BY <3>9, <4>1, <4>2, <4>3
    <3>11. Good(l)
      <4> HIDE DEF l
      <4> QED
        BY <3>9, <3>10
    <3> HIDE DEF Good
    <3> QED
      BY <3>11
  <2> QED
    BY <2>2, <2>3
<1>7. Good(n)
  <2> HIDE DEF Done
  <2>1. \A k \in Nat : k \in Done
    BY <1>5, <1>6, SetInduction
  <2>2. n \in Done
    BY <2>1, <1>1
  <2> HIDE DEF Good
  <2>3. n \in 1..n
    BY <1>1
  <2> QED
    BY <2>2, <2>3 DEF Done
<1> DEFINE e == list[n].end
<1>8. /\ all \in Seq(Stored) /\ Tiles(all, 0, e)
      /\ \A ip : \A r : r # EmptyRegion =>
            (Says(all, ip, r) <=> Says(list, ip, r))
  BY <1>4, <1>7 DEF Says, n
<1>9. e \in IPs /\ e \in Nat /\ e <= MaxIP
  BY <1>1, <1>2
<1>10. PadAll(list) = PadTail(all)
  BY DEF PadAll, parts
<1> HIDE DEF all, e, Good
<1>11. all # <<>> /\ Last(all).end = e
  BY <1>8, <1>9, TilesContinuous DEF Last, Stored
<1>12. CASE MaxIP > e
  <2> DEFINE g == Gap(e + 1, MaxIP)
  <2>1. PadTail(all) = Append(all, g)
    <3>1. IPAddOne(e) = e + 1
      BY <1>9, <1>12, <1>1, SuccessorInWidth
    <3> QED
      BY <3>1, <1>11, <1>12 DEF PadTail
  <2>2. e + 1 \in IPs /\ e + 1 <= MaxIP
    BY <1>1, <1>9, <1>12 DEF IPs
  <2>3. /\ g \in Stored /\ <<g>> \in Seq(Stored)
        /\ Tiles(<<g>>, e + 1, MaxIP)
        /\ \A ip : \A r : Says(<<g>>, ip, r) => r = EmptyRegion
    BY <1>1, <2>2, GapTiles
  <2> HIDE DEF g
  <2>4. /\ 0 \in Int /\ e \in Int /\ MaxIP \in Int
        /\ 0 <= e + 1 /\ e <= MaxIP
    BY <1>1, <1>9
  <2>5. /\ all \o <<g>> \in Seq(Stored) /\ Tiles(all \o <<g>>, 0, MaxIP)
        /\ \A ip : \A r : Says(all \o <<g>>, ip, r)
                             <=> Says(all, ip, r) \/ Says(<<g>>, ip, r)
    BY <1>8, <2>3, <2>4, TilesConcat DEF Stored
  <2>6. Append(all, g) = all \o <<g>>
    BY <1>8, <2>3, AppendIsConcat
  <2> QED
    BY <1>8, <1>10, <2>1, <2>3, <2>5, <2>6
<1>13. CASE ~(MaxIP > e)
  <2>1. e = MaxIP
    BY <1>1, <1>9, <1>13
  <2>2. PadTail(all) = all
    BY <1>11, <1>13 DEF PadTail
  <2> QED
    BY <1>8, <1>10, <2>1, <2>2
<1> QED
  BY <1>12, <1>13

\* Nothing is padded when nothing was loaded.
LEMMA PadNothing == PadAll(<<>>) = <<>>
<1> DEFINE parts == [i \in DOMAIN <<>> |->
                        Append(PadBefore(<<>>, i), <<>>[i])]
<1>1. parts \in Seq({}) /\ Len(parts) = 0
  OBVIOUS
<1>2. parts = <<>>
  BY <1>1
<1>3. PadTail(<<>>) = <<>>
  BY DEF PadTail
<1>4. FlattenSeq(<<>>) = <<>>
  <2>1. Len(<<>>) = 0
    OBVIOUS
  <2> QED
    BY <2>1, Zenon DEF FlattenSeq
<1> HIDE DEF parts
<1> QED
  BY <1>2, <1>3, <1>4 DEF PadAll, parts

-----------------------------------------------------------------------------
(* Merging lines *)

\* Segments with a region and a start before their end are lines of a source.
LEMMA SegmentIsLine ==
    ASSUME NEW seg \in SegmentsOver(Regions), seg.start <= seg.end
    PROVE  seg \in SourceLines
<1>1. /\ seg.start \in IPs /\ seg.end \in IPs /\ seg.region \in Regions
      /\ seg = [start |-> seg.start, end |-> seg.end, region |-> seg.region]
  BY DEF SegmentsOver
<1>2. seg = Segment(seg.start, seg.end, seg.region)
  BY <1>1 DEF Segment
<1>3. seg \in Line
  <2> DEFINE a == seg.start
             b == seg.end
             c == seg.region
  <2>1. a \in IPs /\ b \in IPs /\ c \in Regions /\ seg = Segment(a, b, c)
    BY <1>1, <1>2
  <2> HIDE DEF a, b, c
  <2> QED
    BY <2>1 DEF Line
<1> QED
  BY <1>3 DEF SourceLines

\* The lines of a source are segments, their starts before their ends.
LEMMA LinesAreSegments ==
    ASSUME NEW lines \in Seq(SourceLines)
    PROVE  lines \in Seq(SegmentsOver(Regions)) /\ Proper(lines)
<1>1. \A i \in 1..Len(lines) : lines[i] \in SourceLines
  OBVIOUS
<1>2. \A i \in 1..Len(lines) : /\ lines[i] \in SegmentsOver(Regions)
                               /\ lines[i].start <= lines[i].end
  BY <1>1, SourceLineTypes
<1> QED
  BY <1>2 DEF Proper

\* And a list of such segments is one of lines.
LEMMA ProperAreLines ==
    ASSUME NEW list \in Seq(SegmentsOver(Regions)), Proper(list)
    PROVE  list \in Seq(SourceLines)
<1>1. \A i \in 1..Len(list) : list[i] \in SegmentsOver(Regions)
  OBVIOUS
<1>2. \A i \in 1..Len(list) : list[i] \in SourceLines
  BY <1>1, SegmentIsLine DEF Proper
<1> QED
  BY <1>2

\* Merging lines in order leaves them in order.
LEMMA MergeInOrder ==
    ASSUME NEW R, NEW lines \in Seq(SegmentsOver(R)),
           Proper(lines), Ordered(lines)
    PROVE  NoSeam(lines) /\ InOrder(MergeLines(lines))
<1> DEFINE n == Len(lines)
<1>1. n \in Nat
  OBVIOUS
<1>2. \A i \in 1..n : /\ lines[i].start \in Nat /\ lines[i].end \in Nat
                      /\ lines[i] \in SegmentsOver(R)
  BY SegmentTypes
<1>3. \A i \in 1..(n - 1) : /\ i \in 1..n /\ i + 1 \in 1..n
                            /\ lines[i].end < lines[i + 1].start
  <2>1. \A i \in 1..(n - 1) : i \in 1..n /\ i + 1 \in 1..n /\ i < i + 1
    BY <1>1
  <2> QED
    BY <2>1 DEF Ordered
<1>4. NoSeam(lines)
  <2>1. ASSUME NEW i \in 1..(n - 1), Seam(lines[i], lines[i + 1])
        PROVE  FALSE
    <3>1. lines[i].end < 0 /\ lines[i].end \in Nat
      BY <2>1, <1>2, <1>3 DEF Seam
    <3> QED
      BY <3>1
  <2> QED
    BY <2>1 DEF NoSeam
<1>5. PICK M : /\ M[0] = <<>>
               /\ \A k \in 1..n : M[k] = MergeLine(M[k - 1], lines[k])
               /\ MergeLines(lines) = M[n]
  BY MergeSteps
<1> DEFINE Good(k) == /\ M[k] \in Seq(SegmentsOver(R))
                      /\ \A i \in 1..(Len(M[k]) - 1) :
                            M[k][i].end < M[k][i + 1].start
                      /\ Len(M[k]) > 0 =>
                            k > 0 /\ M[k][Len(M[k])].end = lines[k].end
           Done == {k \in Nat : k <= n => Good(k)}
<1> HIDE DEF n
<1>6. 0 \in Done
  <2>1. Len(<<>>) = 0 /\ <<>> \in Seq(SegmentsOver(R))
    OBVIOUS
  <2>2. Good(0)
    BY <1>5, <2>1
  <2> HIDE DEF Good
  <2> QED
    BY <2>2
<1>7. ASSUME NEW k \in Nat, k \in Done
      PROVE  k + 1 \in Done
  <2>1. SUFFICES ASSUME k + 1 <= n
                 PROVE  Good(k + 1)
    <3> HIDE DEF Good
    <3> QED
      OBVIOUS
  <2> DEFINE old == M[k]
             new == M[k + 1]
             line == lines[k + 1]
             c == Len(old)
  <2>2. Good(k)
    <3> HIDE DEF Good
    <3> QED
      BY <1>1, <1>7, <2>1
  <2>3. /\ k + 1 \in 1..n /\ line \in SegmentsOver(R)
        /\ line.start \in Nat /\ line.end \in Nat
    BY <1>1, <1>2, <2>1
  <2>4. new = MergeLine(old, line)
    <3>1. (k + 1) - 1 = k
      OBVIOUS
    <3> QED
      BY <1>5, <2>3, <3>1
  <2>5. /\ old \in Seq(SegmentsOver(R)) /\ c \in Nat
        /\ \A i \in 1..(c - 1) : old[i].end < old[i + 1].start
        /\ c > 0 => k > 0 /\ old[c].end = lines[k].end
    BY <2>2
  <2> HIDE DEF old, new, line, Good
  <2>6. /\ new \in Seq(SegmentsOver(R))
        /\ \/ /\ c >= 1 /\ Len(new) = c
              /\ \A i \in 1..(c - 1) : new[i] = old[i]
              /\ new[c].start = old[c].start
              /\ new[c].end = line.end
           \/ /\ Len(new) = c + 1
              /\ \A i \in 1..c : new[i] = old[i]
              /\ new[c + 1] = line
    <3> DEFINE merged == MergeLine(old, line)
    <3>1. /\ merged \in Seq(SegmentsOver(R))
          /\ \/ /\ c >= 1 /\ Len(merged) = c
                /\ \A i \in 1..(c - 1) : merged[i] = old[i]
                /\ merged[c].start = old[c].start
                /\ merged[c].end = line.end
             \/ /\ Len(merged) = c + 1
                /\ \A i \in 1..c : merged[i] = old[i]
                /\ merged[c + 1] = line
      BY <2>3, <2>5, MergeLineCases
    <3>2. merged = new
      BY <2>4
    <3> HIDE DEF merged, c
    <3> QED
      BY <3>1, <3>2
  <2> HIDE DEF c
  <2>7. Len(new) > 0 /\ new[Len(new)].end = line.end
    BY <2>5, <2>6
  <2>8. ASSUME NEW i \in 1..(Len(new) - 1)
        PROVE  new[i].end < new[i + 1].start
    <3>1. CASE Len(new) = c
      <4>1. /\ i \in 1..(c - 1) /\ new[i] = old[i]
            /\ old[i].end < old[i + 1].start
        BY <3>1, <2>5, <2>6
      <4>2. new[i + 1].start = old[i + 1].start
        <5>1. CASE i + 1 = c
          BY <5>1, <3>1, <2>5, <2>6
        <5>2. CASE i + 1 # c
          <6>1. i + 1 \in 1..(c - 1)
            BY <4>1, <5>2, <2>5
          <6> QED
            BY <6>1, <3>1, <2>5, <2>6
        <5> QED
          BY <5>1, <5>2
      <4> QED
        BY <4>1, <4>2
    <3>2. CASE Len(new) = c + 1
      <4>1. /\ \A l \in 1..c : new[l] = old[l]
            /\ new[c + 1] = line
        BY <3>2, <2>5, <2>6
      <4>2. CASE i = c
        <5>1. c > 0 /\ k > 0 /\ old[c].end = lines[k].end
          BY <4>2, <2>5
        <5>2. k \in 1..(n - 1)
          BY <5>1, <2>3, <1>1
        <5>3. lines[k].end < line.start
          BY <5>2, <1>3 DEF line
        <5>4. c \in 1..c
          BY <5>1, <2>5
        <5> QED
          BY <4>1, <4>2, <5>1, <5>3, <5>4
      <4>3. CASE i # c
        <5>1. i \in 1..(c - 1) /\ i \in 1..c /\ i + 1 \in 1..c
          BY <3>2, <4>3, <2>5
        <5> QED
          BY <5>1, <4>1, <2>5
      <4> QED
        BY <4>2, <4>3
    <3> QED
      BY <3>1, <3>2, <2>6
  <2> QED
    BY <2>6, <2>7, <2>8 DEF Good, new, line
<1>8. \A k \in Nat : k \in Done
  <2> HIDE DEF Done
  <2> QED
    BY <1>6, <1>7, SetInduction
<1>9. Good(n)
  <2> HIDE DEF Good
  <2> QED
    BY <1>1, <1>8
<1>10. InOrder(M[n])
  BY <1>9 DEF InOrder, After
<1> QED
  BY <1>4, <1>5, <1>10

\* What the sources are taken to be: no two lines meet at the seam between
\* the last address and address 0, and those that load are in order.
Sound(lines) ==
    /\ NoSeam(lines)
    /\ NoOverlap(Loaded(lines)) => InOrder(Loaded(lines))

\* Opening a sound source that loads gives a list that covers all addresses
\* and has the table of the source.
LEMMA OpenSays ==
    ASSUME NEW lines \in Seq(SourceLines), Sound(lines), Loads(lines),
           Loaded(lines) # <<>>
    PROVE  LET list == PadAll(Loaded(lines))
           IN  /\ list \in Seq(Stored) /\ Tiles(list, 0, MaxIP)
               /\ TableOf(list) = TableOf(lines)
<1> DEFINE merged == MergeLines(lines)
           loaded == Loaded(lines)
           list == PadAll(loaded)
<1>1. lines \in Seq(SegmentsOver(Regions)) /\ Proper(lines) /\ NoSeam(lines)
  BY LinesAreSegments DEF Sound
<1>2. /\ merged \in Seq(SegmentsOver(Regions)) /\ Proper(merged)
      /\ \A ip \in IPs : \A r : Says(merged, ip, r) <=> Says(lines, ip, r)
  BY <1>1, MergeType, MergeSays
<1>3. /\ loaded \in Seq(SegmentsOver(Regions)) /\ Proper(loaded)
      /\ \A ip : \A r : Says(loaded, ip, r) <=> Says(merged, ip, r)
  <2> HIDE DEF merged
  <2> QED
    BY <1>2, LoadOrderSays DEF Loaded, merged
<1>4. InOrder(loaded)
  BY DEF Loads, Sound
<1> HIDE DEF merged, loaded
<1>5. Ordered(loaded)
  BY <1>3, <1>4, InOrderIsOrder
<1>6. loaded \in Seq(Stored)
  <2>1. SegmentsOver(Regions) \subseteq Stored
    BY DEF SegmentsOver, Stored, Texts
  <2> HIDE DEF Stored
  <2> QED
    BY <1>3, <2>1
<1>7. loaded # <<>>
  BY DEF loaded
<1>8. /\ list \in Seq(Stored) /\ Tiles(list, 0, MaxIP)
      /\ \A ip : \A r : r # EmptyRegion =>
            (Says(list, ip, r) <=> Says(loaded, ip, r))
  BY <1>3, <1>5, <1>6, <1>7, PadSays
<1> HIDE DEF list
<1>9. SaysOnce(list)
  BY <1>8, OrderedOnce DEF Tiles, Stored
<1>10. SaysOnce(lines)
  <2>1. SaysOnce(loaded)
    BY <1>3, <1>5, OrderedOnce
  <2> QED
    BY <2>1, <1>2, <1>3 DEF SaysOnce
<1>11. \A ip \in IPs : \A r : r # EmptyRegion =>
          (Says(list, ip, r) <=> Says(lines, ip, r))
  BY <1>2, <1>3, <1>8
<1>12. TableOf(list) = TableOf(lines)
  BY <1>1, <1>8, <1>9, <1>10, <1>11, SameTable DEF Stored
<1> QED
  BY <1>8, <1>12 DEF list, loaded

\* A source without a segment gives an empty list, has the table of that, and
\* is in order.
LEMMA OpenNothing ==
    ASSUME NEW lines \in Seq(SourceLines), Sound(lines),
           Loaded(lines) = <<>>
    PROVE  /\ PadAll(Loaded(lines)) = <<>> /\ TableOf(lines) = TableOf(<<>>)
           /\ InOrder(MergeLines(lines))
<1> DEFINE merged == MergeLines(lines)
<1>1. lines \in Seq(SegmentsOver(Regions)) /\ Proper(lines) /\ NoSeam(lines)
  BY LinesAreSegments DEF Sound
<1>2. /\ merged \in Seq(SegmentsOver(Regions))
      /\ \A ip \in IPs : \A r : Says(merged, ip, r) <=> Says(lines, ip, r)
  BY <1>1, MergeType, MergeSays
<1>3. Len(merged) = 0
  <2> HIDE DEF merged
  <2>1. Len(LoadOrder(merged)) = Len(merged)
    BY <1>2, LoadOrderSays
  <2>2. LoadOrder(merged) = <<>>
    BY DEF Loaded, merged
  <2> QED
    BY <2>1, <2>2
<1>4. \A ip \in IPs : \A r : ~Says(lines, ip, r)
  BY <1>2, <1>3 DEF Says
<1>5. /\ <<>> \in Seq(SegmentsOver(Regions))
      /\ \A ip : \A r : ~Says(<<>>, ip, r)
  BY DEF Says
<1>6. TableOf(lines) = TableOf(<<>>)
  BY <1>1, <1>4, <1>5, SameTable DEF SaysOnce
<1>7. InOrder(merged)
  BY <1>3 DEF InOrder
<1> QED
  BY <1>6, <1>7, PadNothing

\* Lines in order are sound, and load.
LEMMA OrderedLoads ==
    ASSUME NEW lines \in Seq(SourceLines), Ordered(lines)
    PROVE  Sound(lines) /\ Loads(lines)
<1>1. lines \in Seq(SegmentsOver(Regions)) /\ Proper(lines)
  BY LinesAreSegments
<1>2. NoSeam(lines) /\ InOrder(MergeLines(lines))
  BY <1>1, MergeInOrder
<1>3. Loaded(lines) = MergeLines(lines)
  BY <1>2 DEF Loaded, LoadOrder
<1>4. NoOverlap(Loaded(lines))
  BY <1>2, <1>3 DEF NoOverlap, InOrder
<1>5. \A i \in DOMAIN lines : Parses(lines[i]) /\ lines[i].start \in IPs
  <2>1. \A i \in DOMAIN lines : lines[i] \in SourceLines
    OBVIOUS
  <2>2. \A i \in DOMAIN lines : /\ lines[i].start <= lines[i].end
                                /\ lines[i].region \in Regions
                                /\ lines[i].start \in IPs
                                /\ lines[i].end \in IPs
                                /\ lines[i] # BadLine
    BY <2>1, SourceLineTypes
  <2> QED
    BY <2>2, RegionAssumption DEF Parses
<1> QED
  BY <1>2, <1>3, <1>4, <1>5 DEF Sound, Loads

-----------------------------------------------------------------------------
(* put_file *)

\* the lines before the first one that does not parse
GoodLines(lines) ==
    LET bad == SelectInSeq(lines, LAMBDA l : l = BadLine)
    IN  IF bad = 0 THEN lines ELSE SubSeq(lines, 1, bad - 1)

\* Merging lines of the version gives such lines.
LEMMA MergedLines ==
    ASSUME NEW lines \in Seq(SourceLines), NoSeam(lines)
    PROVE  MergeLines(lines) \in Seq(SourceLines)
<1> DEFINE merged == MergeLines(lines)
<1>1. lines \in Seq(SegmentsOver(Regions)) /\ Proper(lines)
  BY LinesAreSegments
<1>2. merged \in Seq(SegmentsOver(Regions)) /\ Proper(merged)
  BY <1>1, MergeType, MergeSays
<1> HIDE DEF merged
<1> QED
  BY <1>2, ProperAreLines DEF merged

\* The least place of an element of some kind is the first.
LEMMA FirstOfKind ==
    ASSUME NEW T, NEW s \in Seq(T), NEW K,
           NEW hits \in SUBSET (1..Len(s)),
           \A i \in 1..Len(s) : i \in hits <=> s[i] \in K,
           NEW k, k = IF hits # {} THEN Min(hits) ELSE 0
    PROVE  /\ k \in 0..Len(s)
           /\ k = 0 => \A i \in 1..Len(s) : s[i] \notin K
           /\ k # 0 => /\ s[k] \in K
                       /\ \A i \in 1..(k - 1) : s[i] \notin K
<1> DEFINE n == Len(s)
<1>1. k = IF hits # {} THEN Min(hits) ELSE 0
  OBVIOUS
<1>2. n \in Nat /\ hits \subseteq 1..n /\ hits \subseteq Nat
  OBVIOUS
<1>3. \A i \in 1..n : i \in hits <=> s[i] \in K
  OBVIOUS
<1> HIDE DEF n
<1>4. CASE hits = {}
  BY <1>1, <1>2, <1>3, <1>4 DEF n
<1>5. CASE hits # {}
  <2>0. Min(hits) \in hits /\ \A i \in hits : Min(hits) <= i
    BY <1>2, <1>5, MinIsLeast
  <2>1. k \in hits /\ \A i \in hits : k <= i
    BY <1>1, <1>5, <2>0
  <2>2. k \in 1..n /\ k \in Nat /\ k # 0
    BY <2>1, <1>2
  <2>3. \A i \in 1..(k - 1) : i \in 1..n /\ ~(k <= i)
    BY <2>2, <1>2
  <2>4. \A i \in 1..(k - 1) : i \notin hits
    BY <2>1, <2>3
  <2>5. s[k] \in K /\ k \in 0..n
    BY <2>1, <2>2, <1>3
  <2>6. \A i \in 1..(k - 1) : s[i] \notin K
    BY <2>3, <2>4, <1>3
  <2> QED
    BY <2>2, <2>5, <2>6 DEF n
<1> QED
  BY <1>4, <1>5

\* A part of a list.
LEMMA PartOf ==
    ASSUME NEW T, NEW S, NEW s \in Seq(T), NEW lo \in Nat, NEW hi \in Nat,
           1 <= lo, hi <= Len(s), \A i \in lo..hi : s[i] \in S, NoSeam(s)
    PROVE  /\ SubSeq(s, lo, hi) \in Seq(S)
           /\ NoSeam(SubSeq(s, lo, hi))
<1> DEFINE part == SubSeq(s, lo, hi)
           m == IF lo <= hi THEN hi - lo + 1 ELSE 0
<1>1. m \in Nat
  OBVIOUS
<1>2. /\ Len(part) = m
      /\ \A i \in 1..m : part[i] = s[lo + i - 1]
      /\ part \in Seq(T)
  OBVIOUS
<1>3. \A i \in 1..m : lo + i - 1 \in lo..hi
  OBVIOUS
<1> HIDE DEF part, m
<1>4. \A i \in 1..m : part[i] \in S
  BY <1>2, <1>3
<1>5. part \in Seq(S)
  BY <1>2, <1>4
<1>6. ASSUME NEW i \in 1..(m - 1)
      PROVE  ~Seam(part[i], part[i + 1])
  <2> DEFINE j == lo + i - 1
  <2>1. i \in 1..m /\ i + 1 \in 1..m /\ lo + (i + 1) - 1 = j + 1
    BY <1>1
  <2>2. part[i] = s[j] /\ part[i + 1] = s[j + 1]
    BY <2>1, <1>2
  <2>3. j \in lo..hi /\ j + 1 \in lo..hi
    BY <2>1, <1>3
  <2>4. j \in 1..(Len(s) - 1)
    BY <2>3
  <2> HIDE DEF j
  <2> QED
    BY <2>2, <2>4 DEF NoSeam
<1>7. NoSeam(part)
  BY <1>2, <1>6 DEF NoSeam
<1> QED
  BY <1>5, <1>7 DEF part

AnyLines == SourceLines \cup OtherLines

\* The lines of a put file before the first that does not parse are lines of
\* either version, at most one of the other.
LEMMA GoodLinesType ==
    ASSUME NEW lines \in PutFiles
    PROVE  LET good == GoodLines(lines)
           IN  /\ good \in Seq(AnyLines)
               /\ \A i, j \in 1..Len(good) :
                     good[i] \in OtherLines /\ good[j] \in OtherLines => i = j
<1> DEFINE n == Len(lines)
           good == GoodLines(lines)
           bad == SelectInSeq(lines, LAMBDA l : l = BadLine)
<1>1. /\ lines \in Seq(AnyLines \cup {BadLine}) /\ n \in Nat
      /\ \A i \in 1..n : lines[i] \in AnyLines \/ lines[i] = BadLine
      /\ \A i, j \in 1..n :
            lines[i] \in OtherLines /\ lines[j] \in OtherLines => i = j
  <2>1. lines \in Seq(AnyLines \cup {BadLine})
    BY PutFilesAssumption DEF AnyLines
  <2>2. n \in Nat /\ DOMAIN lines = 1..n
    BY <2>1
  <2>3. \A i, j \in DOMAIN lines :
            lines[i] \in OtherLines /\ lines[j] \in OtherLines => i = j
    BY PutFilesAssumption
  <2>4. \A i \in 1..n : lines[i] \in AnyLines \/ lines[i] = BadLine
    BY <2>1
  <2> QED
    BY <2>1, <2>2, <2>3, <2>4
<1>3. /\ bad \in 0..n
      /\ bad = 0 => \A i \in 1..n : lines[i] # BadLine
      /\ bad # 0 => \A i \in 1..(bad - 1) : lines[i] # BadLine
  <2> DEFINE K == {BadLine}
             hits == {i \in 1..n : lines[i] = BadLine}
  <2>1. bad = IF hits # {} THEN Min(hits) ELSE 0
    BY DEF SelectInSeq
  <2>2. /\ hits \in SUBSET (1..n)
        /\ \A i \in 1..n : i \in hits <=> lines[i] \in K
        /\ \A x : x \in K <=> x = BadLine
    OBVIOUS
  <2> HIDE DEF K, hits, bad
  <2>3. /\ bad \in 0..n
        /\ bad = 0 => \A i \in 1..n : lines[i] \notin K
        /\ bad # 0 => \A i \in 1..(bad - 1) : lines[i] \notin K
    BY <1>1, <2>1, <2>2, FirstOfKind
  <2> QED
    BY <2>2, <2>3
<1>4. good = IF bad = 0 THEN lines ELSE SubSeq(lines, 1, bad - 1)
  BY DEF GoodLines
<1> HIDE DEF bad, n, good
<1>5. CASE bad = 0
  <2>1. \A i \in 1..n : lines[i] \in AnyLines
    BY <1>1, <1>3, <1>5
  <2>2. lines \in Seq(AnyLines)
    BY <2>1, <1>1 DEF n
  <2> QED
    BY <2>2, <1>1, <1>4, <1>5 DEF good, n
<1>6. CASE bad # 0
  <2> DEFINE m == bad - 1
             part == SubSeq(lines, 1, m)
  <2>1. m \in Nat /\ m <= n /\ \A i \in 1..m : i \in 1..n
    BY <1>1, <1>3, <1>6
  <2>2. /\ part \in Seq(AnyLines \cup {BadLine}) /\ Len(part) = m
        /\ \A i \in 1..m : part[i] = lines[i]
    <3> HIDE DEF m
    <3> QED
      BY <2>1, <1>1 DEF n
  <2>3. \A i \in 1..m : lines[i] \in AnyLines
    <3>1. \A i \in 1..m : lines[i] # BadLine
      BY <1>3, <1>6
    <3> HIDE DEF m
    <3> QED
      BY <2>1, <3>1, <1>1
  <2> HIDE DEF m, part
  <2>4. \A i \in 1..m : part[i] \in AnyLines
    BY <2>2, <2>3
  <2>5. part \in Seq(AnyLines)
    BY <2>2, <2>4
  <2>6. good = part
    BY <1>4, <1>6 DEF part, m
  <2>7. \A i, j \in 1..m :
           part[i] \in OtherLines /\ part[j] \in OtherLines => i = j
    BY <2>1, <2>2, <1>1
  <2> QED
    BY <2>2, <2>5, <2>6, <2>7 DEF good
<1> QED
  BY <1>5, <1>6

\* Merging the lines of a file gives lines of either version.
LEMMA MergeFileType ==
    ASSUME NEW lines \in Seq(AnyLines), NoSeam(lines),
           \A i, j \in 1..Len(lines) :
              lines[i] \in OtherLines /\ lines[j] \in OtherLines => i = j
    PROVE  MergeFile(lines) \in Seq(AnyLines)
<1> DEFINE n == Len(lines)
           k == SelectInSeq(lines, LAMBDA l : l \in OtherLines)
           a == SubSeq(lines, 1, k - 1)
           b == SubSeq(lines, k + 1, n)
<1>0. n \in Nat
  OBVIOUS
<1>1. /\ n \in Nat /\ k \in 0..n
      /\ k = 0 => \A i \in 1..n : lines[i] \notin OtherLines
      /\ k # 0 => /\ lines[k] \in OtherLines
                  /\ \A i \in 1..(k - 1) : lines[i] \notin OtherLines
  <2> DEFINE hits == {i \in 1..n : lines[i] \in OtherLines}
  <2>1. k = IF hits # {} THEN Min(hits) ELSE 0
    BY DEF SelectInSeq
  <2>2. /\ hits \in SUBSET (1..n)
        /\ \A i \in 1..n : i \in hits <=> lines[i] \in OtherLines
    OBVIOUS
  <2> HIDE DEF hits, k
  <2> QED
    BY <1>0, <2>1, <2>2, FirstOfKind
<1>2. \A i \in 1..n : \/ lines[i] \in SourceLines
                      \/ lines[i] \in OtherLines
  BY DEF AnyLines
<1>3. SourceLines \subseteq AnyLines
  BY DEF AnyLines
<1> HIDE DEF k
<1>4. CASE k = 0
  <2>1. \A i \in 1..n : lines[i] \in SourceLines
    BY <1>1, <1>2, <1>4
  <2>2. lines \in Seq(SourceLines)
    BY <2>1
  <2>3. MergeFile(lines) = MergeLines(lines)
    BY <1>4 DEF MergeFile, k
  <2> QED
    BY <2>2, <2>3, <1>3, MergedLines
<1>5. CASE k # 0
  <2>1. k \in 1..n /\ k \in Nat /\ lines[k] \in OtherLines
    BY <1>1, <1>5
  <2>2. \A i \in 1..(k - 1) : lines[i] \in SourceLines
    <3>1. \A i \in 1..(k - 1) : i \in 1..n
      BY <2>1, <1>1
    <3> QED
      BY <3>1, <1>1, <1>2, <1>5
  <2>3. \A i \in (k + 1)..n : lines[i] \in SourceLines
    <3>1. \A i \in (k + 1)..n : i \in 1..n /\ i # k
      BY <2>1, <1>1
    <3> QED
      BY <3>1, <2>1, <1>2
  <2>4. a \in Seq(SourceLines) /\ NoSeam(a)
    <3>1. k - 1 \in Nat /\ k - 1 <= Len(lines) /\ 1 \in Nat
      BY <2>1, <1>1
    <3> QED
      BY <3>1, <2>2, PartOf
  <2>5. b \in Seq(SourceLines) /\ NoSeam(b)
    <3>1. k + 1 \in Nat /\ 1 <= k + 1 /\ n \in Nat /\ n <= Len(lines)
      BY <2>1, <1>1
    <3> QED
      BY <3>1, <2>3, PartOf
  <2>6. /\ MergeLines(a) \in Seq(AnyLines)
        /\ MergeLines(b) \in Seq(AnyLines)
    <3>1. /\ MergeLines(a) \in Seq(SourceLines)
          /\ MergeLines(b) \in Seq(SourceLines)
      BY <2>4, <2>5, MergedLines
    <3> QED
      BY <3>1, <1>3
  <2>7. lines[k] \in AnyLines
    BY <2>1
  <2>8. MergeFile(lines) = MergeLines(a) \o <<lines[k]>> \o MergeLines(b)
    BY <1>5 DEF MergeFile, k
  <2> HIDE DEF a, b
  <2> QED
    BY <2>6, <2>7, <2>8
<1> QED
  BY <1>4, <1>5

\* What put_file puts are lines of either version.
LEMMA BatchType ==
    ASSUME NEW lines \in PutFiles, NoSeam(GoodLines(lines))
    PROVE  BatchOf(lines) \in Seq(AnyLines)
<1> DEFINE good == GoodLines(lines)
           merged == MergeFile(good)
<1>1. merged \in Seq(AnyLines)
  BY GoodLinesType, MergeFileType
<1>2. \/ BatchOf(lines) = merged
      \/ BatchOf(lines) = IF merged = <<>> THEN <<>> ELSE Front(merged)
  BY DEF BatchOf, GoodLines
<1> HIDE DEF merged
<1>3. merged # <<>> => Front(merged) \in Seq(AnyLines)
  BY <1>1 DEF Front
<1> QED
  BY <1>1, <1>2, <1>3

-----------------------------------------------------------------------------
(* Saving *)

\* The lines of a save are in order, and say what the list says of every
\* address that has a region.
LEMMA SaveSays ==
    ASSUME NEW list \in Seq(Stored), Len(list) > 0,
           Proper(list), Ordered(list)
    PROVE  LET lines == SaveLines(list)
           IN  /\ lines \in Seq(SourceLines) /\ Ordered(lines)
               /\ \A ip : \A r : Says(lines, ip, r)
                                    <=> Says(list, ip, r) /\ r # EmptyRegion
<1> DEFINE n == Len(list)
           parts == [i \in DOMAIN list |->
                        IF list[i].region = EmptyRegion THEN <<>>
                                                        ELSE <<list[i]>>]
           all == FlattenSeq(parts)
           written(k) == list[k].region # EmptyRegion
<1>1. /\ n \in Nat /\ n > 0 /\ DOMAIN list = 1..n /\ Len(parts) = n
      /\ SaveLines(list) = all
  BY DEF SaveLines
<1>2. \A k \in 1..n : parts[k] = IF written(k) THEN <<list[k]>> ELSE <<>>
  BY <1>1
<1> HIDE DEF parts
<1>3. \A k \in 1..n :
         /\ list[k] \in SegmentsOver(Texts) /\ list[k].start <= list[k].end
         /\ list[k].region \in Texts
  BY SegmentTypes DEF Proper, Stored
<1>4. \A k \in 1..n :
         \/ /\ ~written(k) /\ parts[k] = <<>> /\ Len(parts[k]) = 0
         \/ /\ written(k) /\ parts[k] = <<list[k]>> /\ Len(parts[k]) = 1
            /\ parts[k][1] = list[k]
  <2>1. ASSUME NEW k \in 1..n, ~written(k)
        PROVE  parts[k] = <<>> /\ Len(parts[k]) = 0
    <3>1. parts[k] = <<>>
      BY <2>1, <1>2
    <3> QED
      BY <3>1
  <2>2. ASSUME NEW k \in 1..n, written(k)
        PROVE  /\ parts[k] = <<list[k]>> /\ Len(parts[k]) = 1
               /\ parts[k][1] = list[k]
    <3>1. parts[k] = <<list[k]>>
      BY <2>2, <1>2
    <3>2. \A x : Len(<<x>>) = 1 /\ <<x>>[1] = x
      OBVIOUS
    <3> QED
      BY <3>1, <3>2
  <2> HIDE DEF written
  <2> QED
    BY <2>1, <2>2
<1>5. \A k \in 1..n :
         \A q \in 1..Len(parts[k]) : written(k) /\ parts[k][q] = list[k]
  <2>1. ASSUME NEW k \in 1..n, NEW q \in 1..Len(parts[k])
        PROVE  written(k) /\ parts[k][q] = list[k]
    <3>1. CASE written(k)
      <4>1. Len(parts[k]) = 1 /\ parts[k][1] = list[k]
        BY <3>1, <1>4
      <4>2. q = 1
        BY <4>1
      <4> QED
        BY <3>1, <4>1, <4>2
    <3>2. CASE ~written(k)
      <4>1. Len(parts[k]) = 0
        BY <3>2, <1>4
      <4> QED
        BY <4>1
    <3> QED
      BY <3>1, <3>2
  <2> QED
    BY <2>1
<1>6. \A k \in 1..n : \A ip : \A r :
         Says(parts[k], ip, r) <=> written(k) /\ SegSays(list[k], ip, r)
  <2>1. ASSUME NEW k \in 1..n, NEW ip, NEW r
        PROVE  Says(parts[k], ip, r) <=> written(k) /\ SegSays(list[k], ip, r)
    <3>1. CASE ~written(k)
      BY <3>1, <1>5 DEF Says
    <3>2. CASE written(k)
      <4>1. Len(parts[k]) = 1 /\ parts[k][1] = list[k]
        BY <3>2, <1>4
      <4>2. \A q : q \in 1..1 <=> q = 1
        OBVIOUS
      <4> HIDE DEF written
      <4> QED
        BY <3>2, <4>1, <4>2 DEF Says
    <3> QED
      BY <3>1, <3>2
  <2> QED
    BY <2>1
<1>7. ASSUME NEW k \in 1..n
      PROVE  /\ parts[k] \in Seq(SegmentsOver(Texts))
             /\ Proper(parts[k]) /\ Ordered(parts[k])
  <2>1. CASE ~written(k)
    <3>1. parts[k] = <<>>
      BY <2>1, <1>4
    <3>2. /\ <<>> \in Seq(SegmentsOver(Texts))
          /\ Proper(<<>>) /\ Ordered(<<>>)
      BY DEF Proper, Ordered
    <3> QED
      BY <3>1, <3>2
  <2>2. CASE written(k)
    <3>1. parts[k] = <<list[k]>>
      BY <2>2, <1>4
    <3>2. /\ <<list[k]>> \in Seq(SegmentsOver(Texts))
          /\ Tiles(<<list[k]>>, list[k].start, list[k].end)
      BY <1>3, TilesOne
    <3> QED
      BY <3>1, <3>2 DEF Tiles
  <2> QED
    BY <2>1, <2>2
<1>8. ASSUME NEW j \in 1..n, NEW k \in 1..n, j < k,
             NEW p \in 1..Len(parts[j]), NEW q \in 1..Len(parts[k])
      PROVE  parts[j][p].end < parts[k][q].start
  <2>1. parts[j][p] = list[j] /\ parts[k][q] = list[k]
    BY <1>5
  <2> QED
    BY <1>8, <2>1 DEF Ordered
<1> HIDE DEF n, written
<1>9. /\ all \in Seq(SegmentsOver(Texts))
      /\ Proper(all) /\ Ordered(all)
      /\ MadeOf(all, n, parts)
      /\ \A ip : \A r : Says(all, ip, r) <=>
                           \E k \in 1..n : Says(parts[k], ip, r)
  <2>1. \A k \in 1..n : /\ parts[k] \in Seq(SegmentsOver(Texts))
                        /\ Proper(parts[k]) /\ Ordered(parts[k])
    BY <1>7
  <2>2. \A j, k \in 1..n : j < k =>
           \A p \in 1..Len(parts[j]), q \in 1..Len(parts[k]) :
              parts[j][p].end < parts[k][q].start
    BY <1>8
  <2>3. InTurn(Texts, n, parts)
    BY <2>1, <2>2 DEF InTurn
  <2>4. n \in Nat /\ n > 0 /\ Len(parts) = n
    BY <1>1
  <2> QED
    BY <2>3, <2>4, FlattenKeeps
<1> HIDE DEF all
<1>10. \A i \in 1..Len(all) : all[i] \in SourceLines
  <2>1. ASSUME NEW i \in 1..Len(all)
        PROVE  all[i] \in SourceLines
    <3>1. PICK k \in 1..n : all[i] = list[k] /\ written(k)
      <4>1. PICK k \in 1..n :
               \E q \in 1..Len(parts[k]) : all[i] = parts[k][q]
        <5>1. MadeOf(all, n, parts)
          BY <1>9
        <5> QED
          BY <5>1, Zenon DEF MadeOf
      <4>2. PICK q \in 1..Len(parts[k]) : all[i] = parts[k][q]
        BY <4>1
      <4>3. written(k) /\ parts[k][q] = list[k]
        BY <1>5
      <4> QED
        BY <4>2, <4>3
    <3>2. list[k].region \in Regions
      BY <3>1, <1>3 DEF written, Texts
    <3>3. list[k] \in SegmentsOver(Regions)
      BY <3>2, <1>3 DEF SegmentsOver
    <3> QED
      BY <3>1, <3>3, <1>3, SegmentIsLine
  <2> QED
    BY <2>1
<1>11. all \in Seq(SourceLines)
  BY <1>9, <1>10
<1>12. \A ip : \A r : Says(all, ip, r)
                         <=> Says(list, ip, r) /\ r # EmptyRegion
  <2>1. ASSUME NEW ip, NEW r
        PROVE  Says(all, ip, r) <=> Says(list, ip, r) /\ r # EmptyRegion
    <3>1. Says(all, ip, r)
             <=> \E k \in 1..n : written(k) /\ SegSays(list[k], ip, r)
      BY <1>6, <1>9
    <3>2. \A k \in 1..n : written(k) /\ SegSays(list[k], ip, r)
                             <=> SegSays(list[k], ip, r) /\ r # EmptyRegion
      BY DEF SegSays, written
    <3>3. Says(list, ip, r) <=> \E k \in 1..n : SegSays(list[k], ip, r)
      BY DEF Says, n
    <3> QED
      BY <3>1, <3>2, <3>3
  <2> QED
    BY <2>1
<1> QED
  BY <1>1, <1>9, <1>11, <1>12

\* When a save has written a and still has b to write, the file is in order
\* and its table is that of the list up to some address, and empty behind it;
\* when nothing is left to write it is that of the list.
LEMMA SavedPart ==
    ASSUME NEW list \in Seq(Stored), Tiles(list, 0, MaxIP),
           NEW a \in Seq(SourceLines), NEW b \in Seq(SourceLines),
           a \o b = SaveLines(list)
    PROVE  /\ Ordered(a)
           /\ \E k \in 0..(MaxIP + 1) :
                 \A ip \in IPs : RegionAt(a, ip) = IF ip < k
                                                     THEN RegionAt(list, ip)
                                                     ELSE EmptyRegion
           /\ b = <<>> => TableOf(a) = TableOf(list)
<1> DEFINE c == a \o b
           m == Len(a)
<1>1. /\ c \in Seq(SourceLines) /\ Ordered(c)
      /\ \A ip : \A r : Says(c, ip, r) <=> Says(list, ip, r) /\ r # EmptyRegion
  <2>1. Len(list) > 0
    <3>1. MaxIP \in IPs
      BY MaxIPAssumption DEF IPs
    <3> QED
      BY <3>1, TilesContinuous DEF Stored
  <2> QED
    BY <2>1, SaveSays DEF Tiles
<1>2. /\ a \in Seq(SegmentsOver(Regions)) /\ b \in Seq(SegmentsOver(Regions))
      /\ \A ip : \A r : Says(c, ip, r) <=> Says(a, ip, r) \/ Says(b, ip, r)
  <2>1. /\ a \in Seq(SegmentsOver(Regions))
        /\ b \in Seq(SegmentsOver(Regions))
    BY LinesAreSegments
  <2> QED
    BY <2>1, ConcatSays
<1>3. /\ m \in Nat
      /\ \A i \in 1..m : i \in 1..Len(c) /\ c[i] = a[i]
      /\ \A i \in 1..Len(b) : m + i \in 1..Len(c) /\ c[m + i] = b[i]
  BY ConcatItems
<1>4. /\ \A i \in 1..m : a[i].start \in Nat /\ a[i].end \in Nat
                         /\ a[i].end \in IPs
      /\ \A i \in 1..Len(b) : b[i].start \in Nat /\ b[i].end \in Nat
      /\ \A ip \in IPs : ip \in Nat
      /\ MaxIP \in Nat
  BY <1>2, SegmentTypes, MaxIPAssumption DEF IPs
<1> HIDE DEF c, m
<1>5. \A i, j \in 1..m : i < j => a[i].end < a[j].start
  BY <1>1, <1>3 DEF Ordered
<1>6. \A i \in 1..m, j \in 1..Len(b) : a[i].end < b[j].start
  <2>1. ASSUME NEW i \in 1..m, NEW j \in 1..Len(b)
        PROVE  a[i].end < b[j].start
    <3>1. i < m + j
      BY <1>3
    <3> QED
      BY <3>1, <1>1, <1>3 DEF Ordered
  <2> QED
    BY <2>1
<1>7. Ordered(a)
  BY <1>5 DEF Ordered, m
<1>8. SaysOnce(a)
  BY <1>2, <1>7, OrderedOnce
<1>9. \A ip \in IPs :
         \/ RegionAt(a, ip) = EmptyRegion /\ \A r : ~Says(a, ip, r)
         \/ Says(a, ip, RegionAt(a, ip))
  BY <1>2, RegionAtSays
<1>10. \A ip \in IPs : \A r : Says(a, ip, r) => RegionAt(a, ip) = r
  BY <1>2, <1>8, RegionAtIs
<1>11. \A ip \in IPs : /\ Says(list, ip, RegionAt(list, ip))
                       /\ \A r : Says(list, ip, r) => r = RegionAt(list, ip)
  BY TilesSay DEF Stored
<1>12. \E k \in 0..(MaxIP + 1) :
          \A ip \in IPs : RegionAt(a, ip) = IF ip < k
                                              THEN RegionAt(list, ip)
                                              ELSE EmptyRegion
  <2>1. CASE m = 0
    <3>1. \A ip : \A r : ~Says(a, ip, r)
      BY <2>1 DEF Says, m
    <3>2. \A ip \in IPs : RegionAt(a, ip) = EmptyRegion /\ ~(ip < 0)
      BY <3>1, <1>4, <1>9
    <3>3. 0 \in 0..(MaxIP + 1)
      BY <1>4
    <3> QED
      BY <3>2, <3>3
  <2>2. CASE m # 0
    <3> DEFINE e == a[m].end
    <3>1. m \in 1..m /\ e \in Nat /\ e \in IPs
      BY <2>2, <1>3, <1>4
    <3>2. e + 1 \in 0..(MaxIP + 1)
      BY <3>1, <1>4 DEF IPs
    <3>3. \A i \in 1..m : a[i].end <= e
      <4>1. ASSUME NEW i \in 1..m
            PROVE  a[i].end <= e
        <5>1. CASE i = m
          BY <5>1, <3>1
        <5>2. CASE i # m
          <6>1. i < m
            BY <5>2, <1>3
          <6>2. a[i].end < a[m].start /\ a[m].start <= a[m].end
            <7>1. Proper(a)
              BY LinesAreSegments
            <7> QED
              BY <6>1, <7>1, <3>1, <1>5 DEF Proper, m
          <6> QED
            BY <6>2, <3>1, <1>4, SMTT(30)
        <5> QED
          BY <5>1, <5>2
      <4> QED
        BY <4>1
    <3>4. \A j \in 1..Len(b) : e < b[j].start
      BY <3>1, <1>6
    <3> HIDE DEF e
    <3>5. ASSUME NEW ip \in IPs
          PROVE  RegionAt(a, ip) = IF ip < e + 1 THEN RegionAt(list, ip)
                                                 ELSE EmptyRegion
      <4>1. CASE ip < e + 1
        <5>1. \A r : ~Says(b, ip, r)
          <6>1. ASSUME NEW j \in 1..Len(b), SegContains(b[j], ip)
                PROVE  FALSE
            <7>1. b[j].start <= ip /\ e < b[j].start
              BY <6>1, <3>4 DEF SegContains
            <7> QED
              BY <7>1, <4>1, <3>1, <1>4
          <6> QED
            BY <6>1 DEF Says, SegSays
        <5>2. \A r : Says(a, ip, r)
                        <=> Says(list, ip, r) /\ r # EmptyRegion
          BY <5>1, <1>1, <1>2
        <5>3. RegionAt(a, ip) = RegionAt(list, ip)
          BY <5>2, <1>9, <1>10, <1>11
        <5> QED
          BY <4>1, <5>3
      <4>2. CASE ~(ip < e + 1)
        <5>1. \A r : ~Says(a, ip, r)
          <6>1. ASSUME NEW i \in 1..m, SegContains(a[i], ip)
                PROVE  FALSE
            <7>1. ip <= a[i].end /\ a[i].end <= e
              BY <6>1, <3>3 DEF SegContains
            <7> QED
              BY <7>1, <4>2, <3>1, <1>4
          <6> QED
            BY <6>1 DEF Says, SegSays, m
        <5> QED
          BY <4>2, <5>1, <1>9
      <4> QED
        BY <4>1, <4>2
    <3> QED
      BY <3>2, <3>5
  <2> QED
    BY <2>1, <2>2
<1>13. ASSUME b = <<>>
       PROVE  TableOf(a) = TableOf(list)
  <2>1. \A ip : \A r : ~Says(b, ip, r)
    BY <1>13 DEF Says
  <2>2. \A ip \in IPs : \A r : r # EmptyRegion =>
           (Says(a, ip, r) <=> Says(list, ip, r))
    BY <2>1, <1>1, <1>2
  <2>3. SaysOnce(list)
    BY OrderedOnce DEF Tiles, Stored
  <2> QED
    BY <2>2, <2>3, <1>2, <1>8, SameTable DEF Stored
<1> QED
  BY <1>7, <1>12, <1>13

-----------------------------------------------------------------------------
(* A put of each line of a file *)

\* A fold of puts is the last of a list of results: the list before the first
\* put, after it, and so on.
LEMMA PutSteps ==
    ASSUME NEW T, NEW lines \in Seq(T), NEW list
    PROVE  \E M : /\ M[0] = list
                  /\ \A k \in 1..Len(lines) :
                         M[k] = PutSegment(M[k - 1], lines[k])
                  /\ FoldLeft(PutSegment, list, lines) = M[Len(lines)]
<1> DEFINE n == Len(lines)
           Body(g, s) == IF s = {} THEN list
                         ELSE PutSegment(g[s \ {Max(s)}], lines[Max(s)])
           Iter(g) == g = [s \in SUBSET DOMAIN lines |-> Body(g, s)]
           Ready == {k \in Nat : \E g : \A s \in SUBSET (1..k) :
                                            g[s] = Body(g, s)}
<1>1. FoldLeft(PutSegment, list, lines) = (CHOOSE g : Iter(g))[DOMAIN lines]
  BY Zenon DEF FoldLeft, MapThenFoldSet
<1>2. n \in Nat /\ DOMAIN lines = 1..n
  OBVIOUS
<1> HIDE DEF n
<1>3. 0 \in Ready
  <2> DEFINE g0 == [s \in SUBSET (1..0) |-> list]
  <2>1. \A s \in SUBSET (1..0) : s = {}
    OBVIOUS
  <2>2. \A s \in SUBSET (1..0) : g0[s] = Body(g0, s)
    BY <2>1, Zenon
  <2> QED
    BY <2>2
<1>4. ASSUME NEW k \in Nat, k \in Ready
      PROVE  k + 1 \in Ready
  <2>1. PICK g : \A s \in SUBSET (1..k) : g[s] = Body(g, s)
    BY <1>4
  <2> DEFINE h == [s \in SUBSET (1..(k + 1)) |->
                      IF s \in SUBSET (1..k) THEN g[s] ELSE Body(g, s)]
  <2>2. ASSUME NEW s \in SUBSET (1..(k + 1)), s # {}
        PROVE  s \ {Max(s)} \in SUBSET (1..k)
    <3>1. k + 1 \in Nat /\ s \subseteq 1..(k + 1)
      OBVIOUS
    <3>2. Max(s) \in s /\ \A m \in s : Max(s) >= m
      BY <2>2, <3>1, MaxIsGreatest
    <3>3. ASSUME NEW x \in s \ {Max(s)}
          PROVE  x \in 1..k
      <4>1. x \in 1..(k + 1) /\ Max(s) \in 1..(k + 1)
        BY <3>1, <3>2
      <4>2. x <= Max(s) /\ x # Max(s)
        BY <3>2, <4>1
      <4> QED
        BY <4>1, <4>2
    <3> QED
      BY <3>3
  <2>3. ASSUME NEW s \in SUBSET (1..k)
        PROVE  s \in SUBSET (1..(k + 1)) /\ h[s] = g[s]
    <3>1. s \in SUBSET (1..(k + 1))
      OBVIOUS
    <3> QED
      BY <3>1, Zenon
  <2>4. ASSUME NEW s \in SUBSET (1..(k + 1))
        PROVE  h[s] = Body(h, s)
    <3>1. h[s] = Body(g, s)
      BY <2>1, Zenon
    <3>2. s # {} => h[s \ {Max(s)}] = g[s \ {Max(s)}]
      BY <2>2, <2>3, Zenon
    <3> HIDE DEF h
    <3> QED
      BY <3>1, <3>2, Zenon
  <2> HIDE DEF h
  <2>5. \E f : \A s \in SUBSET (1..(k + 1)) : f[s] = Body(f, s)
    BY <2>4, Zenon
  <2>6. k + 1 \in Nat
    OBVIOUS
  <2> QED
    BY <2>5, <2>6, Zenon
<1>5. n \in Ready
  <2> HIDE DEF Ready
  <2> QED
    BY <1>2, <1>3, <1>4, SetInduction
<1>6. PICK g : \A s \in SUBSET (1..n) : g[s] = Body(g, s)
  BY <1>5
<1>7. \E h : Iter(h)
  <2> DEFINE h == [s \in SUBSET (1..n) |-> g[s]]
  <2>1. ASSUME NEW s \in SUBSET (1..n)
        PROVE  g[s] = Body(h, s)
    <3>1. g[s] = Body(g, s)
      BY <1>6
    <3>2. s # {} => s \ {Max(s)} \in SUBSET (1..n)
      OBVIOUS
    <3>3. s # {} => h[s \ {Max(s)}] = g[s \ {Max(s)}]
      BY <3>2
    <3> HIDE DEF h
    <3> QED
      BY <3>1, <3>3, Zenon
  <2>2. h = [s \in SUBSET (1..n) |-> Body(h, s)]
    BY <2>1, Zenon
  <2> HIDE DEF h
  <2> QED
    BY <2>2, <1>2
<1> DEFINE iter == CHOOSE h : Iter(h)
<1>8. iter = [s \in SUBSET (1..n) |-> Body(iter, s)]
  BY <1>7, <1>2, Zenon
<1> HIDE DEF iter
<1>9. \A s \in SUBSET (1..n) : iter[s] = Body(iter, s)
  BY <1>8, Zenon
<1> DEFINE M == [k \in 0..n |-> iter[1..k]]
<1>10. M[0] = list
  <2>1. 1..0 = {} /\ 1..0 \in SUBSET (1..n) /\ 0 \in 0..n
    BY <1>2
  <2>2. iter[1..0] = list
    BY <2>1, <1>9, Zenon
  <2> QED
    BY <2>1, <2>2
<1>11. ASSUME NEW k \in 1..n
       PROVE  M[k] = PutSegment(M[k - 1], lines[k])
  <2>1. /\ k \in Nat /\ k > 0 /\ k \in 0..n /\ k - 1 \in 0..n
        /\ 1..k \in SUBSET (1..n) /\ 1..k # {} /\ (1..k) \ {k} = 1..(k - 1)
    <3>1. n \in Nat /\ k \in Nat /\ 1 <= k /\ k <= n
      BY <1>2
    <3>2. k > 0 /\ k \in 0..n /\ k - 1 \in 0..n
      BY <3>1
    <3>3. 1..k \subseteq 1..n
      BY <3>1
    <3>4. k \in 1..k
      BY <3>1
    <3>5. (1..k) \ {k} = 1..(k - 1)
      BY <3>1
    <3> HIDE DEF M
    <3> QED
      BY <3>1, <3>2, <3>3, <3>4, <3>5
  <2>2. Max(1..k) = k
    BY <2>1, MaxOfRange
  <2>3. iter[1..k] = Body(iter, 1..k)
    BY <2>1, <1>9
  <2>4. iter[1..k] = PutSegment(iter[1..(k - 1)], lines[k])
    BY <2>1, <2>2, <2>3, Zenon
  <2>5. M[k] = iter[1..k] /\ M[k - 1] = iter[1..(k - 1)]
    BY <2>1
  <2> QED
    BY <2>4, <2>5
<1>12. FoldLeft(PutSegment, list, lines) = M[n]
  <2>1. n \in 0..n
    BY <1>2
  <2>2. FoldLeft(PutSegment, list, lines) = iter[1..n]
    BY <1>1, <1>2 DEF iter
  <2> QED
    BY <2>1, <2>2
<1> HIDE DEF M
<1> QED
  BY <1>10, <1>11, <1>12 DEF n

\* the last of the first k lines that holds ip has region r, or none does and
\* r is what the table gives it
Wins(t, lines, k, ip, r) ==
    \/ /\ \A i \in 1..k : ~SegContains(lines[i], ip)
       /\ r = t[ip]
    \/ \E i \in 1..k :
          /\ SegContains(lines[i], ip) /\ r = lines[i].region
          /\ \A j \in 1..k : i < j => ~SegContains(lines[j], ip)

\* The overlay of a table by lines is what wins.
LEMMA OverlaidWins ==
    ASSUME NEW t, NEW T, NEW lines \in Seq(T), NEW ip \in IPs, NEW r,
           Wins(t, lines, Len(lines), ip, r)
    PROVE  Overlaid(t, lines)[ip] = r
<1> DEFINE n == Len(lines)
           hits == {i \in DOMAIN lines : SegContains(lines[i], ip)}
<1>1. n \in Nat /\ DOMAIN lines = 1..n /\ hits \subseteq 1..n
  OBVIOUS
<1>2. Overlaid(t, lines)[ip] = IF hits = {} THEN t[ip]
                                            ELSE lines[Max(hits)].region
  BY DEF Overlaid
<1>3. \A i \in 1..n : i \in hits <=> SegContains(lines[i], ip)
  BY <1>1
<1> HIDE DEF n, hits
<1>4. CASE hits = {}
  <2>1. r = t[ip]
    BY <1>3, <1>4 DEF Wins, n
  <2> QED
    BY <2>1, <1>2, <1>4
<1>5. CASE hits # {}
  <2>1. Max(hits) \in hits /\ \A m \in hits : Max(hits) >= m
    BY <1>1, <1>5, MaxIsGreatest
  <2>2. PICK i \in 1..n :
           /\ SegContains(lines[i], ip) /\ r = lines[i].region
           /\ \A j \in 1..n : i < j => ~SegContains(lines[j], ip)
    BY <1>1, <1>3, <1>5 DEF Wins, n
  <2>3. i \in hits /\ Max(hits) \in 1..n /\ ~(i < Max(hits))
    BY <2>1, <2>2, <1>1, <1>3
  <2>4. Max(hits) = i
    BY <2>1, <2>3, <1>1
  <2> QED
    BY <2>2, <2>4, <1>2, <1>5
<1> QED
  BY <1>4, <1>5

\* One more line wins where it is, and changes nothing elsewhere.
LEMMA WinsNext ==
    ASSUME NEW t, NEW lines, NEW k \in Nat, NEW ip, NEW r
    PROVE  Wins(t, lines, k + 1, ip, r) <=>
              IF SegContains(lines[k + 1], ip) THEN r = lines[k + 1].region
                                               ELSE Wins(t, lines, k, ip, r)
<1>1. \A i : i \in 1..(k + 1) <=> i \in 1..k \/ i = k + 1
  OBVIOUS
<1>2. /\ \A i \in 1..k : i < k + 1 /\ ~(k + 1 < i)
      /\ ~(k + 1 < k + 1)
  OBVIOUS
<1> DEFINE l == k + 1
<1> HIDE DEF l
<1>3. \A i : i \in 1..l <=> i \in 1..k \/ i = l
  BY <1>1 DEF l
<1>4. (\A i \in 1..k : i < l /\ ~(l < i)) /\ ~(l < l)
  BY <1>2 DEF l
<1>5. Wins(t, lines, l, ip, r) <=>
         IF SegContains(lines[l], ip) THEN r = lines[l].region
                                      ELSE Wins(t, lines, k, ip, r)
  <2>1. CASE SegContains(lines[l], ip)
    BY <2>1, <1>3, <1>4, Zenon DEF Wins
  <2>2. CASE ~SegContains(lines[l], ip)
    BY <2>2, <1>3, <1>4, Zenon DEF Wins
  <2> QED
    BY <2>1, <2>2
<1> QED
  BY <1>5 DEF l

\* Lists that agree on the first k segments have the same winners among them.
LEMMA WinsSame ==
    ASSUME NEW t, NEW a, NEW b, NEW k \in Nat, NEW ip, NEW r,
           \A i \in 1..k : /\ SegContains(a[i], ip) <=> SegContains(b[i], ip)
                           /\ a[i].region = b[i].region
    PROVE  Wins(t, a, k, ip, r) <=> Wins(t, b, k, ip, r)
BY DEF Wins

\* Merging the lines of a file leaves every address its winner.
LEMMA MergeWins ==
    ASSUME NEW R, NEW lines \in Seq(SegmentsOver(R)),
           Proper(lines), NoSeam(lines), NEW t, NEW ip \in IPs, NEW r
    PROVE  Wins(t, MergeLines(lines), Len(MergeLines(lines)), ip, r)
              <=> Wins(t, lines, Len(lines), ip, r)
<1> DEFINE n == Len(lines)
<1>1. PICK M : /\ M[0] = <<>>
               /\ \A k \in 1..n : M[k] = MergeLine(M[k - 1], lines[k])
               /\ MergeLines(lines) = M[n]
  BY MergeSteps
<1> DEFINE Same(k) == Wins(t, M[k], Len(M[k]), ip, r)
                         <=> Wins(t, lines, k, ip, r)
           Good(k) == /\ M[k] \in Seq(SegmentsOver(R)) /\ Proper(M[k])
                      /\ M[k] # <<>> =>
                            /\ k \in 1..n
                            /\ M[k][Len(M[k])].end = lines[k].end
                            /\ M[k][Len(M[k])].region = lines[k].region
                      /\ Same(k)
           Done == {k \in Nat : k <= n => Good(k)}
<1>2. n \in Nat /\ ip \in Nat
  BY MaxIPAssumption DEF IPs
<1>3. 0 \in Done
  <2>1. Len(<<>>) = 0 /\ <<>> \in Seq(SegmentsOver(R)) /\ Proper(<<>>)
    BY DEF Proper
  <2>2. Wins(t, <<>>, 0, ip, r) <=> Wins(t, lines, 0, ip, r)
    BY DEF Wins
  <2>3. Good(0)
    BY <1>1, <2>1, <2>2
  <2> HIDE DEF Good
  <2> QED
    BY <2>3
<1> HIDE DEF n
<1>4. ASSUME NEW k \in Nat, k \in Done
      PROVE  k + 1 \in Done
  <2>1. SUFFICES ASSUME k + 1 <= n
                 PROVE  Good(k + 1)
    <3> HIDE DEF Good
    <3> QED
      OBVIOUS
  <2>2. Good(k)
    <3> HIDE DEF Good
    <3> QED
      BY <1>2, <1>4, <2>1
  <2> DEFINE old == M[k]
             new == M[k + 1]
             line == lines[k + 1]
             c == Len(old)
  <2>3. /\ k + 1 \in 1..n /\ line \in SegmentsOver(R)
        /\ line.start <= line.end /\ line.start \in Nat /\ line.end \in Nat
        /\ line.start \in IPs
    BY <1>2, <2>1, SegmentTypes DEF Proper, n
  <2>4. new = MergeLine(old, line)
    <3>1. (k + 1) - 1 = k
      OBVIOUS
    <3> QED
      BY <1>1, <2>3, <3>1
  <2>5. old # <<>> => ~Seam(old[c], line)
    <3>1. SUFFICES ASSUME old # <<>> PROVE ~Seam(old[c], line)
      OBVIOUS
    <3>2. k \in 1..(n - 1)
      BY <3>1, <2>2, <2>3, <1>2
    <3>3. ~Seam(lines[k], lines[k + 1])
      BY <3>2 DEF NoSeam, n
    <3>4. old[c].end = lines[k].end /\ old[c].region = lines[k].region
      BY <3>1, <2>2
    <3> QED
      BY <3>3, <3>4 DEF Seam
  <2>6. /\ old \in Seq(SegmentsOver(R)) /\ Proper(old) /\ c \in Nat
        /\ Wins(t, old, c, ip, r) <=> Wins(t, lines, k, ip, r)
    BY <2>2
  <2>7. Wins(t, lines, k + 1, ip, r) <=>
           IF SegContains(line, ip) THEN r = line.region
                                    ELSE Wins(t, lines, k, ip, r)
    BY WinsNext
  <2> HIDE DEF old, new, line, Good, c
  <2>8. /\ Proper(new) /\ Len(new) >= 1
        /\ new[Len(new)].end = line.end /\ new[Len(new)].region = line.region
    BY <2>3, <2>4, <2>5, <2>6, MergeLineSays DEF c
  <2> DEFINE merged == MergeLine(old, line)
  <2>9. /\ new \in Seq(SegmentsOver(R))
        /\ \/ /\ c >= 1 /\ Len(new) = c
              /\ old[c].region = line.region
              /\ IPAddOne(old[c].end) = line.start
              /\ \A i \in 1..(c - 1) : new[i] = old[i]
              /\ new[c].start = old[c].start
              /\ new[c].end = line.end
              /\ new[c].region = line.region
           \/ /\ Len(new) = c + 1
              /\ \A i \in 1..c : new[i] = old[i]
              /\ new[c + 1] = line
    <3>1. /\ merged \in Seq(SegmentsOver(R))
          /\ \/ /\ c >= 1 /\ Len(merged) = c
                /\ old[c].region = line.region
                /\ IPAddOne(old[c].end) = line.start
                /\ \A i \in 1..(c - 1) : merged[i] = old[i]
                /\ merged[c].start = old[c].start
                /\ merged[c].end = line.end
                /\ merged[c].region = line.region
             \/ /\ Len(merged) = c + 1
                /\ \A i \in 1..c : merged[i] = old[i]
                /\ merged[c + 1] = line
      BY <2>3, <2>6, MergeLineCases DEF c
    <3>2. merged = new
      BY <2>4
    <3> HIDE DEF merged
    <3> QED
      BY <3>1, <3>2
  <2>10. Wins(t, new, Len(new), ip, r) <=>
            IF SegContains(line, ip) THEN r = line.region
                                     ELSE Wins(t, old, c, ip, r)
    <3>1. CASE Len(new) = c + 1
      <4>1. new[c + 1] = line /\ \A i \in 1..c : new[i] = old[i]
        BY <3>1, <2>6, <2>9
      <4>2. Wins(t, new, c, ip, r) <=> Wins(t, old, c, ip, r)
        BY <4>1, <2>6, WinsSame
      <4>3. Wins(t, new, c + 1, ip, r) <=>
               IF SegContains(new[c + 1], ip) THEN r = new[c + 1].region
                                              ELSE Wins(t, new, c, ip, r)
        BY <2>6, WinsNext
      <4> QED
        BY <3>1, <4>1, <4>2, <4>3
    <3>2. CASE Len(new) = c
      <4> DEFINE d == c - 1
      <4>1. /\ c >= 1 /\ old[c].region = line.region
            /\ IPAddOne(old[c].end) = line.start
            /\ \A i \in 1..d : new[i] = old[i]
            /\ new[c].start = old[c].start
            /\ new[c].end = line.end /\ new[c].region = line.region
        BY <3>2, <2>6, <2>9
      <4>2. d \in Nat /\ d + 1 = c /\ c \in 1..c
        BY <4>1, <2>6
      <4>3. /\ old[c].start \in Nat /\ old[c].end \in Nat
            /\ old[c].end \in IPs /\ old[c].start <= old[c].end
        BY <4>2, <2>6, SegmentTypes DEF Proper, c
      <4>4. old[c].end + 1 = line.start
        <5>1. old[c].end # MaxIP
          <6>1. old # <<>>
            BY <4>1 DEF c
          <6>2. ~Seam(old[c], line)
            BY <6>1, <2>5
          <6>3. IPAddOne(MaxIP) = 0
            BY MaxIPAssumption, SuccessorInWidth DEF IPs
          <6> QED
            BY <6>2, <6>3, <4>1 DEF Seam
        <5> QED
          BY <5>1, <4>1, <4>3, SuccessorInWidth
      <4>5. SegContains(new[c], ip)
               <=> SegContains(old[c], ip) \/ SegContains(line, ip)
        BY <4>1, <4>3, <4>4, <2>3, <1>2 DEF SegContains
      <4> HIDE DEF d
      <4>6. Wins(t, new, d, ip, r) <=> Wins(t, old, d, ip, r)
        BY <4>1, <4>2, WinsSame
      <4>7. /\ Wins(t, new, d + 1, ip, r) <=>
                  IF SegContains(new[d + 1], ip) THEN r = new[d + 1].region
                                                 ELSE Wins(t, new, d, ip, r)
            /\ Wins(t, old, d + 1, ip, r) <=>
                  IF SegContains(old[d + 1], ip) THEN r = old[d + 1].region
                                                 ELSE Wins(t, old, d, ip, r)
        BY <4>2, WinsNext
      <4> QED
        BY <3>2, <4>1, <4>2, <4>5, <4>6, <4>7
    <3> QED
      BY <3>1, <3>2, <2>9
  <2>11. Same(k + 1)
    BY <2>6, <2>7, <2>10 DEF new
  <2> QED
    BY <2>3, <2>8, <2>9, <2>11 DEF Good, new, line
<1>5. \A k \in Nat : k \in Done
  <2> HIDE DEF Done
  <2> QED
    BY <1>3, <1>4, SetInduction
<1>6. Good(n)
  <2> HIDE DEF Good
  <2> QED
    BY <1>2, <1>5
<1> QED
  BY <1>1, <1>6 DEF n

\* After a put of each line, every address has the region of its winner.
LEMMA PutWins ==
    ASSUME NEW list \in Seq(Stored), Tiles(list, 0, MaxIP),
           NEW lines \in Seq(SourceLines), NEW ip \in IPs
    PROVE  Wins(TableOf(list), lines, Len(lines), ip,
                RegionAt(FoldLeft(PutSegment, list, lines), ip))
<1> DEFINE n == Len(lines)
           t == TableOf(list)
<1>1. PICK M : /\ M[0] = list
               /\ \A k \in 1..n : M[k] = PutSegment(M[k - 1], lines[k])
               /\ FoldLeft(PutSegment, list, lines) = M[n]
  BY PutSteps
<1> DEFINE Good(k) == /\ M[k] \in Seq(Stored) /\ Tiles(M[k], 0, MaxIP)
                      /\ Wins(t, lines, k, ip, RegionAt(M[k], ip))
           Done == {k \in Nat : k <= n => Good(k)}
<1>2. n \in Nat /\ \A k \in 1..n : lines[k] \in SourceLines
  OBVIOUS
<1>3. 0 \in Done
  <2>1. t[ip] = RegionAt(list, ip)
    BY DEF TableOf
  <2>2. Wins(t, lines, 0, ip, RegionAt(list, ip))
    <3> HIDE DEF t
    <3> QED
      BY <2>1 DEF Wins
  <2>3. Good(0)
    BY <1>1, <2>2
  <2> HIDE DEF Good
  <2> QED
    BY <2>3
<1> HIDE DEF n, t
<1>4. ASSUME NEW k \in Nat, k \in Done
      PROVE  k + 1 \in Done
  <2>1. SUFFICES ASSUME k + 1 <= n
                 PROVE  Good(k + 1)
    <3> HIDE DEF Good
    <3> QED
      OBVIOUS
  <2>2. Good(k)
    <3> HIDE DEF Good
    <3> QED
      BY <1>2, <1>4, <2>1
  <2> DEFINE line == lines[k + 1]
  <2>3. k + 1 \in 1..n /\ line \in SourceLines
    BY <1>2, <2>1
  <2>4. M[k + 1] = PutSegment(M[k], line)
    <3>1. (k + 1) - 1 = k
      OBVIOUS
    <3> QED
      BY <1>1, <2>3, <3>1
  <2> HIDE DEF line
  <2>5. /\ M[k + 1] \in Seq(Stored) /\ Tiles(M[k + 1], 0, MaxIP)
        /\ TableOf(M[k + 1]) = PutLine(TableOf(M[k]), line)
    BY <2>2, <2>3, <2>4, PutTable
  <2>6. RegionAt(M[k + 1], ip) = IF SegContains(line, ip) THEN line.region
                                 ELSE RegionAt(M[k], ip)
    <3>1. ip \in line.start..line.end <=> SegContains(line, ip)
      BY <2>3, SourceLineTypes, MaxIPAssumption DEF SegContains, IPs
    <3>2. /\ TableOf(M[k + 1])[ip] = RegionAt(M[k + 1], ip)
          /\ TableOf(M[k])[ip] = RegionAt(M[k], ip)
      BY DEF TableOf
    <3>3. PutLine(TableOf(M[k]), line)[ip] =
             IF ip \in line.start..line.end THEN line.region
                                            ELSE TableOf(M[k])[ip]
      BY DEF PutLine, Table!Override, IPs
    <3> QED
      BY <2>5, <3>1, <3>2, <3>3
  <2>7. Wins(t, lines, k + 1, ip, RegionAt(M[k + 1], ip))
    BY <2>2, <2>6, WinsNext DEF line
  <2> QED
    BY <2>5, <2>7
<1>5. \A k \in Nat : k \in Done
  <2> HIDE DEF Done
  <2> QED
    BY <1>3, <1>4, SetInduction
<1>6. Good(n)
  <2> HIDE DEF Good
  <2> QED
    BY <1>2, <1>5
<1> QED
  BY <1>1, <1>6 DEF n, t

\* Putting the merged lines of a file is overlaying the table by its lines.
LEMMA FileOverlays ==
    ASSUME NEW list \in Seq(Stored), Tiles(list, 0, MaxIP),
           NEW lines \in Seq(SourceLines), NoSeam(lines)
    PROVE  TableOf(FoldLeft(PutSegment, list, MergeLines(lines)))
              = Overlaid(TableOf(list), lines)
<1> DEFINE merged == MergeLines(lines)
           t == TableOf(list)
           new == FoldLeft(PutSegment, list, merged)
<1>1. lines \in Seq(SegmentsOver(Regions)) /\ Proper(lines)
  BY LinesAreSegments
<1>2. merged \in Seq(SourceLines)
  <2>1. merged \in Seq(SegmentsOver(Regions)) /\ Proper(merged)
    BY <1>1, MergeType, MergeSays
  <2> HIDE DEF merged
  <2> QED
    BY <2>1, ProperAreLines
<1>3. ASSUME NEW ip \in IPs
      PROVE  RegionAt(new, ip) = Overlaid(t, lines)[ip]
  <2> DEFINE r == RegionAt(new, ip)
  <2>1. Wins(t, merged, Len(merged), ip, r)
    <3> HIDE DEF merged
    <3> QED
      BY <1>2, PutWins
  <2> HIDE DEF r, t, new
  <2>2. Wins(t, lines, Len(lines), ip, r)
    BY <1>1, <2>1, MergeWins
  <2> QED
    BY <2>2, OverlaidWins DEF r
<1> HIDE DEF merged, t, new
<1> QED
  BY <1>3 DEF TableOf, Overlaid, merged, t, new

-----------------------------------------------------------------------------
(* Lists gone astray: only their types are said                            *)

AnySeg == [start : AnyIP, end : AnyIP, region : Texts]

\* Lists of some type put together are of that type.
LEMMA FlattenType ==
    ASSUME NEW T, NEW parts \in Seq(Seq(T))
    PROVE  FlattenSeq(parts) \in Seq(T)
<1> DEFINE n == Len(parts)
<1>1. n \in Nat /\ \A k \in 1..n : parts[k] \in Seq(T)
  OBVIOUS
<1>2. CASE n = 0
  <2>1. FlattenSeq(parts) = parts
    BY <1>2 DEF FlattenSeq
  <2>2. parts = <<>> /\ <<>> \in Seq(T)
    BY <1>2
  <2> QED
    BY <2>1, <2>2
<1>3. CASE n # 0
  <2> HIDE DEF n
  <2>1. PICK F : /\ FlattenSeq(parts) = F[n]
                 /\ F[1] = parts[1]
                 /\ \A i \in 1..(n - 1) : F[i + 1] = F[i] \o parts[i + 1]
    <3>1. n > 0 /\ Len(parts) = n
      BY <1>1, <1>3 DEF n
    <3> QED
      BY <3>1, <1>1, FlattenSteps
  <2> DEFINE Done == {k \in Nat : k \in 1..n => F[k] \in Seq(T)}
  <2>2. 0 \in Done
    OBVIOUS
  <2>3. ASSUME NEW k \in Nat, k \in Done
        PROVE  k + 1 \in Done
    <3>1. SUFFICES ASSUME k + 1 \in 1..n PROVE F[k + 1] \in Seq(T)
      OBVIOUS
    <3>2. CASE k = 0
      BY <3>1, <3>2, <1>1, <2>1
    <3>3. CASE k # 0
      <4>1. k \in 1..n /\ k \in 1..(n - 1)
        BY <3>1, <3>3, <1>1
      <4>2. F[k] \in Seq(T) /\ parts[k + 1] \in Seq(T)
        BY <4>1, <2>3, <3>1, <1>1
      <4>3. F[k + 1] = F[k] \o parts[k + 1]
        BY <4>1, <2>1
      <4> QED
        BY <4>2, <4>3
    <3> QED
      BY <3>2, <3>3
  <2> HIDE DEF Done
  <2>4. n \in Done
    BY <2>2, <2>3, <1>1, SetInduction
  <2>5. n \in 1..n
    BY <1>1, <1>3
  <2> QED
    BY <2>1, <2>4, <2>5 DEF Done
<1> QED
  BY <1>2, <1>3

\* Neighbours keep the length of an address.
LEMMA NeighboursType ==
    ASSUME NEW a \in AnyIP
    PROVE  /\ AddOne(a) \in AnyIP /\ SubOne(a) \in AnyIP
           /\ a \in IPs => IPAddOne(a) \in IPs /\ IPSubOne(a) \in IPs
<1>1. /\ MaxIP \in Nat /\ OtherMax \in Nat /\ OtherMax > MaxIP
      /\ MaxIP + 1 \in Nat \ {0}
  BY MaxIPAssumption, OtherAssumption
<1>2. \A x \in Int : x % (MaxIP + 1) \in 0..MaxIP
  BY <1>1
<1>3. a \in IPs => IPAddOne(a) \in IPs /\ IPSubOne(a) \in IPs
  BY <1>1, <1>2 DEF IPAddOne, IPSubOne, IPs
<1>4. CASE a \in IPs
  BY <1>3, <1>4 DEF AddOne, SubOne, AnyIP
<1>5. CASE a \notin IPs
  BY <1>1, <1>5 DEF AddOne, SubOne, AnyIP, OtherIPs, IPs
<1> QED
  BY <1>3, <1>4, <1>5

\* Padding keeps the type of a list, in whatever order it is.
LEMMA PadType ==
    ASSUME NEW list \in Seq(Stored)
    PROVE  PadAll(list) \in Seq(Stored)
<1> DEFINE parts == [i \in DOMAIN list |->
                        Append(PadBefore(list, i), list[i])]
           all == FlattenSeq(parts)
<1>1. ASSUME NEW lo \in IPs, NEW hi \in IPs
      PROVE  Gap(lo, hi) \in Stored
  BY DEF Gap, Segment, Stored, SegmentsOver, Texts
<1>2. /\ 0 \in IPs /\ MaxIP \in IPs
      /\ \A x \in IPs : IPAddOne(x) \in IPs /\ IPSubOne(x) \in IPs
  BY NeighboursType, MaxIPAssumption DEF IPs, AnyIP
<1>3. ASSUME NEW i \in 1..Len(list)
      PROVE  Append(PadBefore(list, i), list[i]) \in Seq(Stored)
  <2>1. list[i] \in Stored /\ list[i].start \in IPs
    BY SegmentTypes DEF Stored
  <2>2. i # 1 => list[i - 1].end \in IPs
    <3>1. i # 1 => i - 1 \in 1..Len(list)
      OBVIOUS
    <3> QED
      BY <3>1, SegmentTypes DEF Stored
  <2>3. PadBefore(list, i) \in Seq(Stored)
    <3>1. Gap(0, IPSubOne(list[i].start)) \in Stored
      BY <1>1, <1>2, <2>1
    <3>2. i # 1 => Gap(IPAddOne(list[i - 1].end), IPSubOne(list[i].start))
                      \in Stored
      BY <1>1, <1>2, <2>1, <2>2
    <3> HIDE DEF Stored
    <3> QED
      BY <3>1, <3>2 DEF PadBefore
  <2> HIDE DEF Stored
  <2> QED
    BY <2>1, <2>3
<1>4. parts \in Seq(Seq(Stored))
  <2>1. DOMAIN list = 1..Len(list) /\ Len(list) \in Nat
    OBVIOUS
  <2>2. \A i \in 1..Len(list) : parts[i] \in Seq(Stored)
    BY <1>3, <2>1
  <2>3. parts \in [1..Len(list) -> Seq(Stored)]
    BY <2>1, <2>2
  <2> QED
    BY <2>1, <2>3
<1> HIDE DEF parts
<1>5. all \in Seq(Stored)
  BY <1>4, FlattenType
<1>6. PadAll(list) = PadTail(all)
  BY DEF PadAll, parts
<1> HIDE DEF all
<1>7. all # <<>> => Gap(IPAddOne(Last(all).end), MaxIP) \in Stored
  <2>1. SUFFICES ASSUME all # <<>>
                 PROVE  Gap(IPAddOne(Last(all).end), MaxIP) \in Stored
    OBVIOUS
  <2>2. Len(all) \in 1..Len(all) /\ Last(all) = all[Len(all)]
    BY <2>1, <1>5 DEF Last
  <2>3. Last(all).end \in IPs
    BY <2>2, <1>5, SegmentTypes DEF Stored
  <2> QED
    BY <2>3, <1>1, <1>2
<1> QED
  BY <1>5, <1>6, <1>7 DEF PadTail

\* A put of a line of either version keeps the type of a list.
LEMMA PutType ==
    ASSUME NEW list \in Seq(AnySeg), NEW seg \in AnyLines
    PROVE  PutSegment(list, seg) \in Seq(AnySeg)
<1> DEFINE n == Len(list)
           i == FirstHit(list, seg)
           j == LastHit(list, seg)
           a == SubSeq(list, 1, i - 1)
           h == HeadPart(list[i], seg)
           t == TailPart(list[j], seg)
           b == SubSeq(list, j + 1, n)
<1>1. seg \in AnySeg /\ seg.start \in AnyIP /\ seg.end \in AnyIP
  <2>1. seg \in SourceLines => seg \in AnyLine
    BY SourceLineTypes
  <2>2. seg \in OtherLines => seg \in AnyLine
    BY OtherAssumption DEF AnyLine, AnyIP
  <2> QED
    BY <2>1, <2>2 DEF AnyLines, AnyLine, AnySeg, Texts
<1>2. n \in Nat /\ \A k \in 1..n : /\ list[k] \in AnySeg
                                   /\ list[k].start \in AnyIP
                                   /\ list[k].end \in AnyIP
                                   /\ list[k].region \in Texts
  <2>1. \A k \in 1..n : list[k] \in AnySeg
    OBVIOUS
  <2> QED
    BY <2>1 DEF AnySeg
<1>3. i \in 0..n
  <2> DEFINE hits == {k \in 1..n : Holds(list[k], seg.start)}
  <2>1. i = IF hits # {} THEN Min(hits) ELSE 0
    BY DEF FirstHit, SelectInSeq
  <2>2. hits \subseteq 1..n /\ hits \subseteq Nat
    BY <1>2
  <2> HIDE DEF hits, i
  <2>3. hits # {} => Min(hits) \in hits
    BY <2>2, MinIsLeast
  <2>4. CASE hits = {}
    BY <1>2, <2>1, <2>4
  <2>5. CASE hits # {}
    <3>1. i \in 1..n
      BY <2>1, <2>2, <2>3, <2>5
    <3> QED
      BY <1>2, <3>1
  <2> QED
    BY <2>4, <2>5
<1>4. i # 0 => j \in 1..n
  <2> DEFINE reach == {k \in i..n : ~IPLess(list[k].end, seg.end)}
  <2>1. SUFFICES ASSUME i # 0 PROVE j \in 1..n
    OBVIOUS
  <2>2. j = IF reach = {} THEN n
            ELSE CHOOSE k \in reach : \A l \in reach : k <= l
    BY DEF LastHit
  <2>3. reach \subseteq Nat /\ reach \subseteq 1..n /\ n \in 1..n
    BY <1>2, <1>3, <2>1
  <2> HIDE DEF reach, j
  <2>4. reach # {} => \E k \in reach : \A l \in reach : k <= l
    BY <2>3, LeastNumber
  <2> QED
    BY <2>2, <2>3, <2>4
<1> HIDE DEF i, j
<1>5. CASE i = 0
  <2>1. PutSegment(list, seg) = Append(list, seg)
    BY <1>5 DEF PutSegment, i
  <2> QED
    BY <2>1, <1>1
<1>6. CASE i # 0
  <2>1. i \in 1..n /\ j \in 1..n
    BY <1>2, <1>3, <1>4, <1>6
  <2>2. h \in Seq(AnySeg)
    <3>1. Segment(list[i].start, SubOne(seg.start), list[i].region) \in AnySeg
      BY <1>1, <1>2, <2>1, NeighboursType DEF Segment, AnySeg
    <3> HIDE DEF AnySeg
    <3> QED
      BY <3>1 DEF HeadPart
  <2>3. t \in Seq(AnySeg)
    <3>1. Segment(AddOne(seg.end), list[j].end, list[j].region) \in AnySeg
      BY <1>1, <1>2, <2>1, NeighboursType DEF Segment, AnySeg
    <3> HIDE DEF AnySeg
    <3> QED
      BY <3>1 DEF TailPart
  <2> HIDE DEF h, t, AnySeg
  <2>4. a \in Seq(AnySeg) /\ b \in Seq(AnySeg)
    BY <1>2, <2>1
  <2> HIDE DEF a, b
  <2>5. PutSegment(list, seg) = a \o h \o <<seg>> \o t \o b
    BY <1>6 DEF PutSegment, i, j, a, b, h, t
  <2> QED
    BY <2>2, <2>3, <2>4, <2>5, <1>1
<1> QED
  BY <1>5, <1>6

\* What a save writes are lines with a region.
LEMMA SaveType ==
    ASSUME NEW list \in Seq(AnySeg)
    PROVE  SaveLines(list) \in Seq(AnyLine)
<1> DEFINE parts == [i \in DOMAIN list |->
                        IF list[i].region = EmptyRegion THEN <<>>
                                                        ELSE <<list[i]>>]
<1>1. DOMAIN list = 1..Len(list) /\ Len(list) \in Nat
  OBVIOUS
<1>2. ASSUME NEW i \in 1..Len(list)
      PROVE  parts[i] \in Seq(AnyLine)
  <2>1. list[i] \in AnySeg
    OBVIOUS
  <2>2. list[i].region # EmptyRegion => list[i] \in AnyLine
    BY <2>1 DEF AnySeg, AnyLine, Texts
  <2>3. parts[i] = IF list[i].region = EmptyRegion THEN <<>> ELSE <<list[i]>>
    BY <1>1
  <2> HIDE DEF parts
  <2> QED
    BY <2>2, <2>3
<1>3. parts \in Seq(Seq(AnyLine))
  <2>1. parts \in [1..Len(list) -> Seq(AnyLine)]
    BY <1>1, <1>2
  <2> QED
    BY <1>1, <2>1
<1> HIDE DEF parts
<1> QED
  BY <1>3, FlattenType DEF SaveLines, parts

\* A file that loads has lines of the version only.
LEMMA LoadedLines ==
    ASSUME NEW lines \in Seq(AnyLine \cup {BadLine}), Loads(lines)
    PROVE  lines \in Seq(SourceLines)
<1>1. ASSUME NEW i \in 1..Len(lines)
      PROVE  lines[i] \in SourceLines
  <2>1. lines[i] \in AnyLine \cup {BadLine} /\ i \in DOMAIN lines
    OBVIOUS
  <2>2. /\ lines[i] # BadLine /\ lines[i].start \in IPs
        /\ lines[i].end \in IPs /\ lines[i].start <= lines[i].end
    BY <2>1 DEF Loads, Parses
  <2>3. lines[i] \in SegmentsOver(Regions)
    BY <2>1, <2>2 DEF AnyLine, SegmentsOver
  <2> QED
    BY <2>2, <2>3, SegmentIsLine
<1> QED
  BY <1>1

-----------------------------------------------------------------------------
(* Torn lines *)

\* What is left of a line is a line or does not parse; of one of the version
\* it is one that starts where the line did and does not go further.
LEMMA TornType ==
    ASSUME NEW line \in AnyLine, NEW part \in Torn(line)
    PROVE  /\ part \in Seq(AnyLine \cup {BadLine})
           /\ line \in SourceLines =>
                 \/ part \in {<<>>, <<BadLine>>}
                 \/ \E t \in SourceLines :
                       /\ part = <<t>>
                       /\ t.start = line.start /\ t.end <= line.end
<1>1. CASE part \in {<<>>, <<BadLine>>}
  <2> DEFINE T == AnyLine \cup {BadLine}
  <2>1. BadLine \in T
    OBVIOUS
  <2> HIDE DEF T
  <2>2. <<>> \in Seq(T) /\ <<BadLine>> \in Seq(T)
    BY <2>1
  <2>3. part = <<>> \/ part = <<BadLine>>
    BY <1>1
  <2>4. part \in Seq(T)
    BY <2>2, <2>3
  <2> QED
    BY <1>1, <2>4 DEF T
<1>2. CASE part \notin {<<>>, <<BadLine>>}
  <2>1. PICK e \in AnyIP, r \in Regions :
           /\ e \in IPs <=> line.end \in IPs
           /\ line.start <= e /\ e <= line.end
           /\ part = <<Segment(line.start, e, r)>>
    <3> DEFINE Left == {x \in AnyIP : /\ x \in IPs <=> line.end \in IPs
                                      /\ line.start <= x /\ x <= line.end}
               Cut(e, r) == <<Segment(line.start, e, r)>>
               Cuts == {Cut(e, r) : e \in Left, r \in Regions}
    <3>1. part \in {<<>>, <<BadLine>>} \cup Cuts
      BY DEF Torn
    <3>2. part \in Cuts
      <4> HIDE DEF Cuts
      <4> QED
        BY <3>1, <1>2
    <3>3. \E e \in Left, r \in Regions : part = Cut(e, r)
      <4> HIDE DEF Left, Cut
      <4> QED
        BY <3>2
    <3> QED
      BY <3>3
  <2> DEFINE t == Segment(line.start, e, r)
  <2>2. t \in AnyLine /\ t.start = line.start /\ t.end = e /\ t.region = r
    BY DEF AnyLine, Segment
  <2>3. ASSUME line \in SourceLines
        PROVE  t \in SourceLines
    <3>1. line.start \in IPs /\ line.end \in IPs
      BY <2>3, SourceLineTypes
    <3>2. t \in SegmentsOver(Regions) /\ t.start <= t.end
      BY <2>1, <2>2, <3>1 DEF AnyLine, SegmentsOver
    <3> HIDE DEF t
    <3> QED
      BY <3>2, SegmentIsLine
  <2>4. part = <<t>>
    BY <2>1
  <2> HIDE DEF t
  <2>5. <<t>> \in Seq(AnyLine \cup {BadLine})
    BY <2>2
  <2> QED
    BY <2>1, <2>2, <2>3, <2>4, <2>5
<1> QED
  BY <1>1, <1>2

\* Whole leaves out a line that does not parse, and no other.
LEMMA WholeIs ==
    ASSUME NEW lines \in Seq(SourceLines)
    PROVE  Whole(lines) = lines /\ Whole(lines \o <<BadLine>>) = lines
<1>1. Whole(lines) = lines
  <2>1. lines # <<>> => Last(lines) \in SourceLines
    BY DEF Last
  <2>2. lines # <<>> => Last(lines) # BadLine
    BY <2>1, SourceLineTypes
  <2> QED
    BY <2>2 DEF Whole
<1>2. Whole(lines \o <<BadLine>>) = lines
  <2> DEFINE T == SourceLines \cup {BadLine}
             torn == lines \o <<BadLine>>
  <2>1. /\ torn = Append(lines, BadLine) /\ torn \in Seq(T)
        /\ Len(torn) = Len(lines) + 1 /\ Len(lines) \in Nat
        /\ torn[Len(lines) + 1] = BadLine
        /\ \A i \in 1..Len(lines) : torn[i] = lines[i]
    OBVIOUS
  <2> HIDE DEF torn
  <2>2. Last(torn) = BadLine /\ torn # <<>>
    BY <2>1 DEF Last
  <2>3. Front(torn) = lines
    <3>1. Front(torn) = SubSeq(torn, 1, Len(lines))
      BY <2>1 DEF Front
    <3>2. /\ SubSeq(torn, 1, Len(lines)) \in Seq(T)
          /\ Len(SubSeq(torn, 1, Len(lines))) = Len(lines)
          /\ \A i \in 1..Len(lines) :
                SubSeq(torn, 1, Len(lines))[i] = lines[i]
      BY <2>1
    <3> QED
      BY <3>1, <3>2
  <2> QED
    BY <2>2, <2>3 DEF Whole, torn
<1> QED
  BY <1>1, <1>2

\* A save that breaks off inside a line leaves lines in order, if need be
\* without the last, and they give one range behind the others a region.
LEMMA TornPart ==
    ASSUME NEW list \in Seq(Stored), Tiles(list, 0, MaxIP),
           NEW a \in Seq(SourceLines), NEW b \in Seq(SourceLines), b # <<>>,
           a \o b = SaveLines(list), NEW part \in Torn(Head(b))
    PROVE  LET new == Whole(a \o part)
           IN  /\ new \in Seq(SourceLines) /\ Ordered(new)
               /\ \/ new = a
                  \/ \E lo, hi \in 0..MaxIP, r \in Regions :
                        /\ \A ip \in lo..MaxIP :
                              TableOf(a)[ip] = EmptyRegion
                        /\ TableOf(new) = Table!Override(TableOf(a), lo, hi, r)
<1> DEFINE new == Whole(a \o part)
           line == Head(b)
           m == Len(a)
<1>1. line \in SourceLines /\ line \in AnyLine
  <2>1. line \in SourceLines
    OBVIOUS
  <2> QED
    BY <2>1, SourceLineTypes
<1>2. Ordered(a)
  BY SavedPart
<1>3. CASE part \in {<<>>, <<BadLine>>}
  <2>1. a \o <<>> = a
    OBVIOUS
  <2>2. new = a
    BY <1>3, <2>1, WholeIs
  <2> QED
    BY <1>2, <2>2
<1>4. CASE part \notin {<<>>, <<BadLine>>}
  <2>1. PICK t \in SourceLines :
           part = <<t>> /\ t.start = line.start /\ t.end <= line.end
    BY <1>1, <1>4, TornType
  <2> DEFINE c == a \o <<t>>
             d == a \o b
  <2>2. c \in Seq(SourceLines) /\ new = c
    <3>1. c \in Seq(SourceLines)
      OBVIOUS
    <3>2. a \o part = c
      BY <2>1
    <3> HIDE DEF c
    <3> QED
      BY <3>1, <3>2, WholeIs
  <2>3. /\ d \in Seq(SourceLines) /\ Ordered(d)
    <3>1. Len(list) > 0
      <4>1. MaxIP \in IPs
        BY MaxIPAssumption DEF IPs
      <4> QED
        BY <4>1, TilesContinuous DEF Stored
    <3> QED
      BY <3>1, SaveSays DEF Tiles
  <2>4. \A i \in 1..m : a[i].end < line.start
    <3>1. /\ m \in Nat
          /\ \A i \in 1..m : i \in 1..Len(d) /\ d[i] = a[i]
          /\ \A i \in 1..Len(b) : m + i \in 1..Len(d) /\ d[m + i] = b[i]
      BY ConcatItems
    <3>2. 1 \in 1..Len(b) /\ b[1] = line
      OBVIOUS
    <3> HIDE DEF d, m, line
    <3>3. m + 1 \in 1..Len(d) /\ d[m + 1] = line
      BY <3>1, <3>2
    <3>4. ASSUME NEW i \in 1..m
          PROVE  a[i].end < line.start
      <4>1. i < m + 1 /\ i \in 1..Len(d) /\ d[i] = a[i]
        BY <3>1
      <4> QED
        BY <4>1, <3>3, <2>3 DEF Ordered
    <3> QED
      BY <3>4
  <2>5. /\ t \in SegmentsOver(Regions) /\ t.start <= t.end
        /\ t.start \in IPs /\ t.end \in IPs /\ t.region \in Regions
        /\ t.start \in Nat /\ t.end \in Nat
    BY SourceLineTypes
  <2>6. /\ <<t>> \in Seq(SegmentsOver(Regions))
        /\ Tiles(<<t>>, t.start, t.end)
        /\ \A ip : \A r : Says(<<t>>, ip, r) <=> SegSays(t, ip, r)
    BY <2>5, TilesOne
  <2>7. a \in Seq(SegmentsOver(Regions)) /\ Proper(a)
    BY LinesAreSegments
  <2>8. /\ c \in Seq(SegmentsOver(Regions)) /\ Ordered(c)
        /\ \A ip : \A r : Says(c, ip, r)
                             <=> Says(a, ip, r) \/ SegSays(t, ip, r)
    <3>1. \A i \in 1..Len(a), j \in 1..Len(<<t>>) : a[i].end < <<t>>[j].start
      <4>1. Len(<<t>>) = 1 /\ <<t>>[1] = t
        OBVIOUS
      <4> QED
        BY <4>1, <2>1, <2>4
    <3> QED
      BY <3>1, <1>2, <2>6, <2>7, ConcatSays DEF Tiles
  <2> HIDE DEF c, d, new, line
  <2>9. \A ip \in IPs : ip >= t.start => \A r : ~Says(a, ip, r)
    <3>1. ASSUME NEW ip \in IPs, ip >= t.start, NEW i \in 1..m,
                 SegContains(a[i], ip)
          PROVE  FALSE
      <4>1. a[i].end \in Nat /\ ip \in Nat
        BY <2>7, SegmentTypes, MaxIPAssumption DEF IPs
      <4>2. a[i].end < t.start /\ ip <= a[i].end
        BY <3>1, <2>1, <2>4 DEF SegContains
      <4> QED
        BY <3>1, <4>1, <4>2, <2>5
    <3> QED
      BY <3>1 DEF Says, SegSays
  <2>10. \A ip \in IPs : ip >= t.start => RegionAt(a, ip) = EmptyRegion
    BY <2>7, <2>9, RegionAtSays
  <2>11. ASSUME NEW ip \in IPs
         PROVE  RegionAt(c, ip) = IF ip \in t.start..t.end THEN t.region
                                                          ELSE RegionAt(a, ip)
    <3>1. ip \in t.start..t.end <=> SegContains(t, ip)
      BY <2>5, MaxIPAssumption DEF SegContains, IPs
    <3>2. SaysOnce(c) /\ SaysOnce(a)
      BY <1>2, <2>7, <2>8, OrderedOnce
    <3>3. CASE SegContains(t, ip)
      <4>1. Says(c, ip, t.region)
        BY <3>3, <2>8 DEF SegSays
      <4> QED
        BY <4>1, <3>1, <3>2, <3>3, <2>8, RegionAtIs
    <3>4. CASE ~SegContains(t, ip)
      <4>1. \A r : Says(c, ip, r) <=> Says(a, ip, r)
        BY <3>4, <2>8 DEF SegSays
      <4>2. \/ RegionAt(a, ip) = EmptyRegion /\ \A r : ~Says(a, ip, r)
            \/ Says(a, ip, RegionAt(a, ip))
        BY <2>7, RegionAtSays
      <4>3. \/ RegionAt(c, ip) = EmptyRegion /\ \A r : ~Says(c, ip, r)
            \/ Says(c, ip, RegionAt(c, ip))
        BY <2>8, RegionAtSays
      <4>4. \A r : Says(a, ip, r) => RegionAt(a, ip) = r
        BY <2>7, <3>2, RegionAtIs
      <4> QED
        BY <3>1, <3>4, <4>1, <4>2, <4>3, <4>4
    <3> QED
      BY <3>3, <3>4
  <2>12. TableOf(c) = Table!Override(TableOf(a), t.start, t.end, t.region)
    BY <2>11 DEF TableOf, Table!Override, IPs
  <2>13. \A ip \in t.start..MaxIP : TableOf(a)[ip] = EmptyRegion
    <3>1. \A ip \in t.start..MaxIP : ip \in IPs /\ ip >= t.start
      BY <2>5 DEF IPs
    <3> QED
      BY <3>1, <2>10 DEF TableOf
  <2>14. t.start \in 0..MaxIP /\ t.end \in 0..MaxIP
    BY <2>5 DEF IPs
  <2> QED
    BY <2>2, <2>5, <2>8, <2>12, <2>13, <2>14 DEF new
<1> QED
  BY <1>3, <1>4

-----------------------------------------------------------------------------
(* The inductive invariant *)

\* No source and no put_file has lines that meet at the seam, and sources
\* that load are in order.
Sensible ==
    /\ \A lines \in Sources : Sound(lines)
    /\ \A lines \in PutFiles : NoSeam(GoodLines(lines))

Types ==
    /\ file \in Seq(AnyLine \cup {BadLine})
    /\ mode \in {"closed", "open", "saving"}
    /\ segs \in Seq(AnySeg)
    /\ toSave \in BOOLEAN /\ astray \in BOOLEAN /\ spoilt \in BOOLEAN
    /\ unput \in Seq(AnyLines)
    /\ unsaved \in Seq(AnyLine)

FilePart == ~spoilt => Whole(file) \in Seq(SourceLines) /\ Sound(Whole(file))

ClosedPart ==
    mode = "closed" => /\ segs = <<>> /\ unput = <<>> /\ unsaved = <<>>
                       /\ ~astray

\* a list that has not gone astray covers all addresses, or is that of a
\* source without a segment and has not been changed
ListPart ==
    mode # "closed" /\ ~astray =>
        /\ ~spoilt /\ segs \in Seq(Stored)
        /\ \/ Tiles(segs, 0, MaxIP)
           \/ segs = <<>> /\ mode = "open" /\ ~toSave

OpenPart ==
    mode = "open" => /\ unsaved = <<>>
                     /\ ~toSave /\ ~astray => TableOf(file) = TableOf(segs)

\* what is in the file and what is still to write make up the whole save
SavingPart ==
    mode = "saving" =>
        /\ unput = <<>> /\ toSave /\ (spoilt <=> astray)
        /\ ~astray => /\ file \in Seq(SourceLines)
                      /\ unsaved \in Seq(SourceLines)
                      /\ file \o unsaved = SaveLines(segs)

IInv ==
    /\ Types
    /\ FilePart
    /\ ClosedPart
    /\ ListPart
    /\ OpenPart
    /\ SavingPart

\* The types that the proofs use are parts of those the states have.
LEMMA TypeParts ==
    /\ SourceLines \subseteq AnyLine /\ Stored \subseteq AnySeg
    /\ AnyLine \subseteq AnyLine \cup {BadLine}
<1>1. SourceLines \subseteq AnyLine
  BY SourceLineTypes
<1>2. Stored \subseteq AnySeg
  BY DEF Stored, SegmentsOver, AnySeg, AnyIP
<1> QED
  BY <1>1, <1>2

\* Before the first session, the sources are sensible and nothing is open.
LEMMA InitIInv == ASSUME Sensible, Init PROVE IInv
<1>1. file \in Seq(SourceLines)
  BY SourcesAssumption DEF Init
<1>2. Whole(file) = file
  BY <1>1, WholeIs
<1>3. file \in Seq(AnyLine \cup {BadLine})
  BY <1>1, TypeParts
<1>4. Types
  <2>1. \A S : <<>> \in Seq(S)
    OBVIOUS
  <2> QED
    BY <1>3, <2>1 DEF Init, Types
<1>5. FilePart
  BY <1>1, <1>2 DEF Sensible, Init, FilePart
<1> QED
  BY <1>4, <1>5 DEF IInv, Init, ClosedPart, ListPart, OpenPart, SavingPart

\* Writing the next line moves it from what is left to what is written.
LEMMA MoveHead ==
    ASSUME NEW T, NEW s \in Seq(T), NEW t \in Seq(T), t # <<>>
    PROVE  /\ Head(t) \in T /\ Tail(t) \in Seq(T)
           /\ Append(s, Head(t)) \in Seq(T)
           /\ Append(s, Head(t)) \o Tail(t) = s \o t
<1>1. Head(t) \in T /\ Tail(t) \in Seq(T)
  OBVIOUS
<1>2. t = <<Head(t)>> \o Tail(t)
  OBVIOUS
<1>3. /\ Append(s, Head(t)) = s \o <<Head(t)>>
      /\ Append(s, Head(t)) \in Seq(T) /\ <<Head(t)>> \in Seq(T)
  BY <1>1, AppendIsConcat
<1>4. (s \o <<Head(t)>>) \o Tail(t) = s \o (<<Head(t)>> \o Tail(t))
  BY <1>1, <1>3, ConcatAssociative
<1> QED
  BY <1>1, <1>2, <1>3, <1>4

\* Opening reads the table of the file; a source without a segment gives an
\* empty list.
LEMMA OpenStep ==
    ASSUME IInv, Open
    PROVE  /\ Types' /\ file' = file /\ mode' = "open"
           /\ ~spoilt => /\ segs' \in Seq(Stored)
                         /\ \/ Tiles(segs', 0, MaxIP)
                            \/ segs' = <<>> /\ ~toSave'
                         /\ TableOf(segs') = TableOf(file)
                         /\ Whole(file) = file
<1> DEFINE list == PadAll(Loaded(file))
<1>1. /\ mode = "closed" /\ Loads(file) /\ mode' = "open"
      /\ segs' = list /\ toSave' = ~InOrder(MergeLines(file))
      /\ astray' = spoilt /\ file' = file /\ unput' = unput
      /\ unsaved' = unsaved /\ spoilt' = spoilt
  BY DEF Open
<1>2. file \in Seq(SourceLines)
  BY <1>1, LoadedLines DEF IInv, Types
<1>3. list \in Seq(Stored)
  <2> DEFINE merged == MergeLines(file)
  <2>1. merged \in Seq(SegmentsOver(Regions))
    BY <1>2, LinesAreSegments, MergeType
  <2> HIDE DEF merged
  <2>2. LoadOrder(merged) \in Seq(SegmentsOver(Regions))
    BY <2>1, LoadOrderSays
  <2>3. SegmentsOver(Regions) \subseteq Stored
    BY DEF SegmentsOver, Stored, Texts
  <2>4. Loaded(file) \in Seq(Stored)
    BY <2>2, <2>3 DEF Loaded, merged
  <2> QED
    BY <2>4, PadType
<1> HIDE DEF list
<1>4. Types'
  <2>1. list \in Seq(AnySeg)
    BY <1>3, TypeParts
  <2> QED
    BY <1>1, <2>1 DEF IInv, Types
<1>5. ASSUME ~spoilt
      PROVE  /\ \/ Tiles(list, 0, MaxIP)
                \/ list = <<>> /\ ~toSave'
             /\ TableOf(list) = TableOf(file) /\ Whole(file) = file
  <2>1. Whole(file) = file /\ Sound(file)
    BY <1>2, <1>5, WholeIs DEF IInv, FilePart
  <2>2. CASE Loaded(file) = <<>>
    BY <2>1, <2>2, <1>1, <1>2, OpenNothing DEF list
  <2>3. CASE Loaded(file) # <<>>
    <3>1. /\ Tiles(PadAll(Loaded(file)), 0, MaxIP)
          /\ TableOf(PadAll(Loaded(file))) = TableOf(file)
      BY <2>1, <2>3, <1>1, <1>2, OpenSays
    <3> QED
      BY <2>1, <3>1 DEF list
  <2> QED
    BY <2>1, <2>2, <2>3
<1> QED
  BY <1>1, <1>3, <1>4, <1>5

\* A put that does not go astray overrides the table and raises the flag.
LEMMA PutStep ==
    ASSUME IInv, mode = "open", NEW seg \in AnyLines, PutInto(seg)
    PROVE  /\ segs' \in Seq(AnySeg) /\ toSave' \in BOOLEAN
           /\ astray' \in BOOLEAN
           /\ ~astray' =>
                 /\ ~astray /\ seg \in SourceLines
                 /\ segs \in Seq(Stored) /\ Tiles(segs, 0, MaxIP)
                 /\ segs' \in Seq(Stored) /\ Tiles(segs', 0, MaxIP)
                 /\ toSave' = TRUE
                 /\ TableOf(segs') = PutLine(TableOf(segs), seg)
<1>1. /\ segs' = PutSegment(segs, seg)
      /\ toSave' = (toSave \/ PutChangesFlag(segs, seg))
      /\ astray' = (astray \/ Strays(segs, seg))
  BY DEF PutInto
<1>2. segs' \in Seq(AnySeg)
  BY <1>1, PutType DEF IInv, Types
<1>3. PutChangesFlag(segs, seg) \in BOOLEAN /\ Strays(segs, seg) \in BOOLEAN
  BY DEF PutChangesFlag, Strays
<1>4. toSave' \in BOOLEAN /\ astray' \in BOOLEAN
  BY <1>1, <1>3 DEF IInv, Types
<1>5. ASSUME ~astray'
      PROVE  /\ ~astray /\ seg \in SourceLines
             /\ segs \in Seq(Stored) /\ Tiles(segs, 0, MaxIP)
  <2>1. ~astray /\ ~Strays(segs, seg)
    BY <1>1, <1>5
  <2>2. seg.start \in IPs /\ FirstHit(segs, seg) # 0
    BY <2>1 DEF Strays, PutChangesFlag
  <2>3. seg \in SourceLines
    <3>1. seg \in OtherLines => seg.start \notin IPs
      BY OtherAssumption, MaxIPAssumption DEF OtherIPs, IPs
    <3> QED
      BY <2>2, <3>1 DEF AnyLines
  <2>4. segs # <<>>
    <3>1. ASSUME segs = <<>> PROVE FALSE
      <4> DEFINE hits == {i \in 1..Len(segs) : Holds(segs[i], seg.start)}
      <4>1. Len(segs) = 0
        BY <3>1
      <4>2. hits = {}
        BY <4>1
      <4>3. FirstHit(segs, seg) = IF hits # {} THEN Min(hits) ELSE 0
        BY DEF FirstHit, SelectInSeq
      <4> HIDE DEF hits
      <4> QED
        BY <4>2, <4>3, <2>2
    <3> QED
      BY <3>1
  <2>5. segs \in Seq(Stored) /\ Tiles(segs, 0, MaxIP)
    BY <2>1, <2>4 DEF IInv, ListPart
  <2> QED
    BY <2>1, <2>3, <2>5
<1>6. ASSUME ~astray'
      PROVE  /\ segs' \in Seq(Stored) /\ Tiles(segs', 0, MaxIP)
             /\ toSave' = TRUE
             /\ TableOf(segs') = PutLine(TableOf(segs), seg)
  <2>1. /\ PutSegment(segs, seg) \in Seq(Stored)
        /\ Tiles(PutSegment(segs, seg), 0, MaxIP)
        /\ PutChangesFlag(segs, seg)
        /\ TableOf(PutSegment(segs, seg)) = PutLine(TableOf(segs), seg)
    BY <1>5, <1>6, PutTable
  <2> QED
    BY <1>1, <2>1 DEF IInv, Types
<1> QED
  BY <1>2, <1>4, <1>5, <1>6

\* What a write that breaks off leaves in the file.
LEMMA TornStep ==
    ASSUME IInv, mode = "saving", unsaved # <<>>,
           NEW part \in Torn(Head(unsaved)), file' = file \o part
    PROVE  /\ file' \in Seq(AnyLine \cup {BadLine})
           /\ ~spoilt =>
                 /\ Whole(file') \in Seq(SourceLines)
                 /\ Sound(Whole(file')) /\ Loads(Whole(file'))
                 /\ Whole(file) = file
                 /\ \/ Whole(file') = file
                    \/ \E lo, hi \in 0..MaxIP, r \in Regions :
                          /\ \A ip \in lo..MaxIP :
                                TableOf(file)[ip] = EmptyRegion
                          /\ TableOf(Whole(file'))
                                = Table!Override(TableOf(file), lo, hi, r)
<1>1. file' \in Seq(AnyLine \cup {BadLine})
  <2> DEFINE T == AnyLine \cup {BadLine}
  <2>1. Head(unsaved) \in AnyLine
    BY DEF IInv, Types
  <2>2. part \in Seq(T) /\ file \in Seq(T)
    BY <2>1, TornType DEF IInv, Types
  <2> HIDE DEF T
  <2>3. file \o part \in Seq(T)
    BY <2>2
  <2> QED
    BY <2>3 DEF T
<1>2. ASSUME ~spoilt
      PROVE  /\ Whole(file') \in Seq(SourceLines) /\ Ordered(Whole(file'))
             /\ Whole(file) = file
             /\ \/ Whole(file') = file
                \/ \E lo, hi \in 0..MaxIP, r \in Regions :
                      /\ \A ip \in lo..MaxIP :
                            TableOf(file)[ip] = EmptyRegion
                      /\ TableOf(Whole(file'))
                            = Table!Override(TableOf(file), lo, hi, r)
  <2>1. /\ segs \in Seq(Stored) /\ Tiles(segs, 0, MaxIP)
        /\ file \in Seq(SourceLines) /\ unsaved \in Seq(SourceLines)
        /\ file \o unsaved = SaveLines(segs)
    BY <1>2 DEF IInv, ListPart, SavingPart
  <2>2. LET new == Whole(file \o part)
        IN  /\ new \in Seq(SourceLines) /\ Ordered(new)
            /\ \/ new = file
               \/ \E lo, hi \in 0..MaxIP, r \in Regions :
                     /\ \A ip \in lo..MaxIP :
                           TableOf(file)[ip] = EmptyRegion
                     /\ TableOf(new)
                           = Table!Override(TableOf(file), lo, hi, r)
    BY <2>1, TornPart
  <2>3. Whole(file) = file
    BY <2>1, WholeIs
  <2> QED
    BY <2>2, <2>3
<1>3. ~spoilt => Sound(Whole(file')) /\ Loads(Whole(file'))
  BY <1>2, OrderedLoads
<1> QED
  BY <1>1, <1>2, <1>3

\* One step of the editor preserves the invariant.
LEMMA StepIInv ==
    ASSUME Sensible, IInv, [Next]_vars
    PROVE  IInv'
<1>1. /\ Types /\ FilePart /\ ClosedPart /\ ListPart /\ OpenPart
      /\ SavingPart
  BY DEF IInv
<1>2. \A S : <<>> \in Seq(S)
  OBVIOUS
<1>3. CASE Open
  <2>1. /\ Types' /\ file' = file /\ mode' = "open"
        /\ ~spoilt => /\ segs' \in Seq(Stored)
                      /\ \/ Tiles(segs', 0, MaxIP)
                         \/ segs' = <<>> /\ ~toSave'
                      /\ TableOf(segs') = TableOf(file)
    BY <1>3, OpenStep
  <2>2. /\ spoilt' = spoilt /\ astray' = spoilt /\ unsaved' = unsaved
        /\ mode = "closed"
    BY <1>3 DEF Open
  <2>3. unsaved = <<>>
    BY <1>1, <2>2 DEF ClosedPart
  <2>4. FilePart'
    BY <1>1, <2>1, <2>2 DEF FilePart
  <2>5. ListPart'
    BY <2>1, <2>2 DEF ListPart
  <2>6. OpenPart'
    BY <2>1, <2>2, <2>3 DEF OpenPart
  <2> QED
    BY <2>1, <2>4, <2>5, <2>6 DEF IInv, ClosedPart, SavingPart
<1>4. ASSUME mode = "open", NEW seg \in AnyLines, PutInto(seg),
             file' = file, mode' = mode, unsaved' = unsaved,
             spoilt' = spoilt, unput' \in Seq(AnyLines)
      PROVE  IInv'
  <2>1. /\ segs' \in Seq(AnySeg) /\ toSave' \in BOOLEAN
        /\ astray' \in BOOLEAN
        /\ ~astray' => /\ ~astray /\ segs' \in Seq(Stored)
                       /\ Tiles(segs', 0, MaxIP) /\ toSave' = TRUE
    BY <1>4, PutStep
  <2>2. Types'
    BY <1>1, <1>4, <2>1 DEF Types
  <2>3. FilePart'
    BY <1>1, <1>4 DEF FilePart
  <2>4. ListPart'
    BY <1>1, <1>4, <2>1 DEF ListPart
  <2>5. OpenPart'
    BY <1>1, <1>4, <2>1 DEF OpenPart
  <2> QED
    BY <1>4, <2>2, <2>3, <2>4, <2>5 DEF IInv, ClosedPart, SavingPart
<1>5. ASSUME NEW seg \in SourceLines \cup OtherLines, Put(seg)
      PROVE  IInv'
  BY <1>1, <1>4, <1>5 DEF Put, Types, AnyLines
<1>6. ASSUME NEW lines \in PutFiles, PutFile(lines)
      PROVE  IInv'
  <2>1. BatchOf(lines) \in Seq(AnyLines)
    BY BatchType DEF Sensible
  <2>2. Types'
    BY <1>1, <1>6, <2>1 DEF PutFile, Types
  <2>3. /\ mode = "open" /\ mode' = mode /\ file' = file
        /\ segs' = segs /\ toSave' = toSave /\ unsaved' = unsaved
        /\ astray' = astray /\ spoilt' = spoilt
    BY <1>6 DEF PutFile
  <2>4. OpenPart' /\ FilePart' /\ ListPart'
    BY <1>1, <2>3 DEF OpenPart, FilePart, ListPart
  <2> QED
    BY <2>2, <2>3, <2>4 DEF IInv, ClosedPart, SavingPart
<1>7. CASE PutFileNext
  <2>1. /\ mode = "open" /\ unput # <<>> /\ unput \in Seq(AnyLines)
        /\ PutInto(Head(unput)) /\ unput' = Tail(unput)
        /\ file' = file /\ mode' = mode /\ unsaved' = unsaved
        /\ spoilt' = spoilt
    BY <1>1, <1>7 DEF PutFileNext, Types
  <2>2. Head(unput) \in AnyLines /\ Tail(unput) \in Seq(AnyLines)
    BY <2>1
  <2> QED
    BY <2>1, <2>2, <1>4
<1>8. CASE SaveBegin
  <2>1. /\ mode = "open" /\ unput = <<>> /\ toSave /\ mode' = "saving"
        /\ file' = <<>> /\ unsaved' = SaveLines(segs) /\ spoilt' = astray
        /\ segs' = segs /\ toSave' = toSave /\ unput' = unput
        /\ astray' = astray
    BY <1>8 DEF SaveBegin
  <2>2. ~astray => segs \in Seq(Stored) /\ Tiles(segs, 0, MaxIP)
    BY <1>1, <2>1 DEF ListPart
  <2>3. ~astray => SaveLines(segs) \in Seq(SourceLines)
    <3>1. ~astray => Len(segs) > 0
      <4>1. MaxIP \in IPs
        BY MaxIPAssumption DEF IPs
      <4> QED
        BY <4>1, <2>2, TilesContinuous DEF Stored
    <3> QED
      BY <2>2, <3>1, SaveSays DEF Tiles
  <2>4. ~astray => <<>> \o SaveLines(segs) = SaveLines(segs)
    BY <2>3, ConcatEmptySeq
  <2>5. Whole(<<>>) \in Seq(SourceLines) /\ Sound(Whole(<<>>))
    <3>1. Ordered(<<>>) /\ Whole(<<>>) = <<>>
      BY DEF Ordered, Whole
    <3> QED
      BY <3>1, <1>2, OrderedLoads
  <2>6. Types'
    <3>1. SaveLines(segs) \in Seq(AnyLine)
      BY <1>1, SaveType DEF Types
    <3> QED
      BY <1>1, <1>2, <2>1, <3>1 DEF Types
  <2>7. SavingPart'
    BY <1>2, <2>1, <2>3, <2>4 DEF SavingPart
  <2>8. ListPart' /\ FilePart'
    BY <2>1, <2>2, <2>5 DEF ListPart, FilePart
  <2> QED
    BY <2>1, <2>6, <2>7, <2>8 DEF IInv, ClosedPart, OpenPart
<1>9. CASE SaveLine
  <2>1. /\ mode = "saving" /\ unsaved # <<>>
        /\ file' = Append(file, Head(unsaved)) /\ unsaved' = Tail(unsaved)
        /\ segs' = segs /\ toSave' = toSave /\ unput' = unput /\ mode' = mode
        /\ astray' = astray /\ spoilt' = spoilt
    BY <1>9 DEF SaveLine
  <2>2. /\ unput = <<>> /\ toSave /\ (spoilt <=> astray)
        /\ ~astray => /\ Tiles(segs, 0, MaxIP) /\ segs \in Seq(Stored)
                      /\ file \in Seq(SourceLines)
                      /\ unsaved \in Seq(SourceLines)
                      /\ file \o unsaved = SaveLines(segs)
    BY <1>1, <2>1 DEF ListPart, SavingPart
  <2>3. ~astray => /\ file' \in Seq(SourceLines)
                   /\ unsaved' \in Seq(SourceLines)
                   /\ file' \o unsaved' = SaveLines(segs)
    <3> SUFFICES ASSUME ~astray
                 PROVE  /\ file' \in Seq(SourceLines)
                        /\ unsaved' \in Seq(SourceLines)
                        /\ file' \o unsaved' = SaveLines(segs)
      OBVIOUS
    <3>1. /\ Tail(unsaved) \in Seq(SourceLines)
          /\ Append(file, Head(unsaved)) \in Seq(SourceLines)
          /\ Append(file, Head(unsaved)) \o Tail(unsaved) = file \o unsaved
      BY <2>1, <2>2, MoveHead
    <3> QED
      BY <2>1, <2>2, <3>1
  <2>4. ~astray => Whole(file') = file' /\ Sound(file')
    BY <2>2, <2>3, SavedPart, OrderedLoads, WholeIs
  <2>5. Types'
    <3>1. Head(unsaved) \in AnyLine /\ Tail(unsaved) \in Seq(AnyLine)
      BY <1>1, <2>1 DEF Types
    <3> DEFINE T == AnyLine \cup {BadLine}
    <3>2. Head(unsaved) \in T /\ file \in Seq(T)
      BY <1>1, <3>1 DEF Types
    <3> HIDE DEF T
    <3>3. file' \in Seq(T)
      BY <2>1, <3>2
    <3> QED
      BY <1>1, <2>1, <3>1, <3>3 DEF Types, T
  <2>6. SavingPart'
    BY <2>1, <2>2, <2>3 DEF SavingPart
  <2>7. ListPart' /\ FilePart'
    BY <1>1, <2>1, <2>2, <2>3, <2>4 DEF ListPart, FilePart
  <2> QED
    BY <2>1, <2>5, <2>6, <2>7 DEF IInv, ClosedPart, OpenPart
<1>10. CASE SaveDone
  <2>1. /\ mode = "saving" /\ unsaved = <<>> /\ mode' = "open"
        /\ toSave' = FALSE /\ file' = file /\ segs' = segs
        /\ unput' = unput /\ unsaved' = unsaved
        /\ astray' = astray /\ spoilt' = spoilt
    BY <1>10 DEF SaveDone
  <2>2. ~astray => Tiles(segs, 0, MaxIP) /\ TableOf(file) = TableOf(segs)
    BY <1>1, <2>1, SavedPart DEF ListPart, SavingPart
  <2>3. Types'
    BY <1>1, <2>1 DEF Types
  <2>4. OpenPart' /\ ListPart' /\ FilePart'
    BY <1>1, <2>1, <2>2 DEF OpenPart, ListPart, FilePart
  <2> QED
    BY <2>1, <2>3, <2>4 DEF IInv, ClosedPart, SavingPart
<1>11. CASE SaveFails
  <2>1. /\ mode = "saving" /\ unsaved # <<>> /\ mode' = "open"
        /\ unsaved' = <<>> /\ segs' = segs /\ toSave' = toSave
        /\ unput' = unput /\ astray' = astray /\ spoilt' = spoilt
    BY <1>11 DEF SaveFails
  <2>2. PICK part \in Torn(Head(unsaved)) : file' = file \o part
    BY <1>11 DEF SaveFails
  <2>3. /\ file' \in Seq(AnyLine \cup {BadLine})
        /\ ~spoilt => /\ Whole(file') \in Seq(SourceLines)
                      /\ Sound(Whole(file'))
    BY <2>1, <2>2, TornStep
  <2>4. toSave
    BY <1>1, <2>1 DEF SavingPart
  <2>5. Types'
    BY <1>1, <1>2, <2>1, <2>3 DEF Types
  <2>6. ListPart' /\ FilePart' /\ OpenPart'
    BY <1>1, <2>1, <2>3, <2>4 DEF ListPart, FilePart, OpenPart
  <2> QED
    BY <2>1, <2>5, <2>6 DEF IInv, ClosedPart, SavingPart
<1>12. ASSUME Leave, file' \in Seq(AnyLine \cup {BadLine}),
              ~spoilt => /\ Whole(file') \in Seq(SourceLines)
                         /\ Sound(Whole(file'))
       PROVE  IInv'
  <2>1. /\ mode' = "closed" /\ segs' = <<>> /\ toSave' = FALSE
        /\ unput' = <<>> /\ unsaved' = <<>> /\ astray' = FALSE
        /\ spoilt' = spoilt
    BY <1>12 DEF Leave
  <2>2. Types' /\ FilePart'
    BY <1>1, <1>2, <1>12, <2>1 DEF Types, FilePart
  <2> QED
    BY <2>1, <2>2 DEF IInv, ClosedPart, ListPart, OpenPart, SavingPart
<1>13. ASSUME Leave, file' = file
       PROVE  IInv'
  BY <1>1, <1>12, <1>13 DEF Types, FilePart
<1>14. CASE Quit \/ ForceQuit
  BY <1>13, <1>14 DEF Quit, ForceQuit
<1>15. CASE Kill
  <2>1. CASE file' = file
    BY <1>13, <1>15, <2>1 DEF Kill
  <2>2. CASE file' # file
    <3>1. /\ mode = "saving" /\ unsaved # <<>> /\ Leave
          /\ \E part \in Torn(Head(unsaved)) : file' = file \o part
      BY <1>15, <2>2 DEF Kill
    <3>2. PICK part \in Torn(Head(unsaved)) : file' = file \o part
      BY <3>1
    <3> QED
      BY <3>1, <3>2, <1>12, TornStep
  <2> QED
    BY <2>1, <2>2
<1>16. CASE UNCHANGED vars
  <2>1. Types'
    BY <1>1, <1>16 DEF vars, Types
  <2> QED
    BY <1>1, <1>16, <2>1
       DEF vars, IInv, FilePart, ClosedPart, ListPart, OpenPart, SavingPart
<1> QED
  BY <1>3, <1>5, <1>6, <1>7, <1>8, <1>9, <1>10, <1>11, <1>14, <1>15, <1>16
     DEF Next

\* What the runs check of every state follows from the invariant.
LEMMA IInvImplies ==
    ASSUME IInv
    PROVE  TypeOK /\ Continuous /\ NoSilentLoss /\ SavedSoFar
<1>1. TypeOK
  BY DEF IInv, Types, TypeOK, AnySeg, Texts, AnyLines
<1>2. Continuous
  <2>1. SUFFICES ASSUME segs # <<>>, ~astray
                 PROVE  /\ segs[1].start = 0 /\ Last(segs).end = MaxIP
                        /\ \A i \in DOMAIN segs : segs[i].start <= segs[i].end
                        /\ \A i \in 1..(Len(segs) - 1) :
                              segs[i + 1].start = segs[i].end + 1
    BY DEF Continuous
  <2>2. Tiles(segs, 0, MaxIP) /\ segs \in Seq(Stored)
    BY <2>1 DEF IInv, ListPart, ClosedPart
  <2>3. MaxIP \in IPs
    BY MaxIPAssumption DEF IPs
  <2>4. DOMAIN segs = 1..Len(segs)
    BY <2>2
  <2> QED
    BY <2>2, <2>3, <2>4, TilesContinuous DEF Stored, Last
<1>3. NoSilentLoss
  BY DEF IInv, OpenPart, NoSilentLoss, QuitDropsNothing
<1>4. SavedSoFar
  <2>1. SUFFICES ASSUME mode = "saving", ~astray, NEW ip \in IPs
                 PROVE  RegionAt(file, ip)
                           \in {RegionAt(segs, ip), EmptyRegion}
    BY DEF SavedSoFar
  <2>2. PICK k \in 0..(MaxIP + 1) :
           \A x \in IPs : RegionAt(file, x) = IF x < k THEN RegionAt(segs, x)
                                                       ELSE EmptyRegion
    BY <2>1, SavedPart DEF IInv, ListPart, SavingPart
  <2> QED
    BY <2>2
<1> QED
  BY <1>1, <1>2, <1>3, <1>4

\* The invariant holds of every session.
LEMMA EditorInvariant ==
    ASSUME Sensible
    PROVE  Spec => []IInv
<1>1. Init => IInv
  BY InitIInv
<1>2. IInv /\ [Next]_vars => IInv'
  BY StepIInv
<1> QED
  BY <1>1, <1>2, PTL DEF Spec

-----------------------------------------------------------------------------
(* The theorems *)

\* In every session on sensible sources, every variable keeps its type.
THEOREM EditorTypeOK ==
    ASSUME Sensible
    PROVE  Spec => []TypeOK
<1>1. IInv => TypeOK
  BY IInvImplies
<1> QED
  BY <1>1, EditorInvariant, PTL

\* Through any sequence of puts of the version, the list covers all
\* addresses, in order, without gap or overlap.
THEOREM EditorContinuous ==
    ASSUME Sensible
    PROVE  Spec => []Continuous
<1>1. IInv => Continuous
  BY IInvImplies
<1> QED
  BY <1>1, EditorInvariant, PTL

\* With the flag down the file says what the list says: quit, which only asks
\* when the flag is up, drops nothing, unless a put of the session found no
\* segment or was of the other version.
THEOREM EditorNoSilentLoss ==
    ASSUME Sensible
    PROVE  Spec => []NoSilentLoss
<1>1. IInv => NoSilentLoss
  BY IInvImplies
<1> QED
  BY <1>1, EditorInvariant, PTL

\* When every source loads, so does what a session leaves, however its save
\* was cut, inside a line too, once a last line that cannot be read is taken
\* out; and the lines before the cut give no address another region.  Excepted
\* is what was saved from a list gone astray.
THEOREM EditorCutSaveUsable ==
    ASSUME Sensible, \A lines \in Sources : Loads(lines)
    PROVE  Spec => []CutSaveUsable
<1> DEFINE Usable == ~spoilt => Loads(Whole(file))
<1>1. Init => Usable
  <2>1. SUFFICES ASSUME Init PROVE Usable
    OBVIOUS
  <2>2. file \in Sources /\ file \in Seq(SourceLines)
    BY <2>1, SourcesAssumption DEF Init
  <2> QED
    BY <2>2, WholeIs
<1>2. IInv /\ Usable /\ [Next]_vars => Usable'
  <2>1. SUFFICES ASSUME IInv, Usable, [Next]_vars, ~spoilt'
                 PROVE  Loads(Whole(file'))
    OBVIOUS
  <2>2. CASE file' = file /\ spoilt' = spoilt
    BY <2>1, <2>2
  <2>3. CASE SaveBegin
    <3>1. /\ file' = <<>> /\ Ordered(<<>>) /\ <<>> \in Seq(SourceLines)
          /\ Whole(<<>>) = <<>>
      BY <2>3 DEF SaveBegin, Ordered, Whole
    <3> QED
      BY <3>1, OrderedLoads
  <2>4. CASE SaveLine
    <3>1. /\ mode = "saving" /\ spoilt' = spoilt /\ unsaved # <<>>
          /\ file' = Append(file, Head(unsaved)) /\ unsaved' = Tail(unsaved)
      BY <2>4 DEF SaveLine
    <3>2. /\ segs \in Seq(Stored) /\ Tiles(segs, 0, MaxIP)
          /\ file \in Seq(SourceLines) /\ unsaved \in Seq(SourceLines)
          /\ file \o unsaved = SaveLines(segs)
      BY <2>1, <3>1 DEF IInv, ListPart, SavingPart
    <3>3. /\ file' \in Seq(SourceLines) /\ unsaved' \in Seq(SourceLines)
          /\ file' \o unsaved' = SaveLines(segs)
      <4>1. /\ Tail(unsaved) \in Seq(SourceLines)
            /\ Append(file, Head(unsaved)) \in Seq(SourceLines)
            /\ Append(file, Head(unsaved)) \o Tail(unsaved) = file \o unsaved
        BY <3>1, <3>2, MoveHead
      <4> QED
        BY <3>1, <3>2, <4>1
    <3> QED
      BY <3>2, <3>3, SavedPart, OrderedLoads, WholeIs
  <2>5. CASE /\ mode = "saving" /\ unsaved # <<>> /\ spoilt' = spoilt
             /\ \E part \in Torn(Head(unsaved)) : file' = file \o part
    <3>1. PICK part \in Torn(Head(unsaved)) : file' = file \o part
      BY <2>5
    <3> QED
      BY <2>1, <2>5, <3>1, TornStep
  <2>6. CASE Open \/ PutFileNext \/ SaveDone
    BY <2>2, <2>6 DEF Open, PutFileNext, SaveDone
  <2>7. ASSUME NEW seg \in SourceLines \cup OtherLines, Put(seg)
        PROVE  Loads(Whole(file'))
    BY <2>2, <2>7 DEF Put
  <2>8. ASSUME NEW lines \in PutFiles, PutFile(lines)
        PROVE  Loads(Whole(file'))
    BY <2>2, <2>8 DEF PutFile
  <2>9. CASE SaveFails
    BY <2>5, <2>9 DEF SaveFails
  <2>10. CASE Quit \/ ForceQuit
    BY <2>2, <2>10 DEF Quit, ForceQuit, Leave
  <2>11. CASE Kill
    BY <2>2, <2>5, <2>11 DEF Kill, Leave
  <2>12. CASE UNCHANGED vars
    BY <2>2, <2>12 DEF vars
  <2> QED
    BY <2>1, <2>3, <2>4, <2>6, <2>7, <2>8, <2>9, <2>10, <2>11, <2>12
       DEF Next
<1>3. IInv /\ Usable => CutSaveUsable
  BY IInvImplies DEF CutSaveUsable, LeftFileLoads
<1> HIDE DEF Usable
<1> QED
  BY <1>1, <1>2, <1>3, EditorInvariant, PTL DEF Spec

\* The table of a list gives every address a region or nothing.
LEMMA TableType ==
    ASSUME NEW R, NEW list \in Seq(SegmentsOver(R)), R \subseteq Texts
    PROVE  TableOf(list) \in [0..MaxIP -> Texts]
<1>1. ASSUME NEW ip \in IPs
      PROVE  RegionAt(list, ip) \in Texts
  <2>1. CASE RegionAt(list, ip) = EmptyRegion
    BY <2>1 DEF Texts
  <2>2. CASE Says(list, ip, RegionAt(list, ip))
    <3>1. PICK i \in 1..Len(list) : SegSays(list[i], ip, RegionAt(list, ip))
      BY <2>2 DEF Says
    <3> QED
      BY <3>1, SegmentTypes DEF SegSays
  <2> QED
    BY <2>1, <2>2, RegionAtSays
<1> QED
  BY <1>1 DEF TableOf, IPs

\* A list without segments has a blank table.
LEMMA TableOfNothing == TableOf(<<>>) = Table!Blank
<1>1. <<>> \in Seq(SegmentsOver(Regions)) /\ \A ip : \A r : ~Says(<<>>, ip, r)
  BY DEF Says
<1>2. \A ip \in IPs : RegionAt(<<>>, ip) = EmptyRegion
  BY <1>1, RegionAtSays
<1> QED
  BY <1>2 DEF TableOf, Table!Blank, IPs

\* Load, put, put_file and save are those of a plain table: a save writes it
\* up to some address, a write that breaks off may tear one range behind
\* that, and no other step changes what is stored.
THEOREM EditorImplementsTable ==
    ASSUME Sensible
    PROVE  Spec => ImplementsTable
<1>1. Init => Table!Init
  <2>1. SUFFICES ASSUME Init PROVE Table!Init
    OBVIOUS
  <2>2. file \in Seq(SourceLines)
    BY <2>1, SourcesAssumption DEF Init
  <2>3. /\ file \in Seq(SegmentsOver(Regions)) /\ Regions \subseteq Texts
        /\ Whole(file) = file
    BY <2>2, LinesAreSegments, WholeIs DEF Texts
  <2>4. TableOf(Whole(file)) \in [0..MaxIP -> Regions \cup {EmptyRegion}]
    BY <2>3, TableType DEF Texts
  <2>5. mode = "closed" /\ segs = <<>>
    BY <2>1 DEF Init
  <2> QED
    BY <2>4, <2>5, TableOfNothing DEF Table!Init
<1> DEFINE AsTable ==
             Table!Next \/ UNCHANGED Table!tableVars \/ astray' \/ spoilt'
<1>2. IInv /\ IInv' /\ [Next]_vars => [AsTable]_vars
  <2>1. SUFFICES ASSUME IInv, IInv', Next, ~astray', ~spoilt'
                 PROVE  Table!Next \/ UNCHANGED Table!tableVars
    OBVIOUS
  <2> DEFINE old == Whole(file)
             new == Whole(file')
  <2>2. CASE Open
    <3>1. mode = "closed" /\ ~spoilt
      BY <2>1, <2>2 DEF Open
    <3>2. /\ file' = file /\ mode' = "open"
          /\ TableOf(segs') = TableOf(file) /\ Whole(file) = file
      BY <2>1, <2>2, <3>1, OpenStep
    <3>3. Table!Open
      BY <3>1, <3>2 DEF Table!Open
    <3> QED
      BY <3>3 DEF Table!Next
  <2>3. ASSUME mode = "open", NEW seg \in AnyLines, PutInto(seg),
               file' = file, mode' = mode
        PROVE  Table!Next
    <3>1. seg \in SourceLines /\ TableOf(segs') = PutLine(TableOf(segs), seg)
      BY <2>1, <2>3, PutStep
    <3>2. /\ seg.start \in 0..MaxIP /\ seg.end \in 0..MaxIP
          /\ seg.region \in Regions
      BY <3>1, SourceLineTypes DEF IPs
    <3>3. Table!Put(seg.start, seg.end, seg.region)
      BY <2>3, <3>1 DEF Table!Put, PutLine
    <3> QED
      BY <3>2, <3>3 DEF Table!Next
  <2>4. ASSUME NEW seg \in SourceLines \cup OtherLines, Put(seg)
        PROVE  Table!Next
    BY <2>3, <2>4 DEF Put, AnyLines
  <2>5. CASE PutFileNext
    <3>1. Head(unput) \in AnyLines
      BY <2>1, <2>5 DEF PutFileNext, IInv, Types
    <3> QED
      BY <2>3, <2>5, <3>1 DEF PutFileNext
  <2>6. CASE SaveBegin
    <3>1. mode # "closed" /\ mode' # "closed" /\ segs' = segs /\ file' = <<>>
      BY <2>6 DEF SaveBegin
    <3>2. 0 \in 0..(MaxIP + 1) /\ \A ip \in 0..MaxIP : ~(ip < 0)
      BY MaxIPAssumption
    <3>3. Whole(<<>>) = <<>>
      BY DEF Whole
    <3>4. Table!Write(0)
      BY <3>1, <3>2, <3>3, TableOfNothing DEF Table!Write, Table!Blank
    <3> QED
      BY <3>2, <3>4 DEF Table!Next
  <2>7. CASE SaveLine
    <3>1. /\ mode = "saving" /\ mode' = "saving" /\ segs' = segs
      BY <2>7 DEF SaveLine
    <3>2. /\ segs' \in Seq(Stored) /\ Tiles(segs', 0, MaxIP)
          /\ file' \in Seq(SourceLines) /\ unsaved' \in Seq(SourceLines)
          /\ file' \o unsaved' = SaveLines(segs')
      BY <2>1, <3>1 DEF IInv, ListPart, SavingPart
    <3>3. new = file'
      BY <3>2, WholeIs
    <3>4. PICK k \in 0..(MaxIP + 1) : \A ip \in IPs :
             RegionAt(file', ip) = IF ip < k THEN RegionAt(segs', ip)
                                             ELSE EmptyRegion
      BY <3>2, SavedPart
    <3> HIDE DEF new
    <3>5. Table!Write(k)
      BY <3>1, <3>3, <3>4 DEF Table!Write, TableOf, IPs, new
    <3> QED
      BY <3>5 DEF Table!Next
  <2>8. ASSUME mode = "saving", unsaved # <<>>, spoilt' = spoilt,
               NEW part \in Torn(Head(unsaved)), file' = file \o part
        PROVE  TableOf(new) = TableOf(old) \/ Table!Tear
    <3>1. /\ old = file
          /\ \/ new = file
             \/ \E lo, hi \in 0..MaxIP, r \in Regions :
                   /\ \A ip \in lo..MaxIP :
                         TableOf(file)[ip] = EmptyRegion
                   /\ TableOf(new)
                         = Table!Override(TableOf(file), lo, hi, r)
      BY <2>1, <2>8, TornStep
    <3> QED
      BY <3>1 DEF Table!Tear
  <2>9. CASE SaveFails
    <3>1. /\ mode = "saving" /\ mode' = "open" /\ unsaved # <<>>
          /\ segs' = segs /\ spoilt' = spoilt
      BY <2>9 DEF SaveFails
    <3>2. PICK part \in Torn(Head(unsaved)) : file' = file \o part
      BY <2>9 DEF SaveFails
    <3>3. TableOf(new) = TableOf(old) \/ Table!Tear
      BY <2>8, <3>1, <3>2
    <3>4. CASE TableOf(new) = TableOf(old)
      BY <3>1, <3>4 DEF Table!tableVars
    <3>5. CASE Table!Tear
      <4>1. Table!Fail
        BY <3>1, <3>5 DEF Table!Fail
      <4> QED
        BY <4>1 DEF Table!Next
    <3> QED
      BY <3>3, <3>4, <3>5
  <2>10. ASSUME Leave, mode # "closed",
                TableOf(new) = TableOf(old) \/ Table!Tear
         PROVE  Table!Next
    <3>1. Table!Exit
      BY <2>10, TableOfNothing DEF Leave, Table!Exit
    <3> QED
      BY <3>1 DEF Table!Next
  <2>11. CASE Quit \/ ForceQuit
    BY <2>10, <2>11 DEF Quit, ForceQuit
  <2>12. CASE Kill
    <3>1. Leave /\ mode # "closed" /\ spoilt' = spoilt
      BY <2>12 DEF Kill, Leave
    <3>2. CASE file' = file
      BY <2>10, <3>1, <3>2
    <3>3. CASE file' # file
      <4>1. /\ mode = "saving" /\ unsaved # <<>>
            /\ \E part \in Torn(Head(unsaved)) : file' = file \o part
        BY <2>12, <3>3 DEF Kill
      <4>2. PICK part \in Torn(Head(unsaved)) : file' = file \o part
        BY <4>1
      <4> QED
        BY <2>8, <2>10, <3>1, <4>1, <4>2
    <3> QED
      BY <3>2, <3>3
  <2>13. CASE SaveDone
    BY <2>13 DEF SaveDone, Table!tableVars
  <2>14. ASSUME NEW lines \in PutFiles, PutFile(lines)
         PROVE  UNCHANGED Table!tableVars
    BY <2>14 DEF PutFile, Table!tableVars
  <2> QED
    BY <2>1, <2>2, <2>4, <2>5, <2>6, <2>7, <2>9, <2>11, <2>12, <2>13, <2>14
       DEF Next
<1> HIDE DEF AsTable
<1>3. Spec => [][AsTable]_vars
  BY <1>2, EditorInvariant, PTL DEF Spec
<1> QED
  BY <1>1, <1>3 DEF Spec, ImplementsTable, AsTable

\* A put file of lines of the version, none of them bad, ends with every
\* address at the region of the last line that holds it, although merged
\* segments are put, not lines.
THEOREM EditorFileApplied ==
    ASSUME Sensible
    PROVE  Spec => FileApplied
<1> DEFINE Applied ==
             \A lines \in PutFiles :
                /\ PutFile(lines)
                /\ segs # <<>> /\ ~astray
                /\ \A i \in DOMAIN lines : lines[i] \in SourceLines
                => TableOf(FoldLeft(PutSegment, segs, BatchOf(lines)))
                      = Overlaid(TableOf(segs), lines)
<1>1. IInv => Applied
  <2>1. SUFFICES ASSUME IInv, NEW lines \in PutFiles, PutFile(lines),
                        segs # <<>>, ~astray,
                        \A i \in DOMAIN lines : lines[i] \in SourceLines
                 PROVE  TableOf(FoldLeft(PutSegment, segs, BatchOf(lines)))
                           = Overlaid(TableOf(segs), lines)
    OBVIOUS
  <2>2. segs \in Seq(Stored) /\ Tiles(segs, 0, MaxIP)
    BY <2>1 DEF IInv, ListPart, PutFile
  <2>3. lines \in Seq(SourceLines \cup OtherLines \cup {BadLine})
    BY PutFilesAssumption
  <2>4. lines \in Seq(SourceLines)
    <3>1. \A i \in 1..Len(lines) : lines[i] \in SourceLines
      BY <2>1, <2>3
    <3> QED
      BY <2>3, <3>1
  <2>5. \A i \in 1..Len(lines) :
           lines[i] # BadLine /\ lines[i] \notin OtherLines
    BY <2>4, SourceLineTypes
  <2>6. /\ SelectInSeq(lines, LAMBDA l : l = BadLine) = 0
        /\ SelectInSeq(lines, LAMBDA l : l \in OtherLines) = 0
    <3>1. /\ {i \in 1..Len(lines) : lines[i] = BadLine} = {}
          /\ {i \in 1..Len(lines) : lines[i] \in OtherLines} = {}
      BY <2>5
    <3> QED
      BY <3>1 DEF SelectInSeq
  <2>7. BatchOf(lines) = MergeLines(lines) /\ GoodLines(lines) = lines
    BY <2>6 DEF BatchOf, GoodLines, MergeFile
  <2>8. NoSeam(lines)
    BY <2>7 DEF Sensible
  <2> QED
    BY <2>2, <2>4, <2>7, <2>8, FileOverlays
<1> HIDE DEF Applied
<1>2. Spec => [][Applied]_vars
  BY <1>1, EditorInvariant, PTL
<1> QED
  BY <1>2 DEF FileApplied, Applied
=============================================================================
