--------------------------- MODULE PipelineProofs ---------------------------
(***************************************************************************)
(* Pipeline for every source, every list of fields and option to clear,    *)
(* every number of addresses and size of a block.  Its maker is the maker  *)
(* of MakerProofs on other files: P is the instance of it, and each of its *)
(* steps is a step of P, so that the invariant proved there is proved      *)
(* here.  What process makes is a rearrangement of the merged lines.       *)
(***************************************************************************)
EXTENDS Pipeline, SegmentsProofs

-----------------------------------------------------------------------------
(* The field list *)

\* the numbers of a list are those of a set; each is listed once
Lists(seq, S) ==
    /\ seq \in Seq(Nat)
    /\ \A i \in 1..Len(seq) : seq[i] \in S
    /\ \A n \in S : \E i \in 1..Len(seq) : seq[i] = n

Once(seq) == \A i, j \in 1..Len(seq) : seq[i] = seq[j] => i = j

\* A range gives its numbers, each once.
LEMMA CountedLists ==
    ASSUME NEW item \in FieldItem, item.from <= item.to
    PROVE  Lists(Counted(item), Numbers(item)) /\ Once(Counted(item))
<1> DEFINE c == Counted(item)
           m == item.to - item.from + 1
<1>1. item.from \in Nat /\ item.to \in Nat /\ m \in Nat
  BY DEF FieldItem
<1>2. c = [k \in 1..m |-> item.from + k - 1]
  BY DEF Counted
<1> HIDE DEF c
<1>3. /\ c \in Seq(Nat) /\ Len(c) = m
      /\ \A k \in 1..m : c[k] = item.from + k - 1
  BY <1>1, <1>2
<1>4. ASSUME NEW n \in Numbers(item)
      PROVE  \E k \in 1..m : c[k] = n
  <2>1. n - item.from + 1 \in 1..m /\ n \in Nat
    BY <1>1 DEF Numbers
  <2> QED
    BY <1>1, <1>3, <2>1
<1>5. \A k \in 1..m : c[k] \in Numbers(item)
  BY <1>1, <1>3 DEF Numbers
<1>6. \A i, j \in 1..m : c[i] = c[j] => i = j
  BY <1>1, <1>3
<1> HIDE DEF m
<1> QED
  BY <1>3, <1>4, <1>5, <1>6 DEF Lists, Once, c

\* Two lists put together.
LEMMA ConcatLists ==
    ASSUME NEW a, NEW S, Lists(a, S), NEW b, NEW T, Lists(b, T)
    PROVE  /\ Lists(a \o b, S \cup T)
           /\ Once(a) /\ Once(b) /\ S \cap T = {} => Once(a \o b)
<1> DEFINE c == a \o b
           p == Len(a)
           q == Len(b)
<1>1. a \in Seq(Nat) /\ b \in Seq(Nat) /\ p \in Nat /\ q \in Nat
  BY DEF Lists
<1>2. /\ c \in Seq(Nat) /\ Len(c) = p + q
      /\ \A i \in 1..(p + q) : c[i] = IF i <= p THEN a[i] ELSE b[i - p]
  BY <1>1, ConcatProperties
<1> HIDE DEF c
<1>3. /\ \A i \in 1..p : i \in 1..(p + q) /\ i <= p
      /\ \A i \in 1..(p + q) : i <= p => i \in 1..p
      /\ \A i \in 1..(p + q) : ~(i <= p) => i - p \in 1..q
      /\ \A i, j \in 1..(p + q) : i - p = j - p => i = j
  BY <1>1
<1>3a. ASSUME NEW i \in 1..q
       PROVE  \E x \in 1..(p + q) : ~(x <= p) /\ x - p = i
  <2>1. i + p \in 1..(p + q) /\ ~(i + p <= p) /\ i + p - p = i
    BY <1>1
  <2> QED
    BY <2>1
<1>4. /\ \A i \in 1..p : a[i] \in S
      /\ \A n \in S : \E i \in 1..p : a[i] = n
      /\ \A i \in 1..q : b[i] \in T
      /\ \A n \in T : \E i \in 1..q : b[i] = n
  BY DEF Lists
<1> HIDE DEF p, q
<1>5. \A i \in 1..(p + q) : c[i] \in S \cup T
  BY <1>2, <1>3, <1>4
<1>6. \A n \in S : \E i \in 1..(p + q) : c[i] = n
  BY <1>2, <1>3, <1>4
<1>7. ASSUME NEW n \in T
      PROVE  \E i \in 1..(p + q) : c[i] = n
  <2>1. PICK i \in 1..q : b[i] = n
    BY <1>4
  <2>2. PICK x \in 1..(p + q) : ~(x <= p) /\ x - p = i
    BY <1>3a
  <2>3. c[x] = n
    BY <2>1, <2>2, <1>2
  <2> QED
    BY <2>2, <2>3
<1>8. ASSUME Once(a), Once(b), S \cap T = {},
             NEW i \in 1..(p + q), NEW j \in 1..(p + q), c[i] = c[j]
      PROVE  i = j
  <2>1. CASE i <= p /\ j <= p
    BY <1>2, <1>3, <1>8, <2>1 DEF Once, p
  <2>2. CASE ~(i <= p) /\ ~(j <= p)
    <3>1. b[i - p] = b[j - p] /\ i - p \in 1..q /\ j - p \in 1..q
      BY <1>2, <1>3, <1>8, <2>2
    <3>2. i - p = j - p
      BY <3>1, <1>8 DEF Once, q
    <3> QED
      BY <3>2, <1>3
  <2>3. \A k \in 1..(p + q) : /\ k <= p => c[k] \in S
                              /\ ~(k <= p) => c[k] \in T
    BY <1>2, <1>3, <1>4
  <2>4. \A x : ~(x \in S /\ x \in T)
    BY <1>8
  <2> QED
    BY <2>1, <2>2, <2>3, <2>4, <1>8, Zenon
<1>9. Once(a) /\ Once(b) /\ S \cap T = {} => Once(c)
  BY <1>2, <1>8 DEF Once
<1> QED
  BY <1>2, <1>5, <1>6, <1>7, <1>9 DEF Lists, c

\* The fields of a list whose ranges do not run backwards are the numbers of
\* its items, each once unless two items share one.
LEMMA FieldsListed ==
    ASSUME NEW list \in Seq(FieldItem),
           \A i \in DOMAIN list : list[i].from <= list[i].to
    PROVE  /\ Lists(FieldsOf(list),
                    UNION {Numbers(list[i]) : i \in DOMAIN list})
           /\ (\A i, j \in DOMAIN list :
                  i # j => Numbers(list[i]) \cap Numbers(list[j]) = {})
                => Once(FieldsOf(list))
<1> DEFINE n == Len(list)
           parts == [i \in DOMAIN list |-> Counted(list[i])]
           Upto(k) == UNION {Numbers(list[i]) : i \in 1..k}
           Differ == \A i, j \in 1..n :
                        i # j => Numbers(list[i]) \cap Numbers(list[j]) = {}
<1>1. n \in Nat /\ DOMAIN list = 1..n
  OBVIOUS
<1>2. FieldsOf(list) = FlattenSeq(parts)
  BY DEF FieldsOf
<1>3. Len(parts) = n /\ \A i \in 1..n : parts[i] = Counted(list[i])
  BY <1>1
<1>4. \A i \in 1..n : /\ Lists(parts[i], Numbers(list[i]))
                      /\ Once(parts[i])
  BY <1>1, <1>3, CountedLists
<1>5. CASE n = 0
  <2>1. FlattenSeq(parts) = parts /\ parts = <<>>
    BY <1>1, <1>3, <1>5 DEF FlattenSeq
  <2>2. FieldsOf(list) = <<>> /\ Len(<<>>) = 0 /\ <<>> \in Seq(Nat)
    BY <1>2, <2>1
  <2>3. DOMAIN list = {}
    BY <1>1, <1>5
  <2> QED
    BY <2>2, <2>3 DEF Lists, Once
<1>6. CASE n > 0
  <2> HIDE DEF parts
  <2>1. PICK F : /\ FlattenSeq(parts) = F[n]
                 /\ F[1] = parts[1]
                 /\ \A i \in 1..(n - 1) : F[i + 1] = F[i] \o parts[i + 1]
    BY <1>1, <1>3, <1>6, FlattenSteps
  <2> DEFINE Good(k) == Lists(F[k], Upto(k)) /\ (Differ => Once(F[k]))
             Done == {k \in Nat : k >= 1 /\ k <= n => Good(k)}
  <2>2. Good(1)
    <3>1. Upto(1) = Numbers(list[1])
      OBVIOUS
    <3> HIDE DEF Upto
    <3> QED
      BY <2>1, <3>1, <1>1, <1>4, <1>6
  <2>3. ASSUME NEW k \in Nat, k >= 1, k + 1 <= n, Good(k)
        PROVE  Good(k + 1)
    <3>1. /\ k \in 1..(n - 1) /\ k + 1 \in 1..n
          /\ \A i \in 1..k : i # k + 1 /\ i \in 1..n
      BY <2>3, <1>1
    <3>2. F[k + 1] = F[k] \o parts[k + 1]
      BY <2>1, <3>1
    <3>3. Upto(k + 1) = Upto(k) \cup Numbers(list[k + 1])
      <4>1. \A i : i \in 1..(k + 1) <=> i \in 1..k \/ i = k + 1
        BY <2>3
      <4>2. \A x : x \in Upto(k + 1)
                      <=> x \in Upto(k) \cup Numbers(list[k + 1])
        BY <4>1, Zenon
      <4> HIDE DEF Upto
      <4> QED
        BY <4>2
    <3>4. ASSUME Differ
          PROVE  Upto(k) \cap Numbers(list[k + 1]) = {}
      BY <3>1, <3>4
    <3> HIDE DEF Upto, Differ
    <3>5. Lists(F[k], Upto(k)) /\ (Differ => Once(F[k]))
      BY <2>3
    <3>6. Lists(parts[k + 1], Numbers(list[k + 1])) /\ Once(parts[k + 1])
      BY <1>4, <3>1
    <3>7. Lists(F[k + 1], Upto(k + 1))
      BY <3>2, <3>3, <3>5, <3>6, ConcatLists
    <3>8. Differ => Once(F[k + 1])
      BY <3>2, <3>4, <3>5, <3>6, ConcatLists
    <3> QED
      BY <3>7, <3>8
  <2>4. \A k \in Nat : k \in Done
    <3> HIDE DEF Good
    <3>1. 0 \in Done
      OBVIOUS
    <3>2. ASSUME NEW k \in Nat, k \in Done
          PROVE  k + 1 \in Done
      <4>1. CASE k = 0
        BY <4>1, <2>2
      <4>2. CASE k >= 1 /\ k + 1 <= n
        BY <4>2, <3>2, <2>3
      <4>3. CASE k + 1 > n
        BY <4>3, <1>1
      <4> QED
        BY <4>1, <4>2, <4>3, <1>1
    <3> HIDE DEF Done
    <3> QED
      BY <3>1, <3>2, SetInduction
  <2>5. Good(n)
    <3> HIDE DEF Good
    <3> QED
      BY <2>4, <1>1, <1>6
  <2> HIDE DEF Good, Done
  <2>6. Lists(F[n], Upto(n)) /\ (Differ => Once(F[n]))
    BY <2>5 DEF Good
  <2>7. FieldsOf(list) = F[n]
    BY <1>2, <2>1
  <2> QED
    BY <2>6, <2>7, <1>1
<1> QED
  BY <1>1, <1>5, <1>6

\* Sorting the fields gives the same numbers in ascending order.
LEMMA FieldsSorted ==
    ASSUME NEW list, NEW S, Lists(FieldsOf(list), S)
    PROVE  LET t == GetFilterFields(list)
           IN  /\ Lists(t, S)
               /\ Len(t) = Len(FieldsOf(list))
               /\ \A i, j \in 1..Len(t) : i < j => t[i] <= t[j]
               /\ Once(FieldsOf(list)) => Once(t)
<1> DEFINE u == FieldsOf(list)
           n == Len(u)
           Along(f) == [i \in DOMAIN u |-> u[f[i]]]
           All == {Along(f) : f \in Bijection(DOMAIN u, DOMAIN u)}
           Ascends(t) == \A i, j \in DOMAIN t : i < j => t[i] <= t[j]
           t == GetFilterFields(list)
<1>1. u \in Seq(Nat) /\ n \in Nat /\ DOMAIN u = 1..n /\ u \in [1..n -> Nat]
  BY DEF Lists
<1>2. t = CHOOSE x \in All : Ascends(x)
  BY Zenon DEF GetFilterFields
<1> HIDE DEF t, u, n
<1>3. PICK g \in Bijection(1..n, 1..n) :
             \A i, j \in 1..n : i < j => u[g[i]] <= u[g[j]]
  BY <1>1, OrderExists
<1>4. Along(g) \in All
  BY <1>1, <1>3
<1>5. Ascends(Along(g))
  BY <1>1, <1>3
<1>6. t \in All /\ Ascends(t)
  <2> HIDE DEF All, Ascends, Along
  <2> QED
    BY <1>2, <1>4, <1>5, Zenon
<1>7. PICK f \in Bijection(1..n, 1..n) : t = Along(f)
  BY <1>1, <1>6
<1>8. /\ f \in [1..n -> 1..n]
      /\ \A i, j \in 1..n : f[i] = f[j] => i = j
      /\ \A j \in 1..n : \E i \in 1..n : f[i] = j
  BY <1>7 DEF Bijection, Injection, Surjection, IsInjective
<1>9. /\ t \in [1..n -> Nat] /\ DOMAIN t = 1..n
      /\ \A i \in 1..n : f[i] \in 1..n /\ t[i] = u[f[i]]
  BY <1>1, <1>7, <1>8
<1>10. t \in Seq(Nat) /\ Len(t) = n
  BY <1>1, <1>9
<1>11. \A i, j \in 1..n : i < j => t[i] <= t[j]
  BY <1>6, <1>9
<1>12. /\ \A i \in 1..n : u[i] \in S
       /\ \A m \in S : \E i \in 1..n : u[i] = m
  BY DEF Lists, u, n
<1>13. \A i \in 1..n : t[i] \in S
  BY <1>9, <1>12
<1>14. ASSUME NEW m \in S
       PROVE  \E i \in 1..n : t[i] = m
  <2>1. PICK j \in 1..n : u[j] = m
    BY <1>12
  <2>2. PICK i \in 1..n : f[i] = j
    BY <1>8
  <2> QED
    BY <1>9, <2>1, <2>2
<1>15. ASSUME Once(u), NEW i \in 1..n, NEW j \in 1..n, t[i] = t[j]
       PROVE  i = j
  <2>1. u[f[i]] = u[f[j]] /\ f[i] \in 1..n /\ f[j] \in 1..n
    BY <1>9, <1>15
  <2>2. f[i] = f[j]
    BY <2>1, <1>15 DEF Once, n
  <2> QED
    BY <2>2, <1>8
<1>16. Once(u) => Once(t)
  BY <1>10, <1>15 DEF Once
<1> QED
  BY <1>10, <1>11, <1>13, <1>14, <1>16 DEF Lists, u, n, t

\* There is one way to list a set of numbers in ascending order.
LEMMA AscendingIsOnly ==
    ASSUME NEW S, NEW t, Lists(t, S), Once(t),
           \A i, j \in 1..Len(t) : i < j => t[i] <= t[j]
    PROVE  t = Ascending(S) /\ Cardinality(S) = Len(t)
<1> DEFINE n == Len(t)
           Rises(o) == \A i, j \in DOMAIN o : i < j => o[i] < o[j]
           a == Ascending(S)
<1>1. /\ n \in Nat /\ t \in Seq(Nat) /\ S \subseteq Nat
      /\ \A i \in 1..n : t[i] \in S
      /\ \A m \in S : \E i \in 1..n : t[i] = m
      /\ \A i, j \in 1..n : t[i] = t[j] => i = j
      /\ \A i, j \in 1..n : i < j => t[i] <= t[j]
  BY DEF Lists, Once
<1>2. t \in [1..n -> S] /\ DOMAIN t = 1..n
  BY <1>1
<1> HIDE DEF n
<1>3. t \in Bijection(1..n, S)
  BY <1>1, <1>2 DEF Bijection, Injection, Surjection, IsInjective
<1>4. Cardinality(S) = n /\ IsFiniteSet(S)
  <2>1. ExistsBijection(1..n, S)
    BY <1>3 DEF ExistsBijection
  <2>2. Cardinality(S) = n
    BY <1>1, <2>1, FS_CountingElements
  <2> QED
    BY <1>1, <2>1, <2>2, FS_NatBijection
<1>5. Rises(t)
  <2>1. ASSUME NEW i \in 1..n, NEW j \in 1..n, i < j
        PROVE  t[i] < t[j]
    <3>1. t[i] <= t[j] /\ t[i] # t[j]
      BY <1>1, <2>1
    <3>2. t[i] \in Nat /\ t[j] \in Nat
      BY <1>1
    <3> QED
      BY <3>1, <3>2
  <2> QED
    BY <1>2, <2>1
<1>6. a = CHOOSE o \in [1..n -> S] : Rises(o)
  BY <1>4, Zenon DEF Ascending
<1> HIDE DEF a
<1>7. a \in [1..n -> S] /\ Rises(a)
  <2> HIDE DEF Rises
  <2> QED
    BY <1>2, <1>5, <1>6, Zenon
<1>8. \A i, j \in 1..n : i < j => a[i] < a[j]
  BY <1>7
<1>9. \A i \in 1..n : a[i] \in Nat /\ a[i] \in S /\ t[i] \in Nat
  BY <1>1, <1>7
<1>10. \A i, j \in 1..n : a[i] = a[j] => i = j
  BY <1>8, <1>9, <1>1
<1>11. \A m \in S : \E i \in 1..n : a[i] = m
  <2>1. a \in Injection(1..n, S)
    BY <1>7, <1>10 DEF Injection, IsInjective
  <2>2. Cardinality(1..n) = n
    BY <1>1, FS_Interval
  <2>3. a \in Surjection(1..n, S)
    BY <1>4, <2>1, <2>2, FS_Injection
  <2> QED
    BY <2>3 DEF Surjection
<1>12. \A i, j \in 1..n : i < j => t[i] < t[j]
  BY <1>2, <1>5
<1> DEFINE Done == {k \in Nat : \A i \in 1..n : i <= k => a[i] = t[i]}
<1>13. 0 \in Done
  OBVIOUS
<1>14. ASSUME NEW k \in Nat, k \in Done
       PROVE  k + 1 \in Done
  <2>1. SUFFICES ASSUME NEW i \in 1..n, i <= k + 1
                 PROVE  a[i] = t[i]
    OBVIOUS
  <2>2. CASE i <= k
    BY <1>14, <2>2
  <2>3. CASE i = k + 1
    <3>1. PICK p \in 1..n : t[p] = a[i]
      BY <1>1, <1>9
    <3>2. PICK q \in 1..n : a[q] = t[i]
      BY <1>1, <1>11
    <3>3. ~(p < i)
      <4>1. SUFFICES ASSUME p < i
                     PROVE  FALSE
        OBVIOUS
      <4>2. a[p] = t[p]
        BY <4>1, <2>3, <1>14
      <4> QED
        BY <4>1, <4>2, <3>1, <1>10
    <3>4. ~(q < i)
      <4>1. SUFFICES ASSUME q < i
                     PROVE  FALSE
        OBVIOUS
      <4>2. a[q] = t[q]
        BY <4>1, <2>3, <1>14
      <4>3. q = i
        BY <4>2, <3>2, <1>1
      <4> QED
        BY <4>1, <4>3, <1>1
    <3>5. p = i \/ i < p
      BY <3>3, <1>1
    <3>6. q = i \/ i < q
      BY <3>4, <1>1
    <3>7. t[i] <= a[i]
      BY <3>1, <3>5, <1>9, <1>12
    <3>8. a[i] <= t[i]
      BY <3>2, <3>6, <1>9, <1>8
    <3> QED
      BY <3>7, <3>8, <1>9
  <2> QED
    BY <2>1, <2>2, <2>3
<1>15. \A i \in 1..n : a[i] = t[i]
  <2>1. \A k \in Nat : k \in Done
    <3> HIDE DEF Done
    <3> QED
      BY <1>13, <1>14, SetInduction
  <2> QED
    BY <2>1, <1>1
<1>16. t = a
  <2>1. t = [i \in 1..n |-> t[i]] /\ a = [i \in 1..n |-> a[i]]
    BY <1>2, <1>7
  <2> QED
    BY <2>1, <1>15, Zenon
<1> QED
  BY <1>4, <1>16 DEF a, n
-----------------------------------------------------------------------------
(* The maker *)

NewRegion(r, f) ==
    RegionFiltering(Cleared(r, f.clear), GetFilterFields(f.list))

\* what a source, or an output that can be read, may have as a region
AllRegions ==
    (Regions \cup {NewRegion(r, f) : r \in Regions, f \in Flags})
        \ {EmptyRegion}

AllFields == {GetFilterFields(f.list) : f \in Flags} \cup {<<>>}

\* the maker on any file that can be read
P == INSTANCE MakerProofs WITH
        source <- input, segments <- loaded,
        Sources <- Seq(SegmentsOver(AllRegions)), Regions <- AllRegions,
        FilterFields <- AllFields

\* What MakerProofs assumes of its constants is so for this instance.
LEMMA MakerAssumptions ==
    /\ MaxIP \in Nat
    /\ EmptyRegion \notin AllRegions
    /\ BlockSize \in Nat \ {0}
    /\ EmptyRegion = <<Blank>>
    /\ Seq(SegmentsOver(AllRegions)) \subseteq Seq(P!Line)
<1>1. ASSUME NEW x \in SegmentsOver(AllRegions)
      PROVE  x \in P!Line
  <2>1. /\ x = [start |-> x.start, end |-> x.end, region |-> x.region]
        /\ x.start \in IPs /\ x.end \in IPs /\ x.region \in AllRegions
    BY DEF SegmentsOver
  <2> QED
    BY <2>1 DEF P!Line, P!Segment, P!IPs, IPs
<1>2. SegmentsOver(AllRegions) \subseteq P!Line
  BY <1>1
<1> QED
  BY <1>2, MaxIPAssumption, BlocksAssumption, BlankAssumption DEF AllRegions

\* The operators of the two instances of Maker, and those of Segments, are
\* the same.
LEMMA SameSearch ==
    /\ \A f, ip : M!Search(f, ip) = P!Search(f, ip)
    /\ M!ReadError = P!ReadError
BY DEF M!Search, P!Search, M!Block, P!Block, M!HasVector, P!HasVector,
       M!ProbeAt, P!ProbeAt, M!ReadError, P!ReadError

\* Merging is the same for both.
LEMMA SameMerge ==
    ASSUME NEW lines
    PROVE  P!MergeLines(lines) = M!MergeLines(lines)
BY Zenon DEF P!MergeLines, M!MergeLines, P!FoldLeft, M!FoldLeft,
   P!MapThenFoldSet, M!MapThenFoldSet, P!Max, M!Max, P!MergeLine,
   M!MergeLine, P!Last, M!Last, P!Front, M!Front, P!RightBehind,
   M!RightBehind, P!IPAddOne, M!IPAddOne

\* So is the order gen wants, and the sort.
LEMMA SameOrder ==
    ASSUME NEW list
    PROVE  /\ P!LoadOrder(list) = M!LoadOrder(list)
           /\ P!InOrder(list) <=> M!InOrder(list)
<1>1. P!SortedOrders(list) = M!SortedOrders(list)
  BY Zenon DEF P!SortedOrders, M!SortedOrders, P!Bijection, M!Bijection,
     P!Injection, P!Surjection, M!Injection, M!Surjection, P!IsInjective,
     M!IsInjective
<1>2. P!SortedByStart(list) = M!SortedByStart(list)
  BY <1>1 DEF P!SortedByStart, M!SortedByStart
<1>3. P!InOrder(list) <=> M!InOrder(list)
  BY Zenon DEF P!InOrder, M!InOrder, P!After, M!After
<1> QED
  BY <1>2, <1>3, Zenon DEF P!LoadOrder, M!LoadOrder

\* So are the segments gen loads.
LEMMA SameLoaded == P!Loaded = M!Loaded
<1>1. P!Filtered = M!Filtered
  BY Zenon DEF M!Filtered, P!Filtered, M!RegionFiltering, P!RegionFiltering
<1>2. P!MergeLines(P!Filtered) = M!MergeLines(P!Filtered)
  BY SameMerge
<1>3. P!LoadOrder(P!MergeLines(P!Filtered))
         = M!LoadOrder(P!MergeLines(P!Filtered))
  BY SameOrder
<1> QED
  BY <1>1, <1>2, <1>3 DEF P!Loaded, M!Loaded

\* Every step of the pipeline's maker is one of MakerProofs' maker.
LEMMA MakerSteps == M!Next => P!Next
<1>1. M!InitDbHeader => P!InitDbHeader
  BY DEF M!InitDbHeader, P!InitDbHeader
<1>2. M!LoadSegments => P!LoadSegments
  <2>1. P!InOrder(P!Loaded) <=> M!InOrder(M!Loaded)
    BY SameLoaded, SameOrder
  <2> QED
    BY <2>1, SameLoaded DEF M!LoadSegments, P!LoadSegments, M!Readable,
       P!Readable, M!HasFields, P!HasFields
<1>3. ASSUME NEW r
      PROVE  M!WriteRegion(r) => P!WriteRegion(r)
  BY DEF M!WriteRegion, P!WriteRegion, M!SourceRegions, P!SourceRegions
<1>4. M!DataDone => P!DataDone
  <2>1. M!Pieces = P!Pieces
    BY Zenon DEF M!Pieces, P!Pieces, M!FlattenSeq, P!FlattenSeq, M!Split,
       P!Split, M!Block, P!Block, M!Segment, P!Segment
  <2> QED
    BY <2>1 DEF M!DataDone, P!DataDone, M!SourceRegions, P!SourceRegions
<1>5. M!WriteIndex => P!WriteIndex
  <2>1. \A v, ip, pos : M!SetVectorIndex(v, ip, pos)
                           = P!SetVectorIndex(v, ip, pos)
    BY Zenon DEF M!SetVectorIndex, P!SetVectorIndex, M!Block, P!Block
  <2> QED
    BY <2>1 DEF M!WriteIndex, P!WriteIndex
<1>6. M!WriteVector => P!WriteVector
  BY DEF M!WriteVector, P!WriteVector
<1>7. M!WritePtrs => P!WritePtrs
  BY DEF M!WritePtrs, P!WritePtrs
<1>8. M!Stop => P!Stop
  BY DEF M!Stop, P!Stop
<1> QED
  BY <1>1, <1>2, <1>3, <1>4, <1>5, <1>6, <1>7, <1>8, Zenon
     DEF M!Next, P!Next, M!SourceRegions, P!SourceRegions

-----------------------------------------------------------------------------
(* The lines *)

\* every line of the source can be rewritten
AllRewrite == \A i \in DOMAIN source : Rewrites(source[i])

NewLines == [i \in DOMAIN source |-> Rewritten(source[i])]

\* the orders in which the processor may write the merged lines
Orders == SortedOrders(MergeLines(NewLines))

\* Rows is the set of segments over the new regions.
LEMMA RowsAreSegments == Rows = SegmentsOver(NewRegions)
<1>1. \A x \in Rows : x \in SegmentsOver(NewRegions)
  BY DEF Rows, SegmentsOver, Segment
<1>2. ASSUME NEW x \in SegmentsOver(NewRegions)
      PROVE  x \in Rows
  <2>1. /\ x = [start |-> x.start, end |-> x.end, region |-> x.region]
        /\ x.start \in IPs /\ x.end \in IPs /\ x.region \in NewRegions
    BY DEF SegmentsOver
  <2> QED
    BY <2>1 DEF Rows, Segment
<1> QED
  BY <1>1, <1>2

\* A source is a list of segments that do not run backwards and can be read.
LEMMA SourceIsLines ==
    ASSUME source \in Sources
    PROVE  /\ source \in Seq(SegmentsOver(Regions))
           /\ Len(source) \in Nat /\ DOMAIN source = 1..Len(source)
           /\ Proper(source)
           /\ \A i \in 1..Len(source) :
                 source[i] \in Line /\ source[i].region # EmptyRegion
<1>1. source \in Seq(SourceLines)
  BY SourcesAssumption
<1>2. \A l \in SourceLines : /\ l \in Line /\ l \in SegmentsOver(Regions)
                             /\ l.start <= l.end
  BY LineIsSegment DEF SourceLines
<1>3. SourceLines \subseteq SegmentsOver(Regions)
  BY <1>2
<1>4. source \in Seq(SegmentsOver(Regions))
  BY <1>1, <1>3
<1>5. \A i \in 1..Len(source) : source[i] \in SourceLines
  BY <1>1
<1>6. \A i \in 1..Len(source) : source[i].region \in Regions
  BY <1>4, SegmentTypes
<1> QED
  BY <1>2, <1>4, <1>5, <1>6, RegionAssumption DEF Proper

\* Rewriting changes the region of a line and nothing else.
LEMMA RewrittenLine ==
    ASSUME NEW line \in SegmentsOver(Regions)
    PROVE  /\ Rewritten(line).start = line.start
           /\ Rewritten(line).end = line.end
           /\ Rewritten(line).region = NewRegion(line.region, flags)
           /\ Rewritten(line)
                 = [line EXCEPT !.region = NewRegion(line.region, flags)]
BY DEF Rewritten, NewRegion, SegmentsOver

\* The rewritten lines are segments over the new regions.
LEMMA NewLinesAreLines ==
    ASSUME source \in Sources, AllRewrite
    PROVE  /\ NewLines \in Seq(SegmentsOver(NewRegions))
           /\ Len(NewLines) = Len(source)
           /\ Proper(NewLines)
           /\ \A i \in 1..Len(source) :
                 /\ NewLines[i].start = source[i].start
                 /\ NewLines[i].end = source[i].end
                 /\ NewLines[i].region = Rewritten(source[i]).region
           /\ \A r : r \in NewRegions <=>
                        \E i \in 1..Len(source) : r = NewLines[i].region
<1> DEFINE n == Len(source)
<1>1. /\ source \in Seq(SegmentsOver(Regions)) /\ Proper(source)
      /\ n \in Nat /\ DOMAIN source = 1..n
  BY SourceIsLines
<1>2. \A i \in 1..n : source[i] \in SegmentsOver(Regions)
  BY <1>1
<1>3. \A i \in 1..n : Rewrites(source[i]) /\ source[i] \in Elements(source)
  BY <1>1 DEF AllRewrite, Elements
<1>4. \A r : r \in NewRegions
                <=> \E i \in 1..n : r = Rewritten(source[i]).region
  BY <1>1, <1>3 DEF NewRegions, Elements
<1>5. ASSUME NEW i \in 1..n
      PROVE  /\ Rewritten(source[i]) \in SegmentsOver(NewRegions)
             /\ Rewritten(source[i]).start = source[i].start
             /\ Rewritten(source[i]).end = source[i].end
  <2>1. Rewritten(source[i]).region \in NewRegions
    BY <1>4
  <2>2. Rewritten(source[i])
           = [source[i] EXCEPT !.region = Rewritten(source[i]).region]
    BY <1>2, RewrittenLine
  <2> QED
    BY <2>1, <2>2, <1>2 DEF SegmentsOver
<1>6. NewLines = [i \in 1..n |-> Rewritten(source[i])]
  BY <1>1 DEF NewLines
<1>7. NewLines \in Seq(SegmentsOver(NewRegions)) /\ Len(NewLines) = n
  <2>1. NewLines \in [1..n -> SegmentsOver(NewRegions)]
    BY <1>5, <1>6
  <2> QED
    BY <2>1, <1>1
<1>8. \A i \in 1..n : NewLines[i] = Rewritten(source[i])
  BY <1>6
<1>9. Proper(NewLines)
  BY <1>1, <1>5, <1>7, <1>8 DEF Proper
<1> QED
  BY <1>4, <1>5, <1>7, <1>8, <1>9

\* Whatever the order of a finished output, it is a list of such segments.
LEMMA OrdersAreRows ==
    ASSUME source \in Sources, AllRewrite, NEW o \in Orders
    PROVE  o \in Seq(SegmentsOver(NewRegions))
<1>1. MergeLines(NewLines) \in Seq(SegmentsOver(NewRegions))
  BY NewLinesAreLines, MergeType
<1> QED
  BY <1>1, SortedIsRearranged DEF Orders

\* New regions can be regions of the maker's source, but for the blank one.
LEMMA NewRegionsAmongAll ==
    ASSUME source \in Sources, flags \in Flags
    PROVE  \A r \in NewRegions : r = EmptyRegion \/ r \in AllRegions
<1>1. ASSUME NEW l \in Elements(source)
      PROVE  Rewritten(l).region = EmptyRegion
                \/ Rewritten(l).region \in AllRegions
  <2>1. l \in SegmentsOver(Regions)
    BY SourceIsLines DEF Elements
  <2>2. l.region \in Regions
    BY <2>1 DEF SegmentsOver
  <2>3. Rewritten(l).region = NewRegion(l.region, flags)
    BY <2>1, RewrittenLine
  <2> QED
    BY <2>2, <2>3 DEF AllRegions
<1> QED
  BY <1>1 DEF NewRegions

\* What the code does to a region is what the options ask for, when no field
\* is listed twice.
LEMMA RewrittenAsWanted ==
    ASSUME flags \in Flags, ListAccepted(flags.list), ~ListedTwice,
           NEW l \in SegmentsOver(Regions)
    PROVE  Rewritten(l).region = Wanted(l.region)
<1> DEFINE t == GetFilterFields(flags.list)
           c == Cleared(l.region, flags.clear)
<1>1. flags.list \in Seq(FieldItem)
  BY FlagsAssumption
<1>2. /\ \A i \in DOMAIN flags.list : flags.list[i].from <= flags.list[i].to
      /\ \A i, j \in DOMAIN flags.list :
            i # j => Numbers(flags.list[i]) \cap Numbers(flags.list[j]) = {}
  BY DEF ListAccepted, ListedTwice
<1>3. Lists(FieldsOf(flags.list), Listed) /\ Once(FieldsOf(flags.list))
  BY <1>1, <1>2, FieldsListed DEF Listed
<1>4. /\ Lists(t, Listed) /\ Once(t)
      /\ \A i, j \in 1..Len(t) : i < j => t[i] <= t[j]
  BY <1>3, FieldsSorted
<1> HIDE DEF t
<1>5. t = Ascending(Listed)
  BY <1>4, AscendingIsOnly
<1>6. Listed = {} <=> t = <<>>
  <2>1. /\ t \in Seq(Nat)
        /\ \A i \in 1..Len(t) : t[i] \in Listed
        /\ \A n \in Listed : \E i \in 1..Len(t) : t[i] = n
    BY <1>4 DEF Lists
  <2>2. t = <<>> <=> 1..Len(t) = {}
    BY <2>1
  <2>3. Listed = {} <=> 1..Len(t) = {}
    BY <2>1
  <2> QED
    BY <2>2, <2>3
<1>7. Rewritten(l).region = RegionFiltering(c, t)
  BY RewrittenLine DEF NewRegion, t
<1>8. Wanted(l.region)
         = IF Listed = {} THEN c ELSE [i \in DOMAIN t |-> c[t[i] + 1]]
  BY <1>5, Zenon DEF Wanted
<1> HIDE DEF c
<1> QED
  BY <1>6, <1>7, <1>8 DEF RegionFiltering

-----------------------------------------------------------------------------
(* The invariant, whatever the source *)

Begins(a, b) == Len(a) <= Len(b) /\ \A i \in 1..Len(a) : a[i] = b[i]

\* The processor's part: what is in the output begins an order of the merged
\* lines, all of which could be rewritten.
ProcessInv ==
    /\ source \in Sources /\ flags \in Flags
    /\ stage \in {"flags", "load", "sort", "write", "done",
                  "failed", "refused", "stopped", "direct"}
    /\ segments \in Seq(SegmentsOver(NewRegions))
    /\ dst \in Seq(SegmentsOver(NewRegions))
    /\ stage \notin {"flags", "refused"} => ListAccepted(flags.list)
    /\ \/ dst = <<>>
       \/ /\ stage \in {"write", "done", "stopped"} /\ AllRewrite
          /\ \E o \in Orders : Begins(dst, o)
    /\ stage = "sort" => AllRewrite /\ segments = MergeLines(NewLines)
    /\ stage = "write" =>
          AllRewrite /\ segments \in Orders /\ Begins(dst, segments)
    /\ stage = "done" => AllRewrite /\ dst \in Orders
    /\ stage = "direct" => flags.clear = NoClear

\* the two ways to a database
FromSource ==
    /\ stage = "direct"
    /\ input = source /\ fields = GetFilterFields(flags.list)

FromOutput == stage \in {"done", "stopped"} /\ input = dst /\ fields = <<>>

\* gen can read and filter every line
Loads ==
    \A i \in DOMAIN input :
        Readable(input[i]) /\ HasFields(input[i].region, fields)

\* gen has loaded nothing and written nothing but the header
NothingMade ==
    /\ loaded = <<>> /\ pieces = <<>> /\ vector = P!ZeroVector
    /\ file.vector = P!ZeroVector /\ file.data = {} /\ file.index = <<>>

\* gen failed at a line, or at the test of the loaded segments
Refused == ~Loads \/ P!Loaded = <<>> \/ ~P!InOrder(P!Loaded)

\* The maker's part: its source is one of the two; a source it cannot read
\* leaves no trace; any other makes it a maker of MakerProofs.
DbInv ==
    \/ /\ step = "none" /\ input = <<>> /\ fields = <<>>
       /\ NothingMade /\ file = P!EmptyFile
    \/ /\ FromSource \/ FromOutput
       /\ step \in {"header", "load", "data", "index", "ptrs",
                    "done", "failed", "stopped"}
       /\ IF Loads THEN P!TypeOK
          ELSE /\ step \in {"header", "load", "failed", "stopped"}
               /\ NothingMade
       /\ step = "failed" => Refused

\* The vector index of either instance is the same.
LEMMA SameFile == M!ZeroVector = P!ZeroVector /\ M!EmptyFile = P!EmptyFile
BY Zenon DEF M!ZeroVector, P!ZeroVector, M!EmptyFile, P!EmptyFile, M!Blocks,
   P!Blocks, M!Block, P!Block, M!IPs, P!IPs, M!NoPtrs, P!NoPtrs

\* process has not started, and neither has gen.
LEMMA PipelineInitInv == PipelineInit => ProcessInv /\ DbInv
<1> SUFFICES ASSUME PipelineInit
             PROVE  ProcessInv /\ DbInv
  OBVIOUS
<1>1. ProcessInv
  BY DEF PipelineInit, Init, ProcessInv
<1>2. DbInv
  BY SameFile DEF PipelineInit, DbInv, NothingMade, P!EmptyFile
<1> QED
  BY <1>1, <1>2

\* What the invariants say of the source and the flags is said of the same
\* lines after a step that keeps them.
LEMMA LinesKept ==
    ASSUME UNCHANGED <<source, flags>>
    PROVE  /\ NewLines' = NewLines /\ NewRegions' = NewRegions
           /\ Orders' = Orders /\ AllRewrite' = AllRewrite
<1>1. \A l : Rewrites(l)' = Rewrites(l) /\ Rewritten(l)' = Rewritten(l)
  BY DEF Rewrites, Rewritten
<1>2. NewLines' = NewLines
  BY <1>1 DEF NewLines
<1>3. NewRegions' = NewRegions
  BY <1>1 DEF NewRegions, Elements
<1>4. AllRewrite' = AllRewrite
  BY <1>1 DEF AllRewrite
<1> QED
  BY <1>2, <1>3, <1>4 DEF Orders

\* Every step of process keeps its part of the invariant; a line more is
\* still a beginning of the order chosen by the sort.
LEMMA ProcessStep ==
    ASSUME ProcessInv, Next
    PROVE  ProcessInv'
<1> DEFINE R == NewRegions
<1>1. UNCHANGED <<source, flags>>
  BY DEF Next, Process, LoadSegments, Sort, WriteLine, End, Stop
<1>2. /\ NewLines' = NewLines /\ NewRegions' = R
      /\ Orders' = Orders /\ AllRewrite' = AllRewrite
  BY <1>1, LinesKept
<1>3. /\ source \in Sources /\ flags \in Flags
      /\ segments \in Seq(SegmentsOver(R)) /\ dst \in Seq(SegmentsOver(R))
  BY DEF ProcessInv
<1> HIDE DEF R
<1>4. CASE Process
  BY <1>1, <1>2, <1>3, <1>4 DEF ProcessInv, Process
<1>5. CASE LoadSegments
  <2>1. CASE AllRewrite
    <3>1. /\ segments' = MergeLines(NewLines) /\ stage' = "sort"
          /\ stage = "load" /\ dst' = dst
      BY <1>5, <2>1, Zenon DEF LoadSegments, AllRewrite, NewLines
    <3>2. MergeLines(NewLines) \in Seq(SegmentsOver(R))
      BY <1>3, <2>1, NewLinesAreLines, MergeType DEF R
    <3> QED
      BY <1>1, <1>2, <1>3, <2>1, <3>1, <3>2 DEF ProcessInv
  <2>2. CASE ~AllRewrite
    <3>1. /\ segments' = segments /\ stage' = "failed"
          /\ stage = "load" /\ dst' = dst
      BY <1>5, <2>2, Zenon DEF LoadSegments, AllRewrite
    <3> QED
      BY <1>1, <1>2, <1>3, <3>1 DEF ProcessInv
  <2> QED
    BY <2>1, <2>2
<1>6. CASE Sort
  <2>1. /\ stage = "sort" /\ stage' = "write" /\ dst' = dst
        /\ segments' \in Orders /\ AllRewrite /\ dst = <<>>
    BY <1>6 DEF Sort, Orders, ProcessInv
  <2>2. segments' \in Seq(SegmentsOver(R))
    BY <1>3, <2>1, OrdersAreRows DEF R
  <2>3. Begins(dst', segments')
    BY <2>1, <2>2 DEF Begins
  <2> QED
    BY <1>1, <1>2, <1>3, <2>1, <2>2, <2>3 DEF ProcessInv
<1>7. CASE WriteLine
  <2>1. /\ stage = "write" /\ stage' = stage /\ segments' = segments
        /\ Len(dst) < Len(segments)
        /\ dst' = Append(dst, segments[Len(dst) + 1])
        /\ segments \in Orders /\ Begins(dst, segments) /\ AllRewrite
    BY <1>7 DEF WriteLine, ProcessInv
  <2>2. segments[Len(dst) + 1] \in SegmentsOver(R)
    BY <1>3, <2>1
  <2>3. dst' \in Seq(SegmentsOver(R)) /\ Begins(dst', segments)
    BY <1>3, <2>1, <2>2 DEF Begins
  <2> QED
    BY <1>1, <1>2, <1>3, <2>1, <2>3 DEF ProcessInv
<1>8. CASE End
  <2>1. /\ stage = "write" /\ stage' = "done" /\ segments' = <<>>
        /\ dst' = dst /\ Len(dst) = Len(segments)
        /\ segments \in Orders /\ Begins(dst, segments) /\ AllRewrite
    BY <1>8 DEF End, ProcessInv
  <2>2. dst = segments
    BY <1>3, <2>1 DEF Begins
  <2>3. <<>> \in Seq(SegmentsOver(R))
    OBVIOUS
  <2> QED
    BY <1>1, <1>2, <1>3, <2>1, <2>2, <2>3 DEF ProcessInv
<1>9. CASE Stop
  <2>1. /\ stage \in {"load", "sort", "write"} /\ stage' = "stopped"
        /\ segments' = <<>> /\ dst' = dst
    BY <1>9 DEF Stop
  <2>2. <<>> \in Seq(SegmentsOver(R))
    OBVIOUS
  <2> QED
    BY <1>1, <1>2, <1>3, <2>1, <2>2 DEF ProcessInv
<1> QED
  BY <1>4, <1>5, <1>6, <1>7, <1>8, <1>9 DEF Next

\* An input that can be read is a file of the maker of MakerProofs.
LEMMA InputIsFile ==
    ASSUME ProcessInv, FromSource \/ FromOutput, Loads
    PROVE  /\ input \in Seq(SegmentsOver(AllRegions))
           /\ fields \in AllFields
<1>1. source \in Sources /\ flags \in Flags
  BY DEF ProcessInv
<1>2. CASE FromSource
  <2>1. input \in Seq(SegmentsOver(Regions))
    BY <1>1, <1>2, SourceIsLines DEF FromSource
  <2>2. Regions \subseteq AllRegions
    BY RegionAssumption DEF AllRegions
  <2>3. SegmentsOver(Regions) \subseteq SegmentsOver(AllRegions)
    BY <2>2 DEF SegmentsOver
  <2>4. fields \in AllFields
    BY <1>1, <1>2 DEF FromSource, AllFields
  <2> QED
    BY <2>1, <2>3, <2>4
<1>3. CASE FromOutput
  <2>1. input \in Seq(SegmentsOver(NewRegions))
    BY <1>3 DEF FromOutput, ProcessInv
  <2>2. ASSUME NEW i \in 1..Len(input)
        PROVE  input[i] \in SegmentsOver(AllRegions)
    <3>1. input[i] \in SegmentsOver(NewRegions)
      BY <2>1
    <3>2. input[i].region \in NewRegions /\ input[i].region # EmptyRegion
      BY <2>1, <3>1 DEF SegmentsOver, Loads, Readable
    <3>3. input[i].region \in AllRegions
      BY <1>1, <3>2, NewRegionsAmongAll
    <3> QED
      BY <3>1, <3>3 DEF SegmentsOver
  <2>3. /\ input \in [1..Len(input) -> SegmentsOver(AllRegions)]
        /\ Len(input) \in Nat
    BY <2>1, <2>2
  <2>4. fields \in AllFields
    BY <1>3 DEF FromOutput, AllFields
  <2> QED
    BY <2>3, <2>4
<1> QED
  BY <1>2, <1>3

\* The types of MakerProofs, for this instance.
LEMMA MadeTypes ==
    /\ (P!Init => P!TypeOK)'
    /\ P!TypeOK /\ P!Next => P!TypeOK'
<1>1. (P!Init => P!TypeOK)'
  BY P!MakerInitType, MakerAssumptions, PTL
<1>2. ASSUME P!TypeOK, P!Next
      PROVE  P!TypeOK'
  BY <1>2, P!MakerStepType, MakerAssumptions
<1> QED
  BY <1>1, <1>2

\* gen starts as the maker of MakerProofs starts.
LEMMA GenerateInv ==
    ASSUME ProcessInv', NothingMade, file = P!EmptyFile, step' = "header",
           (FromSource \/ FromOutput)',
           UNCHANGED <<loaded, pieces, vector, file>>
    PROVE  DbInv' /\ (Loads => P!Init)'
<1>1. Loads' => (input \in Seq(SegmentsOver(AllRegions)))'
                   /\ (fields \in AllFields)'
  <2>1. ProcessInv /\ (FromSource \/ FromOutput) /\ Loads
           => input \in Seq(SegmentsOver(AllRegions)) /\ fields \in AllFields
    BY InputIsFile
  <2>2. (ProcessInv /\ (FromSource \/ FromOutput) /\ Loads
           => input \in Seq(SegmentsOver(AllRegions)) /\ fields \in AllFields)'
    BY InputIsFile, PTL
  <2> QED
    BY <2>2
<1>2. (Loads => P!Init)'
  BY <1>1 DEF P!Init, NothingMade
<1>3. (P!Init => P!TypeOK)'
  BY MadeTypes
<1>4. NothingMade'
  BY DEF NothingMade
<1>5. DbInv'
  BY <1>2, <1>3, <1>4 DEF DbInv
<1> QED
  BY <1>2, <1>5

\* A step of gen keeps the maker's part.
LEMMA MakeStep ==
    ASSUME DbInv, step # "none", M!Next, UNCHANGED vars
    PROVE  DbInv'
<1>1. /\ FromSource \/ FromOutput
      /\ step \in {"header", "load", "data", "index", "ptrs",
                   "done", "failed", "stopped"}
      /\ Loads => P!TypeOK
      /\ ~Loads => /\ step \in {"header", "load", "failed", "stopped"}
                   /\ NothingMade
  BY DEF DbInv
<1>2. P!Next
  BY MakerSteps
<1>3. /\ step # "failed" /\ input' = input /\ fields' = fields
      /\ step' \in {"header", "load", "data", "index", "ptrs",
                    "done", "failed", "stopped"}
      /\ step' = "failed" => P!LoadSegments
  BY <1>1, <1>2 DEF P!Next, P!InitDbHeader, P!LoadSegments, P!WriteRegion,
     P!DataDone, P!WriteIndex, P!WriteVector, P!WritePtrs, P!Stop
<1>4. Loads' = Loads /\ P!Loaded' = P!Loaded
  BY <1>3 DEF Loads, P!Loaded, P!Filtered
<1>5. (FromSource \/ FromOutput)'
  BY <1>1, <1>3 DEF FromSource, FromOutput, vars
<1>6. Loads <=> \A i \in DOMAIN input :
                   /\ P!Readable(input[i])
                   /\ P!HasFields(input[i].region, fields)
  BY DEF Loads, Readable, P!Readable, HasFields, P!HasFields
<1>7. ASSUME step' = "failed"
      PROVE  Refused'
  BY <1>3, <1>4, <1>6, <1>7 DEF P!LoadSegments, Refused, P!InOrder
<1>8. CASE Loads
  <2>1. P!TypeOK'
    BY <1>1, <1>2, <1>8, MadeTypes
  <2> QED
    BY <1>3, <1>4, <1>5, <1>7, <1>8, <2>1 DEF DbInv
<1>9. CASE ~Loads
  <2>1. step \in {"header", "load", "stopped"} /\ NothingMade
    BY <1>1, <1>3, <1>9
  <2>2. P!InitDbHeader \/ P!LoadSegments \/ P!Stop
    BY <1>2, <2>1 DEF P!Next, P!WriteRegion, P!DataDone, P!WriteIndex,
       P!WriteVector, P!WritePtrs
  <2>3. step' \in {"header", "load", "failed", "stopped"}
    BY <1>6, <1>9, <2>2 DEF P!InitDbHeader, P!LoadSegments, P!Stop
  <2>4. NothingMade'
    <3>1. CASE P!InitDbHeader
      BY <2>1, <3>1 DEF P!InitDbHeader, NothingMade, P!ZeroVector, P!Blocks,
         P!Block, P!IPs, P!NoPtrs
    <3>2. CASE P!LoadSegments
      BY <1>6, <1>9, <2>1, <3>2 DEF P!LoadSegments, NothingMade,
         P!ZeroVector, P!Blocks, P!Block, P!IPs, P!NoPtrs
    <3>3. CASE P!Stop
      BY <2>1, <3>3 DEF P!Stop, NothingMade
    <3> QED
      BY <2>2, <3>1, <3>2, <3>3
  <2> QED
    BY <1>3, <1>4, <1>5, <1>7, <1>9, <2>3, <2>4 DEF DbInv
<1> QED
  BY <1>8, <1>9

\* Each step of the pipeline keeps both parts; gen starts as the maker of
\* MakerProofs starts, and goes on as that one does.
LEMMA PipelineStepInv ==
    ASSUME ProcessInv, DbInv, [PipelineNext]_<<vars, makerVars>>
    PROVE  /\ ProcessInv' /\ DbInv'
           /\ \/ step' = "none"
              \/ (Loads => P!Init)'
              \/ step # "none" /\ [P!Next]_(P!vars)
<1>1. CASE Next /\ UNCHANGED makerVars
  <2>1. ProcessInv'
    BY <1>1, ProcessStep
  <2>2. stage \in {"flags", "load", "sort", "write"}
    BY <1>1 DEF Next, Process, LoadSegments, Sort, WriteLine, End, Stop
  <2>3. /\ step = "none" /\ input = <<>> /\ fields = <<>>
        /\ NothingMade /\ file = P!EmptyFile
    BY <2>2 DEF DbInv, FromSource, FromOutput
  <2>4. DbInv'
    BY <1>1, <2>3 DEF DbInv, makerVars, NothingMade
  <2> QED
    BY <1>1, <2>1, <2>3, <2>4 DEF makerVars
<1>2. CASE GenerateDirectly
  <2>1. /\ stage = "flags" /\ flags.clear = NoClear
        /\ UNCHANGED <<source, flags, segments, dst>>
        /\ stage' \in {"direct", "refused"}
        /\ stage' = "direct" <=> ListAccepted(flags.list)
    BY <1>2 DEF GenerateDirectly
  <2>2. ProcessInv'
    <3>1. /\ NewRegions' = NewRegions
      BY <2>1, LinesKept
    <3> QED
      BY <2>1, <3>1 DEF ProcessInv
  <2>3. CASE ListAccepted(flags.list)
    <3>1. /\ stage' = "direct" /\ step = "none" /\ step' = "header"
          /\ input' = source /\ fields' = GetFilterFields(flags.list)
          /\ UNCHANGED <<loaded, pieces, vector, file>>
      BY <1>2, <2>1, <2>3 DEF GenerateDirectly, Generate
    <3>2. NothingMade /\ file = P!EmptyFile
      BY <3>1 DEF DbInv
    <3>3. (FromSource \/ FromOutput)'
      BY <2>1, <3>1 DEF FromSource
    <3> QED
      BY <2>2, <3>1, <3>2, <3>3, GenerateInv
  <2>4. CASE ~ListAccepted(flags.list)
    <3>1. UNCHANGED makerVars
      BY <1>2, <2>4 DEF GenerateDirectly
    <3>2. /\ step = "none" /\ input = <<>> /\ fields = <<>>
          /\ NothingMade /\ file = P!EmptyFile
      BY <2>1 DEF DbInv, FromSource, FromOutput
    <3>3. DbInv'
      BY <3>1, <3>2 DEF DbInv, makerVars, NothingMade
    <3> QED
      BY <2>2, <3>1, <3>2, <3>3 DEF makerVars
  <2> QED
    BY <2>3, <2>4
<1>3. CASE GenerateProcessed
  <2>1. /\ stage \in {"done", "stopped"} /\ step = "none" /\ step' = "header"
        /\ input' = dst /\ fields' = <<>>
        /\ UNCHANGED <<loaded, pieces, vector, file>>
        /\ UNCHANGED <<source, flags, stage, segments, dst>>
    BY <1>3 DEF GenerateProcessed, Generate, vars
  <2>2. ProcessInv'
    <3>1. /\ NewLines' = NewLines /\ NewRegions' = NewRegions
          /\ Orders' = Orders /\ AllRewrite' = AllRewrite
      BY <2>1, LinesKept
    <3> QED
      BY <2>1, <3>1 DEF ProcessInv
  <2>3. NothingMade /\ file = P!EmptyFile
    BY <2>1 DEF DbInv
  <2>4. (FromSource \/ FromOutput)'
    BY <2>1 DEF FromOutput
  <2> QED
    BY <2>1, <2>2, <2>3, <2>4, GenerateInv
<1>4. CASE step # "none" /\ M!Next /\ UNCHANGED vars
  <2>1. /\ NewLines' = NewLines /\ NewRegions' = NewRegions
        /\ Orders' = Orders /\ AllRewrite' = AllRewrite
    BY <1>4, LinesKept DEF vars
  <2>2. ProcessInv'
    BY <1>4, <2>1 DEF ProcessInv, vars
  <2>3. DbInv' /\ P!Next
    BY <1>4, MakeStep, MakerSteps
  <2> QED
    BY <1>4, <2>2, <2>3
<1>5. CASE UNCHANGED <<vars, makerVars>>
  <2>1. /\ NewLines' = NewLines /\ NewRegions' = NewRegions
        /\ Orders' = Orders /\ AllRewrite' = AllRewrite
    BY <1>5, LinesKept DEF vars
  <2>2. ProcessInv'
    BY <1>5, <2>1 DEF ProcessInv, vars
  <2>3. /\ Loads' = Loads /\ P!TypeOK' = P!TypeOK /\ Refused' = Refused
        /\ FromSource' = FromSource /\ FromOutput' = FromOutput
        /\ NothingMade' = NothingMade
    BY <1>5 DEF vars, makerVars, Loads, P!TypeOK, P!Indexed, P!NewRegions,
       Refused, P!Loaded, P!Filtered, FromSource, FromOutput, NothingMade
  <2>4. DbInv'
    BY <1>5, <2>3 DEF DbInv, makerVars
  <2> QED
    BY <1>5, <2>2, <2>4 DEF makerVars, P!vars
<1> QED
  BY <1>1, <1>2, <1>3, <1>4, <1>5 DEF PipelineNext

\* gen filters the lines of the source as process rewrites them, and those
\* process wrote not at all.
LEMMA FilteredInput ==
    ASSUME ProcessInv, FromSource \/ FromOutput, Loads
    PROVE  /\ FromSource =>
                 /\ AllRewrite
                 /\ \A i \in 1..Len(source) :
                       P!RegionFiltering(input[i].region, fields)
                          = Rewritten(source[i]).region
           /\ FromOutput => \A r : P!RegionFiltering(r, fields) = r
<1>1. source \in Sources /\ flags \in Flags
  BY DEF ProcessInv
<1>2. FromOutput => \A r : P!RegionFiltering(r, fields) = r
  BY DEF FromOutput, P!RegionFiltering
<1>3. ASSUME FromSource, NEW i \in 1..Len(source)
      PROVE  /\ Rewrites(source[i])
             /\ P!RegionFiltering(input[i].region, fields)
                   = Rewritten(source[i]).region
  <2>1. /\ input = source /\ fields = GetFilterFields(flags.list)
        /\ flags.clear.index = -1
    BY <1>3 DEF FromSource, ProcessInv, NoClear, Clear
  <2>2. source[i] \in SegmentsOver(Regions) /\ i \in DOMAIN input
    BY <1>1, <2>1, SourceIsLines
  <2>3. HasFields(source[i].region, GetFilterFields(flags.list))
    BY <2>1, <2>2 DEF Loads
  <2>4. CanClear(source[i].region, flags.clear)
    BY <2>1 DEF CanClear
  <2>5. Cleared(source[i].region, flags.clear) = source[i].region
    BY <2>1 DEF Cleared, Clears
  <2>6. Rewritten(source[i]).region
           = RegionFiltering(source[i].region, GetFilterFields(flags.list))
    BY <2>2, <2>5, RewrittenLine DEF NewRegion
  <2>7. P!RegionFiltering(source[i].region, fields)
           = RegionFiltering(source[i].region, fields)
    BY DEF P!RegionFiltering, RegionFiltering
  <2> QED
    BY <2>1, <2>3, <2>4, <2>6, <2>7 DEF Rewrites
<1>4. FromSource => AllRewrite
  BY <1>1, <1>3, SourceIsLines DEF AllRewrite
<1> QED
  BY <1>2, <1>3, <1>4

\* The regions gen puts in the file are new regions of the source.
LEMMA MadeRegions ==
    ASSUME ProcessInv, FromSource \/ FromOutput, Loads
    PROVE  P!NewRegions \subseteq NewRegions
<1>1. source \in Sources
  BY DEF ProcessInv
<1>2. CASE FromSource
  <2>1. AllRewrite /\ input = source /\ DOMAIN source = 1..Len(source)
    BY <1>1, <1>2, FilteredInput, SourceIsLines DEF FromSource
  <2>2. \A i \in DOMAIN input :
           P!RegionFiltering(input[i].region, fields) \in NewRegions
    BY <1>1, <1>2, <2>1, FilteredInput DEF NewRegions, Elements, AllRewrite
  <2> QED
    BY <2>2 DEF P!NewRegions
<1>3. CASE FromOutput
  <2>1. input \in Seq(SegmentsOver(NewRegions))
    BY <1>3 DEF FromOutput, ProcessInv
  <2>2. \A i \in DOMAIN input : input[i] \in SegmentsOver(NewRegions)
    BY <2>1
  <2>3. \A i \in DOMAIN input : input[i].region \in NewRegions
    BY <2>2 DEF SegmentsOver
  <2> QED
    BY <1>3, <2>3, FilteredInput DEF P!NewRegions
<1> QED
  BY <1>2, <1>3

\* The fields of an accepted list are numbers.
LEMMA FieldsAreNumbers ==
    ASSUME flags \in Flags, ListAccepted(flags.list)
    PROVE  GetFilterFields(flags.list) \in Seq(Nat)
<1>1. /\ flags.list \in Seq(FieldItem)
      /\ \A i \in DOMAIN flags.list : flags.list[i].from <= flags.list[i].to
  BY FlagsAssumption DEF ListAccepted
<1>2. Lists(FieldsOf(flags.list), Listed)
  BY <1>1, FieldsListed DEF Listed
<1> QED
  BY <1>2, FieldsSorted DEF Lists

\* The types follow from the invariant.
LEMMA InvTypeOK == ASSUME ProcessInv, DbInv PROVE TypeOK
<1>1. /\ source \in Sources /\ flags \in Flags
      /\ segments \in Seq(Rows) /\ dst \in Seq(Rows)
  BY RowsAreSegments DEF ProcessInv
<1>2. /\ P!ZeroVector \in [P!Blocks -> [s : Nat, e : Nat]]
      /\ P!Blocks = M!Blocks
  BY Zenon DEF P!ZeroVector, P!NoPtrs, P!Blocks, M!Blocks, P!Block, M!Block,
     P!IPs, M!IPs
<1>3. SUFFICES /\ input \in Seq(Line \cup Rows) /\ fields \in Seq(Nat)
               /\ loaded \in Seq(Rows) /\ pieces \in Seq(Rows)
               /\ vector \in [P!Blocks -> [s : Nat, e : Nat]]
               /\ file.data \subseteq NewRegions /\ file.index \in Seq(Rows)
  BY <1>1, <1>2 DEF TypeOK, ProcessInv, DbInv
<1>4. ASSUME NothingMade
      PROVE  /\ loaded \in Seq(Rows) /\ pieces \in Seq(Rows)
             /\ vector \in [P!Blocks -> [s : Nat, e : Nat]]
             /\ file.data \subseteq NewRegions /\ file.index \in Seq(Rows)
  BY <1>2, <1>4 DEF NothingMade
<1>5. CASE input = <<>> /\ fields = <<>> /\ NothingMade
  BY <1>4, <1>5
<1>6. CASE /\ FromSource \/ FromOutput
           /\ IF Loads THEN P!TypeOK ELSE NothingMade
  <2>1. input \in Seq(Line \cup Rows)
    <3>1. CASE FromSource
      <4>1. source \in Seq(SourceLines) /\ SourceLines \subseteq Line
        BY <1>1, SourcesAssumption DEF SourceLines
      <4>2. source \in Seq(Line \cup Rows)
        BY <4>1
      <4> QED
        BY <3>1, <4>2 DEF FromSource
    <3>2. CASE FromOutput
      BY <1>1, <3>2 DEF FromOutput
    <3> QED
      BY <1>6, <3>1, <3>2
  <2>2. fields \in Seq(Nat)
    <3>1. CASE FromSource
      <4>1. ListAccepted(flags.list)
        BY <3>1 DEF FromSource, ProcessInv
      <4>2. GetFilterFields(flags.list) \in Seq(Nat)
        BY <1>1, <4>1, FieldsAreNumbers
      <4> QED
        BY <3>1, <4>2 DEF FromSource
    <3>2. CASE FromOutput
      BY <3>2 DEF FromOutput
    <3> QED
      BY <1>6, <3>1, <3>2
  <2>3. CASE Loads
    <3>1. P!NewRegions \subseteq NewRegions /\ P!TypeOK
      BY <1>6, <2>3, MadeRegions
    <3>2. P!Indexed \subseteq Rows
      BY <3>1 DEF P!Indexed, Rows, P!Segment, Segment, P!IPs, IPs
    <3>3. Seq(P!Indexed) \subseteq Seq(Rows)
      BY <3>2
    <3> QED
      BY <2>1, <2>2, <3>1, <3>3 DEF P!TypeOK
  <2>4. CASE ~Loads
    BY <1>4, <1>6, <2>1, <2>2, <2>4
  <2> QED
    BY <2>3, <2>4
<1> QED
  BY <1>5, <1>6 DEF DbInv

\* Every value has its type in every reachable state, whatever the source:
\* what process merges, sorts and writes, and what gen loads, splits and
\* writes, are segments with the rewritten regions of the source's lines.
THEOREM PipelineTypeOK == PipelineSpec => []TypeOK
<1>1. ProcessInv /\ DbInv /\ [PipelineNext]_<<vars, makerVars>>
         => (ProcessInv /\ DbInv)'
  BY PipelineStepInv
<1>2. ProcessInv /\ DbInv => TypeOK
  BY InvTypeOK
<1> QED
  BY <1>1, <1>2, PipelineInitInv, PTL DEF PipelineSpec


-----------------------------------------------------------------------------
(* The invariant, when no line is merged around the seam *)

\* Neither the rewritten lines nor a finished output, in whatever order the
\* sort gave it, has a line at address 0 right behind a line with its region
\* that ends at the last address.
NoSeams ==
    AllRewrite => NoSeam(NewLines) /\ \A o \in Orders : NoSeam(o)

\* A file that can be read is what the maker of MakerProofs makes of it.
FileInv == step # "none" /\ Loads => P!NoWrap /\ P!IInv

\* Where there are no seams, gen's own filter and merge meet none.
LEMMA NoWrapOfInput ==
    ASSUME NoSeams, ProcessInv, FromSource \/ FromOutput, Loads
    PROVE  P!NoWrap
<1>1. CASE FromSource
  <2>1. /\ source \in Sources /\ AllRewrite /\ input = source
        /\ \A i \in 1..Len(source) :
              P!RegionFiltering(input[i].region, fields)
                 = Rewritten(source[i]).region
    BY <1>1, FilteredInput DEF FromSource, ProcessInv
  <2>2. /\ Len(NewLines) = Len(source) /\ Len(source) \in Nat
        /\ \A i \in 1..Len(source) :
              /\ NewLines[i].start = source[i].start
              /\ NewLines[i].end = source[i].end
              /\ NewLines[i].region = Rewritten(source[i]).region
    BY <2>1, NewLinesAreLines, SourceIsLines
  <2>3. NoSeam(NewLines)
    BY <2>1 DEF NoSeams
  <2>4. ASSUME NEW i \in 1..(Len(input) - 1),
               input[i].end = MaxIP, input[i + 1].start = 0,
               P!RegionFiltering(input[i].region, fields)
                  = P!RegionFiltering(input[i + 1].region, fields)
        PROVE  FALSE
    <3>1. i \in 1..Len(source) /\ i + 1 \in 1..Len(source)
      BY <2>1, <2>2
    <3>2. Seam(NewLines[i], NewLines[i + 1])
      BY <2>1, <2>2, <2>4, <3>1 DEF Seam
    <3> QED
      BY <2>1, <2>2, <2>3, <3>2 DEF NoSeam
  <2> QED
    BY <2>4 DEF P!NoWrap
<1>2. CASE FromOutput
  <2>1. input = dst /\ \A r : P!RegionFiltering(r, fields) = r
    BY <1>2, FilteredInput DEF FromOutput
  <2>2. dst = <<>> \/ \E o \in Orders : NoSeam(o) /\ Begins(dst, o)
    BY DEF ProcessInv, NoSeams
  <2>3. CASE dst = <<>>
    BY <2>1, <2>3 DEF P!NoWrap
  <2>4. ASSUME NEW o \in Orders, NoSeam(o), Begins(dst, o), AllRewrite
        PROVE  P!NoWrap
    <3>1. /\ Len(dst) \in Nat /\ Len(o) \in Nat /\ Len(dst) <= Len(o)
          /\ \A i \in 1..Len(dst) : dst[i] = o[i]
      BY <2>4, OrdersAreRows DEF ProcessInv, Begins
    <3>2. ASSUME NEW i \in 1..(Len(dst) - 1)
          PROVE  ~Seam(dst[i], dst[i + 1])
      <4>1. /\ i \in 1..(Len(o) - 1)
            /\ i \in 1..Len(dst) /\ i + 1 \in 1..Len(dst)
        BY <3>1
      <4> QED
        BY <2>4, <3>1, <4>1 DEF NoSeam
    <3> QED
      BY <2>1, <3>2 DEF P!NoWrap, Seam
  <2> QED
    BY <2>2, <2>3, <2>4 DEF ProcessInv
<1> QED
  BY <1>1, <1>2

\* No step changes the source or the options.
LEMMA SourceKept ==
    ASSUME [PipelineNext]_<<vars, makerVars>>
    PROVE  UNCHANGED <<source, flags>>
BY DEF PipelineNext, Next, Process, LoadSegments, Sort, WriteLine, End, Stop,
   GenerateDirectly, GenerateProcessed, vars

\* So there are no seams later either.
LEMMA SeamsKept ==
    ASSUME NoSeams, [PipelineNext]_<<vars, makerVars>>
    PROVE  NoSeams'
<1>1. /\ NewLines' = NewLines /\ Orders' = Orders
      /\ AllRewrite' = AllRewrite
  BY SourceKept, LinesKept
<1> QED
  BY <1>1 DEF NoSeams, NoSeam, Seam

\* A gen that starts finds the invariant of MakerProofs, and keeps it.
LEMMA FileStepInv ==
    ASSUME NoSeams, ProcessInv, DbInv, FileInv,
           [PipelineNext]_<<vars, makerVars>>
    PROVE  FileInv'
<1>1. /\ ProcessInv' /\ DbInv' /\ NoSeams'
      /\ \/ step' = "none"
         \/ (Loads => P!Init)'
         \/ step # "none" /\ [P!Next]_(P!vars)
  BY PipelineStepInv, SeamsKept
<1> SUFFICES ASSUME step' # "none", Loads'
             PROVE  (P!NoWrap /\ P!IInv)'
  BY DEF FileInv
<1>2. CASE (Loads => P!Init)'
  <2>1. (FromSource \/ FromOutput)'
    BY <1>1 DEF DbInv
  <2>2. (NoSeams /\ ProcessInv /\ (FromSource \/ FromOutput) /\ Loads
           => P!NoWrap)'
    BY NoWrapOfInput, PTL
  <2>3. (P!Init => P!IInv)'
    BY P!MakerInitInv, MakerAssumptions, PTL
  <2> QED
    BY <1>1, <1>2, <2>1, <2>2, <2>3
<1>3. CASE step # "none" /\ [P!Next]_(P!vars)
  <2>1. UNCHANGED <<input, fields>>
    BY <1>3 DEF P!Next, P!InitDbHeader, P!LoadSegments, P!WriteRegion,
       P!DataDone, P!WriteIndex, P!WriteVector, P!WritePtrs, P!Stop, P!vars
  <2>2. Loads
    BY <2>1 DEF Loads
  <2>3. P!NoWrap /\ P!IInv
    BY <1>3, <2>2 DEF FileInv
  <2>4. P!NoWrap'
    BY <1>3, <2>3, P!WrapKept, MakerAssumptions
  <2>5. P!IInv'
    BY <1>3, <2>3, P!MakerStepInv, MakerAssumptions
  <2> QED
    BY <2>4, <2>5
<1> QED
  BY <1>1, <1>2, <1>3

\* The inductive invariant of the theorems below.
PipelineInv == NoSeams /\ ProcessInv /\ DbInv /\ FileInv

\* It holds in every reachable state, when there are no seams.
LEMMA PipelineIsInv == PipelineSpec /\ NoSeams => []PipelineInv
<1>1. PipelineInit /\ NoSeams => PipelineInv
  <2>1. PipelineInit => step = "none"
    BY DEF PipelineInit
  <2> QED
    BY <2>1, PipelineInitInv DEF PipelineInv, FileInv
<1>2. PipelineInv /\ [PipelineNext]_<<vars, makerVars>> => PipelineInv'
  <2> SUFFICES ASSUME PipelineInv, [PipelineNext]_<<vars, makerVars>>
               PROVE  PipelineInv'
    OBVIOUS
  <2>1. NoSeams /\ ProcessInv /\ DbInv /\ FileInv
    BY DEF PipelineInv
  <2>2. NoSeams' /\ ProcessInv' /\ DbInv'
    BY <2>1, SeamsKept, PipelineStepInv
  <2>3. FileInv'
    BY <2>1, FileStepInv
  <2> QED
    BY <2>2, <2>3 DEF PipelineInv
<1> QED
  BY <1>1, <1>2, PTL DEF PipelineSpec

-----------------------------------------------------------------------------
(* The output *)

\* A finished output, in whatever order, says what the rewritten lines say,
\* and its lines are apart when those of the source are.
LEMMA OrderSays ==
    ASSUME NoSeams, source \in Sources, AllRewrite, NEW o \in Orders
    PROVE  /\ o \in Seq(SegmentsOver(NewRegions)) /\ Proper(o)
           /\ \A ip \in IPs : \A r : Says(o, ip, r) <=> Says(NewLines, ip, r)
           /\ InOrder(o) <=> Apart(source)
           /\ Apart(o) <=> Apart(source)
<1> DEFINE R == NewRegions
           merged == MergeLines(NewLines)
<1>1. /\ NewLines \in Seq(SegmentsOver(R)) /\ Proper(NewLines)
      /\ NoSeam(NewLines) /\ Len(NewLines) = Len(source)
      /\ \A i \in 1..Len(source) : /\ NewLines[i].start = source[i].start
                                   /\ NewLines[i].end = source[i].end
  BY NewLinesAreLines DEF NoSeams
<1>2. merged \in Seq(SegmentsOver(R)) /\ o \in SortedOrders(merged)
  BY <1>1, MergeType DEF Orders
<1> HIDE DEF R
<1>3. /\ Proper(merged)
      /\ \A ip \in IPs : \A r : Says(merged, ip, r) <=> Says(NewLines, ip, r)
  BY <1>1, MergeSays
<1>4. Apart(merged) <=> Apart(NewLines)
  BY <1>1, MergeApart
<1>5. Apart(NewLines) <=> Apart(source)
  BY <1>1 DEF Apart, Separate
<1> HIDE DEF merged
<1>6. /\ o \in Seq(SegmentsOver(R)) /\ Proper(o)
      /\ \A ip, r : Says(o, ip, r) <=> Says(merged, ip, r)
  BY <1>2, <1>3, SortedSays
<1>7. /\ InOrder(o) <=> Apart(merged)
      /\ Apart(o) <=> Apart(merged)
  BY <1>2, <1>3, SortedInOrder, SortedApart
<1> QED
  BY <1>3, <1>4, <1>5, <1>6, <1>7 DEF R

\* What a line of the output, finished or not, says of an address, a line of
\* the source that could be rewritten says.
LEMMA OutputOfSource ==
    ASSUME NoSeams, ProcessInv, NEW k \in 1..Len(dst), NEW ip \in IPs,
           SegContains(dst[k], ip)
    PROVE  /\ ListAccepted(flags.list)
           /\ \E i \in 1..Len(source) :
                 /\ Rewrites(source[i]) /\ SegContains(source[i], ip)
                 /\ dst[k].region = Rewritten(source[i]).region
<1>1. dst # <<>>
  BY DEF ProcessInv
<1>2. PICK o \in Orders : Begins(dst, o)
  BY <1>1 DEF ProcessInv
<1>3. AllRewrite /\ source \in Sources /\ ListAccepted(flags.list)
  BY <1>1 DEF ProcessInv
<1>4. o \in Seq(SegmentsOver(NewRegions)) /\ Len(dst) \in Nat
  BY <1>3, OrderSays DEF ProcessInv
<1>5. k \in 1..Len(o) /\ dst[k] = o[k]
  BY <1>2, <1>4 DEF Begins
<1>6. Says(o, ip, dst[k].region)
  BY <1>5 DEF Says, SegSays
<1>7. Says(NewLines, ip, dst[k].region)
  BY <1>3, <1>6, OrderSays
<1>8. PICK i \in 1..Len(NewLines) : SegSays(NewLines[i], ip, dst[k].region)
  BY <1>7 DEF Says
<1>9. /\ i \in 1..Len(source)
      /\ NewLines[i].start = source[i].start
      /\ NewLines[i].end = source[i].end
      /\ NewLines[i].region = Rewritten(source[i]).region
  BY <1>3, <1>8, NewLinesAreLines
<1>10. Rewrites(source[i])
  BY <1>3, <1>9, SourceIsLines DEF AllRewrite
<1> QED
  BY <1>3, <1>8, <1>9, <1>10 DEF SegSays, SegContains

\* A finished output says what a line of the source says, rewritten.
LEMMA SourceInOutput ==
    ASSUME NoSeams, ProcessInv, stage = "done",
           NEW i \in 1..Len(source), NEW ip \in IPs, SegContains(source[i], ip)
    PROVE  \E k \in 1..Len(dst) :
              /\ SegContains(dst[k], ip)
              /\ dst[k].region = Rewritten(source[i]).region
<1>1. AllRewrite /\ source \in Sources /\ dst \in Orders
  BY DEF ProcessInv
<1>2. /\ i \in 1..Len(NewLines)
      /\ NewLines[i].start = source[i].start
      /\ NewLines[i].end = source[i].end
      /\ NewLines[i].region = Rewritten(source[i]).region
  BY <1>1, NewLinesAreLines
<1>3. Says(NewLines, ip, Rewritten(source[i]).region)
  BY <1>2 DEF Says, SegSays, SegContains
<1>4. Says(dst, ip, Rewritten(source[i]).region)
  BY <1>1, <1>3, OrderSays
<1> QED
  BY <1>4 DEF Says, SegSays

\* Two lines of a source overlap when they are not apart.
LEMMA OverlapIsNotApart ==
    ASSUME source \in Sources
    PROVE  Overlap(source) <=> ~Apart(source)
<1>1. /\ DOMAIN source = 1..Len(source) /\ Len(source) \in Nat
      /\ \A i \in 1..Len(source) : /\ source[i].start \in Nat
                                   /\ source[i].end \in Nat
                                   /\ source[i].start <= source[i].end
  BY SourceIsLines, SegmentTypes DEF Proper
<1>2. ASSUME NEW i \in 1..Len(source), NEW j \in 1..Len(source)
      PROVE  Covered(source[i]) \cap Covered(source[j]) = {}
                <=> Separate(source[i], source[j])
  <2>1. ASSUME ~Separate(source[i], source[j])
        PROVE  Covered(source[i]) \cap Covered(source[j]) # {}
    <3>1. CASE source[i].start <= source[j].start
      <4>1. source[j].start \in Covered(source[i]) \cap Covered(source[j])
        BY <1>1, <2>1, <3>1 DEF Separate, Covered
      <4> QED
        BY <4>1
    <3>2. CASE source[j].start <= source[i].start
      <4>1. source[i].start \in Covered(source[i]) \cap Covered(source[j])
        BY <1>1, <2>1, <3>2 DEF Separate, Covered
      <4> QED
        BY <4>1
    <3> QED
      BY <1>1, <3>1, <3>2
  <2>2. ASSUME Separate(source[i], source[j]),
               NEW x \in Covered(source[i]) \cap Covered(source[j])
        PROVE  FALSE
    BY <1>1, <2>2 DEF Separate, Covered
  <2> QED
    BY <2>1, <2>2
<1>3. ASSUME NEW i \in 1..Len(source), NEW j \in 1..Len(source),
             i # j, ~Separate(source[i], source[j])
      PROVE  ~Apart(source)
  <2>1. i < j \/ j < i
    BY <1>3
  <2>2. ~Separate(source[j], source[i])
    BY <1>3 DEF Separate
  <2> QED
    BY <1>3, <2>1, <2>2 DEF Apart
<1>4. ASSUME ~Apart(source)
      PROVE  \E i, j \in 1..Len(source) :
                i # j /\ ~Separate(source[i], source[j])
  BY <1>4 DEF Apart
<1>5. Overlap(source) <=> \E i, j \in 1..Len(source) :
                              i # j /\ ~Separate(source[i], source[j])
  BY <1>1, <1>2 DEF Overlap
<1> QED
  BY <1>3, <1>4, <1>5

\* Of a source without overlaps it is enough that its rewritten lines do not
\* meet at the seam in the order in which they come.
LEMMA ApartHasNoSeams ==
    ASSUME source \in Sources, ~Overlap(source), AllRewrite => NoSeam(NewLines)
    PROVE  NoSeams
<1> SUFFICES ASSUME AllRewrite, NEW o \in Orders, NEW i \in 1..(Len(o) - 1),
                    Seam(o[i], o[i + 1])
             PROVE  FALSE
  BY DEF NoSeams, NoSeam
<1> DEFINE R == NewRegions
           merged == MergeLines(NewLines)
<1>1. /\ NewLines \in Seq(SegmentsOver(R)) /\ Proper(NewLines)
      /\ NoSeam(NewLines) /\ Len(NewLines) = Len(source)
      /\ \A k \in 1..Len(source) : /\ NewLines[k].start = source[k].start
                                   /\ NewLines[k].end = source[k].end
  BY NewLinesAreLines
<1>2. Apart(NewLines)
  BY <1>1, OverlapIsNotApart DEF Apart, Separate
<1>3. merged \in Seq(SegmentsOver(R)) /\ o \in SortedOrders(merged)
  BY <1>1, MergeType DEF Orders
<1> HIDE DEF R
<1>4. Proper(merged) /\ Apart(merged)
  BY <1>1, <1>2, MergeApart, MergeSays
<1> HIDE DEF merged
<1>5. /\ o \in Seq(SegmentsOver(R)) /\ Proper(o) /\ Apart(o)
  BY <1>3, <1>4, SortedSays, SortedApart
<1>6. \A k, m \in 1..Len(o) : k < m => o[k].start <= o[m].start
  BY <1>3, SortedIsRearranged
<1>7. /\ i \in 1..Len(o) /\ i + 1 \in 1..Len(o) /\ i < i + 1
  BY <1>5
<1>8. /\ o[i].start \in Nat /\ o[i + 1].start \in Nat /\ o[i + 1].end \in Nat
      /\ Separate(o[i], o[i + 1]) /\ o[i].start <= o[i + 1].start
  BY <1>5, <1>6, <1>7, SegmentTypes DEF Apart
<1> QED
  BY <1>8, MaxIPAssumption DEF Seam, Separate

-----------------------------------------------------------------------------
(* The database *)

\* What a search answers is no region, or the rewritten region of a line of
\* the source that holds the address; in a finished database it is the
\* region of every such line.
LEMMA DatabaseSays ==
    ASSUME PipelineInv, NEW ip \in IPs
    PROVE  /\ \/ M!Search(file, ip) \in {EmptyRegion, M!ReadError}
              \/ /\ ListAccepted(flags.list)
                 /\ \E i \in 1..Len(source) :
                       /\ Rewrites(source[i]) /\ SegContains(source[i], ip)
                       /\ M!Search(file, ip) = Rewritten(source[i]).region
           /\ step = "done" /\ stage # "stopped" =>
                 /\ ListAccepted(flags.list)
                 /\ \A i \in 1..Len(source) :
                       SegContains(source[i], ip) =>
                          M!Search(file, ip) = Rewritten(source[i]).region
<1>1. /\ NoSeams /\ ProcessInv /\ DbInv /\ FileInv
      /\ source \in Sources
  BY DEF PipelineInv, ProcessInv
<1>2. ip \in P!IPs
  BY DEF P!IPs, IPs
<1>3. CASE NothingMade /\ step # "done"
  <2>1. P!Search(file, ip) \in {EmptyRegion, P!ReadError}
    BY <1>2, <1>3, P!SearchInZeroVector, MakerAssumptions DEF NothingMade
  <2> QED
    BY <1>3, <2>1, SameSearch
<1>4. CASE Loads /\ (FromSource \/ FromOutput) /\ step # "none"
  <2>1. P!NoWrap /\ P!IInv
    BY <1>1, <1>4 DEF FileInv
  <2>2. /\ \/ P!Search(file, ip) \in {EmptyRegion, P!ReadError}
           \/ \E i \in 1..Len(input) :
                 /\ P!SegContains(input[i], ip)
                 /\ P!Search(file, ip)
                       = P!RegionFiltering(input[i].region, fields)
        /\ step = "done" =>
              \A i \in 1..Len(input) :
                 P!SegContains(input[i], ip) =>
                    P!Search(file, ip)
                       = P!RegionFiltering(input[i].region, fields)
    BY <1>2, <2>1, P!FileSays, MakerAssumptions
  <2>3. /\ \/ M!Search(file, ip) \in {EmptyRegion, M!ReadError}
           \/ \E i \in 1..Len(input) :
                 /\ SegContains(input[i], ip)
                 /\ M!Search(file, ip)
                       = P!RegionFiltering(input[i].region, fields)
        /\ step = "done" =>
              \A i \in 1..Len(input) :
                 SegContains(input[i], ip) =>
                    M!Search(file, ip)
                       = P!RegionFiltering(input[i].region, fields)
    BY <2>2, SameSearch DEF P!SegContains, SegContains
  <2>4. CASE FromSource
    <3>1. /\ AllRewrite /\ input = source /\ ListAccepted(flags.list)
          /\ \A i \in 1..Len(source) :
                P!RegionFiltering(input[i].region, fields)
                   = Rewritten(source[i]).region
      BY <1>1, <1>4, <2>4, FilteredInput DEF FromSource, ProcessInv
    <3>2. \A i \in 1..Len(source) : Rewrites(source[i])
      BY <1>1, <3>1, SourceIsLines DEF AllRewrite
    <3> QED
      BY <2>3, <3>1, <3>2
  <2>5. CASE FromOutput
    <3>1. /\ input = dst /\ stage \in {"done", "stopped"}
          /\ ListAccepted(flags.list)
          /\ \A r : P!RegionFiltering(r, fields) = r
      BY <1>1, <1>4, <2>5, FilteredInput DEF FromOutput, ProcessInv
    <3>2. ASSUME NEW k \in 1..Len(dst), SegContains(dst[k], ip)
          PROVE  \E i \in 1..Len(source) :
                    /\ Rewrites(source[i]) /\ SegContains(source[i], ip)
                    /\ dst[k].region = Rewritten(source[i]).region
      BY <1>1, <3>2, OutputOfSource
    <3>3. ASSUME stage = "done", NEW i \in 1..Len(source),
                 SegContains(source[i], ip)
          PROVE  \E k \in 1..Len(dst) :
                    /\ SegContains(dst[k], ip)
                    /\ dst[k].region = Rewritten(source[i]).region
      BY <1>1, <3>3, SourceInOutput
    <3>4. \/ M!Search(file, ip) \in {EmptyRegion, M!ReadError}
          \/ \E k \in 1..Len(dst) : /\ SegContains(dst[k], ip)
                                    /\ M!Search(file, ip) = dst[k].region
      BY <2>3, <3>1
    <3>5. step = "done" =>
             \A k \in 1..Len(dst) :
                SegContains(dst[k], ip) => M!Search(file, ip) = dst[k].region
      BY <2>3, <3>1
    <3>6. \/ M!Search(file, ip) \in {EmptyRegion, M!ReadError}
          \/ \E i \in 1..Len(source) :
                /\ Rewrites(source[i]) /\ SegContains(source[i], ip)
                /\ M!Search(file, ip) = Rewritten(source[i]).region
      BY <3>2, <3>4
    <3>7. step = "done" /\ stage # "stopped" =>
             \A i \in 1..Len(source) :
                SegContains(source[i], ip) =>
                   M!Search(file, ip) = Rewritten(source[i]).region
      BY <3>1, <3>3, <3>5
    <3> QED
      BY <3>1, <3>6, <3>7
  <2> QED
    BY <1>4, <2>4, <2>5
<1> QED
  BY <1>1, <1>3, <1>4 DEF DbInv

\* What the lines of a source that hold an address say, in the code's words
\* and in those of the options.
LEMMA WantedOfLines ==
    ASSUME source \in Sources, flags \in Flags, ListAccepted(flags.list),
           ~ListedTwice, NEW i \in 1..Len(source)
    PROVE  Rewritten(source[i]).region = Wanted(source[i].region)
BY SourceIsLines, SegmentTypes, RewrittenAsWanted

\* The lines that hold an address, by their numbers.
LEMMA LinesByNumber ==
    ASSUME NEW R, NEW lines \in Seq(R), NEW ip
    PROVE  \A l : l \in LinesAt(lines, ip) <=>
                     \E i \in 1..Len(lines) :
                        l = lines[i] /\ SegContains(lines[i], ip)
BY DEF LinesAt, Elements

-----------------------------------------------------------------------------
(* The theorems *)

\* A finished process of a source without overlaps gives each address what
\* the options ask for, and only those of the source, in order.
LEMMA InvOutputRewritten == ASSUME PipelineInv PROVE OutputRewritten
<1> SUFFICES ASSUME stage = "done", ~Overlap(source), ~ListedTwice
             PROVE  /\ InOrder(dst)
                    /\ \A ip \in IPs :
                          {l.region : l \in LinesAt(dst, ip)} =
                             {Wanted(l.region) : l \in LinesAt(source, ip)}
  BY DEF OutputRewritten
<1>1. /\ NoSeams /\ ProcessInv /\ source \in Sources /\ flags \in Flags
      /\ AllRewrite /\ dst \in Orders /\ ListAccepted(flags.list)
      /\ dst \in Seq(SegmentsOver(NewRegions))
      /\ source \in Seq(SegmentsOver(Regions))
  BY SourceIsLines DEF PipelineInv, ProcessInv
<1>2. InOrder(dst)
  BY <1>1, OverlapIsNotApart, OrderSays
<1>3. ASSUME NEW ip \in IPs
      PROVE  {l.region : l \in LinesAt(dst, ip)} =
                {Wanted(l.region) : l \in LinesAt(source, ip)}
  <2>1. ASSUME NEW l \in LinesAt(dst, ip)
        PROVE  l.region \in {Wanted(m.region) : m \in LinesAt(source, ip)}
    <3>1. PICK k \in 1..Len(dst) : l = dst[k] /\ SegContains(dst[k], ip)
      BY <1>1, LinesByNumber
    <3>2. PICK i \in 1..Len(source) :
             /\ SegContains(source[i], ip)
             /\ dst[k].region = Rewritten(source[i]).region
      BY <1>1, <3>1, OutputOfSource
    <3>3. dst[k].region = Wanted(source[i].region)
      BY <1>1, <3>2, WantedOfLines
    <3>4. source[i] \in LinesAt(source, ip)
      BY <1>1, <3>2, LinesByNumber
    <3> QED
      BY <3>1, <3>3, <3>4
  <2>2. ASSUME NEW m \in LinesAt(source, ip)
        PROVE  Wanted(m.region) \in {l.region : l \in LinesAt(dst, ip)}
    <3>1. PICK i \in 1..Len(source) :
             m = source[i] /\ SegContains(source[i], ip)
      BY <1>1, LinesByNumber
    <3>2. PICK k \in 1..Len(dst) :
             /\ SegContains(dst[k], ip)
             /\ dst[k].region = Rewritten(source[i]).region
      BY <1>1, <3>1, SourceInOutput
    <3>3. dst[k].region = Wanted(m.region)
      BY <1>1, <3>1, <3>2, WantedOfLines
    <3>4. dst[k] \in LinesAt(dst, ip)
      BY <1>1, <3>2, LinesByNumber
    <3> QED
      BY <3>3, <3>4
  <2> QED
    BY <2>1, <2>2
<1> QED
  BY <1>2, <1>3

\* Nothing the two commands leave says anything the source does not say.
LEMMA InvNothingForeign == ASSUME PipelineInv PROVE NothingForeign
<1> DEFINE Right(ip) == {Wanted(l.region) :
                           l \in {x \in LinesAt(source, ip) : Rewrites(x)}}
<1> SUFFICES ASSUME ~ListedTwice, NEW ip \in IPs
             PROVE  /\ {l.region : l \in LinesAt(dst, ip)} \subseteq Right(ip)
                    /\ M!Search(file, ip)
                          \in Right(ip) \cup {EmptyRegion, M!ReadError}
  BY DEF NothingForeign
<1>1. /\ NoSeams /\ ProcessInv /\ source \in Sources /\ flags \in Flags
      /\ dst \in Seq(SegmentsOver(NewRegions))
      /\ source \in Seq(SegmentsOver(Regions))
  BY SourceIsLines DEF PipelineInv, ProcessInv
<1>2. ASSUME ListAccepted(flags.list), NEW i \in 1..Len(source),
             Rewrites(source[i]), SegContains(source[i], ip)
      PROVE  Rewritten(source[i]).region \in Right(ip)
  <2>1. Rewritten(source[i]).region = Wanted(source[i].region)
    BY <1>1, <1>2, WantedOfLines
  <2>2. source[i] \in LinesAt(source, ip)
    BY <1>1, <1>2, LinesByNumber
  <2> QED
    BY <1>2, <2>1, <2>2
<1> HIDE DEF Right
<1>3. ASSUME NEW l \in LinesAt(dst, ip)
      PROVE  l.region \in Right(ip)
  <2>1. PICK k \in 1..Len(dst) : l = dst[k] /\ SegContains(dst[k], ip)
    BY <1>1, LinesByNumber
  <2>2. /\ ListAccepted(flags.list)
        /\ \E i \in 1..Len(source) :
              /\ Rewrites(source[i]) /\ SegContains(source[i], ip)
              /\ dst[k].region = Rewritten(source[i]).region
    BY <1>1, <2>1, OutputOfSource
  <2> QED
    BY <1>2, <2>1, <2>2
<1>4. M!Search(file, ip) \in Right(ip) \cup {EmptyRegion, M!ReadError}
  BY <1>2, DatabaseSays
<1> QED
  BY <1>3, <1>4

\* A finished database answers with what the options ask for.
LEMMA InvDatabaseOfSource == ASSUME PipelineInv PROVE DatabaseOfSource
<1> SUFFICES ASSUME step = "done", stage # "stopped", ~ListedTwice,
                    NEW ip \in IPs, NEW l \in LinesAt(source, ip)
             PROVE  M!Search(file, ip) = Wanted(l.region)
  BY DEF DatabaseOfSource
<1>1. /\ source \in Sources /\ flags \in Flags
      /\ source \in Seq(SegmentsOver(Regions))
  BY SourceIsLines DEF PipelineInv, ProcessInv
<1>2. PICK i \in 1..Len(source) : l = source[i] /\ SegContains(source[i], ip)
  BY <1>1, LinesByNumber
<1>3. /\ ListAccepted(flags.list)
      /\ M!Search(file, ip) = Rewritten(source[i]).region
  BY <1>2, DatabaseSays
<1> QED
  BY <1>1, <1>2, <1>3, WantedOfLines

\* bench passes exactly when no region changes: the two ends of a line are
\* answered with its rewritten region.
LEMMA InvBenchTells == ASSUME PipelineInv PROVE BenchTells
<1> SUFFICES ASSUME step = "done", stage # "stopped"
             PROVE  Bench(source) <=>
                       \A i \in DOMAIN source :
                          Rewritten(source[i]) = source[i]
  BY DEF BenchTells
<1>1. /\ source \in Sources /\ DOMAIN source = 1..Len(source)
      /\ Proper(source) /\ source \in Seq(SegmentsOver(Regions))
  BY SourceIsLines DEF PipelineInv, ProcessInv
<1>2. ASSUME NEW i \in 1..Len(source)
      PROVE  (\A ip \in {source[i].start, source[i].end} :
                 M!Search(file, ip) = source[i].region)
                <=> Rewritten(source[i]) = source[i]
  <2>1. /\ source[i] \in SegmentsOver(Regions)
        /\ source[i].start \in IPs /\ source[i].end \in IPs
        /\ source[i].start \in Nat /\ source[i].end \in Nat
        /\ source[i].start <= source[i].end
    BY <1>1, SegmentTypes DEF Proper
  <2>2. /\ SegContains(source[i], source[i].start)
        /\ SegContains(source[i], source[i].end)
    BY <2>1 DEF SegContains
  <2>3. /\ M!Search(file, source[i].start) = Rewritten(source[i]).region
        /\ M!Search(file, source[i].end) = Rewritten(source[i]).region
    BY <2>1, <2>2, DatabaseSays
  <2>4. Rewritten(source[i]) = source[i]
           <=> Rewritten(source[i]).region = source[i].region
    <3>1. Rewritten(source[i])
             = [source[i] EXCEPT !.region = Rewritten(source[i]).region]
      BY <2>1, RewrittenLine
    <3> QED
      BY <2>1, <3>1 DEF SegmentsOver
  <2> QED
    BY <2>3, <2>4
<1> QED
  BY <1>1, <1>2 DEF Bench

\* gen ends on its input as it must: the segments it loads are in order
\* exactly when the lines of the source are apart.
LEMMA InputInOrder ==
    ASSUME PipelineInv, Loads, FromSource \/ FromOutput, step # "none"
    PROVE  /\ P!InOrder(P!Loaded) <=> Apart(input)
           /\ P!Loaded = <<>> <=> input = <<>>
<1>1. P!NoWrap /\ P!IInv
  BY DEF PipelineInv, FileInv
<1>2. input \in Seq(SegmentsOver(AllRegions))
  BY InputIsFile DEF PipelineInv
<1>3. \A i \in 1..Len(input) : input[i].start <= input[i].end
  BY <1>2 DEF Loads, Readable
<1>4. /\ P!InOrder(P!Loaded) <=> P!Apart(input)
      /\ P!Loaded = <<>> <=> input = <<>>
  BY <1>1, <1>2, <1>3, P!LoadedInOrder, MakerAssumptions
<1>5. P!Apart(input) <=> Apart(input)
  BY DEF P!Apart, Apart, P!Separate, Separate
<1> QED
  BY <1>4, <1>5

\* gen fails on what process wrote, or on the source, for no other reason
\* than the named ones, and it ends well only when there is none of them.
LEMMA InvGenAccepts == ASSUME PipelineInv PROVE GenAccepts
<1>1. /\ NoSeams /\ ProcessInv /\ DbInv /\ source \in Sources
      /\ Overlap(source) <=> ~Apart(source)
  BY OverlapIsNotApart DEF PipelineInv, ProcessInv
<1>2. /\ source \in Seq(SegmentsOver(Regions)) /\ Proper(source)
      /\ Len(source) \in Nat /\ DOMAIN source = 1..Len(source)
      /\ \A i \in 1..Len(source) :
            /\ source[i].start <= source[i].end
            /\ source[i].start \in IPs /\ source[i].start \in Nat
            /\ source[i].end \in Nat
            /\ source[i].region # EmptyRegion
  BY <1>1, SourceIsLines, SegmentTypes DEF Proper
<1>3. ASSUME stage = "done"
      PROVE  /\ dst \in Seq(SegmentsOver(NewRegions)) /\ Proper(dst)
             /\ Apart(dst) <=> Apart(source)
             /\ dst = <<>> <=> source = <<>>
             /\ EmptyRegion \in NewRegions =>
                   \E k \in 1..Len(dst) : dst[k].region = EmptyRegion
  <2>1. AllRewrite /\ dst \in Orders
    BY <1>1, <1>3 DEF ProcessInv
  <2>2. ASSUME NEW i \in 1..Len(source)
        PROVE  \E k \in 1..Len(dst) :
                  dst[k].region = Rewritten(source[i]).region
    <3>1. SegContains(source[i], source[i].start)
      BY <1>2 DEF SegContains
    <3> QED
      BY <1>1, <1>2, <1>3, <3>1, SourceInOutput
  <2>3. dst = <<>> <=> source = <<>>
    <3>1. dst \in Seq(SegmentsOver(NewRegions)) /\ Proper(dst)
      BY <1>1, <2>1, OrderSays
    <3>2. ASSUME dst # <<>>
          PROVE  \E i \in 1..Len(source) : TRUE
      <4>1. 1 \in 1..Len(dst)
        BY <3>1, <3>2
      <4>2. dst[1].start \in IPs /\ SegContains(dst[1], dst[1].start)
        BY <3>1, <4>1, SegmentTypes DEF Proper, SegContains
      <4> QED
        BY <1>1, <4>1, <4>2, OutputOfSource
    <3> QED
      BY <1>2, <2>2, <3>2
  <2>4. EmptyRegion \in NewRegions =>
           \E k \in 1..Len(dst) : dst[k].region = EmptyRegion
    <3>1. EmptyRegion \in NewRegions =>
             \E i \in 1..Len(source) :
                Rewritten(source[i]).region = EmptyRegion
      BY <1>2 DEF NewRegions, Elements
    <3> QED
      BY <2>2, <3>1
  <2> QED
    BY <1>1, <2>1, <2>3, <2>4, OrderSays
<1>4. ASSUME step = "done", stage # "stopped"
      PROVE  /\ source # <<>> /\ ~Overlap(source)
             /\ \A i \in DOMAIN source : Rewrites(source[i])
             /\ stage = "done" => EmptyRegion \notin NewRegions
  <2>1. Loads /\ (FromSource \/ FromOutput)
    BY <1>1, <1>4 DEF DbInv
  <2>2. P!InOrder(P!Loaded) /\ P!Loaded # <<>>
    BY <1>4, <2>1 DEF PipelineInv, FileInv, P!IInv, P!Accepted
  <2>3. Apart(input) /\ input # <<>>
    BY <1>4, <2>1, <2>2, InputInOrder
  <2>4. CASE FromSource
    <3>1. AllRewrite
      BY <1>1, <2>1, <2>4, FilteredInput
    <3> QED
      BY <1>1, <2>3, <2>4, <3>1 DEF FromSource, AllRewrite
  <2>5. CASE FromOutput
    <3>1. stage = "done" /\ input = dst
      BY <1>4, <2>5 DEF FromOutput
    <3>2. \A k \in 1..Len(dst) : dst[k].region # EmptyRegion
      BY <1>3, <2>1, <3>1 DEF Loads, Readable
    <3>3. \A i \in DOMAIN source : Rewrites(source[i])
      BY <1>1, <3>1 DEF ProcessInv, AllRewrite
    <3> QED
      BY <1>1, <1>3, <2>3, <3>1, <3>2, <3>3
  <2> QED
    BY <2>1, <2>4, <2>5
<1>5. ASSUME step = "failed", stage # "stopped"
      PROVE  \/ Overlap(source) \/ source = <<>>
             \/ stage = "done" /\ EmptyRegion \in NewRegions
             \/ /\ stage = "direct"
                /\ \E i \in DOMAIN source : ~Rewrites(source[i])
  <2>1. Refused /\ (FromSource \/ FromOutput)
    BY <1>1, <1>5 DEF DbInv
  <2>2. CASE Loads
    <3>1. input = <<>> \/ ~Apart(input)
      BY <1>5, <2>1, <2>2, InputInOrder DEF Refused
    <3>2. CASE FromSource
      BY <1>1, <3>1, <3>2 DEF FromSource
    <3>3. CASE FromOutput
      BY <1>1, <1>3, <1>5, <3>1, <3>3 DEF FromOutput
    <3> QED
      BY <2>1, <3>2, <3>3
  <2>3. CASE ~Loads /\ FromSource
    <3>1. /\ stage = "direct" /\ input = source
          /\ fields = GetFilterFields(flags.list)
      BY <2>3 DEF FromSource
    <3>2. PICK i \in 1..Len(source) :
             ~Readable(source[i])
                \/ ~HasFields(source[i].region, GetFilterFields(flags.list))
      BY <1>2, <2>3, <3>1 DEF Loads
    <3>3. ~Rewrites(source[i])
      BY <1>2, <3>2 DEF Readable, Rewrites
    <3> QED
      BY <1>2, <3>1, <3>3
  <2>4. CASE ~Loads /\ FromOutput
    <3>1. stage = "done" /\ input = dst /\ fields = <<>>
      BY <1>5, <2>4 DEF FromOutput
    <3>2. DOMAIN dst = 1..Len(dst)
      BY <1>3, <3>1
    <3>3. PICK k \in 1..Len(dst) : ~Readable(dst[k])
      BY <2>4, <3>1, <3>2 DEF Loads, HasFields
    <3>4. dst[k].region = EmptyRegion
      BY <1>3, <3>1, <3>3 DEF Readable, Proper
    <3>5. dst[k].region \in NewRegions
      BY <1>3, <3>1, <3>3, SegmentTypes
    <3> QED
      BY <3>1, <3>4, <3>5
  <2> QED
    BY <2>1, <2>2, <2>3, <2>4
<1> QED
  BY <1>4, <1>5 DEF GenAccepts

\* A finished process gives each address of a source without overlaps what
\* the options ask for, whatever the order of its lines and of equal starts.
THEOREM PipelineOutputRewritten == PipelineSpec /\ NoSeams => []OutputRewritten
BY PipelineIsInv, InvOutputRewritten, PTL

\* No output, cut or whole, and no database made from it says of an address
\* what the source does not say of it.
THEOREM PipelineNothingForeign == PipelineSpec /\ NoSeams => []NothingForeign
BY PipelineIsInv, InvNothingForeign, PTL

\* gen with a field list, and gen of what process wrote, make databases that
\* answer alike: with what the options ask for.
THEOREM PipelineDatabaseOfSource ==
    PipelineSpec /\ NoSeams => []DatabaseOfSource
BY PipelineIsInv, InvDatabaseOfSource, PTL

\* gen accepts either input exactly when the lines of the source are apart,
\* there is one, and each can be read and rewritten.
THEOREM PipelineGenAccepts == PipelineSpec /\ NoSeams => []GenAccepts
BY PipelineIsInv, InvGenAccepts, PTL

\* bench passes exactly on the sources that the options leave as they are.
THEOREM PipelineBenchTells == PipelineSpec /\ NoSeams => []BenchTells
BY PipelineIsInv, InvBenchTells, PTL
=============================================================================
