------------------------------ MODULE Segments ------------------------------
(***************************************************************************)
(* IP segments of the maker (maker/golang/xdb: segment.go, util.go).  An   *)
(* address is the number its bytes stand for, compared by IPCompare; the   *)
(* width is kept, so the successor of the last address is address 0.       *)
(***************************************************************************)
EXTENDS Integers, Sequences, SequencesExt

CONSTANTS
    MaxIP,        \* Version.Max: the last address of the version
    Regions,      \* non-empty region strings
    EmptyRegion   \* the region "" of a gap

ASSUME MaxIPAssumption == MaxIP \in Nat
ASSUME RegionAssumption == EmptyRegion \notin Regions

IPs == 0..MaxIP

IPAddOne(ip) == (ip + 1) % (MaxIP + 1)
IPSubOne(ip) == (ip - 1) % (MaxIP + 1)

Segment(sip, eip, rg) == [start |-> sip, end |-> eip, region |-> rg]

\* what ParseSegment accepts: start <= end and some region text
Line == {Segment(s, e, r) : s \in IPs, e \in IPs, r \in Regions}
SourceLines == {l \in Line : l.start <= l.end}

Covered(seg) == seg.start..seg.end

\* Segment.Contains
SegContains(seg, ip) == seg.start <= ip /\ ip <= seg.end

\* s.RightBehind(last): last.EndIP + 1 = s.StartIP, in the width of the type
RightBehind(s, last) == IPAddOne(last.end) = s.start

\* s.After(last): last.EndIP < s.StartIP
After(s, last) == last.end < s.start

-----------------------------------------------------------------------------
(* IterateSegments with autoMerge: a line that has the region of the       *)
(* pending segment and is right behind it extends it.                      *)

MergeLineNoRegionFault(list, line) ==
    LET last == Last(list)
    IN  IF list # <<>> /\ RightBehind(line, last)
          THEN Append(Front(list), [last EXCEPT !.end = line.end])
          ELSE Append(list, line)

MergeLine(list, line) ==
    LET last == Last(list)
    IN  IF list # <<>> /\ last.region = line.region /\ RightBehind(line, last)
          THEN Append(Front(list), [last EXCEPT !.end = line.end])
          ELSE Append(list, line)

\* the segments handed to the callback for a whole source
MergeLines(lines) == FoldLeft(MergeLine, <<>>, lines)

-----------------------------------------------------------------------------
InOrder(list) ==
    \A i \in 1..(Len(list) - 1) : After(list[i + 1], list[i])

SortedOrdersFault(list) == {list}

\* sort.Slice by StartIP: the orders it may give; equal starts in any order
SortedOrders(list) ==
    {t \in {[i \in DOMAIN list |-> list[f[i]]] :
               f \in Bijection(DOMAIN list, DOMAIN list)} :
        \A i, j \in DOMAIN t : i < j => t[i].start <= t[j].start}

\* one of them: lines with equal starts overlap whichever comes first
SortedByStart(list) == CHOOSE t \in SortedOrders(list) : TRUE

\* both loaders sort only when a segment does not come after its predecessor
LoadOrder(list) == IF InOrder(list) THEN list ELSE SortedByStart(list)
=============================================================================
