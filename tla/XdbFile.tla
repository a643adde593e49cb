------------------------------ MODULE XdbFile ------------------------------
(***************************************************************************)
(* An xdb file and the search in it (binding/golang/xdb/searcher.go, the   *)
(* same algorithm as maker/golang/xdb/searcher.go).  The two leading bytes *)
(* of an address are its block; the vector index gives each block the      *)
(* first entry that starts in it and the position after the last one.      *)
(* A position counts the entries of the segment index block, from 1: the   *)
(* zero of an unwritten pointer is no position.                            *)
(***************************************************************************)
EXTENDS Segments

CONSTANT BlockSize   \* addresses that share their two leading bytes

ASSUME BlockSizeAssumption == BlockSize \in Nat \ {0}

Block(ip) == ip \div BlockSize
Blocks == {Block(ip) : ip \in IPs}

NoPtrs == [s |-> 0, e |-> 0]
ZeroVector == [b \in Blocks |-> NoPtrs]

\* header and vector: not yet in the file; data: the regions written; index:
\* the entries written, the last thing in the file; ptrs: the header's
\* start and end index pointers
EmptyFile ==
    [header |-> FALSE, vector |-> ZeroVector, data |-> {}, index |-> <<>>,
     ptrs |-> NoPtrs]

\* a read of the vector index succeeds once a byte was written after it
HasVector(f) == f.data \ {EmptyRegion} # {} \/ f.index # <<>>

\* not a region: a region text has at least one field
ReadError == <<>>

-----------------------------------------------------------------------------
(* Segment.Split: one piece per block; an inverted segment that leaves its *)
(* block has none.                                                         *)

SplitFault(seg) == <<seg>>

SplitShiftFault(seg) ==
    LET first == Block(seg.start)
        last == Block(seg.end)
        piece(b) ==
            Segment(IF b = first THEN seg.start ELSE b * BlockSize + BlockSize,
                    IF b = last THEN seg.end ELSE b * BlockSize + BlockSize - 1,
                    seg.region)
    IN  [i \in 1..(last - first + 1) |-> piece(first + i - 1)]

Split(seg) ==
    LET first == Block(seg.start)
        last == Block(seg.end)
        piece(b) ==
            Segment(IF b = first THEN seg.start ELSE b * BlockSize,
                    IF b = last THEN seg.end ELSE b * BlockSize + BlockSize - 1,
                    seg.region)
    IN  [i \in 1..(last - first + 1) |-> piece(first + i - 1)]

-----------------------------------------------------------------------------
(* Search: both bounds of the loop are read as the code computes them; h   *)
(* is the position after the last entry of the block.                      *)

\* the loop looks at entry sPtr + m; past the last entry the read fails
ProbeAt(f, ip, sPtr, width) ==
    LET Probe[b \in (0..(width + 1)) \X (-1..width)] ==
            LET l == b[1]
                h == b[2]
                m == (l + h) \div 2
                p == sPtr + m
            IN  IF l > h THEN EmptyRegion
                ELSE IF p > Len(f.index) THEN ReadError
                ELSE IF ip < f.index[p].start THEN Probe[<<l, m - 1>>]
                ELSE IF ip > f.index[p].end THEN Probe[<<m + 1, h>>]
                ELSE f.index[p].region
    IN  Probe[<<0, width>>]

Search(f, ip) ==
    LET v == f.vector[Block(ip)]
    IN  IF ~HasVector(f) THEN ReadError
        ELSE IF v.s = 0 \/ v.e = 0 THEN EmptyRegion
        ELSE ProbeAt(f, ip, v.s, v.e - v.s)
=============================================================================
