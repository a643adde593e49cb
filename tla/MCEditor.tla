------------------------------ MODULE MCEditor ------------------------------
(***************************************************************************)
(* Editor for TLC on four addresses and two regions: enough for a put that *)
(* cuts a head and a tail off one segment, one that spans three segments,  *)
(* and a gap at either end.                                                *)
(***************************************************************************)
EXTENDS Editor, TLC

CONSTANTS A, B

\* a complete source, one with gaps, one out of order
MCSources ==
    { <<Segment(0, 1, A), Segment(2, 3, B)>>,
      <<Segment(1, 1, A)>>,
      <<Segment(2, 2, B), Segment(0, 0, A)>> }

\* overlapping and unordered lines, two lines that merge, a bad line
MCPutFiles ==
    { <<Segment(1, 2, A), Segment(0, 1, B), Segment(2, 3, B)>>,
      <<Segment(2, 2, A), Segment(1, 1, B), BadLine, Segment(0, 3, A)>>,
      <<Segment(3, 3, A), Segment(5, 8, B), Segment(1, 1, A)>> }

\* the other version has two addresses for each of the version's four, as
\* IPv6 has for the four bytes of an IPv4 address
MCRank == [ip \in 4..11 |-> (ip - 4) \div 2 + 1]

\* one that starts and ends inside, one behind the last address
MCOtherLines == { Segment(5, 8, B), Segment(10, 11, A) }
NoOtherLines == {}

\* a list gone astray can grow for ever; it is followed when the file is
\* still as found, and its save to the file, not through the sessions on that
Short ==
    /\ astray => Len(segs) <= 3
    /\ mode = "open" => ~spoilt /\ (astray => file \in Sources)

\* a source without a segment: empty, or comments only
EmptySources == { <<>> }
NoPutFiles == {}
=============================================================================
