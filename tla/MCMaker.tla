------------------------------ MODULE MCMaker ------------------------------
(***************************************************************************)
(* Maker for TLC: six addresses in three blocks of two, every source of at *)
(* most three lines that do not overlap, in any order, and every source of *)
(* two lines that do.  Regions have one field; the filter is the subject  *)
(* of MCPipeline.                                                          *)
(***************************************************************************)
EXTENDS Maker, TLC

CONSTANTS A, B

MCRegions == {<<A>>, <<B>>}
MCEmptyRegion == <<Blank>>

Disjoint(s) ==
    \A i, j \in DOMAIN s : i # j => Covered(s[i]) \cap Covered(s[j]) = {}

\* a line at address 0 right after a line of the same region that ends at
\* the last address: the subject of MCMakerAnswers
WrapsAround(s) ==
    \E i \in 1..(Len(s) - 1) :
        /\ s[i].end = MaxIP /\ s[i + 1].start = 0
        /\ s[i].region = s[i + 1].region

ShortSources == UNION {[1..n -> SourceLines] : n \in 0..2}
LongSources == {s \in [1..3 -> SourceLines] : Disjoint(s)}

NoFilter == {<<>>}

MCSources == {s \in ShortSources \cup LongSources : ~WrapsAround(s)}

\* two lines that meet around the end of the addresses, and a third that
\* leaves the second address of its block, the last with an entry, free
AnswersSources ==
    { <<Segment(5, 5, <<A>>), Segment(0, 0, <<A>>), Segment(2, 2, <<B>>)>> }
=============================================================================
