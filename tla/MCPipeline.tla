----------------------------- MODULE MCPipeline -----------------------------
(***************************************************************************)
(* Pipeline for TLC: four addresses in two blocks; regions with one field  *)
(* and with two, one of them blank; every source of one line, and every    *)
(* pair of lines, in both orders, that does not wrap around.               *)
(***************************************************************************)
EXTENDS Pipeline

CONSTANTS A, B

MCRegions == {<<A, B>>, <<A, Blank>>, <<B>>}
MCEmptyRegion == <<Blank>>

Everything(line) == line.start = 0 /\ line.end = MaxIP

\* a line at address 0 behind one that ends at the last address: the wrap of
\* MCMakerAnswers, which process writes as a line that ends before it starts;
\* its sort brings two lines at address 0 there when one covers everything
WrapsAround(s) ==
    /\ Len(s) = 2
    /\ \/ s[1].end = MaxIP /\ s[2].start = 0
       \/ \E i \in {1, 2} : Everything(s[i]) /\ s[3 - i].start = 0

MCSources ==
    {s \in {<<>>} \cup [1..1 -> SourceLines] \cup [1..2 -> SourceLines] :
        ~WrapsAround(s)}

\* one line given twice, and nothing to rewrite
TwiceSources == { <<Segment(1, 2, <<A, B>>), Segment(1, 2, <<A, B>>)>> }
NoOptions == { [list |-> <<>>, clear |-> NoClear] }

Lists == { <<>>, <<Single(0, 0)>>, <<Single(0, 1)>>,
           <<FieldRange(0, 1)>>, <<Single(0, 1), Single(0, 0)>>,
           <<Single(0, 0), Single(1, 0)>>,
           <<FieldRange(0, 1), Single(0, 1)>>, <<FieldRange(1, 0)>> }

MCFlags ==
    [list : Lists, clear : {NoClear}] \cup
    [list : {<<>>, <<Single(0, 0)>>},
     clear : {Clear(0, A, Blank), Clear(1, Blank, B), Clear(0, A, B)}]
=============================================================================
