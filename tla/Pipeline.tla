------------------------------ MODULE Pipeline ------------------------------
(***************************************************************************)
(* The two ways from a source to a database with fewer fields: gen with a  *)
(* field list, and process with one, then gen on what it wrote, finished   *)
(* or not.  bench compares a database with a source.                       *)
(***************************************************************************)
EXTENDS Processor

CONSTANT BlockSize   \* addresses that share their two leading bytes

ASSUME BlocksAssumption == BlockSize \in Nat \ {0}

VARIABLES
    step,                    \* "none": gen has not been started
    input, fields, loaded,   \* its --src file, field list and segments
    pieces, vector, file

makerVars == <<step, input, fields, loaded, pieces, vector, file>>

M == INSTANCE Maker WITH
        source <- input, segments <- loaded,
        FilterFields <- {GetFilterFields(f.list) : f \in Flags}

PipelineInit ==
    /\ Init
    /\ step = "none"
    /\ input = <<>> /\ fields = <<>> /\ loaded = <<>> /\ pieces = <<>>
    /\ vector = M!ZeroVector
    /\ file = M!EmptyFile

Generate(lines, list) ==
    /\ step = "none"
    /\ step' = "header"
    /\ input' = lines
    /\ fields' = list
    /\ UNCHANGED <<loaded, pieces, vector, file>>

\* gen --field-list; it has no options to clear a region
GenerateDirectly ==
    /\ stage = "flags"
    /\ flags.clear = NoClear
    /\ stage' = IF ListAccepted(flags.list) THEN "direct" ELSE "refused"
    /\ IF ListAccepted(flags.list)
         THEN Generate(source, GetFilterFields(flags.list))
         ELSE UNCHANGED makerVars
    /\ UNCHANGED <<source, flags, segments, dst>>

\* gen without a field list, on what process left
GenerateProcessed ==
    /\ stage \in {"done", "stopped"}
    /\ Generate(dst, <<>>)
    /\ UNCHANGED vars

PipelineNext ==
    \/ Next /\ UNCHANGED makerVars
    \/ GenerateDirectly \/ GenerateProcessed
    \/ step # "none" /\ M!Next /\ UNCHANGED vars

PipelineSpec == PipelineInit /\ [][PipelineNext]_<<vars, makerVars>>

-----------------------------------------------------------------------------
BenchFault(lines) ==
    \A i \in DOMAIN lines :
        \A ip \in {lines[i].start, lines[i].end} :
            M!Search(file, ip) \in {lines[i].region, EmptyRegion}

\* bench meets no difference and no error: it tries both ends of each line
Bench(lines) ==
    \A i \in DOMAIN lines :
        \A ip \in {lines[i].start, lines[i].end} :
            M!Search(file, ip) = lines[i].region

-----------------------------------------------------------------------------
(* What the options ask for, said without the code: the listed numbers in  *)
(* ascending order.                                                        *)

Listed == UNION {Numbers(flags.list[i]) : i \in DOMAIN flags.list}

Ascending(numbers) ==
    CHOOSE order \in [1..Cardinality(numbers) -> numbers] :
        \A i, j \in DOMAIN order : i < j => order[i] < order[j]

Wanted(region) ==
    LET c == Cleared(region, flags.clear)
        order == Ascending(Listed)
    IN  IF Listed = {} THEN c ELSE [i \in DOMAIN order |-> c[order[i] + 1]]

\* a number listed twice passes when it is written with leading zeros
ListedTwice ==
    \E i, j \in DOMAIN flags.list :
        i # j /\ Numbers(flags.list[i]) \cap Numbers(flags.list[j]) # {}

Elements(lines) == {lines[i] : i \in DOMAIN lines}

Overlap(lines) ==
    \E i, j \in DOMAIN lines :
        i # j /\ Covered(lines[i]) \cap Covered(lines[j]) # {}

LinesAt(lines, ip) == {l \in Elements(lines) : SegContains(l, ip)}

NewRegions == {Rewritten(l).region : l \in {x \in Elements(source) : Rewrites(x)}}
Rows == {Segment(s, e, r) : s \in IPs, e \in IPs, r \in NewRegions}

TypeOK ==
    /\ source \in Sources /\ flags \in Flags
    /\ stage \in {"flags", "load", "sort", "write", "done",
                  "failed", "refused", "stopped", "direct"}
    /\ segments \in Seq(Rows) /\ dst \in Seq(Rows)
    /\ step \in {"none", "header", "load", "data", "index", "ptrs",
                 "done", "failed", "stopped"}
    /\ input \in Seq(Line \cup Rows) /\ fields \in Seq(Nat)
    /\ loaded \in Seq(Rows) /\ pieces \in Seq(Rows)
    /\ vector \in [M!Blocks -> [s : Nat, e : Nat]]
    /\ file.data \subseteq NewRegions /\ file.index \in Seq(Rows)

\* A finished process of a source without overlaps gives every address the
\* region the options ask for, no matter how its lines were ordered and
\* which of them became equal and were merged; it covers no other address,
\* and its lines are in order.
OutputRewritten ==
    stage = "done" /\ ~Overlap(source) /\ ~ListedTwice =>
        /\ InOrder(dst)
        /\ \A ip \in IPs :
              {l.region : l \in LinesAt(dst, ip)} =
                 {Wanted(l.region) : l \in LinesAt(source, ip)}

\* Whatever process left behind, killed, failed or finished, and of any
\* source: no line of it says anything of an address that the source does
\* not say of it.  Nor does a database, whole or cut, that was made from it.
NothingForeign ==
    ~ListedTwice =>
        \A ip \in IPs :
            LET lines == {l \in LinesAt(source, ip) : Rewrites(l)}
                right == {Wanted(l.region) : l \in lines}
            IN  /\ {l.region : l \in LinesAt(dst, ip)} \subseteq right
                /\ M!Search(file, ip) \in right \cup {EmptyRegion, M!ReadError}

\* Both ways give the same database: what a finished gen wrote answers each
\* address of the source with the region the options ask for.
DatabaseOfSource ==
    step = "done" /\ stage # "stopped" /\ ~ListedTwice =>
        \A ip \in IPs : \A l \in LinesAt(source, ip) :
            M!Search(file, ip) = Wanted(l.region)

\* gen accepts what process wrote, and the source itself, exactly when there
\* is a line, each line has the fields, and no two overlap; only an output in
\* which a region came out blank cannot be read again, where gen with the
\* field list takes it.  A line that is given twice is an overlap for both
\* ways: process leaves it in its output (see NoLineTwice).
GenAccepts ==
    /\ step = "done" /\ stage # "stopped" =>
          /\ source # <<>> /\ ~Overlap(source)
          /\ \A i \in DOMAIN source : Rewrites(source[i])
          /\ stage = "done" => EmptyRegion \notin NewRegions
    /\ step = "failed" /\ stage # "stopped" =>
          \/ Overlap(source) \/ source = <<>>
          \/ stage = "done" /\ EmptyRegion \in NewRegions
          \/ stage = "direct" /\ \E i \in DOMAIN source : ~Rewrites(source[i])

\* "source data process, sort, de-duplicate, merge" (cmd/process.go:17): a
\* finished process leaves no line twice in its output.
NoLineTwice ==
    stage = "done" => \A i, j \in DOMAIN dst : i # j => dst[i] # dst[j]

\* bench, which tries the two ends of each line only, passes on the source
\* exactly when the options change no region of it.
BenchTells ==
    step = "done" /\ stage # "stopped" =>
        (Bench(source) <=>
            \A i \in DOMAIN source : Rewritten(source[i]) = source[i])
=============================================================================
