------------------------------- MODULE Maker -------------------------------
(***************************************************************************)
(* The xdb maker (maker/golang/xdb/maker.go): loads the source, merges,    *)
(* sorts and checks it, and writes the file in the order header, region    *)
(* data, segment index, vector index, index pointers.  It may stop between *)
(* any two writes; whatever it left can be opened and searched.            *)
(***************************************************************************)
EXTENDS XdbFile, RegionFields

CONSTANTS
    Sources,      \* the source files: sequences of lines
    FilterFields  \* the field lists given: ascending indices, <<>> for none

ASSUME SourcesAssumption == Sources \subseteq Seq(Line)

VARIABLES
    source,     \* the source file
    fields,     \* Maker.fields
    step,       \* which part of Init, Start and End comes next
    segments,   \* Maker.segments
    pieces,     \* the split segments whose index entry is still to write
    vector,     \* Maker.vectorIndex
    file        \* the destination file

vars == <<source, fields, step, segments, pieces, vector, file>>

Init ==
    /\ source \in Sources
    /\ fields \in FilterFields
    /\ step = "header"
    /\ segments = <<>>
    /\ pieces = <<>>
    /\ vector = ZeroVector
    /\ file = EmptyFile    \* NewMaker opens it with O_TRUNC

InitDbHeader ==
    /\ step = "header"
    /\ file' = [file EXCEPT !.header = TRUE]
    /\ step' = "load"
    /\ UNCHANGED <<source, fields, segments, pieces, vector>>

\* each line is filtered before it is merged with the one before it
Filtered ==
    [i \in DOMAIN source |->
        [source[i] EXCEPT !.region = RegionFiltering(@, fields)]]

Loaded == LoadOrder(MergeLines(Filtered))

\* loadSegments: the overlap check runs on the sorted list
LoadSegments ==
    /\ step = "load"
    /\ IF \A i \in DOMAIN source :
             Readable(source[i]) /\ HasFields(source[i].region, fields)
         THEN /\ segments' = Loaded
              /\ step' = IF Loaded # <<>> /\ InOrder(Loaded)
                           THEN "data" ELSE "failed"
         ELSE step' = "failed" /\ UNCHANGED segments
    /\ UNCHANGED <<source, fields, pieces, vector, file>>

SourceRegions == {segments[i].region : i \in DOMAIN segments}

\* Start 1: every region once (regionPool), then the pieces are computed
WriteRegion(r) ==
    /\ step = "data"
    /\ r \in SourceRegions \ file.data
    /\ file' = [file EXCEPT !.data = @ \cup {r}]
    /\ UNCHANGED <<source, fields, step, segments, pieces, vector>>

Pieces == FlattenSeq([i \in DOMAIN segments |-> Split(segments[i])])

DataDone ==
    /\ step = "data"
    /\ SourceRegions \subseteq file.data
    /\ pieces' = Pieces
    /\ step' = "index"
    /\ UNCHANGED <<source, fields, segments, vector, file>>

SetVectorIndexFault(v, ip, pos) ==
    [v EXCEPT ![Block(ip)] = [s |-> pos, e |-> pos + 1]]

SetVectorIndex(v, ip, pos) ==
    [v EXCEPT ![Block(ip)] =
        [s |-> IF @.s = 0 THEN pos ELSE @.s, e |-> pos + 1]]

\* Start 2: one entry, and its block's pointers in memory
WriteIndex ==
    /\ step = "index" /\ pieces # <<>>
    /\ file' = [file EXCEPT !.index = Append(@, Head(pieces))]
    /\ vector' = SetVectorIndex(vector, Head(pieces).start,
                                Len(file.index) + 1)
    /\ pieces' = Tail(pieces)
    /\ UNCHANGED <<source, fields, step, segments>>

WriteVector ==
    /\ step = "index" /\ pieces = <<>>
    /\ file' = [file EXCEPT !.vector = vector]
    /\ step' = "ptrs"
    /\ UNCHANGED <<source, fields, segments, pieces, vector>>

\* the last write of Start: positions 0 stand for the code's initial -1
WritePtrs ==
    /\ step = "ptrs"
    /\ file' = [file EXCEPT
                  !.ptrs = [s |-> IF file.index = <<>> THEN 0 ELSE 1,
                            e |-> Len(file.index)]]
    /\ step' = "done"
    /\ UNCHANGED <<source, fields, segments, pieces, vector>>

\* a write error or a kill, after any number of writes
Stop ==
    /\ step \notin {"done", "failed", "stopped"}
    /\ step' = "stopped"
    /\ UNCHANGED <<source, fields, segments, pieces, vector, file>>

Next ==
    \/ InitDbHeader
    \/ LoadSegments
    \/ \E r \in SourceRegions : WriteRegion(r)
    \/ DataDone
    \/ WriteIndex \/ WriteVector \/ WritePtrs
    \/ Stop

Spec == Init /\ [][Next]_vars

-----------------------------------------------------------------------------
NewRegions ==
    {RegionFiltering(source[i].region, fields) : i \in DOMAIN source}
Indexed == {Segment(s, e, r) : s \in IPs, e \in IPs, r \in NewRegions}

TypeOK ==
    /\ source \in Sources
    /\ step \in {"header", "load", "data", "index", "ptrs",
                 "done", "failed", "stopped"}
    /\ fields \in FilterFields
    /\ segments \in Seq(Indexed) /\ pieces \in Seq(Indexed)
    /\ vector \in [Blocks -> [s : Nat, e : Nat]]
    /\ file \in [header : BOOLEAN, vector : [Blocks -> [s : Nat, e : Nat]],
                 data : SUBSET NewRegions, index : Seq(Indexed),
                 ptrs : [s : Nat, e : Nat]]

\* the region the source gives an address, if it gives one
SourceRegion(ip) ==
    LET i == SelectInSeq(source, LAMBDA l : SegContains(l, ip))
    IN  IF i = 0 THEN EmptyRegion ELSE RegionFiltering(source[i].region, fields)

\* In a finished file every address of the source, in whatever order its
\* lines came, is found with its region: merge, sort, split, vector index
\* and binary search compose.
SearchFinds ==
    step = "done" =>
        \A ip \in IPs : SourceRegion(ip) # EmptyRegion
                           => Search(file, ip) = SourceRegion(ip)

\* Whatever the maker left behind, finished or not, a search never answers
\* a region the source does not give the address: it finds the region, or
\* nothing, or fails to read.
NeverWrongRegion ==
    \A ip \in IPs :
        Search(file, ip) \in {SourceRegion(ip), EmptyRegion, ReadError}

\* The entries of the file are in address order and do not overlap, in
\* whatever order the lines came; each lies in one block; and the pointers of
\* a block delimit exactly its entries.
VectorDelimitsBlocks ==
    step = "done" =>
        /\ \A p, q \in DOMAIN file.index :
              p < q => file.index[p].end < file.index[q].start
        /\ \A b \in Blocks :
              LET inBlock == {p \in DOMAIN file.index :
                                  Block(file.index[p].start) = b}
                  v == file.vector[b]
              IN  /\ inBlock = {p \in DOMAIN file.index :
                                    v.s <= p /\ p < v.e}
                  /\ \A p \in inBlock : Block(file.index[p].end) = b

\* A search of a finished file answers what the source says: the region of
\* the line that holds the address, out-of-order lines being sorted later
\* (maker.go:200), or, "if the specified IP cannot be found", the empty
\* string (README.md:66 of the Go binding) and not an error.
AnswersAsSource ==
    step = "done" => \A ip \in IPs : Search(file, ip) = SourceRegion(ip)
=============================================================================
