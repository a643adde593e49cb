------------------------------- MODULE Editor -------------------------------
(***************************************************************************)
(* The source editor (maker/golang/xdb/editor.go, driven by cmd/edit.go):  *)
(* the source file is loaded into a list of segments that covers the whole *)
(* address space, segments are put over it, and the list is written back   *)
(* to the same file.                                                       *)
(*                                                                         *)
(* Only the loader checks the version of a line.  put and put_file take    *)
(* lines of the other version too: their addresses are the numbers behind  *)
(* MaxIP, and lie between addresses of the version, for the bytes of       *)
(* addresses of both lengths are compared from the first on.               *)
(***************************************************************************)
EXTENDS Segments

CONSTANTS
    OtherMax,     \* the last address of the other version
    Rank,         \* how many addresses of the version are below one of those
    OtherLines,   \* the lines of the other version that may be put
    Sources,      \* the source files an editor may find: sequences of lines
    PutFiles,     \* the files given to put_file; a line may be BadLine
    BadLine       \* a line ParseSegment rejects

OtherIPs == (MaxIP + 1)..OtherMax
AnyIP == IPs \cup OtherIPs
AnyLine == [start : AnyIP, end : AnyIP, region : Regions]

ASSUME OtherAssumption ==
    /\ OtherMax \in Nat /\ OtherMax > MaxIP
    /\ Rank \in [OtherIPs -> 0..(MaxIP + 1)]
    /\ OtherLines \subseteq
          [start : OtherIPs, end : OtherIPs, region : Regions]
    /\ \A l \in OtherLines : l.start <= l.end

ASSUME BadLineAssumption == BadLine \notin AnyLine

ASSUME SourcesAssumption == Sources \subseteq Seq(SourceLines)

\* at most one line of a put file is of the other version
ASSUME PutFilesAssumption ==
    /\ PutFiles \subseteq Seq(SourceLines \cup OtherLines \cup {BadLine})
    /\ \A lines \in PutFiles : \A i, j \in DOMAIN lines :
          lines[i] \in OtherLines /\ lines[j] \in OtherLines => i = j

VARIABLES
    file,     \* the lines of the source file
    mode,     \* closed, open, or inside SaveToFile
    segs,     \* Editor.segments
    toSave,   \* Editor.toSave
    unput,    \* segments of a put_file still to put
    unsaved,  \* segments SaveToFile has still to write
    astray,   \* history: since the editor was opened, a put found no segment
              \* to go into, or was of the other version
    spoilt    \* history: the file was last saved from a list gone astray

vars == <<file, mode, segs, toSave, unput, unsaved, astray, spoilt>>

-----------------------------------------------------------------------------
(* Addresses of both lengths.                                              *)

\* IPCompare(a, b) < 0
IPLess(a, b) ==
    \/ (a \in IPs <=> b \in IPs) /\ a < b
    \/ a \in IPs /\ b \in OtherIPs /\ a < Rank[b]
    \/ a \in OtherIPs /\ b \in IPs /\ Rank[a] <= b

Holds(seg, ip) == ~IPLess(ip, seg.start) /\ ~IPLess(seg.end, ip)

\* the neighbours keep the length, and wrap in it
AddOne(ip) ==
    IF ip \in IPs THEN IPAddOne(ip)
    ELSE IF ip = OtherMax THEN MaxIP + 1 ELSE ip + 1

SubOne(ip) ==
    IF ip \in IPs THEN IPSubOne(ip)
    ELSE IF ip = MaxIP + 1 THEN OtherMax ELSE ip - 1

-----------------------------------------------------------------------------
(* loadSegments *)

\* ParseSegment on what SaveToFile or a user wrote: an empty region leaves
\* two tokens, which are taken for a CIDR and refused
Parses(line) ==
    /\ line # BadLine
    /\ line.start \in IPs <=> line.end \in IPs
    /\ line.start <= line.end
    /\ line.region # EmptyRegion

NoOverlap(list) ==
    \A i \in 1..(Len(list) - 1) :
        RightBehind(list[i + 1], list[i]) \/ After(list[i + 1], list[i])

Gap(sip, eip) == Segment(sip, eip, EmptyRegion)

\* what is pushed before list[i]; last is the segment before it
PadBefore(list, i) ==
    IF i = 1
      THEN IF list[i].start > 0
             THEN <<Gap(0, IPSubOne(list[i].start))>>
             ELSE <<>>
      ELSE IF RightBehind(list[i], list[i - 1])
             THEN <<>>
             ELSE <<Gap(IPAddOne(list[i - 1].end), IPSubOne(list[i].start))>>

PadTail(list) ==
    IF list # <<>> /\ MaxIP > Last(list).end
      THEN Append(list, Gap(IPAddOne(Last(list).end), MaxIP))
      ELSE list

PadAll(list) ==
    PadTail(FlattenSeq([i \in DOMAIN list |->
                           Append(PadBefore(list, i), list[i])]))

Loaded(lines) == LoadOrder(MergeLines(lines))

\* a line of the other version is refused
Loads(lines) ==
    /\ \A i \in DOMAIN lines : Parses(lines[i]) /\ lines[i].start \in IPs
    /\ NoOverlap(Loaded(lines))

-----------------------------------------------------------------------------
(* PutSegment: the elements from the one that holds seg.StartIP to the one *)
(* that holds seg.EndIP are replaced by what is left of the first, the new *)
(* segment, and what is left of the last.                                  *)

FirstHit(list, seg) ==
    SelectInSeq(list, LAMBDA s : Holds(s, seg.start))

\* the scan stops at the first element, from the hit on, that reaches EndIP
LastHit(list, seg) ==
    LET reach == {i \in FirstHit(list, seg)..Len(list) :
                     ~IPLess(list[i].end, seg.end)}
    IN  IF reach = {} THEN Len(list)
        ELSE CHOOSE i \in reach : \A j \in reach : i <= j

HeadPart(head, seg) ==
    IF IPLess(head.start, seg.start)
      THEN <<Segment(head.start, SubOne(seg.start), head.region)>>
      ELSE <<>>

TailPartFault(tail, seg) == <<>>

TailPart(tail, seg) ==
    IF IPLess(seg.end, tail.end)
      THEN <<Segment(AddOne(seg.end), tail.end, tail.region)>>
      ELSE <<>>

PutSegment(list, seg) ==
    LET i == FirstHit(list, seg)
        j == LastHit(list, seg)
    IN  IF i = 0
          THEN Append(list, seg)
          ELSE SubSeq(list, 1, i - 1)
                 \o HeadPart(list[i], seg) \o <<seg>> \o TailPart(list[j], seg)
                 \o SubSeq(list, j + 1, Len(list))

\* the early return of PutSegment leaves the flag alone
PutChangesFlag(list, seg) == FirstHit(list, seg) # 0

\* a line of the other version is merged with no other
MergeFile(lines) ==
    LET k == SelectInSeq(lines, LAMBDA l : l \in OtherLines)
    IN  IF k = 0 THEN MergeLines(lines)
        ELSE MergeLines(SubSeq(lines, 1, k - 1)) \o <<lines[k]>>
                \o MergeLines(SubSeq(lines, k + 1, Len(lines)))

\* the pending segment is dropped at the end of the file too
BatchOfFault(lines) ==
    LET good == MergeFile(SelectSeq(lines, LAMBDA l : l # BadLine))
    IN  IF good = <<>> THEN <<>> ELSE Front(good)

\* what the callback of PutFile receives: the segments completed before the
\* first bad line; the one still pending when it is met is lost
BatchOf(lines) ==
    LET bad == SelectInSeq(lines, LAMBDA l : l = BadLine)
    IN  IF bad = 0 THEN MergeFile(lines)
        ELSE LET good == MergeFile(SubSeq(lines, 1, bad - 1))
             IN  IF good = <<>> THEN <<>> ELSE Front(good)

-----------------------------------------------------------------------------
Init ==
    /\ file \in Sources
    /\ mode = "closed"
    /\ segs = <<>>
    /\ toSave = FALSE
    /\ unput = <<>>
    /\ unsaved = <<>>
    /\ astray = FALSE /\ spoilt = FALSE

\* NewEditor; a file that does not load leaves the user without an editor
Open ==
    /\ mode = "closed"
    /\ Loads(file)
    /\ mode' = "open"
    /\ segs' = PadAll(Loaded(file))
    /\ toSave' = ~InOrder(MergeLines(file))
    /\ astray' = spoilt
    /\ UNCHANGED <<file, unput, unsaved, spoilt>>

Strays(list, seg) == seg.start \notin IPs \/ ~PutChangesFlag(list, seg)

PutFlagFault(seg) ==
    /\ segs' = PutSegment(segs, seg)
    /\ astray' = (astray \/ Strays(segs, seg))
    /\ UNCHANGED toSave

PutInto(seg) ==
    /\ segs' = PutSegment(segs, seg)
    /\ toSave' = (toSave \/ PutChangesFlag(segs, seg))
    /\ astray' = (astray \/ Strays(segs, seg))

Put(seg) ==
    /\ mode = "open" /\ unput = <<>>
    /\ PutInto(seg)
    /\ UNCHANGED <<file, mode, unput, unsaved, spoilt>>

\* PutFile: one PutSegment per completed segment, in file order
PutFile(lines) ==
    /\ mode = "open" /\ unput = <<>>
    /\ BatchOf(lines) # <<>>
    /\ unput' = BatchOf(lines)
    /\ UNCHANGED <<file, mode, segs, toSave, unsaved, astray, spoilt>>

PutFileNext ==
    /\ mode = "open" /\ unput # <<>>
    /\ PutInto(Head(unput))
    /\ unput' = Tail(unput)
    /\ UNCHANGED <<file, mode, unsaved, spoilt>>

SaveLinesFault(list) == list

\* padded and empty segments are not written
SaveLines(list) ==
    FlattenSeq([i \in DOMAIN list |->
                   IF list[i].region = EmptyRegion THEN <<>> ELSE <<list[i]>>])

\* appends to the file instead of truncating it
SaveBeginFault ==
    /\ mode = "open" /\ unput = <<>>
    /\ toSave
    /\ mode' = "saving"
    /\ unsaved' = SaveLines(segs)
    /\ spoilt' = astray
    /\ UNCHANGED <<file, segs, toSave, unput, astray>>

\* SaveToFile opens the source with O_TRUNC, then writes line by line
SaveBegin ==
    /\ mode = "open" /\ unput = <<>>
    /\ toSave
    /\ mode' = "saving"
    /\ file' = <<>>
    /\ unsaved' = SaveLines(segs)
    /\ spoilt' = astray
    /\ UNCHANGED <<segs, toSave, unput, astray>>

SaveLine ==
    /\ mode = "saving" /\ unsaved # <<>>
    /\ file' = Append(file, Head(unsaved))
    /\ unsaved' = Tail(unsaved)
    /\ UNCHANGED <<mode, segs, toSave, unput, astray, spoilt>>

SaveDone ==
    /\ mode = "saving" /\ unsaved = <<>>
    /\ mode' = "open"
    /\ toSave' = FALSE
    /\ UNCHANGED <<file, segs, unput, unsaved, astray, spoilt>>

\* What a write that breaks off leaves of a line: nothing, text that does not
\* parse, or less than the line with a region nobody gave.  Text that breaks
\* off in the end address parses: StringTokenizer returns its last token
\* twice, and the end address, or what there is of it, becomes the region.
Torn(line) ==
    {<<>>, <<BadLine>>} \cup
    {<<Segment(line.start, e, r)>> :
        e \in {x \in AnyIP : /\ x \in IPs <=> line.end \in IPs
                             /\ line.start <= x /\ x <= line.end},
        r \in Regions}

\* a write returns an error: SaveToFile returns with the flag still up
SaveFails ==
    /\ mode = "saving" /\ unsaved # <<>>
    /\ mode' = "open"
    /\ \E part \in Torn(Head(unsaved)) : file' = file \o part
    /\ unsaved' = <<>>
    /\ UNCHANGED <<segs, toSave, unput, astray, spoilt>>

Leave ==
    /\ mode' = "closed"
    /\ segs' = <<>>
    /\ toSave' = FALSE
    /\ unput' = <<>>
    /\ unsaved' = <<>>
    /\ astray' = FALSE
    /\ UNCHANGED spoilt

\* quit, which the command loop refuses while NeedSave
Quit ==
    /\ mode = "open" /\ unput = <<>>
    /\ ~toSave
    /\ Leave /\ UNCHANGED file

\* quit!, or the end of the input
ForceQuit ==
    /\ mode = "open" /\ unput = <<>>
    /\ toSave
    /\ Leave /\ UNCHANGED file

\* the process is killed, in the middle of a line if it is writing one
Kill ==
    /\ mode \in {"open", "saving"}
    /\ \/ UNCHANGED file
       \/ /\ mode = "saving" /\ unsaved # <<>>
          /\ \E part \in Torn(Head(unsaved)) : file' = file \o part
    /\ Leave

Next ==
    \/ Open
    \/ \E seg \in SourceLines \cup OtherLines : Put(seg)
    \/ \E lines \in PutFiles : PutFile(lines)
    \/ PutFileNext
    \/ SaveBegin \/ SaveLine \/ SaveDone \/ SaveFails
    \/ Quit \/ ForceQuit \/ Kill

Spec == Init /\ [][Next]_vars

-----------------------------------------------------------------------------
TypeOK ==
    /\ file \in Seq(AnyLine \cup {BadLine})
    /\ mode \in {"closed", "open", "saving"}
    /\ segs \in Seq([start : AnyIP, end : AnyIP,
                    region : Regions \cup {EmptyRegion}])
    /\ toSave \in BOOLEAN /\ astray \in BOOLEAN /\ spoilt \in BOOLEAN
    /\ unput \in Seq(SourceLines \cup OtherLines)
    /\ unsaved \in Seq(AnyLine)

RegionAt(list, ip) ==
    LET i == SelectInSeq(list, LAMBDA s : SegContains(s, ip))
    IN  IF i = 0 THEN EmptyRegion ELSE list[i].region

TableOf(list) == [ip \in IPs |-> RegionAt(list, ip)]

\* a last line that cannot be read is left out
Whole(lines) ==
    IF lines # <<>> /\ Last(lines) = BadLine THEN Front(lines) ELSE lines

\* "Keep the entire data continuous" (editor.go:113): through any sequence
\* of puts of the version, the list stays sorted, without gap or overlap,
\* over all addresses.
Continuous ==
    segs # <<>> /\ ~astray =>
        /\ segs[1].start = 0 /\ Last(segs).end = MaxIP
        /\ \A i \in DOMAIN segs : segs[i].start <= segs[i].end
        /\ \A i \in 1..(Len(segs) - 1) : segs[i + 1].start = segs[i].end + 1

\* "there are changes that need to save, type 'quit!' to force quit"
\* (cmd/edit.go:111): the quit command, which only asks when NeedSave, never
\* drops a change.
QuitDropsNothing ==
    mode = "open" /\ ~toSave => TableOf(file) = TableOf(segs)

\* The same, as long as each put was of the version and found a segment.
NoSilentLoss == ~astray => QuitDropsNothing

\* The editor can open what a session left behind, a save that was cut short
\* included, once a last line that cannot be read is taken out.
LeftFileLoads == mode = "closed" /\ ~spoilt => Loads(Whole(file))

\* A save that has not finished has lost the lines it has still to write,
\* but what is in the file is right.
SavedSoFar ==
    mode = "saving" /\ ~astray =>
        \A ip \in IPs :
            RegionAt(file, ip) \in {RegionAt(segs, ip), EmptyRegion}

\* Wherever a save is cut, in the middle of a line too, by a write error or a
\* kill: the source can be loaded again, if need be without its last line,
\* and the lines before that give no address another region.  (What may be
\* wrong with the last line is said by Tear of RegionTable.)
CutSaveUsable == LeftFileLoads /\ SavedSoFar

\* Load, put, put_file and save act as on a plain table from addresses to
\* regions: a put changes its range and nothing else, the later put wins,
\* and loading what was saved gives the table back.
Table == INSTANCE RegionTable
             WITH table <- TableOf(segs),
                  stored <- TableOf(Whole(file)),
                  session <- (mode # "closed")

\* Of a list gone astray, and of what is saved from it, nothing is said.
ImplementsTable ==
    /\ Table!Init
    /\ [][Table!Next \/ UNCHANGED Table!tableVars \/ astray' \/ spoilt']_vars

\* each address has the region of the last line that holds it
Overlaid(t, lines) ==
    [ip \in IPs |->
        LET hits == {i \in DOMAIN lines : SegContains(lines[i], ip)}
        IN  IF hits = {} THEN t[ip] ELSE lines[Max(hits)].region]

\* put_file amounts to a put of each of its lines, in order, although the
\* lines are merged first and may be unordered or overlap (README.md:117).
FileApplied ==
    [][\A lines \in PutFiles :
          /\ PutFile(lines)
          /\ segs # <<>> /\ ~astray
          /\ \A i \in DOMAIN lines : lines[i] \in SourceLines
          => TableOf(FoldLeft(PutSegment, segs, BatchOf(lines)))
                = Overlaid(TableOf(segs), lines)]_vars
=============================================================================
