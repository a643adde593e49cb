----------------------------- MODULE Processor -----------------------------
(***************************************************************************)
(* The process command (maker/golang/cmd/process.go, xdb/processor.go):    *)
(* rewrites the regions of a source, merges and sorts the lines, and       *)
(* writes them as a new source.  It may end between any two writes.        *)
(***************************************************************************)
EXTENDS RegionFields

CONSTANTS
    Sources,   \* the files given with --src
    Flags      \* --field-list and the three --clear options

ASSUME SourcesAssumption == Sources \subseteq Seq(SourceLines)

\* field numbers are not negative; an index below 0 stands for no index
ASSUME FlagsAssumption ==
    \A f \in Flags : f.list \in Seq(FieldItem) /\ f.clear.index \in Int

VARIABLES
    source,    \* the file srcReader reads
    flags,     \* [list, clear]
    stage,     \* which part of the command comes next
    segments,  \* Processor.segments
    dst        \* the file dstWriter writes, another one than the source

vars == <<source, flags, stage, segments, dst>>

\* --clear-based-index, --clear-value-equal and --clear-value-except
Clear(index, equal, except) ==
    [index |-> index, equal |-> equal, except |-> except]

NoClear == Clear(-1, Blank, Blank)

\* exactly one of the two values, when there is an index
ClearAccepted(clear) ==
    clear.index > -1 => (clear.equal = Blank) # (clear.except = Blank)

-----------------------------------------------------------------------------
(* The filter of loadSegments: clear the region, then keep the fields.     *)

CanClear(region, clear) == clear.index > -1 => clear.index < Len(region)

Clears(region, clear) ==
    /\ clear.index > -1
    /\ \/ clear.equal # Blank /\ region[clear.index + 1] = clear.equal
       \/ clear.equal = Blank /\ region[clear.index + 1] # clear.except

Cleared(region, clear) ==
    IF Clears(region, clear) THEN [i \in DOMAIN region |-> Blank] ELSE region

Rewrites(line) ==
    /\ CanClear(line.region, flags.clear)
    /\ HasFields(line.region, GetFilterFields(flags.list))

\* lines are merged by their new regions
Rewritten(line) ==
    [line EXCEPT !.region =
        RegionFiltering(Cleared(@, flags.clear), GetFilterFields(flags.list))]

-----------------------------------------------------------------------------
Init ==
    /\ source \in Sources
    /\ flags \in Flags
    /\ stage = "flags"
    /\ segments = <<>>
    /\ dst = <<>>

\* the options are checked before any file is opened
Process ==
    /\ stage = "flags"
    /\ stage' = IF ClearAccepted(flags.clear) /\ ListAccepted(flags.list)
                  THEN "load" ELSE "refused"
    /\ UNCHANGED <<source, flags, segments, dst>>

\* NewProcessor empties dst, Init loads
LoadSegments ==
    /\ stage = "load"
    /\ IF \A i \in DOMAIN source : Rewrites(source[i])
         THEN /\ segments' = MergeLines([i \in DOMAIN source |-> Rewritten(source[i])])
              /\ stage' = "sort"
         ELSE stage' = "failed" /\ UNCHANGED segments
    /\ UNCHANGED <<source, flags, dst>>

\* Start: sorts whatever the order was
Sort ==
    /\ stage = "sort"
    /\ segments' \in SortedOrders(segments)
    /\ stage' = "write"
    /\ UNCHANGED <<source, flags, dst>>

\* one Fprintln
WriteLine ==
    /\ stage = "write"
    /\ Len(dst) < Len(segments)
    /\ dst' = Append(dst, segments[Len(dst) + 1])
    /\ UNCHANGED <<source, flags, stage, segments>>

End ==
    /\ stage = "write"
    /\ Len(dst) = Len(segments)
    /\ stage' = "done"
    /\ segments' = <<>>
    /\ UNCHANGED <<source, flags, dst>>

\* A write error or a kill.  A line is taken as written whole or not at all;
\* a cut inside a line is modelled for the editor (Torn of Editor).
Stop ==
    /\ stage \in {"load", "sort", "write"}
    /\ stage' = "stopped"
    /\ segments' = <<>>
    /\ UNCHANGED <<source, flags, dst>>

Next == Process \/ LoadSegments \/ Sort \/ WriteLine \/ End \/ Stop

Spec == Init /\ [][Next]_vars

=============================================================================
