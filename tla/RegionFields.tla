---------------------------- MODULE RegionFields ----------------------------
(***************************************************************************)
(* Region texts as sequences of fields, the text between the bars          *)
(* (maker/golang/xdb/util.go, cmd/util.go): the --field-list option and    *)
(* the filter it drives, which the maker and the processor apply to every  *)
(* line before lines are merged.                                           *)
(***************************************************************************)
EXTENDS Segments

CONSTANT Blank   \* a field without text

\* a single blank field is the empty text
ASSUME BlankAssumption == EmptyRegion = <<Blank>>

ReadableFault(line) == line.start <= line.end

\* what a program wrote and ParseSegment accepts: a line that ends behind the
\* bar of its region has too few tokens
Readable(line) == line.start <= line.end /\ line.region # EmptyRegion

-----------------------------------------------------------------------------
(* One item of --field-list: a number with its leading zeros, or a range.  *)

Single(zeros, n) == [range |-> FALSE, from |-> n, to |-> n, zeros |-> zeros]
FieldRange(m, n) == [range |-> TRUE, from |-> m, to |-> n, zeros |-> 0]

\* pattern allows digits only
FieldItem == [range : BOOLEAN, from : Nat, to : Nat, zeros : Nat]

Numbers(item) == item.from..item.to

\* the keys of the duplicate test: the text of a number, which keeps its
\* zeros, and the plain text of each number of a range
Keys(item) ==
    IF item.range THEN {<<0, n>> : n \in Numbers(item)}
    ELSE {<<item.zeros, item.from>>}

\* GetFilterFields gives no error
ListAccepted(list) ==
    /\ \A i \in DOMAIN list : list[i].from <= list[i].to
    /\ \A i, j \in DOMAIN list :
          i # j => Keys(list[i]) \cap Keys(list[j]) = {}

\* the numbers of an item, the smallest first
Counted(item) ==
    [k \in 1..(item.to - item.from + 1) |-> item.from + k - 1]

\* the field numbers in the order they are listed
FieldsOf(list) == FlattenSeq([i \in DOMAIN list |-> Counted(list[i])])

GetFilterFieldsFault(list) == FieldsOf(list)

\* ... and sorted
GetFilterFields(list) ==
    LET fields == FieldsOf(list)
    IN  CHOOSE t \in {[i \in DOMAIN fields |-> fields[f[i]]] :
                         f \in Bijection(DOMAIN fields, DOMAIN fields)} :
            \A i, j \in DOMAIN t : i < j => t[i] <= t[j]

-----------------------------------------------------------------------------
\* RegionFiltering gives no error
HasFields(region, fields) == \A i \in DOMAIN fields : fields[i] < Len(region)

RegionFiltering(region, fields) ==
    IF fields = <<>> THEN region
    ELSE [i \in DOMAIN fields |-> region[fields[i] + 1]]
=============================================================================
