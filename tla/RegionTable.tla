---------------------------- MODULE RegionTable ----------------------------
(***************************************************************************)
(* What the source editor promises: a table from addresses to regions that *)
(* is read from a store, changed range by range, and written back in       *)
(* address order.  Segments, padding and merging do not appear here.       *)
(***************************************************************************)
EXTENDS Integers

CONSTANTS MaxIP, Regions, EmptyRegion

VARIABLES table,    \* the region of each address, in the editor
          stored,   \* the region of each address, in the source file
          session   \* an editor is running

tableVars == <<table, stored, session>>

Blank == [ip \in 0..MaxIP |-> EmptyRegion]

Init ==
    /\ stored \in [0..MaxIP -> Regions \cup {EmptyRegion}]
    /\ table = Blank
    /\ session = FALSE

Open ==
    /\ ~session
    /\ session' = TRUE
    /\ table' = stored
    /\ UNCHANGED stored

\* one range after the other; the later one wins
Override(t, lo, hi, r) == [ip \in 0..MaxIP |-> IF ip \in lo..hi THEN r ELSE t[ip]]

Put(lo, hi, r) ==
    /\ session
    /\ table' = Override(table, lo, hi, r)
    /\ UNCHANGED <<stored, session>>

\* the store holds the table up to some address and nothing after it
Write(k) ==
    /\ session
    /\ stored' = [ip \in 0..MaxIP |-> IF ip < k THEN table[ip] ELSE EmptyRegion]
    /\ UNCHANGED <<table, session>>

\* what a write that breaks off may do: behind all that is stored, one range
\* gets a region that is not the table's
Tear ==
    \E lo, hi \in 0..MaxIP, r \in Regions :
        /\ \A ip \in lo..MaxIP : stored[ip] = EmptyRegion
        /\ stored' = Override(stored, lo, hi, r)

Fail ==
    /\ session
    /\ Tear
    /\ UNCHANGED <<table, session>>

Exit ==
    /\ session
    /\ session' = FALSE
    /\ table' = Blank
    /\ UNCHANGED stored \/ Tear

Next ==
    \/ Open
    \/ \E lo, hi \in 0..MaxIP, r \in Regions : Put(lo, hi, r)
    \/ \E k \in 0..(MaxIP + 1) : Write(k)
    \/ Fail
    \/ Exit

Spec == Init /\ [][Next]_tableVars
=============================================================================
