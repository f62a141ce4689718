--------------------------- MODULE TableFollower ---------------------------
(***************************************************************************)
(* What a poller promises to the readers of its table: nothing is written  *)
(* that the source did not hold at some time, and a row is removed only if *)
(* the source had no record for it at some time, or a fault made it look   *)
(* so.  What was read may be written late, more than once, out of order,   *)
(* in part or never.                                                       *)
(***************************************************************************)
EXTENDS Integers

CONSTANTS
    Keys, Details, None,
    Obsolete,       \* rows of an older form, which are removed wherever found
    Unambiguous,    \* whether a key is written only if it has a single record
    Unreadable      \* details that make the whole source seem empty

VARIABLES
    source,     \* key -> the details of its records
    rows,       \* key -> the details of its row, or None
    offers,     \* the writes of what was read that may still happen
    faults      \* the failures so far

vars == <<source, rows, offers, faults>>

\* The writes that reading these records gives rise to.
Writes(records) ==
    {<<k, None>> : k \in {j \in Keys : records[j] = {}}}
        \cup {item \in Keys \X Details :
                 /\ item[2] \in records[item[1]]
                 /\ Unambiguous => records[item[1]] = {item[2]}}

Init ==
    /\ source \in [Keys -> SUBSET Details]
    /\ rows \in [Keys -> Obsolete \cup {None}]
    /\ offers = {}
    /\ faults = 0

SourceChanges ==
    /\ source' \in [Keys -> SUBSET Details]
    /\ UNCHANGED <<rows, offers, faults>>

\* Offers may be withdrawn at any time, by a fault or without one.
Read ==
    /\ offers' \subseteq offers \cup Writes(source)
                           \cup {<<k, None>> : k \in {j \in Keys : rows[j] \in Obsolete}}
    /\ faults' >= faults
    /\ UNCHANGED <<source, rows>>

\* The source seems empty.
Misread ==
    /\ faults' > faults \/ \E k \in Keys : source[k] \cap Unreadable # {}
    /\ offers' \subseteq offers \cup (Keys \X {None})
    /\ UNCHANGED <<source, rows>>

Write ==
    /\ \E item \in offers : rows' = [rows EXCEPT ![item[1]] = item[2]]
    /\ offers' \subseteq offers
    /\ UNCHANGED <<source, faults>>

Next == SourceChanges \/ Read \/ Misread \/ Write

Spec == Init /\ [][Next]_vars

=============================================================================
