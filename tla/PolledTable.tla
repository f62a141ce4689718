---------------------------- MODULE PolledTable ----------------------------
(***************************************************************************)
(* What the users, test centre and delegated bookings pollers share: an    *)
(* invocation reads the active records from the TARS replica, scans the    *)
(* whole DynamoDB table (fullScan), works out which keys to delete and     *)
(* which items to put, and sends one request per item, all at once,        *)
(* behind a Promise.all.                                                   *)
(*                                                                         *)
(* Promise.all settles as soon as one request fails.  The handler then     *)
(* answers with a 500 while the other requests are still under way: they   *)
(* were sent, or are being retried by the SDK when the frozen container    *)
(* runs again.  Such a stray request takes effect later, in the middle of  *)
(* another invocation if need be, or never.                                *)
(***************************************************************************)
EXTENDS Integers, FiniteSets

CONSTANTS
    Keys,       \* the keys of the table: staff numbers, application references
    Details,    \* what the attributes of a record can be
    None,       \* no row; as the detail of a request, a delete
    Pollers,    \* Lambda containers that may run an invocation
    MaxChanges, \* bound on the changes of the source
    MaxFaults   \* bound on the failures

ASSUME PolledTableAssumption ==
    /\ None \notin Details
    /\ MaxChanges \in Nat /\ MaxFaults \in Nat

VARIABLES
    source,     \* key -> the details of the records the query returns for it
    rows,       \* key -> the details of the row, or None
    pc,         \* where the invocation is, "idle" between invocations
    active,     \* the query result of this invocation
    unscanned,  \* keys the table scan has not reached
    cached,     \* the rows the scan has returned so far
    requests,   \* the requests awaited by Promise.all: pairs of key and detail
    strays,     \* requests nobody awaits any more
    left,       \* history: keys without a record at some time of this invocation
    clean,      \* history: invocations beside which nothing else happened
    changes, faults

invocation == <<pc, active, unscanned, cached, requests>>
history == <<left, clean>>
vars == <<source, rows, invocation, strays, history, changes, faults>>

Nothing == [k \in Keys |-> {}]
NoRows == [k \in Keys |-> None]
Absent == {k \in Keys : source[k] = {}}
Fault == faults < MaxFaults /\ faults' = faults + 1

\* Every variable but rows, whose initial contents depend on the table.
PollersInit ==
    /\ source \in [Keys -> SUBSET Details]
    /\ pc = [p \in Pollers |-> "idle"]
    /\ active = [p \in Pollers |-> Nothing]
    /\ unscanned = [p \in Pollers |-> {}]
    /\ cached = [p \in Pollers |-> NoRows]
    /\ requests = [p \in Pollers |-> {}]
    /\ strays = {}
    /\ left = [p \in Pollers |-> {}]
    /\ clean = {}
    /\ changes = 0 /\ faults = 0

SourceChange(k) ==
    /\ changes < MaxChanges
    /\ changes' = changes + 1
    /\ \E details \in SUBSET Details : source' = [source EXCEPT ![k] = details]
    /\ left' = [p \in Pollers |-> IF pc[p] = "idle" THEN {}
                                  ELSE left[p] \cup {j \in Keys : source'[j] = {}}]
    /\ UNCHANGED <<rows, invocation, strays, clean, faults>>

Start(p) ==
    /\ pc[p] = "idle"
    /\ pc' = [pc EXCEPT ![p] = "query"]
    /\ left' = [left EXCEPT ![p] = Absent]
    /\ clean' = IF strays = {} /\ \A q \in Pollers : pc[q] = "idle" THEN {p} ELSE {}
    /\ UNCHANGED <<source, rows, active, unscanned, cached, requests, strays,
                   changes, faults>>

End(p) ==
    /\ pc' = [pc EXCEPT ![p] = "idle"]
    /\ active' = [active EXCEPT ![p] = Nothing]
    /\ unscanned' = [unscanned EXCEPT ![p] = {}]
    /\ cached' = [cached EXCEPT ![p] = NoRows]
    /\ requests' = [requests EXCEPT ![p] = {}]
    /\ left' = [left EXCEPT ![p] = {}]
    /\ clean' = clean \ {p}

\* The query's result becomes the active records, and the scan begins.
Queried(p, result) ==
    /\ pc[p] = "query"
    /\ active' = [active EXCEPT ![p] = result]
    /\ pc' = [pc EXCEPT ![p] = "scan"]
    /\ unscanned' = [unscanned EXCEPT ![p] = Keys]
    /\ UNCHANGED <<source, rows, cached, requests, strays, history, changes>>

Query(p) == Queried(p, source) /\ UNCHANGED faults

\* The error is logged, and the poller goes on with an empty list of records.
QueryReturnsNothing(p) == Queried(p, Nothing) /\ Fault

ScanPage(p) ==
    /\ pc[p] = "scan"
    /\ \E page \in SUBSET unscanned[p] \ {{}} :
         /\ cached' = [cached EXCEPT ![p] =
                [k \in Keys |-> IF k \in page THEN rows[k] ELSE cached[p][k]]]
         /\ unscanned' = [unscanned EXCEPT ![p] = @ \ page]
         /\ pc' = IF page = unscanned[p] THEN [pc EXCEPT ![p] = "reconcile"] ELSE pc
    /\ UNCHANGED <<source, rows, active, requests, strays, history, changes, faults>>

\* Send all the requests of a phase; the next phase awaits them.
Send(p, from, to, items) ==
    /\ pc[p] = from
    /\ requests[p] = {}
    /\ pc' = [pc EXCEPT ![p] = to]
    /\ requests' = [requests EXCEPT ![p] = items]
    /\ UNCHANGED <<source, rows, active, unscanned, cached, strays, history,
                   changes, faults>>

\* Requests of one Promise.all take effect in any order, two for one key too.
RequestLands(p) ==
    /\ \E r \in requests[p] :
         /\ rows' = [rows EXCEPT ![r[1]] = r[2]]
         /\ requests' = [requests EXCEPT ![p] = @ \ {r}]
    /\ UNCHANGED <<source, pc, active, unscanned, cached, strays, history,
                   changes, faults>>

Finish(p, last) ==
    /\ pc[p] = last
    /\ requests[p] = {}
    /\ End(p)
    /\ UNCHANGED <<source, rows, strays, changes, faults>>

\* Anything throws, or the platform ends the invocation: the requests already
\* sent are left to themselves, the failing one included, since a failure does
\* not tell whether the item was written.
Abandon(p) ==
    /\ pc[p] # "idle"
    /\ Fault
    /\ strays' = strays \cup requests[p]
    /\ End(p)
    /\ UNCHANGED <<source, rows, changes>>

StrayLands ==
    /\ \E r \in strays :
         /\ strays' = strays \ {r}
         /\ rows' = [rows EXCEPT ![r[1]] = r[2]]
    /\ UNCHANGED <<source, invocation, history, changes, faults>>

StrayIsLost ==
    /\ \E r \in strays : strays' = strays \ {r}
    /\ UNCHANGED <<source, rows, invocation, history, changes, faults>>

\* Each poller adds its own steps to these.
CommonProceed(p) == Query(p) \/ ScanPage(p) \/ RequestLands(p)

CommonNext ==
    \/ \E k \in Keys : SourceChange(k)
    \/ \E p \in Pollers : Start(p) \/ Abandon(p)
    \/ StrayLands \/ StrayIsLost

----------------------------------------------------------------------------
\* The writes an invocation may ask for after a query returned these records.
Implied(records, unambiguous) ==
    ({k \in Keys : records[k] = {}} \X {None})
        \cup {item \in Keys \X Details :
                 /\ item[2] \in records[item[1]]
                 /\ unambiguous => records[item[1]] = {item[2]}}

\* What may still be written: what is under way, and what the invocations that are
\* in these phases, after their query and before the last writes, may ask for.
OffersOf(p, phases, unambiguous) ==
    requests[p] \cup IF pc[p] \in phases THEN Implied(active[p], unambiguous) ELSE {}

OffersIn(phases, unambiguous) ==
    strays \cup (UNION {OffersOf(p, phases, unambiguous) : p \in Pollers})

Phases == {"idle", "query", "scan", "reconcile", "put", "delete", "rejected"}

TypeOKFor(Row) ==
    /\ source \in [Keys -> SUBSET Details]
    /\ rows \in [Keys -> Row]
    /\ pc \in [Pollers -> Phases]
    /\ active \in [Pollers -> [Keys -> SUBSET Details]]
    /\ unscanned \in [Pollers -> SUBSET Keys]
    /\ cached \in [Pollers -> [Keys -> Row]]
    /\ requests \in [Pollers -> SUBSET (Keys \X (Details \cup {None}))]
    /\ strays \subseteq Keys \X (Details \cup {None})
    /\ left \in [Pollers -> SUBSET Keys]
    /\ clean \subseteq Pollers
    /\ changes \in 0..MaxChanges
    /\ faults \in 0..MaxFaults

=============================================================================
