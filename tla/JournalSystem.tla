--------------------------- MODULE JournalSystem ---------------------------
(***************************************************************************)
(* The journals table with both of its writers: the poller of              *)
(* JournalPoller and the reaper, a Lambda of its own that scans the table  *)
(* for rows not written for ReapAge (three months) and then deletes them   *)
(* one by one, without looking at them again.  The two share nothing but   *)
(* the table; in particular the reaper does not reach the hashes the       *)
(* poller's containers keep in memory.                                     *)
(***************************************************************************)
EXTENDS JournalPoller

CONSTANT ReapAge    \* rows older than this are inactive

\* Ages that decide whether a row is inactive are below the cap.
ASSUME ReapAgeAssumption == ReapAge \in Nat /\ ReapAge + LambdaTimeout < RowAgeCap

VARIABLES
    reaper,     \* where the reaper's invocation is, "idle" between invocations
    reaperAge,  \* time since the reaper computed threeMonthsAgo
    toScan,     \* keys its scan has not reached
    inactive    \* inactiveStaffNumbers not deleted yet

reaperVars == <<reaper, reaperAge, toScan, inactive>>
systemVars == <<vars, reaperVars>>

SystemInit ==
    /\ Init
    /\ reaper = "idle" /\ reaperAge = 0
    /\ toScan = {} /\ inactive = {}

\* Mutant: every row is taken for inactive.
IsThere(s) == journals[s] # None

\* lastUpdatedAt < threeMonthsAgo, where threeMonthsAgo is fixed before the scan.
IsInactive(s) == journals[s] # None /\ rowAge[s] - reaperAge > ReapAge

ReaperStart ==
    /\ reaper = "idle"
    /\ reaper' = "scan"
    /\ toScan' = Staff
    /\ UNCHANGED <<vars, reaperAge, inactive>>

IdentifyInactivePage ==
    /\ reaper = "scan"
    /\ \E page \in SUBSET toScan \ {{}} :
         /\ inactive' = inactive \cup {s \in page : IsInactive(s)}
         /\ toScan' = toScan \ page
         /\ reaper' = IF page = toScan THEN "remove" ELSE "scan"
    /\ UNCHANGED <<vars, reaperAge>>

RemoveJournal(s) ==
    /\ reaper = "remove"
    /\ s \in inactive
    /\ inactive' = inactive \ {s}
    /\ journals' = [journals EXCEPT ![s] = None]
    /\ rowAge' = [rowAge EXCEPT ![s] = 0]
    /\ UNCHANGED <<source, invocation, cache, platform, changes, faults,
                   reaper, reaperAge, toScan>>

\* A failed delete is logged and the loop goes on with the next staff number.
RemoveFails(s) ==
    /\ reaper = "remove"
    /\ s \in inactive
    /\ Fault
    /\ inactive' = inactive \ {s}
    /\ UNCHANGED <<source, table, invocation, cache, platform, changes,
                   reaper, reaperAge, toScan>>

ReaperEnd ==
    /\ reaper' = "idle" /\ reaperAge' = 0
    /\ toScan' = {} /\ inactive' = {}

ReaperFinish ==
    /\ reaper = "remove" /\ inactive = {}
    /\ ReaperEnd
    /\ UNCHANGED vars

\* A scan page throws, or the platform kills the invocation.
ReaperStops ==
    /\ reaper # "idle"
    /\ Fault
    /\ ReaperEnd
    /\ UNCHANGED <<source, table, invocation, cache, platform, changes>>

SystemTick ==
    /\ Tick
    /\ reaper # "idle" => reaperAge < LambdaTimeout
    /\ reaperAge' = IF reaper = "idle" THEN 0 ELSE reaperAge + 1
    /\ UNCHANGED <<reaper, toScan, inactive>>

PollerStep ==
    /\ \/ \E s \in Staff : SourceChange(s)
       \/ \E c \in Containers : \/ Start(c) \/ Proceed(c)
                                \/ PhaseFails(c) \/ BatchFails(c) \/ Restart(c)
    /\ UNCHANGED reaperVars

ReaperProceed ==
    \/ IdentifyInactivePage \/ (\E s \in Staff : RemoveJournal(s)) \/ ReaperFinish

SystemNext ==
    \/ SystemTick \/ PollerStep
    \/ ReaperStart \/ ReaperProceed \/ ReaperStops
    \/ \E s \in Staff : RemoveFails(s)

SystemSpec == SystemInit /\ [][SystemNext]_systemVars

FairSystemSpec ==
    /\ SystemSpec
    /\ WF_systemVars(SystemTick)
    /\ WF_systemVars(UNCHANGED reaperVars /\ \E c \in Containers : Start(c))
    /\ \A c \in Containers : WF_systemVars(UNCHANGED reaperVars /\ Proceed(c))
    /\ WF_systemVars(ReaperStart)
    /\ WF_systemVars(ReaperProceed)

----------------------------------------------------------------------------
\* Every variable has its type; the reaper ends within its timeout.
SystemTypeOK ==
    /\ TypeOK
    /\ reaper \in {"idle", "scan", "remove"}
    /\ reaperAge \in 0..LambdaTimeout
    /\ toScan \subseteq Staff
    /\ inactive \subseteq Staff

\* The reaper deletes a row only if its journal had not been rewritten for
\* ReapAge when the reaper began, or was rewritten by an invocation that
\* overlapped the reaper's: rewriting is the one thing that can happen between
\* the scan that condemns a row and its deletion.
RemovedWereInactive ==
    [][\A s \in Staff : RemoveJournal(s) /\ journals[s] # None =>
            \/ rowAge[s] - reaperAge > ReapAge
            \/ rowAge[s] <= reaperAge + LambdaTimeout]_systemVars

\* Once the source and the faults have come to rest, the row of an examiner who
\* left is removed for good.
LeaversAreReaped ==
    <>[](\A s \in Staff : examiner[s] # "listed" => journals[s] = None)

=============================================================================
