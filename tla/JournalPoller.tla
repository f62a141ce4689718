--------------------------- MODULE JournalPoller ---------------------------
(***************************************************************************)
(* The journals poller: Lambda containers that read every active           *)
(* examiner's journal from the replicated TARS database, compare its hash  *)
(* with the hashes of the rows in the DynamoDB journals table, and write   *)
(* the journals that changed, in throttled batches.                        *)
(*                                                                         *)
(* A container is reused by later invocations and keeps the hashes in      *)
(* memory (journalHashesCache, a module-level object).  Whether the copy   *)
(* may be used instead of scanning the table is decided by time alone, so  *)
(* time is part of the state.  Instants are kept as ages (ticks since the  *)
(* instant), which is all the code compares.                               *)
(***************************************************************************)
EXTENDS Integers, FiniteSets

CONSTANTS
    Containers,         \* Lambda execution environments
    Staff,              \* staff numbers (the key of the journals table)
    Contents,           \* journal contents; the hash is injective on them
    None,               \* no journal, no row, no cached hash
    PollerFrequency,    \* POLLER_FREQUENCY, in ticks
    Leniency,           \* the couple of seconds of leniency of runOutOfTime
    TotalSaveDuration,  \* the time the writes are throttled over, in ticks
    BatchSize,          \* maxBatchWriteRequests
    LambdaTimeout,      \* the platform kills an invocation of this age
    MinGap,             \* least time between the starts of two invocations
    AmbiguousFailures,  \* may a failed batch write have written some items?
    Absence,            \* what an examiner may be besides "listed"
    RowAgeCap,          \* ages of rows beyond this one are not told apart
    MaxChanges,         \* bound on the changes of the source
    MaxFaults           \* bound on failures, throttled writes and restarts

ASSUME ConstantsAssumption ==
    /\ None \notin Contents
    /\ PollerFrequency \in Nat \ {0}
    /\ Leniency \in Nat /\ TotalSaveDuration \in Nat
    /\ BatchSize \in Nat \ {0}
    /\ LambdaTimeout \in Nat /\ MinGap \in Nat
    /\ AmbiguousFailures \in BOOLEAN
    /\ Absence \subseteq {"none", "omitted"}
    /\ RowAgeCap \in Nat /\ MaxChanges \in Nat /\ MaxFaults \in Nat

ASSUME FiniteAssumption == IsFiniteSet(Staff) /\ Staff # {}

VARIABLES
    \* What the TARS queries would return now.
    examiner,   \* staff number -> "listed", "omitted" by the builder, or "none"
    content,    \* staff number -> the examiner's journal
    \* The DynamoDB journals table.
    journals,   \* staff number -> hash of the row, or None
    rowAge,     \* staff number -> time since the row's lastUpdatedAt
    \* The containers.
    pc,         \* where the invocation is, "idle" between invocations
    runAge,     \* time since startTime of the current invocation
    prevAge,    \* time since previousStartTime of the hashes cache
    hashes,     \* the hashes cache
    listed,     \* the examiners this invocation builds journals for
    polled,     \* the journals built by this invocation
    builtAge,   \* time since they were built, which is their lastUpdatedAt
    unscanned,  \* keys the table scan has not reached
    scanned,    \* the hashes the scan has returned so far
    pending,    \* changed journals not yet submitted
    batches,    \* number of write batches of this invocation
    unsaved,    \* journals DynamoDB returned as unprocessed
    \* The platform.
    sinceStart, \* time since the last start of any invocation, up to MinGap
    latest,     \* the container of that invocation
    changes, faults

source == <<examiner, content>>
table == <<journals, rowAge>>
built == <<polled, builtAge>>
scan == <<unscanned, scanned>>
save == <<pending, batches, unsaved>>
invocation == <<pc, runAge, listed, built, scan, save>>
cache == <<prevAge, hashes>>
platform == <<sinceStart, latest>>
vars == <<source, table, invocation, cache, platform, changes, faults>>

Hash == Contents \cup {None}
Table == [Staff -> Hash]
NoRows == [s \in Staff |-> None]

Lesser(a, b) == IF a < b THEN a ELSE b

----------------------------------------------------------------------------
(* The hashes cache.                                                       *)

\* Mutant: no upper bound on the time since the previous start.
ToleratedForever(difference) == 5 * difference >= 4 * PollerFrequency

\* The 20% tolerance on the time between the starts of two invocations.
Tolerated(difference) ==
    /\ 5 * difference <= 6 * PollerFrequency
    /\ 5 * difference >= 4 * PollerFrequency

\* An age no tolerated difference can reach while an invocation runs.  Older
\* instants are not told apart, and neither is previousStartTime = null.
Expired == 2 * PollerFrequency + LambdaTimeout

IsValid(c) == Tolerated(prevAge[c] - runAge[c])

\* Mutant: the cache is stamped with the current time, not the start time.
CacheStampNow(c) == prevAge' = [prevAge EXCEPT ![c] = 0]

\* Both update(startTime, ..) and clearAndPopulate(.., startTime) end in
\* previousStartTime = startTime.
CacheStamp(c) == prevAge' = [prevAge EXCEPT ![c] = runAge[c]]

----------------------------------------------------------------------------
Init ==
    /\ examiner \in [Staff -> {"listed"} \cup Absence]
    /\ content \in [Staff -> Contents]
    /\ journals = NoRows
    /\ rowAge = [s \in Staff |-> 0]
    /\ pc = [c \in Containers |-> "idle"]
    /\ runAge = [c \in Containers |-> 0]
    /\ prevAge = [c \in Containers |-> Expired]
    /\ hashes = [c \in Containers |-> NoRows]
    /\ listed = [c \in Containers |-> {}]
    /\ polled = [c \in Containers |-> NoRows]
    /\ builtAge = [c \in Containers |-> 0]
    /\ unscanned = [c \in Containers |-> {}]
    /\ scanned = [c \in Containers |-> NoRows]
    /\ pending = [c \in Containers |-> {}]
    /\ batches = [c \in Containers |-> 0]
    /\ unsaved = [c \in Containers |-> {}]
    /\ sinceStart = MinGap
    /\ latest \in Containers
    /\ changes = 0 /\ faults = 0

Fault == faults < MaxFaults /\ faults' = faults + 1

\* The invocation ends, with a response or with an exception the handler turns
\* into a 500; what outlives it is the container's cache.
End(c) ==
    /\ pc' = [pc EXCEPT ![c] = "idle"]
    /\ runAge' = [runAge EXCEPT ![c] = 0]
    /\ listed' = [listed EXCEPT ![c] = {}]
    /\ polled' = [polled EXCEPT ![c] = NoRows]
    /\ builtAge' = [builtAge EXCEPT ![c] = 0]
    /\ unscanned' = [unscanned EXCEPT ![c] = {}]
    /\ scanned' = [scanned EXCEPT ![c] = NoRows]
    /\ pending' = [pending EXCEPT ![c] = {}]
    /\ batches' = [batches EXCEPT ![c] = 0]
    /\ unsaved' = [unsaved EXCEPT ![c] = {}]

----------------------------------------------------------------------------
(* The environment: the source database changes, time passes, the platform *)
(* starts invocations.                                                     *)

SourceChange(s) ==
    /\ changes < MaxChanges
    /\ changes' = changes + 1
    /\ \/ /\ \E x \in {"listed"} \cup Absence : examiner' = [examiner EXCEPT ![s] = x]
          /\ UNCHANGED content
       \/ /\ \E x \in Contents : content' = [content EXCEPT ![s] = x]
          /\ UNCHANGED examiner
    /\ UNCHANGED <<table, invocation, cache, platform, faults>>

Tick ==
    /\ \A c \in Containers : pc[c] # "idle" => runAge[c] < LambdaTimeout
    /\ runAge' = [c \in Containers |-> IF pc[c] = "idle" THEN 0 ELSE runAge[c] + 1]
    /\ prevAge' = [c \in Containers |-> Lesser(prevAge[c] + 1, Expired)]
    /\ sinceStart' = Lesser(sinceStart + 1, MinGap)
    /\ builtAge' = [c \in Containers |-> IF polled[c] = NoRows
                        THEN 0 ELSE Lesser(builtAge[c] + 1, RowAgeCap)]
    /\ rowAge' = [s \in Staff |-> IF journals[s] = None
                        THEN 0 ELSE Lesser(rowAge[s] + 1, RowAgeCap)]
    /\ UNCHANGED <<source, journals, pc, listed, polled, scan, save, hashes, latest,
                   changes, faults>>

Start(c) ==
    /\ pc[c] = "idle"
    /\ sinceStart >= MinGap
    /\ pc' = [pc EXCEPT ![c] = "examiners"]
    /\ runAge' = [runAge EXCEPT ![c] = 0]
    /\ sinceStart' = 0
    /\ latest' = c
    /\ UNCHANGED <<source, table, listed, built, scan, save, cache, changes, faults>>

----------------------------------------------------------------------------
(* The query and transform phases.                                         *)

\* Mutant: neither the query nor the builder leaves an examiner out.
ListedRegardless == Staff

\* The examiners whose journals the builder will keep.
Listed == {s \in Staff : examiner[s] = "listed"}

\* The list of examiners is read first; an examiner without a usable or a
\* unique staff number is dropped by the builder, whatever the datasets hold.
\* With no examiners at all, reducing the empty list of slot chunks throws.
QueryExaminers(c) ==
    /\ pc[c] = "examiners"
    /\ IF \A s \in Staff : examiner[s] = "none"
       THEN End(c)
       ELSE /\ pc' = [pc EXCEPT ![c] = "datasets"]
            /\ listed' = [listed EXCEPT ![c] = Listed]
            /\ UNCHANGED <<runAge, built, scan, save>>
    /\ UNCHANGED <<source, table, cache, platform, changes, faults>>

\* The datasets of the listed examiners are read, and one journal per listed
\* examiner is built from them.  A failed DSP query counts as one without slots,
\* and the datasets may be read on both sides of a change: either way journals
\* are built that the source does not hold, and are taken for the real ones.
BuildJournals(c) ==
    /\ pc[c] = "datasets"
    /\ \E read \in [Staff -> Contents] :
         /\ IF read = content THEN UNCHANGED faults ELSE Fault
         /\ polled' = [polled EXCEPT ![c] =
                [s \in Staff |-> IF s \in listed[c] THEN read[s] ELSE None]]
    /\ pc' = [pc EXCEPT ![c] = "filter"]
    /\ builtAge' = [builtAge EXCEPT ![c] = 0]
    /\ UNCHANGED <<source, table, runAge, listed, scan, save, cache, platform, changes>>

----------------------------------------------------------------------------
(* The filter phase.                                                       *)

\* Mutant: a journal without a known hash is taken for unchanged.
ChangedKnown(c, known) ==
    {s \in Staff : polled[c][s] # None /\ known[s] # None /\ polled[c][s] # known[s]}

\* Mutant: the hashes are not compared.
ChangedAlways(c, known) == {s \in Staff : polled[c][s] # None}

\* filterChangedJournals: the journals whose hash is unknown or different.
Changed(c, known) == {s \in Staff : polled[c][s] # None /\ polled[c][s] # known[s]}

\* Mutant: rounded down from one too few.
NumberOfBatchesLess(n) == (n - 1) \div BatchSize

NumberOfBatches(n) == (n + BatchSize - 1) \div BatchSize

\* saveJournals up to its first await: the cache is stamped as valid for this
\* invocation before anything is written.
SaveJournals(c, known) ==
    /\ pending' = [pending EXCEPT ![c] = Changed(c, known)]
    /\ batches' = [batches EXCEPT ![c] = NumberOfBatches(Cardinality(Changed(c, known)))]
    /\ pc' = [pc EXCEPT ![c] = "save"]
    /\ CacheStamp(c)

CacheHit(c) ==
    /\ pc[c] = "filter"
    /\ IsValid(c)
    /\ SaveJournals(c, hashes[c])
    /\ UNCHANGED <<source, table, runAge, listed, built, scan, unsaved, hashes, platform,
                   changes, faults>>

CacheMiss(c) ==
    /\ pc[c] = "filter"
    /\ ~IsValid(c)
    /\ pc' = [pc EXCEPT ![c] = "scan"]
    /\ unscanned' = [unscanned EXCEPT ![c] = Staff]
    /\ UNCHANGED <<source, table, runAge, listed, built, scanned, save, cache, platform,
                   changes, faults>>

\* One page of the scan, and the filter and the start of the save when it is
\* the last; only a complete scan replaces the cache.
ScanPage(c) ==
    /\ pc[c] = "scan"
    /\ \E page \in SUBSET unscanned[c] :
         LET read == [s \in Staff |-> IF s \in page THEN journals[s] ELSE scanned[c][s]]
         IN /\ page # {}
            /\ unscanned' = [unscanned EXCEPT ![c] = @ \ page]
            /\ IF page = unscanned[c]
               THEN /\ hashes' = [hashes EXCEPT ![c] = read]
                    /\ scanned' = [scanned EXCEPT ![c] = NoRows]
                    /\ SaveJournals(c, read)
               ELSE /\ scanned' = [scanned EXCEPT ![c] = read]
                    /\ UNCHANGED <<hashes, pending, batches, pc, prevAge>>
    /\ UNCHANGED <<source, table, runAge, listed, built, unsaved, platform, changes, faults>>

\* Any query, the builder or a scan page throws.
PhaseFails(c) ==
    /\ pc[c] \in {"examiners", "datasets", "scan"}
    /\ Fault
    /\ End(c)
    /\ UNCHANGED <<source, table, cache, platform, changes>>

----------------------------------------------------------------------------
(* The save phase.                                                         *)

\* sleepDuration is TotalSaveDuration divided by the number of batches.
RunOutOfTime(c) ==
    batches[c] * runAge[c] > batches[c] * (PollerFrequency - Leniency) - TotalSaveDuration

SubmitBatch(c) ==
    /\ pc[c] = "save"
    /\ pending[c] # {}
    /\ ~RunOutOfTime(c)
    /\ pc' = [pc EXCEPT ![c] = "write"]
    /\ UNCHANGED <<source, table, runAge, listed, built, scan, save, cache, platform,
                   changes, faults>>

\* The batches are taken in the order of the examiners query, which has none.
NextBatch(c, batch) ==
    Cardinality(batch) = Lesser(BatchSize, Cardinality(pending[c]))

Put(c, items) ==
    /\ journals' = [s \in Staff |-> IF s \in items THEN polled[c][s] ELSE journals[s]]
    /\ rowAge' = [s \in Staff |-> IF s \in items THEN builtAge[c] ELSE rowAge[s]]

\* Mutant: the hashes of unprocessed journals are cached with the others.
WrittenAll(batch, unprocessed) == batch

\* writtenHashes: the batch without the journals that failed to be written.
Written(batch, unprocessed) == batch \ unprocessed

\* The response arrives: what was not returned as unprocessed is in the table,
\* and its hashes enter the cache; then the loop sleeps.
BatchWritten(c) ==
    /\ pc[c] = "write"
    /\ \E batch \in SUBSET pending[c] : \E unprocessed \in SUBSET batch :
         /\ NextBatch(c, batch)
         /\ IF unprocessed = {} THEN UNCHANGED faults ELSE Fault
         /\ Put(c, batch \ unprocessed)
         /\ hashes' = [hashes EXCEPT ![c] =
                [s \in Staff |-> IF s \in Written(batch, unprocessed)
                                 THEN polled[c][s] ELSE hashes[c][s]]]
         /\ pending' = [pending EXCEPT ![c] = @ \ batch]
         /\ unsaved' = [unsaved EXCEPT ![c] = @ \cup unprocessed]
    /\ CacheStamp(c)
    /\ pc' = [pc EXCEPT ![c] = "save"]
    /\ UNCHANGED <<source, runAge, listed, built, scan, batches, platform, changes>>

\* The batch write throws, and with it the remaining batches are given up.
BatchFails(c) ==
    /\ pc[c] = "write"
    /\ \E batch \in SUBSET pending[c] : \E applied \in SUBSET batch :
         /\ NextBatch(c, batch)
         /\ AmbiguousFailures \/ applied = {}
         /\ Put(c, applied)
    /\ Fault
    /\ End(c)
    /\ UNCHANGED <<source, cache, platform, changes>>

\* Every batch was submitted, or there is no time for the next one.
Finish(c) ==
    /\ pc[c] = "save"
    /\ pending[c] = {} \/ RunOutOfTime(c)
    /\ End(c)
    /\ UNCHANGED <<source, table, cache, platform, changes, faults>>

\* The platform kills an invocation at its timeout, or discards a container;
\* the items of a write in flight may or may not have been written.
Restart(c) ==
    /\ Fault
    /\ IF pc[c] = "write"
       THEN \E batch \in SUBSET pending[c] : \E applied \in SUBSET batch :
              NextBatch(c, batch) /\ Put(c, applied)
       ELSE UNCHANGED table
    /\ End(c)
    /\ prevAge' = [prevAge EXCEPT ![c] = Expired]
    /\ hashes' = [hashes EXCEPT ![c] = NoRows]
    /\ UNCHANGED <<source, platform, changes>>

----------------------------------------------------------------------------
\* The steps of a fault-free invocation.
Proceed(c) ==
    \/ QueryExaminers(c) \/ BuildJournals(c)
    \/ CacheHit(c) \/ CacheMiss(c) \/ ScanPage(c)
    \/ SubmitBatch(c) \/ BatchWritten(c) \/ Finish(c)

Next ==
    \/ \E s \in Staff : SourceChange(s)
    \/ Tick
    \/ \E c \in Containers : Start(c) \/ Proceed(c)
    \/ \E c \in Containers : PhaseFails(c) \/ BatchFails(c) \/ Restart(c)

Spec == Init /\ [][Next]_vars

\* Time passes, the schedule keeps starting invocations, and an invocation that
\* is not made to fail goes on.
Fairness ==
    /\ WF_vars(Tick)
    /\ WF_vars(\E c \in Containers : Start(c))
    /\ \A c \in Containers : WF_vars(Proceed(c))

FairSpec == Spec /\ Fairness

----------------------------------------------------------------------------
(* Properties.                                                             *)

Phases == {"idle", "examiners", "datasets", "filter", "scan", "save", "write"}

\* Every variable has its type: ages stay within their caps, every row, cached
\* hash and polled journal is a content or None.
TypeOK ==
    /\ examiner \in [Staff -> {"listed", "omitted", "none"}]
    /\ content \in [Staff -> Contents]
    /\ journals \in Table
    /\ rowAge \in [Staff -> 0..RowAgeCap]
    /\ pc \in [Containers -> Phases]
    /\ runAge \in [Containers -> 0..LambdaTimeout]
    /\ prevAge \in [Containers -> 0..Expired]
    /\ hashes \in [Containers -> Table]
    /\ listed \in [Containers -> SUBSET Staff]
    /\ polled \in [Containers -> Table]
    /\ builtAge \in [Containers -> 0..RowAgeCap]
    /\ unscanned \in [Containers -> SUBSET Staff]
    /\ scanned \in [Containers -> Table]
    /\ pending \in [Containers -> SUBSET Staff]
    /\ batches \in [Containers -> Nat]
    /\ unsaved \in [Containers -> SUBSET Staff]
    /\ sinceStart \in 0..MinGap
    /\ latest \in Containers
    /\ changes \in 0..MaxChanges
    /\ faults \in 0..MaxFaults

\* When an invocation takes the hashes from its container's memory instead of
\* scanning, they are exactly the hashes of the rows now in the table.  Claimed
\* for schedules under which invocations do not overlap and are far enough
\* apart for the tolerance of isValid to tell a container that was passed over.
HitIsCoherent ==
    \A c \in Containers : pc[c] = "filter" /\ IsValid(c) => hashes[c] = journals

\* While an invocation saves, every journal it polled is in the table, still to
\* be submitted, or was returned as unprocessed: the hash filter never drops a
\* journal that the table does not hold.
SaveAccounts ==
    \A c \in Containers : pc[c] \in {"save", "write"} =>
        \A s \in Staff : \/ polled[c][s] = None
                         \/ s \in pending[c] \cup unsaved[c]
                         \/ journals[s] = polled[c][s]

\* A journal waiting to be written differs from the row it will replace: write
\* capacity is never spent on an unchanged journal.
NoRedundantWrite ==
    \A c \in Containers : pc[c] \in {"save", "write"} =>
        \A s \in pending[c] : journals[s] # polled[c][s]

\* Invocations do not overlap, and two starts of any container are further apart
\* than isValid tolerates once another container's start lies between them.
SerialSchedule ==
    /\ MinGap > LambdaTimeout
    /\ 5 * (2 * MinGap) > 6 * PollerFrequency

\* A batch write that throws has written nothing. Nothing in the code makes it so:
\* the answer of a write that was applied can be lost.
CleanFailures == ~AmbiguousFailures

\* The cache of c was stamped at least one whole gap before the latest start,
\* two when the latest start is that of c's running invocation.
Aged(c) ==
    prevAge[c] >= Lesser(Expired,
                         sinceStart + IF pc[c] = "idle" THEN MinGap ELSE 2 * MinGap)

RunningIsLatest ==
    \A c \in Containers : pc[c] # "idle" => latest = c /\ sinceStart = runAge[c]

StampsPrecedeStarts ==
    \A c \in Containers : prevAge[c] >= Lesser(Expired, sinceStart)

MemoryCoherentOrAged ==
    \A c \in Containers : Aged(c) \/ (latest = c /\ hashes[c] = journals)

SavingIsCoherent ==
    \A c \in Containers : pc[c] \in {"save", "write"} => hashes[c] = journals

ScanIsCoherent ==
    \A c \in Containers : pc[c] = "scan" =>
        \A s \in Staff \ unscanned[c] : scanned[c][s] = journals[s]

\* Why a cache hit is coherent under SerialSchedule and CleanFailures: only the
\* latest container can be running; a container's memory equals the table or is too old to be
\* used; a scan sees a table nobody else is writing; a save keeps memory, table
\* and remaining work in step.
CoherenceInv ==
    /\ RunningIsLatest
    /\ StampsPrecedeStarts
    /\ MemoryCoherentOrAged
    /\ SavingIsCoherent
    /\ ScanIsCoherent
    /\ SaveAccounts
    /\ NoRedundantWrite

\* The cache is used only by the container that ran the immediately preceding
\* invocation, as isValid's comment says of it.
HitIsImmediatelySubsequent ==
    [][\A c \in Containers : Start(c) /\ Tolerated(prevAge[c]) => latest = c]_vars

\* Once the source and the faults have come to rest, the table holds the
\* current journal of every listed examiner, for good.
Converges ==
    <>[](\A s \in Staff : examiner[s] = "listed" => journals[s] = content[s])

=============================================================================
