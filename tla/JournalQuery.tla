---------------------------- MODULE JournalQuery ---------------------------
(***************************************************************************)
(* The query and transform phases of the journals poller: which records of *)
(* the TARS replica and of the DSP bookings database end up in whose       *)
(* journal.  The queries of one Promise.all run on connections of their    *)
(* own and are answered in any order, while both databases change.         *)
(*                                                                         *)
(* Days are counted from startDate, day 0.  An instant is a half-day: day  *)
(* d begins at 2 * d, and 2 * d + 1 is some time later on that day.        *)
(***************************************************************************)
EXTENDS Integers, FiniteSets, Sequences, Functions

CONSTANTS
    Examiners,          \* individual ids
    StaffNumber,        \* examiner -> staff_number, as it is stored
    LastDay,            \* examiner -> the end_date of his status
    Numeric,            \* staff_number -> the number it parses to, or NaN
    NaN,
    Listings,           \* what the examiners query may return, in some order
    Contents,           \* the sets of records the databases may hold
    JournalDaysPast,    \* 14
    DaysInAdvance,      \* the greatest DAYS_IN_ADVANCE_COUNT of an AREA
    NonWorking,         \* weekends and statutory NON_WORKING_DAYs
    FutureDays,         \* FUTURE_JOURNAL_DAYS, 0 when not set
    AdvanceDays,        \* 14
    CommitmentDays,     \* 20
    DeploymentDays,     \* the days of 6 months
    Groups,             \* 5
    MaxChanges, MaxFaults   \* bounds

Records == UNION Contents
Slots(rs) == {r \in rs : r.type = "slot"}
Commitments(rs) == {r \in rs : r.type = "commitment"}
Deployments(rs) == {r \in rs : r.type = "deployment"}
Bookings(rs) == {r \in rs : r.type = "booking"}

ASSUME QueryAssumption ==
    /\ NaN \notin Nat
    /\ StaffNumber \in [Examiners -> DOMAIN Numeric]
    /\ \A staff \in DOMAIN Numeric : Numeric[staff] \in Nat \cup {NaN}
    /\ LastDay \in [Examiners -> Int]
    /\ Listings \subseteq Seq(Examiners)
    /\ \A listing \in Listings : \A i \in DOMAIN listing : LastDay[listing[i]] >= 0
    /\ \A r \in Records : r.type \in {"slot", "commitment", "deployment", "booking"}
    /\ \A r \in Slots(Records) : /\ r.examiner \in Examiners /\ r.day \in Int
                                 /\ {r.activity, r.vehicle} \subseteq BOOLEAN
                                 /\ r.booking \in {"none", "complete", "bare"}
    /\ \A r \in Commitments(Records) \cup Deployments(Records) :
           r.examiner \in Examiners /\ r.from \in Int /\ r.to \in Int /\ r.from <= r.to
    /\ \A r \in Bookings(Records) : r.staff \in DOMAIN Numeric /\ r.at \in Int
    /\ {JournalDaysPast, FutureDays, AdvanceDays} \subseteq Nat
    /\ DaysInAdvance \in Nat \ {0} /\ NonWorking \subseteq Nat /\ IsFiniteSet(NonWorking)
    /\ {CommitmentDays, DeploymentDays, MaxChanges, MaxFaults} \subseteq Nat
    /\ Groups \in Nat \ {0}

VARIABLES
    records,    \* what the databases hold
    listings,   \* what the examiners query returns, but for the order
    phase,      \* where the invocation is
    rows,       \* the examiners query's result
    awaiting,   \* the datasets not yet loaded
    chunks,     \* the chunks of examiners whose test slots are not yet loaded
    loaded,     \* the entries loaded so far
    journals,   \* the journals built
    steady,     \* history: records that were there all the time, as far as seen
    changes, faults

results == <<rows, awaiting, chunks, loaded, journals>>
databases == <<records, listings>>
vars == <<databases, phase, results, steady, changes, faults>>

----------------------------------------------------------------------------
(* The windows.                                                            *)

NextWorkingDay ==
    LET first == DaysInAdvance - 1
    IN  CHOOSE d \in first .. first + Cardinality(NonWorking) :
            d \notin NonWorking /\ first .. d - 1 \subseteq NonWorking

\* FUTURE_JOURNAL_DAYS counts from now, the next working day is a date.
JournalEnd == IF FutureDays > 0 THEN 2 * FutureDays + 1 ELSE 2 * NextWorkingDay

EndDay == JournalEnd \div 2

JournalWindow == -JournalDaysPast .. EndDay

\* Mutant: the advance slots begin on the last day of the detailed ones.
AdvanceFromEndDay == EndDay .. AdvanceDays - 1

AdvanceWindow == EndDay + 1 .. AdvanceDays - 1

CommitmentWindow == -JournalDaysPast .. CommitmentDays - JournalDaysPast - 1

DeploymentWindow == 0 .. DeploymentDays - 1

Touches(r, window) == r.from \in window \/ r.to \in window

----------------------------------------------------------------------------
(* The queries.  Each of them looks at the examiner's last day again; for  *)
(* an examiner who is listed this matters where it is written below.       *)

Entries(key, rs, run) ==
    {[examiner |-> r.examiner, key |-> key, record |-> r, run |-> run] : r \in rs}

PersonalCommitments ==
    {r \in Commitments(records) : Touches(r, CommitmentWindow)}

NonTestActivities == {r \in Slots(records) : r.activity /\ r.day \in JournalWindow}

AdvanceTestSlots ==
    {r \in Slots(records) : /\ r.vehicle
                            /\ r.day \in AdvanceWindow
                            /\ LastDay[r.examiner] > EndDay + 1}

DeploymentsTouched ==
    {r \in Deployments(records) : /\ Touches(r, DeploymentWindow)
                                  /\ LastDay[r.examiner] > 0}

\* A "bare" booking is one whose candidate or business has no contact details or
\* no address: the latest of none equals nothing, and the row is left out.
TestSlots(ids) ==
    {r \in Slots(records) : /\ r.examiner \in ids
                            /\ r.day \in JournalWindow
                            /\ ~r.activity \/ r.booking # "none"
                            /\ r.booking # "bare"}

\* The DSP knows examiners by staff number; examinerRecords.find takes the
\* first row that has it.
FirstWith(staff) ==
    rows[CHOOSE i \in DOMAIN rows : /\ StaffNumber[rows[i]] = staff
                                    /\ \A j \in 1..(i - 1) : StaffNumber[rows[j]] # staff]

\* The window is compared with the start of the slot to the second.
DSPTestSlots ==
    {[examiner |-> FirstWith(r.staff), key |-> "testSlots", record |-> r, run |-> 0] :
        r \in {b \in Bookings(records) :
                  /\ \E i \in DOMAIN rows : StaffNumber[rows[i]] = b.staff
                  /\ b.at \in -(2 * JournalDaysPast) .. JournalEnd}}

Datasets == {"personalCommitments", "nonTestActivities", "advanceTestSlots",
             "deployments", "dsp"}

Loaded(dataset) ==
    CASE dataset = "personalCommitments" -> Entries(dataset, PersonalCommitments, 0)
      [] dataset = "nonTestActivities" -> Entries(dataset, NonTestActivities, 0)
      [] dataset = "advanceTestSlots" -> Entries(dataset, AdvanceTestSlots, 0)
      [] dataset = "deployments" -> Entries(dataset, DeploymentsTouched, 0)
      [] dataset = "dsp" -> DSPTestSlots

----------------------------------------------------------------------------
(* The chunks of examiners for the test slots queries.                     *)

CeilDiv(n, d) == (n + d - 1) \div d

ChunkSize == CeilDiv(Len(rows), Groups)

\* Mutant: a last chunk that is not full is left out.
FullChunks == Len(rows) \div ChunkSize

NumberOfChunks == CeilDiv(Len(rows), ChunkSize)

ExaminersOf(chunk) ==
    {rows[i] : i \in {j \in DOMAIN rows : CeilDiv(j, ChunkSize) = chunk}}

----------------------------------------------------------------------------
(* buildJournals.                                                          *)

Number(i) == Numeric[StaffNumber[rows[i]]]

\* Mutant: parseInt's NaN is not looked for.
KeptWithNaN == {i \in DOMAIN rows : \A j \in DOMAIN rows \ {i} : Number(j) # Number(i)}

\* Mutant: journals of the same staff number are all kept.
KeptWithDuplicates == {i \in DOMAIN rows : Number(i) # NaN}

\* The rows of the examiners query that get a journal.
Kept ==
    {i \in DOMAIN rows : /\ Number(i) # NaN
                         /\ \A j \in DOMAIN rows \ {i} : Number(j) # Number(i)}

JournalOf(i) == [staffNumber |-> Number(i),
                 entries |-> {e \in loaded : e.examiner = rows[i]}]

----------------------------------------------------------------------------
Init ==
    /\ records \in Contents
    /\ listings \in Listings
    /\ phase = "idle"
    /\ rows = <<>> /\ awaiting = {} /\ chunks = {} /\ loaded = {} /\ journals = <<>>
    /\ steady = {}
    /\ changes = 0 /\ faults = 0

\* Somebody books, cancels or moves something, or an examiner joins or leaves.
SourceChange ==
    /\ changes < MaxChanges
    /\ changes' = changes + 1
    /\ \/ records' \in Contents /\ UNCHANGED listings
       \/ listings' \in Listings /\ UNCHANGED records
    /\ steady' = steady \cap records'
    /\ UNCHANGED <<phase, results, faults>>

Start ==
    /\ phase = "idle"
    /\ phase' = "examiners"
    /\ steady' = records
    /\ UNCHANGED <<databases, results, changes, faults>>

\* One row for each status of an examiner, in any order.
RowsOf(listing) ==
    {[i \in DOMAIN listing |-> listing[order[i]]] :
        order \in Bijection(DOMAIN listing, DOMAIN listing)}

QueryExaminers ==
    /\ phase = "examiners"
    /\ phase' = "datasets"
    /\ rows' \in RowsOf(listings)
    /\ awaiting' = Datasets
    /\ UNCHANGED <<databases, chunks, loaded, journals, steady, changes, faults>>

\* An empty list of examiners has no chunks, and reduce throws.
DatasetLoaded(dataset) ==
    /\ awaiting' = awaiting \ {dataset}
    /\ IF awaiting' # {} THEN UNCHANGED <<phase, chunks>>
       ELSE IF rows = <<>> THEN phase' = "failed" /\ UNCHANGED chunks
       ELSE phase' = "testSlots" /\ chunks' = 1..NumberOfChunks

LoadDataset(dataset) ==
    /\ phase = "datasets" /\ dataset \in awaiting
    /\ DatasetLoaded(dataset)
    /\ loaded' = loaded \cup Loaded(dataset)
    /\ UNCHANGED <<databases, rows, journals, steady, changes, faults>>

\* getDSPTestSlots answers any failure with no slots.
DSPFails ==
    /\ phase = "datasets" /\ "dsp" \in awaiting
    /\ faults < MaxFaults
    /\ faults' = faults + 1
    /\ DatasetLoaded("dsp")
    /\ steady' = steady \ Bookings(Records)
    /\ UNCHANGED <<databases, rows, loaded, journals, changes>>

LoadTestSlots(chunk) ==
    /\ phase = "testSlots" /\ chunk \in chunks
    /\ loaded' = loaded \cup Entries("testSlots", TestSlots(ExaminersOf(chunk)), chunk)
    /\ chunks' = chunks \ {chunk}
    /\ phase' = IF chunks' = {} THEN "transform" ELSE phase
    /\ UNCHANGED <<databases, rows, awaiting, journals, steady, changes, faults>>

BuildJournals ==
    /\ phase = "transform"
    /\ phase' = "filter"
    /\ journals' = [i \in Kept |-> JournalOf(i)]
    /\ UNCHANGED <<databases, rows, awaiting, chunks, loaded, steady, changes, faults>>

QueryFails ==
    /\ phase \in {"examiners", "datasets", "testSlots"}
    /\ faults < MaxFaults
    /\ faults' = faults + 1
    /\ phase' = "failed"
    /\ UNCHANGED <<databases, results, steady, changes>>

\* The journals go on to the filter, or the handler answers 500.
Leave ==
    /\ phase \in {"filter", "failed"}
    /\ phase' = "idle"
    /\ rows' = <<>> /\ awaiting' = {} /\ chunks' = {} /\ loaded' = {} /\ journals' = <<>>
    /\ steady' = {}
    /\ UNCHANGED <<databases, changes, faults>>

Next ==
    \/ SourceChange
    \/ Start
    \/ QueryExaminers
    \/ \E dataset \in Datasets : LoadDataset(dataset)
    \/ DSPFails
    \/ \E chunk \in chunks : LoadTestSlots(chunk)
    \/ BuildJournals
    \/ QueryFails
    \/ Leave

Spec == Init /\ [][Next]_vars

----------------------------------------------------------------------------
EntryType == [examiner : Examiners, key : Datasets \cup {"testSlots"},
              record : Records, run : Nat]

\* The types of the state; a journal is stored under a number (buildJournals
\* omits the staff numbers that are none).
TypeOK ==
    /\ records \in Contents /\ listings \in Listings
    /\ phase \in {"idle", "examiners", "datasets", "testSlots", "transform", "filter", "failed"}
    /\ rows \in Seq(Examiners)
    /\ awaiting \subseteq Datasets /\ chunks \subseteq 1..Groups
    /\ loaded \subseteq EntryType
    /\ DOMAIN journals \subseteq DOMAIN rows
    /\ \A i \in DOMAIN journals :
           /\ journals[i].staffNumber \in Nat
           /\ journals[i].entries \subseteq loaded
    /\ steady \subseteq records
    /\ changes \in 0..MaxChanges /\ faults \in 0..MaxFaults

BookedActivity(r) == r.type = "slot" /\ r.activity /\ r.booking = "complete"

\* No record is in two journals, or twice in one: the queries overlap neither in
\* days nor in examiners, whatever rows the examiners query returns.  Only an
\* activity that replaced a booked test is both a test slot and an activity, which
\* the where clause of getTestSlots asks for.  A record is a value and has no id: a
\* slot that is given to another examiner or another day between two queries is
\* another record from then on, and this does not say that only one of the two is
\* in a journal.
NoEntryTwice ==
    \A i, j \in DOMAIN journals :
        \A a \in journals[i].entries, b \in journals[j].entries :
            a.record = b.record =>
                \/ i = j /\ a = b
                \/ i = j /\ BookedActivity(a.record)
                   /\ {a.key, b.key} = {"testSlots", "nonTestActivities"}

\* What the examiner is to see in his journal.
Concerns(r, e) ==
    CASE r.type = "slot" ->
            /\ r.examiner = e
            /\ \/ r.activity /\ r.day \in JournalWindow
               \/ /\ ~r.activity /\ r.vehicle
                  /\ r.day \in -JournalDaysPast .. AdvanceDays - 1
                  /\ IF r.day <= EndDay THEN r.booking # "bare" ELSE LastDay[e] > EndDay + 1
      [] r.type = "commitment" -> r.examiner = e /\ Touches(r, CommitmentWindow)
      [] r.type = "deployment" ->
            r.examiner = e /\ Touches(r, DeploymentWindow) /\ LastDay[e] > 0
      [] r.type = "booking" ->
            StaffNumber[e] = r.staff /\ r.at \in -(2 * JournalDaysPast) .. 2 * EndDay

InJournal(r, i) == \E entry \in journals[i].entries : entry.record = r

\* A journal that is built (buildJournals) holds everything that concerns its
\* examiner and was in the database during the whole query phase: no day
\* between the detailed and the advance slots and no examiner between two
\* chunks is lost, and other records that change meanwhile take nothing away.
SteadyRecordsPresent ==
    phase = "filter" =>
        \A i \in DOMAIN journals, r \in steady : Concerns(r, rows[i]) => InJournal(r, i)

\* "Get all detailed test slots, for the specified time window": a booking of
\* the DSP is in the journal on every day for which the journal has the slots
\* of TARS, the last one included.
BookingsOfTheWindowPresent ==
    phase = "filter" =>
        \A i \in DOMAIN journals, r \in Bookings(steady) :
            (StaffNumber[rows[i]] = r.staff /\ r.at \div 2 \in JournalWindow) => InJournal(r, i)
=============================================================================
