------------------------- MODULE JournalQueryProofs ------------------------
(***************************************************************************)
(* Proofs about the query and transform phases of the journals poller.     *)
(***************************************************************************)
EXTENDS JournalQuery, FiniteSetTheorems, SequenceTheorems,
        WellFoundedInduction, TLAPS

----------------------------------------------------------------------------
(* Arithmetic of the windows and of the chunks.                            *)

\* A set of numbers from some number on has a least one.
LEMMA LeastExists ==
    ASSUME NEW T \in SUBSET Int, NEW low \in Int, \A t \in T : low <= t, T # {}
    PROVE  \E t \in T : \A u \in T : t <= u
<1>1. PICK high \in T : TRUE
    OBVIOUS
<1> DEFINE Bounded == {low .. t : t \in {u \in T : u <= high}}
           S == low .. high
           R == StrictSubsetOrdering(S)
<1>2. IsFiniteSet(S)
    BY <1>1, FS_Interval
<1>3. IsWellFoundedOn(R, FiniteSubsetsOf(S))
    BY FS_StrictSubsetOrderingWellFounded
<1>4. FiniteSubsetsOf(S) = SUBSET S
    BY <1>2, FS_FiniteSubsetsOfFinite
<1>5. Bounded \subseteq SUBSET S /\ Bounded # {}
    BY <1>1
<1>6. PICK X \in Bounded : \A Y \in Bounded : ~ (<<Y, X>> \in R)
    <2> HIDE DEF Bounded, S, R
    <2> QED
        BY <1>3, <1>4, <1>5, WFMin
<1>7. PICK t \in T : t <= high /\ X = low .. t
    BY <1>6
<1>8. ASSUME NEW u \in T, u < t
      PROVE  FALSE
    <2>1. u <= high /\ low .. u \in Bounded
        BY <1>1, <1>7, <1>8
    <2>2. low .. u \subseteq low .. t /\ low .. u # low .. t
        <3>1. t \in low .. t /\ t \notin low .. u
            BY <1>8
        <3> QED
            BY <3>1, <1>8
    <2>3. <<low .. u, X>> \in R
        BY <2>1, <2>2, <1>5, <1>6, <1>7 DEF StrictSubsetOrdering
    <2> QED
        BY <2>1, <2>3, <1>6
<1> QED
    BY <1>7, <1>8

\* The next working day exists, and it is a day.
LEMMA NextWorkingDayType == NextWorkingDay \in Nat
<1> DEFINE first == DaysInAdvance - 1
           last == first + Cardinality(NonWorking)
           Working == (first .. last) \ NonWorking
<1>1. first \in Nat /\ IsFiniteSet(NonWorking)
    BY QueryAssumption
<1>2. Cardinality(NonWorking) \in Nat
    BY <1>1, FS_CardinalityType
<1>3. last \in Nat /\ first <= last
    BY <1>1, <1>2
<1>4. Working # {}
    <2>1. SUFFICES ASSUME first .. last \subseteq NonWorking
                   PROVE  FALSE
        OBVIOUS
    <2>2. Cardinality(first .. last) = last - first + 1
        BY <1>1, <1>3, FS_Interval
    <2>3. Cardinality(first .. last) <= Cardinality(NonWorking)
        BY <2>1, <1>1, FS_Subset
    <2> QED
        BY <2>2, <2>3, <1>1, <1>2
<1>5. PICK d \in Working : \A e \in Working : d <= e
    <2>1. Working \in SUBSET Int /\ first \in Int /\ \A e \in Working : first <= e
        BY <1>1, <1>3
    <2> HIDE DEF Working, first
    <2> QED
        BY <2>1, <1>4, LeastExists
<1>6. d \in first .. last /\ d \notin NonWorking /\ first .. d - 1 \subseteq NonWorking
    BY <1>1, <1>3, <1>5
<1>7. NextWorkingDay \in first .. last
    BY <1>6 DEF NextWorkingDay
<1> QED
    BY <1>1, <1>3, <1>7

\* The windows have ends: the journal ends with EndDay, on which the DSP query
\* ends, too, at the latest.
LEMMA EndDayType == /\ EndDay \in Nat /\ JournalEnd \in Nat
                    /\ 2 * EndDay <= JournalEnd
<1>1. JournalEnd \in Nat
    BY NextWorkingDayType, QueryAssumption DEF JournalEnd
<1> QED
    BY <1>1 DEF EndDay

\* What division rounding up is.
LEMMA CeilDivBounds ==
    ASSUME NEW n \in Nat, NEW d \in Nat \ {0}
    PROVE  /\ CeilDiv(n, d) \in Nat
           /\ n <= d * CeilDiv(n, d) /\ d * CeilDiv(n, d) < n + d
<1> DEFINE q == (n + d - 1) \div d
<1>1. q \in Int /\ d * q <= n + d - 1 /\ n + d - 1 < d * q + d
    OBVIOUS
<1>2. q \in Nat
    BY <1>1
<1> QED
    BY <1>1, <1>2 DEF CeilDiv

LEMMA FactorOut ==
    ASSUME NEW d \in Nat \ {0}, NEW m \in Nat, NEW n \in Nat, d * m < d * n + d
    PROVE  m <= n
<1>1. SUFFICES ASSUME m >= n + 1 PROVE FALSE
    OBVIOUS
<1>2. PICK k \in Nat : m = n + 1 + k
    <2>1. m - n - 1 \in Nat /\ m = n + 1 + (m - n - 1)
        BY <1>1
    <2> QED
        BY <2>1
<1>3. d * m = d * n + d + d * k
    BY <1>2, SMTT(30)
<1>4. d * k >= 0
    BY SMTT(30)
<1>5. d * m \in Int /\ d * n \in Int /\ d * k \in Int
    OBVIOUS
<1> QED
    BY <1>3, <1>4, <1>5

\* No more chunks than groups, and every examiner in one of them.
LEMMA ChunksFit ==
    ASSUME rows \in Seq(Examiners), rows # <<>>
    PROVE  /\ ChunkSize \in Nat \ {0}
           /\ NumberOfChunks \in 1..Groups
           /\ \A i \in DOMAIN rows : CeilDiv(i, ChunkSize) \in 1..NumberOfChunks
<1> DEFINE n == Len(rows)
           s == ChunkSize
           k == NumberOfChunks
<1>1. n \in Nat \ {0} /\ DOMAIN rows = 1..n /\ Groups \in Nat \ {0}
    BY QueryAssumption
<1>2. s \in Nat /\ n <= Groups * s
    BY <1>1, CeilDivBounds DEF ChunkSize
<1>3. s # 0
    BY <1>1, <1>2
<1>4. k \in Nat /\ n <= s * k /\ s * k < n + s
    BY <1>1, <1>2, <1>3, CeilDivBounds DEF NumberOfChunks
<1>5. k # 0
    <2> HIDE DEF n, s, k
    <2> QED
        BY <1>1, <1>2, <1>4
<1>6. k <= Groups
    <2>1. s * k < s * Groups + s
        BY <1>1, <1>2, <1>4
    <2> HIDE DEF n, s, k
    <2> QED
        BY <2>1, <1>1, <1>2, <1>3, <1>4, FactorOut
<1>7. ASSUME NEW i \in DOMAIN rows
      PROVE  CeilDiv(i, s) \in 1..k
    <2> DEFINE m == CeilDiv(i, s)
    <2>1. i \in Nat \ {0} /\ i <= n
        BY <1>1
    <2>2. m \in Nat /\ i <= s * m /\ s * m < i + s
        BY <2>1, <1>2, <1>3, CeilDivBounds
    <2>3. m # 0
        <3> HIDE DEF n, s, k, m
        <3> QED
            BY <2>1, <2>2, <1>2
    <2>4. s * m < s * k + s
        BY <2>1, <2>2, <1>1, <1>2, <1>4
    <2> HIDE DEF n, s, k, m
    <2>5. m <= k
        BY <2>2, <2>4, <1>2, <1>3, <1>4, FactorOut
    <2> QED
        BY <2>2, <2>3, <2>5, <1>4 DEF m
<1> QED
    BY <1>1, <1>2, <1>3, <1>4, <1>5, <1>6, <1>7

----------------------------------------------------------------------------
(* The invariant.                                                          *)

\* Whose journal a record belongs to.
OwnerOf(r) == IF r.type = "booking" THEN FirstWith(r.staff) ELSE r.examiner

IsTestSlot(r) == /\ r.type = "slot" /\ r.day \in JournalWindow
                 /\ ~r.activity \/ r.booking # "none"
                 /\ r.booking # "bare"

\* What each query selects, whenever it is answered.
Chosen(dataset, r) ==
    CASE dataset = "personalCommitments" ->
            r.type = "commitment" /\ Touches(r, CommitmentWindow)
      [] dataset = "nonTestActivities" ->
            r.type = "slot" /\ r.activity /\ r.day \in JournalWindow
      [] dataset = "advanceTestSlots" ->
            /\ r.type = "slot" /\ r.vehicle /\ r.day \in AdvanceWindow
            /\ LastDay[r.examiner] > EndDay + 1
      [] dataset = "deployments" ->
            /\ r.type = "deployment" /\ Touches(r, DeploymentWindow)
            /\ LastDay[r.examiner] > 0
      [] dataset = "dsp" ->
            /\ r.type = "booking"
            /\ \E i \in DOMAIN rows : StaffNumber[rows[i]] = r.staff
            /\ r.at \in -(2 * JournalDaysPast) .. JournalEnd

\* An entry is its examiner's, and the query it comes from is no accident.
Placed(e) ==
    /\ e \in EntryType
    /\ e.examiner = OwnerOf(e.record)
    /\ \/ \E dataset \in Datasets :
              /\ Chosen(dataset, e.record)
              /\ e.key = IF dataset = "dsp" THEN "testSlots" ELSE dataset
              /\ e.run = 0
       \/ /\ e.key = "testSlots" /\ e.run \in 1..Groups
          /\ IsTestSlot(e.record) /\ e.examiner \in ExaminersOf(e.run)

Arrived(r) == \E e \in loaded : e.record = r

StateTypes ==
    /\ records \in Contents /\ listings \in Listings
    /\ phase \in {"idle", "examiners", "datasets", "testSlots", "transform", "filter", "failed"}
    /\ rows \in Seq(Examiners)
    /\ awaiting \subseteq Datasets /\ chunks \subseteq 1..Groups
    /\ steady \subseteq records
    /\ changes \in 0..MaxChanges /\ faults \in 0..MaxFaults

\* The journals are there from buildJournals on, made of what is loaded.
JournalsBuilt ==
    journals = IF phase = "filter" THEN [i \in Kept |-> JournalOf(i)] ELSE <<>>

EntriesPlaced ==
    /\ phase \in {"idle", "examiners"} => loaded = {}
    /\ \A e \in loaded : Placed(e)

\* What was there all the time has come with the queries that are answered.
SteadyArrived ==
    /\ phase \in {"datasets", "testSlots", "transform", "filter"} =>
           \A dataset \in Datasets \ awaiting, r \in steady : Chosen(dataset, r) => Arrived(r)
    /\ phase \in {"testSlots", "transform", "filter"} =>
           /\ awaiting = {}
           /\ \A chunk \in 1..NumberOfChunks \ chunks, r \in steady :
                 (IsTestSlot(r) /\ r.examiner \in ExaminersOf(chunk)) => Arrived(r)
    /\ phase \in {"transform", "filter"} => chunks = {}

IInv == StateTypes /\ JournalsBuilt /\ EntriesPlaced /\ SteadyArrived

----------------------------------------------------------------------------
(* What is loaded.                                                         *)

\* What a record is made of, by its type.
LEMMA RecordTypes ==
    ASSUME NEW r \in Records
    PROVE  /\ r.type \in {"slot", "commitment", "deployment", "booking"}
           /\ r.type = "slot" =>
                  /\ r.examiner \in Examiners /\ r.day \in Int
                  /\ r.activity \in BOOLEAN /\ r.vehicle \in BOOLEAN
                  /\ r.booking \in {"none", "complete", "bare"}
           /\ r.type \in {"commitment", "deployment"} => r.examiner \in Examiners
           /\ r.type = "booking" => r.at \in Int
<1>1. r.type \in {"slot", "commitment", "deployment", "booking"}
    BY QueryAssumption
<1>2. ASSUME r.type = "slot"
      PROVE  /\ r.examiner \in Examiners /\ r.day \in Int
             /\ r.activity \in BOOLEAN /\ r.vehicle \in BOOLEAN
             /\ r.booking \in {"none", "complete", "bare"}
    <2>1. r \in Slots(Records)
        BY <1>2 DEF Slots
    <2> QED
        BY <2>1, QueryAssumption
<1>3. ASSUME r.type \in {"commitment", "deployment"}
      PROVE  r.examiner \in Examiners
    <2>1. r \in Commitments(Records) \cup Deployments(Records)
        BY <1>3 DEF Commitments, Deployments
    <2> QED
        BY <2>1, QueryAssumption
<1>4. ASSUME r.type = "booking"
      PROVE  r.at \in Int
    <2>1. r \in Bookings(Records)
        BY <1>4 DEF Bookings
    <2> QED
        BY <2>1, QueryAssumption
<1> QED
    BY <1>1, <1>2, <1>3, <1>4

\* examinerRecords.find finds the first of the rows with the staff number.
LEMMA FirstWithFound ==
    ASSUME rows \in Seq(Examiners), NEW i \in DOMAIN rows
    PROVE  \E k \in DOMAIN rows :
               /\ FirstWith(StaffNumber[rows[i]]) = rows[k]
               /\ StaffNumber[rows[k]] = StaffNumber[rows[i]]
<1> DEFINE staff == StaffNumber[rows[i]]
           With == {k \in DOMAIN rows : StaffNumber[rows[k]] = staff}
           First(k) == /\ StaffNumber[rows[k]] = staff
                       /\ \A j \in 1..(k - 1) : StaffNumber[rows[j]] # staff
<1>1. DOMAIN rows = 1..Len(rows) /\ Len(rows) \in Nat
    OBVIOUS
<1>2. PICK k \in With : \A j \in With : k <= j
    <2>1. With \in SUBSET Int /\ 1 \in Int /\ (\A j \in With : 1 <= j) /\ With # {}
        BY <1>1
    <2> HIDE DEF With
    <2> QED
        BY <2>1, LeastExists
<1>3. k \in DOMAIN rows /\ First(k)
    <2>1. ASSUME NEW j \in 1..(k - 1)
          PROVE  StaffNumber[rows[j]] # staff
        <3>1. j \in DOMAIN rows /\ j < k
            BY <1>1, <1>2
        <3> QED
            BY <3>1, <1>1, <1>2
    <2> QED
        BY <1>2, <2>1
<1> DEFINE found == CHOOSE m \in DOMAIN rows : First(m)
<1>4. found \in DOMAIN rows /\ First(found)
    <2> HIDE DEF First
    <2> QED
        BY <1>3
<1>5. FirstWith(staff) = rows[found]
    BY DEF FirstWith
<1> QED
    BY <1>4, <1>5

EntryOf(dataset, r) ==
    [examiner |-> OwnerOf(r), key |-> IF dataset = "dsp" THEN "testSlots" ELSE dataset,
     record |-> r, run |-> 0]

\* Who is chosen has an owner among the examiners.
LEMMA ChosenPlaced ==
    ASSUME TypeOK, NEW dataset \in Datasets, NEW r \in Records, Chosen(dataset, r)
    PROVE  Placed(EntryOf(dataset, r))
<1> DEFINE e == EntryOf(dataset, r)
<1>1. OwnerOf(r) \in Examiners
    <2>1. rows \in Seq(Examiners)
        BY DEF TypeOK
    <2>2. CASE r.type = "booking"
        <3>1. dataset = "dsp"
            BY <2>2 DEF Chosen, Datasets
        <3>2. PICK i \in DOMAIN rows : StaffNumber[rows[i]] = r.staff
            BY <3>1 DEF Chosen
        <3>3. PICK k \in DOMAIN rows : FirstWith(r.staff) = rows[k]
            BY <2>1, <3>2, FirstWithFound
        <3> QED
            BY <2>1, <2>2, <3>3 DEF OwnerOf
    <2>3. CASE r.type # "booking"
        BY <2>3, RecordTypes DEF OwnerOf
    <2> QED
        BY <2>2, <2>3
<1>2. /\ e.examiner = OwnerOf(r) /\ e.record = r /\ e.run = 0
      /\ e.key = IF dataset = "dsp" THEN "testSlots" ELSE dataset
    BY DEF EntryOf
<1>3. e \in EntryType
    BY <1>1 DEF EntryOf, EntryType
<1> HIDE DEF e
<1>4. Placed(e)
    BY <1>2, <1>3 DEF Placed
<1> QED
    BY <1>4 DEF e

\* A query's answer has an entry for each record chosen, and no other.
LEMMA AnswerIsChosen ==
    ASSUME TypeOK, NEW dataset \in Datasets
    PROVE  Loaded(dataset) = {EntryOf(dataset, r) : r \in {q \in records : Chosen(dataset, q)}}
<1>1. records \subseteq Records
    BY DEF TypeOK, Records
<1>2. CASE dataset = "personalCommitments"
    <2>1. PersonalCommitments = {q \in records : Chosen(dataset, q)}
        BY <1>2 DEF PersonalCommitments, Commitments, Chosen
    <2>2. \A r \in PersonalCommitments :
              EntryOf(dataset, r) = [examiner |-> r.examiner, key |-> dataset, record |-> r, run |-> 0]
        BY <1>2 DEF EntryOf, OwnerOf, PersonalCommitments, Commitments
    <2>3. Loaded(dataset) = Entries(dataset, PersonalCommitments, 0)
        BY <1>2 DEF Loaded
    <2> QED
        BY <2>1, <2>2, <2>3 DEF Entries
<1>3. CASE dataset = "nonTestActivities"
    <2>1. NonTestActivities = {q \in records : Chosen(dataset, q)}
        BY <1>3 DEF NonTestActivities, Slots, Chosen
    <2>2. \A r \in NonTestActivities :
              EntryOf(dataset, r) = [examiner |-> r.examiner, key |-> dataset, record |-> r, run |-> 0]
        BY <1>3 DEF EntryOf, OwnerOf, NonTestActivities, Slots
    <2>3. Loaded(dataset) = Entries(dataset, NonTestActivities, 0)
        BY <1>3 DEF Loaded
    <2> QED
        BY <2>1, <2>2, <2>3 DEF Entries
<1>4. CASE dataset = "advanceTestSlots"
    <2>1. AdvanceTestSlots = {q \in records : Chosen(dataset, q)}
        BY <1>4 DEF AdvanceTestSlots, Slots, Chosen
    <2>2. \A r \in AdvanceTestSlots :
              EntryOf(dataset, r) = [examiner |-> r.examiner, key |-> dataset, record |-> r, run |-> 0]
        BY <1>4 DEF EntryOf, OwnerOf, AdvanceTestSlots, Slots
    <2>3. Loaded(dataset) = Entries(dataset, AdvanceTestSlots, 0)
        BY <1>4 DEF Loaded
    <2> QED
        BY <2>1, <2>2, <2>3 DEF Entries
<1>5. CASE dataset = "deployments"
    <2>1. DeploymentsTouched = {q \in records : Chosen(dataset, q)}
        BY <1>5 DEF DeploymentsTouched, Deployments, Chosen
    <2>2. \A r \in DeploymentsTouched :
              EntryOf(dataset, r) = [examiner |-> r.examiner, key |-> dataset, record |-> r, run |-> 0]
        BY <1>5 DEF EntryOf, OwnerOf, DeploymentsTouched, Deployments
    <2>3. Loaded(dataset) = Entries(dataset, DeploymentsTouched, 0)
        BY <1>5 DEF Loaded
    <2> QED
        BY <2>1, <2>2, <2>3 DEF Entries
<1>6. CASE dataset = "dsp"
    <2> DEFINE B == {b \in Bookings(records) :
                        /\ \E i \in DOMAIN rows : StaffNumber[rows[i]] = b.staff
                        /\ b.at \in -(2 * JournalDaysPast) .. JournalEnd}
    <2>1. B = {q \in records : Chosen(dataset, q)}
        BY <1>6 DEF Bookings, Chosen
    <2>2. \A r \in B : EntryOf(dataset, r) =
              [examiner |-> FirstWith(r.staff), key |-> "testSlots", record |-> r, run |-> 0]
        BY <1>6 DEF EntryOf, OwnerOf, Bookings
    <2>3. Loaded(dataset) =
              {[examiner |-> FirstWith(r.staff), key |-> "testSlots", record |-> r, run |-> 0] :
                  r \in B}
        BY <1>6 DEF Loaded, DSPTestSlots
    <2> HIDE DEF B
    <2> QED
        BY <2>1, <2>2, <2>3
<1> QED
    BY <1>2, <1>3, <1>4, <1>5, <1>6 DEF Datasets

LEMMA AnswerPlaced ==
    ASSUME TypeOK, NEW dataset \in Datasets
    PROVE  /\ \A e \in Loaded(dataset) : Placed(e)
           /\ \A r \in records :
                 Chosen(dataset, r) => \E e \in Loaded(dataset) : e.record = r
<1>1. records \subseteq Records
    BY DEF TypeOK, Records
<1>2. \A r : EntryOf(dataset, r).record = r
    BY DEF EntryOf
<1> QED
    BY <1>1, <1>2, AnswerIsChosen, ChosenPlaced

\* The same of the test slots of one chunk.
LEMMA ChunkPlaced ==
    ASSUME TypeOK, NEW chunk \in chunks
    PROVE  /\ \A e \in Entries("testSlots", TestSlots(ExaminersOf(chunk)), chunk) : Placed(e)
           /\ \A r \in records :
                 (IsTestSlot(r) /\ r.examiner \in ExaminersOf(chunk)) =>
                     \E e \in Entries("testSlots", TestSlots(ExaminersOf(chunk)), chunk) :
                         e.record = r
<1> DEFINE found == TestSlots(ExaminersOf(chunk))
           entry(r) == [examiner |-> r.examiner, key |-> "testSlots", record |-> r, run |-> chunk]
<1>1. records \subseteq Records /\ chunk \in 1..Groups /\ Groups \in Nat
    BY QueryAssumption DEF TypeOK, Records
<1>2. found = {r \in records : IsTestSlot(r) /\ r.examiner \in ExaminersOf(chunk)}
    BY DEF TestSlots, Slots, IsTestSlot
<1>3. ASSUME NEW r \in found
      PROVE  Placed(entry(r))
    <2>1. r \in Records /\ IsTestSlot(r) /\ r.examiner \in ExaminersOf(chunk)
        BY <1>1, <1>2
    <2>2. r.type = "slot" /\ r.examiner \in Examiners
        BY <2>1, RecordTypes DEF IsTestSlot
    <2> DEFINE e == entry(r)
    <2>3. e.examiner = r.examiner /\ e.key = "testSlots" /\ e.record = r /\ e.run = chunk
        OBVIOUS
    <2>4. e \in EntryType
        BY <2>1, <2>2, <1>1 DEF EntryType
    <2>5. e.examiner = OwnerOf(e.record)
        BY <2>2, <2>3 DEF OwnerOf
    <2> HIDE DEF e
    <2>6. Placed(e)
        BY <2>1, <2>3, <2>4, <2>5, <1>1 DEF Placed
    <2> QED
        BY <2>6 DEF e
<1>4. Entries("testSlots", found, chunk) = {entry(r) : r \in found}
    BY DEF Entries
<1>5. \A r : entry(r).record = r
    OBVIOUS
<1> HIDE DEF found, entry
<1> QED
    BY <1>2, <1>3, <1>4, <1>5 DEF found

----------------------------------------------------------------------------
(* The invariant is one.                                                   *)

LEMMA PlacedType ==
    ASSUME NEW e, Placed(e)
    PROVE  e \in EntryType
BY DEF Placed

LEMMA InvType == IInv => TypeOK
<1> SUFFICES ASSUME IInv
             PROVE  TypeOK
    OBVIOUS
<1>1. loaded \subseteq EntryType
    BY PlacedType DEF IInv, EntriesPlaced
<1>2. ASSUME NEW i \in Kept
      PROVE  Number(i) \in Nat
    <2>1. rows[i] \in Examiners /\ Number(i) # NaN
        BY DEF IInv, StateTypes, Kept
    <2>2. StaffNumber[rows[i]] \in DOMAIN Numeric
        BY <2>1, QueryAssumption
    <2> QED
        BY <2>1, <2>2, QueryAssumption DEF Number
<1>3. /\ DOMAIN journals \subseteq DOMAIN rows
      /\ \A i \in DOMAIN journals : /\ journals[i].staffNumber \in Nat
                                   /\ journals[i].entries \subseteq loaded
    <2>1. CASE phase = "filter"
        <3>1. journals = [i \in Kept |-> JournalOf(i)] /\ Kept \subseteq DOMAIN rows
            BY <2>1 DEF IInv, JournalsBuilt, Kept
        <3>2. \A i \in Kept : /\ journals[i].staffNumber = Number(i)
                              /\ journals[i].entries \subseteq loaded
            BY <3>1 DEF JournalOf
        <3> QED
            BY <3>1, <3>2, <1>2
    <2>2. CASE phase # "filter"
        BY <2>2 DEF IInv, JournalsBuilt
    <2> QED
        BY <2>1, <2>2
<1> QED
    BY <1>1, <1>3 DEF IInv, StateTypes, TypeOK

LEMMA InvInit == Init => IInv
<1> SUFFICES ASSUME Init
             PROVE  IInv
    OBVIOUS
<1>1. StateTypes
    BY QueryAssumption DEF Init, StateTypes, Datasets
<1>2. JournalsBuilt /\ EntriesPlaced /\ SteadyArrived
    BY DEF Init, JournalsBuilt, EntriesPlaced, SteadyArrived
<1> QED
    BY <1>1, <1>2 DEF IInv

\* Where an entry belongs depends on the rows of the examiners query only.
LEMMA PlacedSame ==
    ASSUME rows' = rows, NEW e
    PROVE  Placed(e)' <=> Placed(e)
BY DEF Placed, EntryType, Datasets, OwnerOf, FirstWith, Chosen, IsTestSlot, ExaminersOf,
       ChunkSize, CeilDiv, Touches, JournalWindow, AdvanceWindow, CommitmentWindow,
       DeploymentWindow, EndDay, JournalEnd, NextWorkingDay

LEMMA ChosenSame ==
    ASSUME rows' = rows, NEW dataset, NEW r
    PROVE  Chosen(dataset, r)' <=> Chosen(dataset, r)
BY DEF Chosen

LEMMA RowsOfType ==
    ASSUME NEW listing \in Seq(Examiners), NEW result \in RowsOf(listing)
    PROVE  result \in Seq(Examiners)
<1>1. PICK order \in [DOMAIN listing -> DOMAIN listing] :
          result = [i \in DOMAIN listing |-> listing[order[i]]]
    BY DEF RowsOf, Bijection, Injection
<1>2. DOMAIN listing = 1..Len(listing) /\ Len(listing) \in Nat
    OBVIOUS
<1>3. result \in [1..Len(listing) -> Examiners]
    BY <1>1, <1>2
<1> QED
    BY <1>2, <1>3, SeqDef

LEMMA TypesStep == IInv /\ [Next]_vars => StateTypes'
<1> SUFFICES ASSUME IInv, [Next]_vars
             PROVE  StateTypes'
    OBVIOUS
<1> USE QueryAssumption DEF IInv, StateTypes, results, databases
<1>1. CASE SourceChange
    BY <1>1 DEF SourceChange
<1>2. CASE Start
    BY <1>2 DEF Start
<1>3. CASE QueryExaminers
    <2>1. listings \in Seq(Examiners)
        OBVIOUS
    <2>2. rows' \in Seq(Examiners)
        BY <1>3, <2>1, RowsOfType DEF QueryExaminers
    <2> QED
        BY <1>3, <2>2 DEF QueryExaminers
<1>4. ASSUME NEW dataset \in Datasets, DatasetLoaded(dataset)
      PROVE  /\ awaiting' \subseteq Datasets /\ chunks' \subseteq 1..Groups
             /\ phase' \in {phase, "failed", "testSlots"}
    <2>1. CASE awaiting' # {} \/ rows = <<>>
        BY <1>4, <2>1 DEF DatasetLoaded
    <2>2. CASE awaiting' = {} /\ rows # <<>>
        <3>1. NumberOfChunks \in 1..Groups
            BY <2>2, ChunksFit
        <3>2. chunks' = 1..NumberOfChunks /\ phase' = "testSlots"
            BY <1>4, <2>2 DEF DatasetLoaded
        <3> QED
            BY <1>4, <3>1, <3>2 DEF DatasetLoaded
    <2> QED
        BY <2>1, <2>2
<1>5. ASSUME NEW dataset \in Datasets, LoadDataset(dataset)
      PROVE  StateTypes'
    BY <1>4, <1>5 DEF LoadDataset
<1>6. CASE DSPFails
    <2>1. DatasetLoaded("dsp") /\ "dsp" \in Datasets
        BY <1>6 DEF DSPFails, Datasets
    <2> QED
        BY <1>4, <1>6, <2>1 DEF DSPFails
<1>7. ASSUME NEW chunk \in chunks, LoadTestSlots(chunk)
      PROVE  StateTypes'
    BY <1>7 DEF LoadTestSlots
<1>8. CASE BuildJournals
    BY <1>8 DEF BuildJournals
<1>9. CASE QueryFails
    BY <1>9 DEF QueryFails
<1>10. CASE Leave
    BY <1>10 DEF Leave
<1>11. CASE UNCHANGED vars
    BY <1>11 DEF vars
<1> QED
    BY <1>1, <1>2, <1>3, <1>5, <1>6, <1>7, <1>8, <1>9, <1>10, <1>11 DEF Next

LEMMA JournalsStep == IInv /\ [Next]_vars => JournalsBuilt'
<1> SUFFICES ASSUME IInv, [Next]_vars
             PROVE  JournalsBuilt'
    OBVIOUS
<1> DEFINE Built == [i \in Kept |-> JournalOf(i)]
<1>1. ASSUME phase = "filter", UNCHANGED <<phase, rows, loaded, journals>>
      PROVE  JournalsBuilt'
    <2>1. Built' = Built
        BY <1>1 DEF Kept, JournalOf, Number
    <2> QED
        BY <1>1, <2>1 DEF IInv, JournalsBuilt
<1>2. ASSUME phase' # "filter", phase # "filter", UNCHANGED journals
      PROVE  JournalsBuilt'
    BY <1>2 DEF IInv, JournalsBuilt
<1>3. CASE SourceChange \/ UNCHANGED vars
    <2>1. UNCHANGED <<phase, rows, loaded, journals>>
        BY <1>3 DEF SourceChange, results, vars
    <2> QED
        BY <1>1, <1>2, <2>1
<1>4. CASE Start \/ QueryExaminers
    BY <1>2, <1>4 DEF Start, QueryExaminers, results
<1>5. ASSUME NEW dataset, LoadDataset(dataset)
      PROVE  JournalsBuilt'
    BY <1>2, <1>5 DEF LoadDataset, DatasetLoaded
<1>6. CASE DSPFails
    BY <1>2, <1>6 DEF DSPFails, DatasetLoaded
<1>7. ASSUME NEW chunk, LoadTestSlots(chunk)
      PROVE  JournalsBuilt'
    BY <1>2, <1>7 DEF LoadTestSlots
<1>8. CASE BuildJournals
    <2>1. Built' = Built
        BY <1>8 DEF BuildJournals, Kept, JournalOf, Number
    <2> QED
        BY <1>8, <2>1 DEF BuildJournals, JournalsBuilt
<1>9. CASE QueryFails
    BY <1>2, <1>9 DEF QueryFails, results
<1>10. CASE Leave
    BY <1>10 DEF Leave, JournalsBuilt
<1> QED
    BY <1>3, <1>4, <1>5, <1>6, <1>7, <1>8, <1>9, <1>10 DEF Next

LEMMA PlacedStep == IInv /\ [Next]_vars => EntriesPlaced'
<1> SUFFICES ASSUME IInv, [Next]_vars
             PROVE  EntriesPlaced'
    OBVIOUS
<1>0. TypeOK
    BY InvType
<1>1. ASSUME rows' = rows,
             phase' \in {"idle", "examiners"} => loaded' = {},
             \A e \in loaded' \ loaded : Placed(e)
      PROVE  EntriesPlaced'
    <2>1. \A e \in loaded' : Placed(e)
        BY <1>1 DEF IInv, EntriesPlaced
    <2>2. \A e : Placed(e)' <=> Placed(e)
        BY <1>1, PlacedSame
    <2> QED
        BY <1>1, <2>1, <2>2 DEF EntriesPlaced
<1>2. CASE SourceChange \/ Start \/ UNCHANGED vars
    BY <1>1, <1>2 DEF SourceChange, Start, results, vars, IInv, EntriesPlaced
<1>3. CASE QueryExaminers
    BY <1>3 DEF QueryExaminers, IInv, EntriesPlaced
<1>4. ASSUME NEW dataset \in Datasets, LoadDataset(dataset)
      PROVE  EntriesPlaced'
    <2>1. \A e \in loaded' \ loaded : Placed(e)
        BY <1>0, <1>4, AnswerPlaced DEF LoadDataset
    <2> QED
        BY <1>1, <1>4, <2>1 DEF LoadDataset, DatasetLoaded
<1>5. CASE DSPFails
    BY <1>1, <1>5 DEF DSPFails, DatasetLoaded
<1>6. ASSUME NEW chunk \in chunks, LoadTestSlots(chunk)
      PROVE  EntriesPlaced'
    <2>1. \A e \in loaded' \ loaded : Placed(e)
        BY <1>0, <1>6, ChunkPlaced DEF LoadTestSlots
    <2> QED
        BY <1>1, <1>6, <2>1 DEF LoadTestSlots
<1>7. CASE BuildJournals
    BY <1>1, <1>7 DEF BuildJournals
<1>8. CASE QueryFails
    BY <1>1, <1>8 DEF QueryFails, results
<1>9. CASE Leave
    BY <1>9 DEF Leave, EntriesPlaced
<1> QED
    BY <1>2, <1>3, <1>4, <1>5, <1>6, <1>7, <1>8, <1>9 DEF Next

LEMMA SteadyStep == IInv /\ [Next]_vars => SteadyArrived'
<1> SUFFICES ASSUME IInv, [Next]_vars
             PROVE  SteadyArrived'
    OBVIOUS
<1> DEFINE Due(chunk, r) == IsTestSlot(r) /\ r.examiner \in ExaminersOf(chunk)
           Answered == \A dataset \in Datasets \ awaiting, r \in steady :
                           Chosen(dataset, r) => Arrived(r)
           ChunksAnswered == \A chunk \in 1..NumberOfChunks \ chunks, r \in steady :
                                 Due(chunk, r) => Arrived(r)
<1>0. TypeOK /\ steady \subseteq records /\ SteadyArrived
    BY InvType DEF TypeOK, IInv
<1>1. ASSUME phase' \in {"idle", "examiners", "failed"}
      PROVE  SteadyArrived'
    BY <1>1 DEF SteadyArrived
<1>2. ASSUME rows' = rows, loaded \subseteq loaded', steady' \subseteq steady
      PROVE  /\ \A dataset, r : Chosen(dataset, r)' <=> Chosen(dataset, r)
             /\ \A chunk, r : Due(chunk, r)' <=> Due(chunk, r)
             /\ NumberOfChunks' = NumberOfChunks
             /\ \A r \in steady' : r \in steady /\ (Arrived(r) => Arrived(r)')
    <2>1. \A dataset, r : Chosen(dataset, r)' <=> Chosen(dataset, r)
        BY <1>2, ChosenSame
    <2>2. NumberOfChunks' = NumberOfChunks
        BY <1>2 DEF NumberOfChunks, ChunkSize, CeilDiv
    <2>3. \A chunk, r : Due(chunk, r)' <=> Due(chunk, r)
        BY <1>2 DEF ExaminersOf, ChunkSize, CeilDiv, IsTestSlot, JournalWindow, EndDay,
                    JournalEnd, NextWorkingDay
    <2>4. \A r : Arrived(r) => Arrived(r)'
        BY <1>2 DEF Arrived
    <2> QED
        BY <1>2, <2>1, <2>2, <2>3, <2>4
<1>3. ASSUME rows' = rows, loaded' = loaded, steady' \subseteq steady,
             UNCHANGED <<phase, awaiting, chunks>>
      PROVE  SteadyArrived'
    BY <1>0, <1>2, <1>3 DEF SteadyArrived
<1>4. CASE SourceChange \/ UNCHANGED vars
    BY <1>3, <1>4 DEF SourceChange, results, vars
<1>5. CASE Start \/ QueryFails \/ Leave
    BY <1>1, <1>5 DEF Start, QueryFails, Leave
<1>6. CASE QueryExaminers
    BY <1>6 DEF QueryExaminers, SteadyArrived
<1>7. ASSUME NEW dataset \in Datasets, DatasetLoaded(dataset), phase = "datasets",
             rows' = rows, loaded \subseteq loaded', steady' \subseteq steady,
             \A r \in steady' : Chosen(dataset, r) => Arrived(r)'
      PROVE  SteadyArrived'
    <2>1. awaiting' = awaiting \ {dataset}
        BY <1>7 DEF DatasetLoaded
    <2>2. Answered
        BY <1>0, <1>7 DEF SteadyArrived
    <2>3. Answered'
        BY <1>2, <1>7, <2>1, <2>2 DEF Datasets
    <2>4. phase' \in {"datasets", "failed"} \/ (phase' = "testSlots" /\ awaiting' = {}
                                                 /\ chunks' = 1..NumberOfChunks)
        BY <1>7 DEF DatasetLoaded
    <2>5. phase' = "testSlots" => ChunksAnswered'
        BY <1>2, <1>7, <2>4
    <2> QED
        BY <1>1, <2>3, <2>4, <2>5 DEF SteadyArrived
<1>8. ASSUME NEW dataset \in Datasets, LoadDataset(dataset)
      PROVE  SteadyArrived'
    <2>1. /\ DatasetLoaded(dataset) /\ phase = "datasets" /\ rows' = rows
          /\ loaded' = loaded \cup Loaded(dataset) /\ steady' = steady
        BY <1>8 DEF LoadDataset
    <2>2. \A r \in steady' : Chosen(dataset, r) => Arrived(r)'
        BY <1>0, <2>1, AnswerPlaced DEF Arrived
    <2> QED
        BY <1>7, <2>1, <2>2
<1>9. CASE DSPFails
    <2>1. /\ DatasetLoaded("dsp") /\ phase = "datasets" /\ rows' = rows
          /\ loaded' = loaded /\ steady' = steady \ Bookings(Records) /\ "dsp" \in Datasets
        BY <1>9 DEF DSPFails, Datasets
    <2>2. \A r \in steady' : ~Chosen("dsp", r)
        BY <1>0, <2>1 DEF Bookings, Records, Chosen, TypeOK
    <2> QED
        BY <1>7, <2>1, <2>2
<1>10. ASSUME NEW chunk \in chunks, LoadTestSlots(chunk)
       PROVE  SteadyArrived'
    <2>1. /\ phase = "testSlots" /\ rows' = rows /\ steady' = steady /\ awaiting' = awaiting
          /\ loaded' = loaded \cup Entries("testSlots", TestSlots(ExaminersOf(chunk)), chunk)
          /\ chunks' = chunks \ {chunk}
          /\ phase' = IF chunks' = {} THEN "transform" ELSE "testSlots"
        BY <1>10 DEF LoadTestSlots
    <2>2. awaiting = {} /\ Answered /\ ChunksAnswered
        BY <1>0, <2>1 DEF SteadyArrived
    <2>3. \A r \in steady' : Due(chunk, r) => Arrived(r)'
        BY <1>0, <2>1, ChunkPlaced DEF Arrived
    <2>4. Answered'
        BY <1>2, <2>1, <2>2 DEF Datasets
    <2>5. ChunksAnswered'
        <3> SUFFICES ASSUME NEW other \in (1..NumberOfChunks \ chunks)', NEW r \in steady',
                            Due(other, r)'
                     PROVE  Arrived(r)'
            OBVIOUS
        <3>1. /\ other \in 1..NumberOfChunks /\ Due(other, r)
              /\ r \in steady /\ (Arrived(r) => Arrived(r)')
            BY <1>2, <2>1
        <3>2. CASE other = chunk
            BY <3>1, <3>2, <2>3
        <3>3. CASE other # chunk
            BY <3>1, <3>3, <2>1, <2>2
        <3> QED
            BY <3>2, <3>3
    <2> QED
        BY <2>1, <2>2, <2>4, <2>5 DEF SteadyArrived
<1>11. CASE BuildJournals
    BY <1>0, <1>2, <1>11 DEF BuildJournals, SteadyArrived
<1> QED
    BY <1>4, <1>5, <1>6, <1>8, <1>9, <1>10, <1>11 DEF Next

\* What is there when the journals are built.
LEMMA InvHolds == Spec => []IInv
<1>1. IInv /\ [Next]_vars => IInv'
    BY TypesStep, JournalsStep, PlacedStep, SteadyStep DEF IInv
<1> QED
    BY InvInit, <1>1, PTL DEF Spec

\* Each part of the state has its type, and journals are stored under numbers
\* (TypeOK): buildJournals has thrown away the staff numbers that are none.
THEOREM TypeCorrect == Spec => []TypeOK
BY InvHolds, InvType, PTL

----------------------------------------------------------------------------
(* What the journals hold.                                                 *)

LEMMA JournalEntries ==
    ASSUME IInv, NEW i \in DOMAIN journals
    PROVE  /\ phase = "filter" /\ i \in Kept /\ i \in DOMAIN rows /\ rows[i] \in Examiners
           /\ journals[i].entries = {e \in loaded : e.examiner = rows[i]}
<1>1. phase = "filter"
    <2>1. phase # "filter" => journals = <<>>
        BY DEF IInv, JournalsBuilt
    <2> QED
        BY <2>1
<1>2. journals = [k \in Kept |-> JournalOf(k)]
    BY <1>1 DEF IInv, JournalsBuilt
<1>3. i \in Kept /\ journals[i] = JournalOf(i)
    BY <1>2
<1>4. i \in DOMAIN rows
    BY <1>3 DEF Kept
<1> QED
    BY <1>1, <1>3, <1>4 DEF JournalOf, IInv, StateTypes

\* Of the rows that get a journal no other row has the staff number, nor, what
\* is less, the examiner.
LEMMA KeptOnce ==
    ASSUME NEW i \in Kept, NEW j \in DOMAIN rows,
           StaffNumber[rows[i]] = StaffNumber[rows[j]]
    PROVE  i = j
BY DEF Kept, Number

LEMMA OneRecordOneEntry ==
    ASSUME IInv, NEW i \in Kept, NEW a \in loaded, NEW b \in loaded,
           a.examiner = rows[i], b.examiner = rows[i], a.record = b.record
    PROVE  \/ a = b
           \/ /\ BookedActivity(a.record)
              /\ {a.key, b.key} = {"testSlots", "nonTestActivities"}
<1> DEFINE r == a.record
           FromQuery(e, dataset) == /\ Chosen(dataset, r) /\ e.run = 0
                                    /\ e.key = IF dataset = "dsp" THEN "testSlots" ELSE dataset
           FromChunk(e) == /\ e.key = "testSlots" /\ IsTestSlot(r)
                           /\ e.examiner \in ExaminersOf(e.run)
<1>1. /\ a \in EntryType /\ b \in EntryType /\ r \in Records
      /\ FromChunk(a) \/ \E dataset \in Datasets : FromQuery(a, dataset)
      /\ FromChunk(b) \/ \E dataset \in Datasets : FromQuery(b, dataset)
    <2>1. Placed(a) /\ Placed(b)
        BY DEF IInv, EntriesPlaced
    <2>2. a \in EntryType /\ b \in EntryType
        BY <2>1, PlacedType
    <2>3. r \in Records
        BY <2>2 DEF EntryType
    <2> QED
        BY <2>1, <2>2, <2>3 DEF Placed
<1>2. ASSUME a.key = b.key, a.run = b.run
      PROVE  a = b
    BY <1>1, <1>2 DEF EntryType
<1>3. ASSUME NEW e \in {a, b}, FromChunk(e)
      PROVE  e.run = CeilDiv(i, ChunkSize)
    <2>1. PICK j \in DOMAIN rows : CeilDiv(j, ChunkSize) = e.run /\ rows[j] = rows[i]
        BY <1>3 DEF ExaminersOf
    <2>2. j = i
        BY <2>1, KeptOnce
    <2> QED
        BY <2>1, <2>2
<1>4. ASSUME NEW d1 \in Datasets, NEW d2 \in Datasets, Chosen(d1, r), Chosen(d2, r)
      PROVE  d1 = d2 \/ {d1, d2} = {"nonTestActivities", "advanceTestSlots"}
    BY <1>4 DEF Chosen, Datasets
<1>5. ~ (r.type = "slot" /\ r.day \in JournalWindow /\ r.day \in AdvanceWindow)
    BY <1>1, RecordTypes, EndDayType, QueryAssumption DEF JournalWindow, AdvanceWindow
<1>6. ASSUME NEW dataset \in Datasets, Chosen(dataset, r), IsTestSlot(r)
      PROVE  dataset = "nonTestActivities" /\ BookedActivity(r)
    <2>1. r.type = "slot" /\ r.day \in JournalWindow
        BY <1>6 DEF IsTestSlot
    <2>2. dataset = "nonTestActivities"
        BY <1>5, <1>6, <2>1 DEF Chosen, Datasets
    <2>3. r.activity
        BY <1>6, <2>2 DEF Chosen
    <2> QED
        BY <1>1, <1>6, <2>1, <2>2, <2>3, RecordTypes DEF IsTestSlot, BookedActivity
<1>7. CASE FromChunk(a) /\ FromChunk(b)
    BY <1>2, <1>3, <1>7
<1>8. ASSUME NEW d1 \in Datasets, NEW d2 \in Datasets, FromQuery(a, d1), FromQuery(b, d2)
      PROVE  a = b
    <2>1. d1 = d2
        <3>1. SUFFICES ASSUME {d1, d2} = {"nonTestActivities", "advanceTestSlots"}
                       PROVE  FALSE
            BY <1>4, <1>8
        <3>2. Chosen("nonTestActivities", r) /\ Chosen("advanceTestSlots", r)
            BY <3>1, <1>8
        <3> QED
            BY <3>2, <1>5 DEF Chosen
    <2> QED
        BY <1>2, <1>8, <2>1
<1>9. ASSUME NEW dataset \in Datasets,
             \/ FromChunk(a) /\ FromQuery(b, dataset)
             \/ FromChunk(b) /\ FromQuery(a, dataset)
      PROVE  BookedActivity(r) /\ {a.key, b.key} = {"testSlots", "nonTestActivities"}
    BY <1>6, <1>9
<1> HIDE DEF FromQuery, FromChunk
<1> QED
    BY <1>1, <1>7, <1>8, <1>9

LEMMA InvNoEntryTwice == IInv => NoEntryTwice
<1> SUFFICES ASSUME IInv,
                    NEW i \in DOMAIN journals, NEW j \in DOMAIN journals,
                    NEW a \in journals[i].entries, NEW b \in journals[j].entries,
                    a.record = b.record
             PROVE  \/ i = j /\ a = b
                    \/ i = j /\ BookedActivity(a.record)
                       /\ {a.key, b.key} = {"testSlots", "nonTestActivities"}
    BY DEF NoEntryTwice
<1>1. /\ i \in Kept /\ j \in Kept /\ j \in DOMAIN rows
      /\ a \in loaded /\ a.examiner = rows[i]
      /\ b \in loaded /\ b.examiner = rows[j]
    BY JournalEntries
<1>2. a.examiner = b.examiner
    BY <1>1 DEF IInv, EntriesPlaced, Placed
<1>3. i = j
    BY <1>1, <1>2, KeptOnce
<1> QED
    BY <1>1, <1>3, OneRecordOneEntry

LEMMA InvSteadyPresent == IInv => SteadyRecordsPresent
<1> SUFFICES ASSUME IInv, phase = "filter",
                    NEW i \in DOMAIN journals, NEW r \in steady, Concerns(r, rows[i])
             PROVE  InJournal(r, i)
    BY DEF SteadyRecordsPresent
<1> DEFINE e == rows[i]
<1>1. /\ i \in Kept /\ i \in DOMAIN rows /\ e \in Examiners
      /\ journals[i].entries = {entry \in loaded : entry.examiner = e}
    BY JournalEntries
<1>2. r \in Records /\ rows \in Seq(Examiners)
    BY DEF IInv, StateTypes, Records
<1>3. awaiting = {} /\ chunks = {}
    BY DEF IInv, SteadyArrived
<1>4. ASSUME NEW dataset \in Datasets, Chosen(dataset, r)
      PROVE  Arrived(r)
    BY <1>3, <1>4 DEF IInv, SteadyArrived
<1>5. ASSUME IsTestSlot(r), r.examiner = e
      PROVE  Arrived(r)
    <2> DEFINE chunk == CeilDiv(i, ChunkSize)
    <2>1. chunk \in 1..NumberOfChunks
        <3>1. rows # <<>>
            BY <1>1
        <3> QED
            BY <1>1, <1>2, <3>1, ChunksFit
    <2>2. r.examiner \in ExaminersOf(chunk)
        BY <1>1, <1>5 DEF ExaminersOf
    <2> HIDE DEF chunk
    <2> QED
        BY <1>3, <1>5, <2>1, <2>2 DEF IInv, SteadyArrived
<1>6. ASSUME Arrived(r), OwnerOf(r) = e
      PROVE  InJournal(r, i)
    BY <1>1, <1>6 DEF Arrived, InJournal, IInv, EntriesPlaced, Placed
<1>7. /\ JournalDaysPast \in Nat /\ AdvanceDays \in Nat /\ EndDay \in Nat
      /\ r.type = "slot" => r.day \in Int
    BY <1>2, RecordTypes, EndDayType, QueryAssumption
<1>8. CASE r.type = "slot"
    <2>1. OwnerOf(r) = e /\ r.examiner = e
        BY <1>8 DEF OwnerOf, Concerns
    <2>2. CASE r.activity
        <3>1. Chosen("nonTestActivities", r)
            BY <1>8, <2>2 DEF Concerns, Chosen
        <3> QED
            BY <3>1, <1>4, <1>6, <2>1 DEF Datasets
    <2>3. CASE ~r.activity /\ r.day <= EndDay
        <3>1. r.day \in -JournalDaysPast .. AdvanceDays - 1 /\ r.booking # "bare"
            BY <1>8, <2>3 DEF Concerns
        <3>2. r.day \in JournalWindow
            BY <1>7, <1>8, <2>3, <3>1 DEF JournalWindow
        <3>3. IsTestSlot(r)
            BY <1>8, <2>3, <3>1, <3>2 DEF IsTestSlot
        <3> QED
            BY <3>3, <1>5, <1>6, <2>1
    <2>4. CASE ~r.activity /\ ~(r.day <= EndDay)
        <3>1. r.vehicle /\ r.day \in -JournalDaysPast .. AdvanceDays - 1 /\ LastDay[e] > EndDay + 1
            BY <1>8, <2>4 DEF Concerns
        <3>2. r.day \in AdvanceWindow
            BY <1>7, <1>8, <2>4, <3>1 DEF AdvanceWindow
        <3>3. Chosen("advanceTestSlots", r)
            BY <1>8, <2>1, <3>1, <3>2 DEF Chosen
        <3> QED
            BY <3>3, <1>4, <1>6, <2>1 DEF Datasets
    <2> QED
        BY <2>2, <2>3, <2>4
<1>9. CASE r.type = "commitment"
    <2>1. OwnerOf(r) = e /\ Chosen("personalCommitments", r)
        BY <1>9 DEF Concerns, OwnerOf, Chosen
    <2> QED
        BY <2>1, <1>4, <1>6 DEF Datasets
<1>10. CASE r.type = "deployment"
    <2>1. OwnerOf(r) = e /\ Chosen("deployments", r)
        BY <1>10 DEF Concerns, OwnerOf, Chosen
    <2> QED
        BY <2>1, <1>4, <1>6 DEF Datasets
<1>11. CASE r.type = "booking"
    <2>1. StaffNumber[e] = r.staff /\ r.at \in -(2 * JournalDaysPast) .. 2 * EndDay
        BY <1>11 DEF Concerns
    <2>2. Chosen("dsp", r)
        <3>1. r.at \in -(2 * JournalDaysPast) .. JournalEnd
            <4>1. r.at \in Int /\ r.at <= 2 * EndDay
                BY <1>7, <2>1
            <4> QED
                BY <1>7, <2>1, <4>1, EndDayType
        <3> QED
            BY <1>1, <1>11, <2>1, <3>1 DEF Chosen
    <2>3. PICK k \in DOMAIN rows : /\ FirstWith(StaffNumber[e]) = rows[k]
                                   /\ StaffNumber[rows[k]] = StaffNumber[e]
        BY <1>1, <1>2, FirstWithFound
    <2>4. k = i
        BY <1>1, <2>3, KeptOnce
    <2>5. OwnerOf(r) = e
        BY <1>11, <2>1, <2>3, <2>4 DEF OwnerOf
    <2> QED
        BY <2>2, <2>5, <1>4, <1>6 DEF Datasets
<1> QED
    BY <1>2, <1>8, <1>9, <1>10, <1>11, RecordTypes

\* No record is in two journals, nor twice in one (NoEntryTwice), however many
\* examiners and groups there are: a record is its owner's, whose row alone has a
\* journal with that staff number, and the days of two queries that could both have
\* it do not overlap, the activity that replaced a booked test excepted. It is about
\* one record: a slot that changes between two queries is two records.
THEOREM NothingTwice == Spec => []NoEntryTwice
BY InvHolds, InvNoEntryTwice, PTL

\* What was in the databases throughout the query phase and concerns an examiner
\* with a journal is in it (SteadyRecordsPresent): each query has answered when
\* buildJournals runs, each examiner is in one of the chunks, and the days of the
\* detailed and of the advance slots leave no gap, wherever the next working day is.
THEOREM SteadyPresent == Spec => []SteadyRecordsPresent
BY InvHolds, InvSteadyPresent, PTL
=============================================================================
