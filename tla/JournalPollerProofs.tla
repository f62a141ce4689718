------------------------ MODULE JournalPollerProofs ------------------------
(***************************************************************************)
(* Theorems about the journals poller, for every value of its constants.   *)
(***************************************************************************)
EXTENDS JournalPoller, FiniteSetTheorems, TLAPS

LEMMA BatchesNat ==
    ASSUME NEW S \in SUBSET Staff
    PROVE  NumberOfBatches(Cardinality(S)) \in Nat
<1>1. Cardinality(S) \in Nat
  BY FiniteAssumption, FS_Subset, FS_CardinalityType
<1>2. ASSUME NEW n \in Nat, NEW b \in Nat \ {0} PROVE (n + b - 1) \div b \in Nat
  OBVIOUS
<1> QED BY <1>1, <1>2, ConstantsAssumption DEF NumberOfBatches

LEMMA TypeInit == Init => TypeOK
<1> SUFFICES ASSUME Init PROVE TypeOK OBVIOUS
<1>1. examiner \in [Staff -> {"listed", "omitted", "none"}]
  BY ConstantsAssumption DEF Init
<1>2. NoRows \in Table
  BY DEF NoRows, Table, Hash
<1>3. 0 \in 0..LambdaTimeout /\ 0 \in 0..RowAgeCap /\ MinGap \in 0..MinGap
  BY ConstantsAssumption
<1>4. Expired \in 0..Expired
  BY ConstantsAssumption DEF Expired
<1> QED BY <1>1, <1>2, <1>3, <1>4, ConstantsAssumption DEF Init, TypeOK, Phases


\* Ending an invocation keeps every variable of it in its type.
LEMMA TypeEnd ==
    ASSUME TypeOK, NEW c \in Containers, End(c)
    PROVE  /\ pc' \in [Containers -> Phases]
           /\ runAge' \in [Containers -> 0..LambdaTimeout]
           /\ listed' \in [Containers -> SUBSET Staff]
           /\ polled' \in [Containers -> Table]
           /\ builtAge' \in [Containers -> 0..RowAgeCap]
           /\ unscanned' \in [Containers -> SUBSET Staff]
           /\ scanned' \in [Containers -> Table]
           /\ pending' \in [Containers -> SUBSET Staff]
           /\ batches' \in [Containers -> Nat]
           /\ unsaved' \in [Containers -> SUBSET Staff]
<1>1. 0 \in 0..LambdaTimeout /\ 0 \in 0..RowAgeCap
  BY ConstantsAssumption
<1>2. NoRows \in Table
  BY DEF NoRows, Table, Hash
<1> QED BY <1>1, <1>2 DEF End, TypeOK, Phases

\* Starting to save: the changed journals and the number of their batches.
LEMMA TypeSave ==
    ASSUME TypeOK, NEW c \in Containers, NEW known \in Table, SaveJournals(c, known)
    PROVE  /\ pc' \in [Containers -> Phases]
           /\ pending' \in [Containers -> SUBSET Staff]
           /\ batches' \in [Containers -> Nat]
           /\ prevAge' \in [Containers -> 0..Expired]
<1>1. Changed(c, known) \in SUBSET Staff
  BY DEF Changed
<1>2. NumberOfBatches(Cardinality(Changed(c, known))) \in Nat
  BY <1>1, BatchesNat
<1>3. runAge[c] \in 0..Expired
  BY ConstantsAssumption DEF TypeOK, Expired
<1> QED BY <1>1, <1>2, <1>3 DEF SaveJournals, CacheStamp, TypeOK, Phases

\* A write puts polled journals into rows.
LEMMA TypePut ==
    ASSUME TypeOK, NEW c \in Containers, NEW items \in SUBSET Staff, Put(c, items)
    PROVE  journals' \in Table /\ rowAge' \in [Staff -> 0..RowAgeCap]
BY DEF Put, TypeOK, Table

LEMMA TypeStep == TypeOK /\ [Next]_vars => TypeOK'
<1> SUFFICES ASSUME TypeOK, [Next]_vars PROVE TypeOK' OBVIOUS
<1> USE DEF source, table, invocation, built, scan, save, cache, platform
<1>1. ASSUME NEW s \in Staff, SourceChange(s) PROVE TypeOK'
  <2>1. examiner' \in [Staff -> {"listed", "omitted", "none"}]
    BY <1>1, ConstantsAssumption DEF SourceChange, TypeOK
  <2>2. content' \in [Staff -> Contents]
    BY <1>1 DEF SourceChange, TypeOK
  <2>3. changes' \in 0..MaxChanges
    BY <1>1, ConstantsAssumption DEF SourceChange, TypeOK
  <2> QED BY <1>1, <2>1, <2>2, <2>3 DEF SourceChange, TypeOK
<1>2. ASSUME Tick PROVE TypeOK'
  <2>1. runAge' \in [Containers -> 0..LambdaTimeout]
    BY <1>2, ConstantsAssumption DEF Tick, TypeOK
  <2>2. \A a, b \in Nat : a <= b => Lesser(a + 1, b) \in 0..b
    BY DEF Lesser
  <2>3. Expired \in Nat /\ MinGap \in Nat /\ RowAgeCap \in Nat
    BY ConstantsAssumption DEF Expired
  <2>4. prevAge' \in [Containers -> 0..Expired]
    BY <1>2, <2>2, <2>3 DEF Tick, TypeOK
  <2>5. sinceStart' \in 0..MinGap
    BY <1>2, <2>2, <2>3 DEF Tick, TypeOK
  <2>6. builtAge' \in [Containers -> 0..RowAgeCap]
    BY <1>2, <2>2, <2>3 DEF Tick, TypeOK
  <2>7. rowAge' \in [Staff -> 0..RowAgeCap]
    BY <1>2, <2>2, <2>3 DEF Tick, TypeOK
  <2> QED BY <1>2, <2>1, <2>4, <2>5, <2>6, <2>7 DEF Tick, TypeOK
<1>3. ASSUME NEW c \in Containers, Start(c) PROVE TypeOK'
  <2>1. 0 \in 0..MinGap /\ 0 \in 0..LambdaTimeout
    BY ConstantsAssumption
  <2> QED BY <1>3, <2>1 DEF Start, TypeOK, Phases
<1>4. ASSUME NEW c \in Containers, QueryExaminers(c) PROVE TypeOK'
  <2>1. CASE \A s \in Staff : examiner[s] = "none"
    BY <1>4, <2>1, TypeEnd DEF QueryExaminers, TypeOK
  <2>2. CASE ~ \A s \in Staff : examiner[s] = "none"
    BY <1>4, <2>2 DEF QueryExaminers, Listed, TypeOK, Phases
  <2> QED BY <2>1, <2>2
<1>5. ASSUME NEW c \in Containers, BuildJournals(c) PROVE TypeOK'
  <2> DEFINE Journals(read) == [s \in Staff |-> IF s \in listed[c] THEN read[s] ELSE None]
  <2>1. 0 \in 0..RowAgeCap
    BY ConstantsAssumption
  <2>2. PICK read \in [Staff -> Contents] :
          /\ IF read = content THEN UNCHANGED faults ELSE Fault
          /\ polled' = [polled EXCEPT ![c] = Journals(read)]
    BY <1>5 DEF BuildJournals
  <2>3. Journals(read) \in Table
    BY <2>2 DEF Table, Hash
  <2>4. faults' \in 0..MaxFaults
    BY <2>2, ConstantsAssumption DEF Fault, TypeOK
  <2> HIDE DEF Journals
  <2>5. polled' \in [Containers -> Table]
    BY <2>2, <2>3 DEF TypeOK
  <2> QED BY <1>5, <2>1, <2>4, <2>5 DEF BuildJournals, TypeOK, Phases
<1>6. ASSUME NEW c \in Containers, CacheHit(c) PROVE TypeOK'
  <2>1. hashes[c] \in Table
    BY DEF TypeOK
  <2> QED BY <1>6, <2>1, TypeSave DEF CacheHit, TypeOK
<1>7. ASSUME NEW c \in Containers, CacheMiss(c) PROVE TypeOK'
  BY <1>7 DEF CacheMiss, TypeOK, Phases
<1>8. ASSUME NEW c \in Containers, ScanPage(c) PROVE TypeOK'
  <2> DEFINE Read(page) == [s \in Staff |-> IF s \in page THEN journals[s] ELSE scanned[c][s]]
  <2>1. PICK page \in SUBSET unscanned[c] :
          /\ unscanned' = [unscanned EXCEPT ![c] = unscanned[c] \ page]
          /\ IF page = unscanned[c]
             THEN /\ hashes' = [hashes EXCEPT ![c] = Read(page)]
                  /\ scanned' = [scanned EXCEPT ![c] = NoRows]
                  /\ SaveJournals(c, Read(page))
             ELSE /\ scanned' = [scanned EXCEPT ![c] = Read(page)]
                  /\ UNCHANGED <<hashes, pending, batches, pc, prevAge>>
    BY <1>8 DEF ScanPage
  <2>2. Read(page) \in Table /\ NoRows \in Table
    BY DEF TypeOK, Table, Hash, NoRows
  <2>3. unscanned' \in [Containers -> SUBSET Staff]
    BY <2>1 DEF TypeOK
  <2> HIDE DEF Read
  <2>4. UNCHANGED <<source, table, runAge, listed, built, unsaved, platform, changes, faults>>
    BY <1>8 DEF ScanPage
  <2>5. CASE page = unscanned[c]
    <3>1. SaveJournals(c, Read(page))
      BY <2>1, <2>5
    <3>2. /\ pc' \in [Containers -> Phases]
          /\ pending' \in [Containers -> SUBSET Staff]
          /\ batches' \in [Containers -> Nat]
          /\ prevAge' \in [Containers -> 0..Expired]
      BY <2>2, <3>1, TypeSave
    <3>3. hashes' \in [Containers -> Table] /\ scanned' \in [Containers -> Table]
      BY <2>1, <2>2, <2>5 DEF TypeOK
    <3> QED BY <2>3, <2>4, <3>2, <3>3 DEF TypeOK
  <2>6. CASE page # unscanned[c]
    BY <2>1, <2>2, <2>3, <2>4, <2>6 DEF TypeOK
  <2> QED BY <2>5, <2>6
<1>9. Fault => faults' \in 0..MaxFaults
  BY ConstantsAssumption DEF Fault, TypeOK
<1>10. ASSUME NEW c \in Containers, PhaseFails(c) PROVE TypeOK'
  BY <1>9, <1>10, TypeEnd DEF PhaseFails, TypeOK
<1>11. ASSUME NEW c \in Containers, SubmitBatch(c) PROVE TypeOK'
  BY <1>11 DEF SubmitBatch, TypeOK, Phases
<1>12. ASSUME NEW c \in Containers, BatchWritten(c) PROVE TypeOK'
  <2>1. PICK batch \in SUBSET Staff, unprocessed \in SUBSET Staff :
          /\ IF unprocessed = {} THEN UNCHANGED faults ELSE Fault
          /\ Put(c, batch \ unprocessed)
          /\ hashes' = [hashes EXCEPT ![c] =
                [s \in Staff |-> IF s \in batch \ unprocessed
                                 THEN polled[c][s] ELSE hashes[c][s]]]
          /\ pending' = [pending EXCEPT ![c] = pending[c] \ batch]
          /\ unsaved' = [unsaved EXCEPT ![c] = unsaved[c] \cup unprocessed]
    BY <1>12 DEF BatchWritten, Written, TypeOK
  <2>3. journals' \in Table /\ rowAge' \in [Staff -> 0..RowAgeCap]
    BY <2>1, TypePut
  <2>4. hashes' \in [Containers -> Table]
    BY <2>1 DEF TypeOK, Table
  <2>5. faults' \in 0..MaxFaults
    BY <1>9, <2>1 DEF TypeOK
  <2>6. pending' \in [Containers -> SUBSET Staff] /\ unsaved' \in [Containers -> SUBSET Staff]
    BY <2>1 DEF TypeOK
  <2>7. prevAge' \in [Containers -> 0..Expired]
    <3>1. runAge[c] \in 0..Expired
      BY ConstantsAssumption DEF TypeOK, Expired
    <3> QED BY <1>12, <3>1 DEF BatchWritten, CacheStamp, TypeOK
  <2> QED BY <1>12, <2>3, <2>4, <2>5, <2>6, <2>7 DEF BatchWritten, TypeOK, Phases
<1>13. ASSUME NEW c \in Containers, BatchFails(c) PROVE TypeOK'
  <2>1. PICK applied \in SUBSET Staff : Put(c, applied)
    BY <1>13 DEF BatchFails, TypeOK
  <2> QED BY <1>9, <1>13, <2>1, TypePut, TypeEnd DEF BatchFails, TypeOK
<1>14. ASSUME NEW c \in Containers, Finish(c) PROVE TypeOK'
  BY <1>14, TypeEnd DEF Finish, TypeOK
<1>15. ASSUME NEW c \in Containers, Restart(c) PROVE TypeOK'
  <2>1. journals' \in Table /\ rowAge' \in [Staff -> 0..RowAgeCap]
    <3>1. CASE pc[c] = "write"
      <4>1. PICK applied \in SUBSET Staff : Put(c, applied)
        BY <1>15, <3>1 DEF Restart, TypeOK
      <4> QED BY <4>1, TypePut
    <3>2. CASE pc[c] # "write"
      BY <1>15, <3>2 DEF Restart, TypeOK
    <3> QED BY <3>1, <3>2
  <2>2. hashes' \in [Containers -> Table]
    <3>1. NoRows \in Table
      BY DEF NoRows, Table, Hash
    <3> QED BY <1>15, <3>1 DEF Restart, TypeOK
  <2>3. prevAge' \in [Containers -> 0..Expired]
    <3>1. Expired \in 0..Expired
      BY ConstantsAssumption DEF Expired
    <3> QED BY <1>15, <3>1 DEF Restart, TypeOK
  <2> QED BY <1>9, <1>15, <2>1, <2>2, <2>3, TypeEnd DEF Restart, TypeOK
<1>16. CASE UNCHANGED vars
  BY <1>16 DEF vars, TypeOK
<1> QED
  BY <1>1, <1>2, <1>3, <1>4, <1>5, <1>6, <1>7, <1>8, <1>10, <1>11, <1>12, <1>13,
     <1>14, <1>15, <1>16 DEF Next, Proceed

\* Every reachable state of the poller is well typed: no age leaves its cap and
\* no row, cached hash or polled journal is anything but a content or None.
THEOREM TypeCorrect == Spec => []TypeOK
<1>1. Init => TypeOK
  BY TypeInit
<1>2. TypeOK /\ [Next]_vars => TypeOK'
  BY TypeStep
<1> QED BY <1>1, <1>2, PTL DEF Spec


----------------------------------------------------------------------------
(* The hashes cache under a serial schedule.                               *)

LEMMA Ages ==
    /\ MinGap \in Nat /\ LambdaTimeout \in Nat /\ PollerFrequency \in Nat \ {0}
    /\ Expired = 2 * PollerFrequency + LambdaTimeout
    /\ \A a, b \in Int : Lesser(a, b) = IF a < b THEN a ELSE b
BY ConstantsAssumption DEF Expired, Lesser

LEMMA CoherenceInit == Init => CoherenceInv
<1> SUFFICES ASSUME Init PROVE CoherenceInv OBVIOUS
<1>1. \A c \in Containers : pc[c] = "idle" /\ prevAge[c] = Expired
  BY DEF Init
<1>2. sinceStart = MinGap
  BY DEF Init
<1>3. \A x \in Int : Expired >= Lesser(Expired, x)
  BY Ages
<1> QED
  BY <1>1, <1>2, <1>3, Ages DEF CoherenceInv, RunningIsLatest, StampsPrecedeStarts,
     MemoryCoherentOrAged, Aged, SavingIsCoherent, ScanIsCoherent, SaveAccounts,
     NoRedundantWrite

\* A cache that isValid accepts is not aged, hence coherent.
LEMMA HitFromInv == SerialSchedule /\ TypeOK /\ CoherenceInv => HitIsCoherent
<1> SUFFICES ASSUME SerialSchedule, TypeOK, CoherenceInv,
                    NEW c \in Containers, pc[c] = "filter", IsValid(c)
             PROVE  hashes[c] = journals
  BY DEF HitIsCoherent
<1>1. sinceStart = runAge[c]
  BY DEF CoherenceInv, RunningIsLatest
<1>2. runAge[c] \in 0..LambdaTimeout /\ prevAge[c] \in Nat
  BY Ages DEF TypeOK
<1>3. 5 * (prevAge[c] - runAge[c]) <= 6 * PollerFrequency
  BY DEF IsValid, Tolerated
<1>4. ~ Aged(c)
  <2> SUFFICES ASSUME Aged(c) PROVE FALSE OBVIOUS
  <2>1. prevAge[c] >= Lesser(Expired, runAge[c] + 2 * MinGap)
    BY <1>1 DEF Aged
  <2>2. prevAge[c] >= Expired \/ prevAge[c] >= runAge[c] + 2 * MinGap
    BY <2>1, <1>2, Ages
  <2> QED BY <2>2, <1>2, <1>3, Ages DEF SerialSchedule
<1> QED BY <1>4 DEF CoherenceInv, MemoryCoherentOrAged


\* The ages of the latest invocation's container grow with the time since its
\* start, so a cache aged for an invocation is aged when the invocation ends.
LEMMA AgedEnd ==
    ASSUME TypeOK, NEW c \in Containers, Aged(c), pc[c] # "idle",
           pc'[c] = "idle", prevAge'[c] = prevAge[c], sinceStart' = sinceStart
    PROVE  Aged(c)'
<1>1. prevAge[c] >= Lesser(Expired, sinceStart + 2 * MinGap)
  BY DEF Aged
<1>2. prevAge[c] \in Nat /\ sinceStart \in Nat
  BY Ages DEF TypeOK
<1>3. prevAge[c] >= Lesser(Expired, sinceStart + MinGap)
  BY <1>1, <1>2, Ages
<1> QED BY <1>3 DEF Aged

LEMMA CoherenceEnd ==
    ASSUME TypeOK, CoherenceInv, NEW c \in Containers, pc[c] # "idle", End(c),
           journals' = journals, UNCHANGED cache, UNCHANGED platform
    PROVE  CoherenceInv'
<1> USE DEF cache, platform
<1>1. \A d \in Containers : d # c => pc'[d] = pc[d] /\ runAge'[d] = runAge[d]
  BY DEF End, TypeOK
<1>2. pc'[c] = "idle"
  BY DEF End, TypeOK
<1>3. \A d \in Containers : d # c => pc[d] = "idle"
  BY DEF CoherenceInv, RunningIsLatest
<1>4. \A d \in Containers : pc'[d] = "idle"
  BY <1>1, <1>2, <1>3
<1>5. \A d \in Containers : Aged(d) => Aged(d)'
  <2> SUFFICES ASSUME NEW d \in Containers, Aged(d) PROVE Aged(d)' OBVIOUS
  <2>1. CASE d = c
    BY <1>2, <2>1, AgedEnd
  <2>2. CASE d # c
    BY <1>1, <2>2 DEF Aged
  <2> QED BY <2>1, <2>2
<1>6. MemoryCoherentOrAged'
  BY <1>5 DEF CoherenceInv, MemoryCoherentOrAged
<1>7. StampsPrecedeStarts'
  BY DEF CoherenceInv, StampsPrecedeStarts
<1> QED
  BY <1>4, <1>6, <1>7 DEF CoherenceInv, RunningIsLatest, SavingIsCoherent,
     ScanIsCoherent, SaveAccounts, NoRedundantWrite

\* Steps of a running invocation that stay clear of the table, the cache and
\* the save.
LEMMA CoherenceMove ==
    ASSUME TypeOK, CoherenceInv, NEW c \in Containers, NEW phase,
           pc[c] # "idle", pc' = [pc EXCEPT ![c] = phase],
           phase \in {"datasets", "filter"},
           journals' = journals, UNCHANGED cache, UNCHANGED platform, runAge' = runAge,
           \A d \in Containers \ {c} : polled'[d] = polled[d],
           UNCHANGED scan, UNCHANGED save
    PROVE  CoherenceInv'
<1> USE DEF cache, platform, scan, save
<1>1. \A d \in Containers : d # c => pc'[d] = pc[d]
  BY DEF TypeOK
<1>2. pc'[c] = phase /\ phase \notin {"idle", "scan", "save", "write"}
  BY DEF TypeOK
<1>3. \A d \in Containers : pc'[d] = "idle" <=> pc[d] = "idle"
  BY <1>1, <1>2
<1>4. \A d \in Containers : Aged(d) => Aged(d)'
  BY <1>3 DEF Aged
<1>5. RunningIsLatest' /\ StampsPrecedeStarts' /\ MemoryCoherentOrAged'
  BY <1>3, <1>4 DEF CoherenceInv, RunningIsLatest, StampsPrecedeStarts, MemoryCoherentOrAged
<1>6. SavingIsCoherent' /\ ScanIsCoherent'
  BY <1>1, <1>2 DEF CoherenceInv, SavingIsCoherent, ScanIsCoherent
<1>7. SaveAccounts' /\ NoRedundantWrite'
  BY <1>1, <1>2 DEF CoherenceInv, SaveAccounts, NoRedundantWrite
<1> QED BY <1>5, <1>6, <1>7 DEF CoherenceInv

\* The save starts from hashes that are the table's.
LEMMA CoherenceSave ==
    ASSUME TypeOK, CoherenceInv, NEW c \in Containers, pc[c] # "idle",
           SaveJournals(c, journals), hashes'[c] = journals,
           \A d \in Containers \ {c} : hashes'[d] = hashes[d],
           journals' = journals, UNCHANGED platform, runAge' = runAge,
           UNCHANGED <<polled, unsaved>>
    PROVE  CoherenceInv'
<1> USE DEF platform
<1>1. latest = c /\ sinceStart = runAge[c]
  BY DEF CoherenceInv, RunningIsLatest
<1>2. \A d \in Containers : d # c => pc[d] = "idle" /\ pc'[d] = "idle" /\ prevAge'[d] = prevAge[d]
  BY DEF CoherenceInv, RunningIsLatest, SaveJournals, CacheStamp, TypeOK
<1>3. pc'[c] = "save" /\ prevAge'[c] = runAge[c] /\ pending'[c] = Changed(c, journals)
  BY DEF SaveJournals, CacheStamp, TypeOK
<1>4. RunningIsLatest'
  BY <1>1, <1>2 DEF RunningIsLatest
<1>5. StampsPrecedeStarts'
  <2>1. prevAge'[c] >= Lesser(Expired, sinceStart')
    <3>1. runAge[c] \in Nat
      BY Ages DEF TypeOK
    <3> QED BY <1>1, <1>3, <3>1, Ages
  <2> QED BY <1>2, <2>1 DEF CoherenceInv, StampsPrecedeStarts
<1>6. MemoryCoherentOrAged'
  <2>1. \A d \in Containers : d # c => Aged(d)'
    BY <1>1, <1>2 DEF CoherenceInv, MemoryCoherentOrAged, Aged
  <2> QED BY <1>1, <2>1 DEF MemoryCoherentOrAged
<1>7. SavingIsCoherent' /\ ScanIsCoherent'
  BY <1>2, <1>3 DEF SavingIsCoherent, ScanIsCoherent
<1>8. SaveAccounts' /\ NoRedundantWrite'
  BY <1>2, <1>3 DEF SaveAccounts, NoRedundantWrite, Changed
<1> QED BY <1>4, <1>5, <1>6, <1>7, <1>8 DEF CoherenceInv


LEMMA CoherenceTick ==
    ASSUME SerialSchedule, TypeOK, CoherenceInv, Tick
    PROVE  CoherenceInv'
<1>1. /\ UNCHANGED <<journals, pc, polled, scan, save, hashes, latest>>
      /\ \A c \in Containers : pc[c] # "idle" =>
            runAge[c] < LambdaTimeout /\ runAge'[c] = runAge[c] + 1
      /\ \A c \in Containers : prevAge'[c] = Lesser(prevAge[c] + 1, Expired)
      /\ sinceStart' = Lesser(sinceStart + 1, MinGap)
  BY DEF Tick
<1>2. \A c \in Containers : runAge[c] \in Nat /\ prevAge[c] \in Nat
  BY Ages DEF TypeOK
<1>3. sinceStart \in Nat
  BY Ages DEF TypeOK
<1>4. RunningIsLatest'
  <2> SUFFICES ASSUME NEW c \in Containers, pc'[c] # "idle"
               PROVE  latest' = c /\ sinceStart' = runAge'[c]
    BY DEF RunningIsLatest
  <2>1. pc[c] # "idle"
    BY <1>1
  <2>2. latest = c /\ sinceStart = runAge[c]
    BY <2>1 DEF CoherenceInv, RunningIsLatest
  <2>3. Lesser(sinceStart + 1, MinGap) = sinceStart + 1
    BY <1>1, <1>2, <2>1, <2>2, Ages DEF SerialSchedule
  <2> QED BY <1>1, <2>1, <2>2, <2>3
<1>5. \A x, y, m \in Nat :
        x >= Lesser(Expired, y + m) =>
            Lesser(x + 1, Expired) >= Lesser(Expired, Lesser(y + 1, MinGap) + m)
  BY Ages
<1>6. StampsPrecedeStarts'
  <2> SUFFICES ASSUME NEW c \in Containers
               PROVE  prevAge'[c] >= Lesser(Expired, sinceStart')
    BY DEF StampsPrecedeStarts
  <2>1. prevAge[c] >= Lesser(Expired, sinceStart + 0)
    BY <1>3 DEF CoherenceInv, StampsPrecedeStarts
  <2>2. prevAge'[c] >= Lesser(Expired, Lesser(sinceStart + 1, MinGap) + 0)
    BY <1>1, <1>2, <1>3, <1>5, <2>1
  <2>3. Lesser(sinceStart + 1, MinGap) \in Nat
    BY <1>3, Ages
  <2> QED BY <1>1, <2>2, <2>3
<1>7. MemoryCoherentOrAged'
  <2> SUFFICES ASSUME NEW c \in Containers, Aged(c) PROVE Aged(c)'
    BY <1>1 DEF CoherenceInv, MemoryCoherentOrAged
  <2> DEFINE gap == IF pc[c] = "idle" THEN MinGap ELSE 2 * MinGap
  <2>1. gap \in Nat
    BY Ages
  <2>2. prevAge[c] >= Lesser(Expired, sinceStart + gap)
    BY DEF Aged
  <2>3. prevAge'[c] >= Lesser(Expired, Lesser(sinceStart + 1, MinGap) + gap)
    BY <1>1, <1>2, <1>3, <1>5, <2>1, <2>2
  <2> QED BY <1>1, <2>3 DEF Aged
<1>8. SavingIsCoherent' /\ ScanIsCoherent' /\ SaveAccounts' /\ NoRedundantWrite'
  BY <1>1 DEF CoherenceInv, SavingIsCoherent, ScanIsCoherent, SaveAccounts,
     NoRedundantWrite, scan, save
<1> QED BY <1>4, <1>6, <1>7, <1>8 DEF CoherenceInv

\* A start finds every container idle, and puts one more gap between the stamps
\* of all other containers and the latest start.
LEMMA CoherenceStart ==
    ASSUME SerialSchedule, TypeOK, CoherenceInv, NEW c \in Containers, Start(c)
    PROVE  CoherenceInv'
<1>1. /\ sinceStart >= MinGap /\ sinceStart' = 0 /\ latest' = c
      /\ pc'[c] = "examiners"
      /\ \A d \in Containers \ {c} : pc'[d] = pc[d]
      /\ runAge'[c] = 0
      /\ UNCHANGED <<journals, polled, scan, save, prevAge, hashes>>
  BY DEF Start, TypeOK, built, table, cache
<1>2. sinceStart = MinGap
  <2>1. sinceStart \in 0..MinGap
    BY DEF TypeOK
  <2> QED BY <1>1, <2>1, Ages
<1>3. \A d \in Containers : pc[d] = "idle" /\ runAge[d] \in Nat /\ prevAge[d] \in Nat
  BY <1>2, Ages DEF TypeOK, CoherenceInv, RunningIsLatest, SerialSchedule
<1>4. RunningIsLatest'
  BY <1>1, <1>3 DEF RunningIsLatest
<1>5. StampsPrecedeStarts'
  <2>1. \A d \in Containers : prevAge[d] >= Lesser(Expired, 0)
    BY <1>3, Ages
  <2> QED BY <1>1, <2>1 DEF StampsPrecedeStarts
<1>6. MemoryCoherentOrAged'
  <2>1. \A d \in Containers : Aged(d) => prevAge[d] >= Lesser(Expired, 2 * MinGap)
    BY <1>2, <1>3, Ages DEF Aged
  <2>2. \A d \in Containers : d # latest => Aged(d)
    BY DEF CoherenceInv, MemoryCoherentOrAged
  <2>3. \A d \in Containers \ {c} : prevAge[d] >= Lesser(Expired, MinGap)
    BY <1>2 DEF CoherenceInv, StampsPrecedeStarts
  <2>4. \A d \in Containers \ {c} : Aged(d)'
    BY <1>1, <1>3, <2>3, Ages DEF Aged
  <2>5. Aged(c) => Aged(c)'
    BY <1>1, <2>1, Ages DEF Aged
  <2> QED BY <1>1, <2>4, <2>5 DEF CoherenceInv, MemoryCoherentOrAged
<1>7. SavingIsCoherent' /\ ScanIsCoherent' /\ SaveAccounts' /\ NoRedundantWrite'
  BY <1>1, <1>3 DEF SavingIsCoherent, ScanIsCoherent, SaveAccounts, NoRedundantWrite
<1> QED BY <1>4, <1>5, <1>6, <1>7 DEF CoherenceInv


LEMMA CoherenceScanPage ==
    ASSUME TypeOK, CoherenceInv, NEW c \in Containers, ScanPage(c)
    PROVE  CoherenceInv'
<1> DEFINE Read(page) == [s \in Staff |-> IF s \in page THEN journals[s] ELSE scanned[c][s]]
<1>1. /\ pc[c] = "scan"
      /\ UNCHANGED <<source, table, runAge, listed, built, unsaved, platform, changes, faults>>
  BY DEF ScanPage
<1>2. PICK page \in SUBSET unscanned[c] :
        /\ unscanned' = [unscanned EXCEPT ![c] = unscanned[c] \ page]
        /\ IF page = unscanned[c]
           THEN /\ hashes' = [hashes EXCEPT ![c] = Read(page)]
                /\ scanned' = [scanned EXCEPT ![c] = NoRows]
                /\ SaveJournals(c, Read(page))
           ELSE /\ scanned' = [scanned EXCEPT ![c] = Read(page)]
                /\ UNCHANGED <<hashes, pending, batches, pc, prevAge>>
  BY DEF ScanPage
<1>3. \A s \in Staff : s \notin unscanned[c] \ page => Read(page)[s] = journals[s]
  BY <1>1 DEF CoherenceInv, ScanIsCoherent
<1>4. journals \in Table
  BY DEF TypeOK
<1>5. CASE page = unscanned[c]
  <2>1. Read(page) = journals
    BY <1>3, <1>4, <1>5 DEF Table
  <2> HIDE DEF Read
  <2>2. SaveJournals(c, journals)
    BY <1>2, <1>5, <2>1
  <2>3. hashes'[c] = journals /\ \A d \in Containers \ {c} : hashes'[d] = hashes[d]
    BY <1>2, <1>5, <2>1 DEF TypeOK
  <2> QED BY <1>1, <2>2, <2>3, CoherenceSave DEF table, built
<1>6. CASE page # unscanned[c]
  <2>1. /\ UNCHANGED <<journals, hashes, pending, pc, prevAge, runAge, polled, unsaved>>
        /\ UNCHANGED platform
    BY <1>1, <1>2, <1>6 DEF table, built
  <2>2. scanned'[c] = Read(page) /\ \A d \in Containers \ {c} : scanned'[d] = scanned[d]
    BY <1>2, <1>6 DEF TypeOK
  <2>3. /\ unscanned'[c] = unscanned[c] \ page
        /\ \A d \in Containers \ {c} : unscanned'[d] = unscanned[d]
    BY <1>2 DEF TypeOK
  <2> HIDE DEF Read
  <2>4. ScanIsCoherent'
    BY <1>3, <2>1, <2>2, <2>3 DEF CoherenceInv, ScanIsCoherent
  <2> QED
    BY <2>1, <2>4 DEF platform, CoherenceInv, RunningIsLatest, StampsPrecedeStarts,
       MemoryCoherentOrAged, Aged, SavingIsCoherent, SaveAccounts, NoRedundantWrite
<1> QED BY <1>5, <1>6

\* The table and the writer's memory take the same hashes, every other
\* container's memory is aged.
LEMMA CoherenceBatchWritten ==
    ASSUME TypeOK, CoherenceInv, NEW c \in Containers, BatchWritten(c)
    PROVE  CoherenceInv'
<1>1. PICK batch \in SUBSET Staff, unprocessed \in SUBSET Staff :
        /\ Put(c, batch \ unprocessed)
        /\ hashes' = [hashes EXCEPT ![c] =
              [s \in Staff |-> IF s \in batch \ unprocessed
                               THEN polled[c][s] ELSE hashes[c][s]]]
        /\ pending' = [pending EXCEPT ![c] = pending[c] \ batch]
        /\ unsaved' = [unsaved EXCEPT ![c] = unsaved[c] \cup unprocessed]
  BY DEF BatchWritten, Written, TypeOK
<1>2. /\ pc[c] = "write" /\ pc'[c] = "save" /\ prevAge'[c] = runAge[c]
      /\ \A d \in Containers \ {c} : pc'[d] = pc[d] /\ prevAge'[d] = prevAge[d]
      /\ UNCHANGED <<runAge, polled, scan, platform>>
  BY DEF BatchWritten, CacheStamp, TypeOK, built
<1>3. latest = c /\ sinceStart = runAge[c] /\ \A d \in Containers \ {c} : pc[d] = "idle"
  BY <1>2 DEF CoherenceInv, RunningIsLatest
<1>4. hashes[c] = journals
  BY <1>2 DEF CoherenceInv, SavingIsCoherent
<1>5. journals' = [s \in Staff |-> IF s \in batch \ unprocessed
                                   THEN polled[c][s] ELSE journals[s]]
  BY <1>1 DEF Put
<1>6. hashes'[c] = journals'
  BY <1>1, <1>4, <1>5 DEF TypeOK
<1>7. RunningIsLatest'
  BY <1>2, <1>3 DEF RunningIsLatest, platform
<1>8. StampsPrecedeStarts'
  <2>1. runAge[c] >= Lesser(Expired, runAge[c])
    BY Ages DEF TypeOK
  <2> QED BY <1>2, <1>3, <2>1 DEF CoherenceInv, StampsPrecedeStarts, platform
<1>9. MemoryCoherentOrAged'
  <2>1. \A d \in Containers \ {c} : Aged(d)'
    BY <1>2, <1>3 DEF CoherenceInv, MemoryCoherentOrAged, Aged, platform
  <2> QED BY <1>2, <1>3, <1>6, <2>1 DEF MemoryCoherentOrAged, platform
<1>10. SavingIsCoherent' /\ ScanIsCoherent'
  BY <1>2, <1>3, <1>6 DEF SavingIsCoherent, ScanIsCoherent
<1>11. pending'[c] = pending[c] \ batch /\ unsaved'[c] = unsaved[c] \cup unprocessed
  BY <1>1 DEF TypeOK
<1>12. SaveAccounts'
  <2>1. \A s \in Staff : \/ polled[c][s] = None
                         \/ s \in pending'[c] \cup unsaved'[c]
                         \/ journals'[s] = polled[c][s]
    BY <1>2, <1>5, <1>11 DEF CoherenceInv, SaveAccounts
  <2> QED BY <1>2, <1>3, <2>1 DEF SaveAccounts
<1>13. NoRedundantWrite'
  <2>1. \A s \in pending'[c] : s \in Staff /\ journals'[s] # polled[c][s]
    BY <1>2, <1>5, <1>11 DEF CoherenceInv, NoRedundantWrite, TypeOK
  <2> QED BY <1>2, <1>3, <2>1 DEF NoRedundantWrite
<1> QED BY <1>7, <1>8, <1>9, <1>10, <1>12, <1>13 DEF CoherenceInv

\* A container that restarts forgets its cache; what its write left in the table
\* is news only to caches that are aged.
LEMMA CoherenceRestart ==
    ASSUME TypeOK, CoherenceInv, NEW c \in Containers, Restart(c)
    PROVE  CoherenceInv'
<1>1. /\ pc'[c] = "idle" /\ prevAge'[c] = Expired
      /\ \A d \in Containers \ {c} : /\ pc'[d] = pc[d] /\ prevAge'[d] = prevAge[d]
                                     /\ runAge'[d] = runAge[d] /\ hashes'[d] = hashes[d]
                                     /\ polled'[d] = polled[d] /\ pending'[d] = pending[d]
                                     /\ unsaved'[d] = unsaved[d] /\ scanned'[d] = scanned[d]
                                     /\ unscanned'[d] = unscanned[d]
      /\ UNCHANGED <<sinceStart, latest>>
  BY DEF Restart, End, TypeOK, platform
<1>2. pc[c] # "write" => journals' = journals
  BY DEF Restart, table
<1>3. pc[c] = "write" => latest = c /\ \A d \in Containers \ {c} : pc[d] = "idle"
  BY DEF CoherenceInv, RunningIsLatest
<1>4. RunningIsLatest'
  BY <1>1 DEF CoherenceInv, RunningIsLatest
<1>5. \A x \in Int : Expired >= Lesser(Expired, x)
  BY Ages
<1>6. sinceStart \in Nat
  BY Ages DEF TypeOK
<1>7. StampsPrecedeStarts'
  BY <1>1, <1>5, <1>6 DEF CoherenceInv, StampsPrecedeStarts
<1>8. MemoryCoherentOrAged'
  <2>1. Aged(c)'
    BY <1>1, <1>5, <1>6, Ages DEF Aged
  <2>2. \A d \in Containers \ {c} : Aged(d) => Aged(d)'
    BY <1>1 DEF Aged
  <2>3. \A d \in Containers \ {c} : Aged(d)' \/ (latest' = d /\ hashes'[d] = journals')
    BY <1>1, <1>2, <1>3, <2>2 DEF CoherenceInv, MemoryCoherentOrAged
  <2> QED BY <2>1, <2>3 DEF MemoryCoherentOrAged
<1>9. SavingIsCoherent' /\ ScanIsCoherent' /\ SaveAccounts' /\ NoRedundantWrite'
  BY <1>1, <1>2, <1>3 DEF CoherenceInv, SavingIsCoherent, ScanIsCoherent, SaveAccounts,
     NoRedundantWrite
<1> QED BY <1>4, <1>7, <1>8, <1>9 DEF CoherenceInv

LEMMA CoherenceStep ==
    SerialSchedule /\ CleanFailures /\ TypeOK /\ CoherenceInv /\ [Next]_vars
        => CoherenceInv'
<1> SUFFICES ASSUME SerialSchedule, CleanFailures, TypeOK, CoherenceInv, [Next]_vars
             PROVE  CoherenceInv'
  OBVIOUS
<1>1. ASSUME NEW s \in Staff, SourceChange(s) PROVE CoherenceInv'
  BY <1>1 DEF SourceChange, table, invocation, built, scan, save, cache, platform,
     CoherenceInv, RunningIsLatest, StampsPrecedeStarts, MemoryCoherentOrAged, Aged,
     SavingIsCoherent, ScanIsCoherent, SaveAccounts, NoRedundantWrite
<1>2. ASSUME Tick PROVE CoherenceInv'
  BY <1>2, CoherenceTick
<1>3. ASSUME NEW c \in Containers, Start(c) PROVE CoherenceInv'
  BY <1>3, CoherenceStart
<1>4. ASSUME NEW c \in Containers, QueryExaminers(c) PROVE CoherenceInv'
  <2>1. CASE \A s \in Staff : examiner[s] = "none"
    BY <1>4, <2>1, CoherenceEnd DEF QueryExaminers, table
  <2>2. CASE ~ \A s \in Staff : examiner[s] = "none"
    <3>1. pc' = [pc EXCEPT ![c] = "datasets"]
      BY <1>4, <2>2 DEF QueryExaminers
    <3>2. /\ pc[c] # "idle" /\ journals' = journals /\ runAge' = runAge
          /\ UNCHANGED <<cache, platform, scan, save, polled>>
      BY <1>4, <2>2 DEF QueryExaminers, table, built
    <3> QED BY <3>1, <3>2, CoherenceMove
  <2> QED BY <2>1, <2>2
<1>5. ASSUME NEW c \in Containers, BuildJournals(c) PROVE CoherenceInv'
  <2>1. pc' = [pc EXCEPT ![c] = "filter"]
    BY <1>5 DEF BuildJournals
  <2>2. /\ pc[c] # "idle" /\ journals' = journals /\ runAge' = runAge
        /\ UNCHANGED <<cache, platform, scan, save>>
        /\ \A d \in Containers \ {c} : polled'[d] = polled[d]
    BY <1>5 DEF BuildJournals, table, TypeOK
  <2> QED BY <2>1, <2>2, CoherenceMove
<1>6. ASSUME NEW c \in Containers, CacheHit(c) PROVE CoherenceInv'
  <2>1. hashes[c] = journals
    BY <1>6, HitFromInv DEF CacheHit, HitIsCoherent
  <2>2. SaveJournals(c, journals) /\ pc[c] # "idle"
    BY <1>6, <2>1 DEF CacheHit
  <2>3. UNCHANGED <<journals, hashes, platform, runAge, polled, unsaved>>
    BY <1>6 DEF CacheHit, table, built
  <2> QED BY <2>1, <2>2, <2>3, CoherenceSave
<1>7. ASSUME NEW c \in Containers, CacheMiss(c) PROVE CoherenceInv'
  <2>1. /\ pc[c] = "filter" /\ pc'[c] = "scan" /\ unscanned'[c] = Staff
        /\ \A d \in Containers \ {c} : pc'[d] = pc[d] /\ unscanned'[d] = unscanned[d]
        /\ UNCHANGED <<journals, runAge, polled, scanned, pending, unsaved, prevAge,
                       hashes, sinceStart, latest>>
    BY <1>7 DEF CacheMiss, TypeOK, table, built, save, cache, platform
  <2>2. \A d \in Containers : pc'[d] = "idle" <=> pc[d] = "idle"
    BY <2>1
  <2>3. RunningIsLatest' /\ StampsPrecedeStarts' /\ MemoryCoherentOrAged'
    BY <2>1, <2>2 DEF CoherenceInv, RunningIsLatest, StampsPrecedeStarts,
       MemoryCoherentOrAged, Aged
  <2>4. SavingIsCoherent' /\ ScanIsCoherent' /\ SaveAccounts' /\ NoRedundantWrite'
    BY <2>1 DEF CoherenceInv, SavingIsCoherent, ScanIsCoherent, SaveAccounts,
       NoRedundantWrite
  <2> QED BY <2>3, <2>4 DEF CoherenceInv
<1>8. ASSUME NEW c \in Containers, ScanPage(c) PROVE CoherenceInv'
  BY <1>8, CoherenceScanPage
<1>9. ASSUME NEW c \in Containers, PhaseFails(c) PROVE CoherenceInv'
  BY <1>9, CoherenceEnd DEF PhaseFails, table
<1>10. ASSUME NEW c \in Containers, SubmitBatch(c) PROVE CoherenceInv'
  <2>1. /\ pc[c] = "save" /\ pc'[c] = "write"
        /\ \A d \in Containers \ {c} : pc'[d] = pc[d]
        /\ UNCHANGED <<journals, runAge, polled, scan, save, prevAge, hashes,
                       sinceStart, latest>>
    BY <1>10 DEF SubmitBatch, TypeOK, table, built, cache, platform
  <2>2. \A d \in Containers : pc'[d] = "idle" <=> pc[d] = "idle"
    BY <2>1
  <2>3. RunningIsLatest' /\ StampsPrecedeStarts' /\ MemoryCoherentOrAged'
    BY <2>1, <2>2 DEF CoherenceInv, RunningIsLatest, StampsPrecedeStarts,
       MemoryCoherentOrAged, Aged
  <2>4. SavingIsCoherent' /\ ScanIsCoherent' /\ SaveAccounts' /\ NoRedundantWrite'
    BY <2>1 DEF CoherenceInv, SavingIsCoherent, ScanIsCoherent, SaveAccounts,
       NoRedundantWrite, scan, save
  <2> QED BY <2>3, <2>4 DEF CoherenceInv
<1>11. ASSUME NEW c \in Containers, BatchWritten(c) PROVE CoherenceInv'
  BY <1>11, CoherenceBatchWritten
<1>12. ASSUME NEW c \in Containers, BatchFails(c) PROVE CoherenceInv'
  <2>1. Put(c, {})
    BY <1>12 DEF BatchFails, CleanFailures
  <2>2. journals' = journals
    BY <2>1 DEF Put, TypeOK, Table
  <2> QED BY <1>12, <2>2, CoherenceEnd DEF BatchFails
<1>13. ASSUME NEW c \in Containers, Finish(c) PROVE CoherenceInv'
  BY <1>13, CoherenceEnd DEF Finish, table
<1>14. ASSUME NEW c \in Containers, Restart(c) PROVE CoherenceInv'
  BY <1>14, CoherenceRestart
<1>15. CASE UNCHANGED vars
  BY <1>15 DEF vars, table, invocation, built, scan, save, cache, platform,
     CoherenceInv, RunningIsLatest, StampsPrecedeStarts, MemoryCoherentOrAged, Aged,
     SavingIsCoherent, ScanIsCoherent, SaveAccounts, NoRedundantWrite
<1> QED
  BY <1>1, <1>2, <1>3, <1>4, <1>5, <1>6, <1>7, <1>8, <1>9, <1>10, <1>11, <1>12,
     <1>13, <1>14, <1>15 DEF Next, Proceed

\* Under a serial schedule, and if a batch write that throws has written nothing, the
\* strengthened invariant holds throughout: no order of the invocations of any number
\* of containers, failures, throttled writes and restarts brings a usable cache and
\* the table apart.
THEOREM CoherenceHolds ==
    ASSUME SerialSchedule, CleanFailures
    PROVE  Spec => []CoherenceInv
<1>1. Init => CoherenceInv
  BY CoherenceInit
<1>2. TypeOK /\ CoherenceInv /\ [Next]_vars => CoherenceInv'
  BY CoherenceStep
<1>3. Spec => []TypeOK
  BY TypeCorrect
<1> QED BY <1>1, <1>2, <1>3, PTL DEF Spec

\* Under a serial schedule, and if a batch write that throws has written nothing,
\* hashes taken from memory are the table's.
THEOREM CacheHitsAreCoherent ==
    ASSUME SerialSchedule, CleanFailures
    PROVE  Spec => []HitIsCoherent
<1>1. TypeOK /\ CoherenceInv => HitIsCoherent
  BY HitFromInv
<1>2. (Spec => []TypeOK) /\ (Spec => []CoherenceInv)
  BY TypeCorrect, CoherenceHolds
<1> QED BY <1>1, <1>2, PTL

\* Under a serial schedule, and if a batch write that throws has written nothing, a
\* save loses no journal.
THEOREM SavesAreExact ==
    ASSUME SerialSchedule, CleanFailures
    PROVE  Spec => []SaveAccounts
<1>1. CoherenceInv => SaveAccounts
  BY DEF CoherenceInv
<1>2. Spec => []CoherenceInv
  BY CoherenceHolds
<1> QED BY <1>1, <1>2, PTL

\* Under a serial schedule, and if a batch write that throws has written nothing, a
\* save repeats no journal: what it is about to write differs from the table.
THEOREM SavesAreNeeded ==
    ASSUME SerialSchedule, CleanFailures
    PROVE  Spec => []NoRedundantWrite
<1>1. CoherenceInv => NoRedundantWrite
  BY DEF CoherenceInv
<1>2. Spec => []CoherenceInv
  BY CoherenceHolds
<1> QED BY <1>1, <1>2, PTL

\* On the same two assumptions, only the container of the immediately preceding
\* invocation can find its cache valid: isValid tells from the time alone that
\* another container ran in between.
THEOREM HitsAreSubsequent ==
    ASSUME SerialSchedule, CleanFailures
    PROVE  Spec => HitIsImmediatelySubsequent
<1>1. ASSUME TypeOK, CoherenceInv, NEW c \in Containers, Start(c), Tolerated(prevAge[c])
      PROVE  latest = c
  <2> SUFFICES ASSUME Aged(c) PROVE FALSE
    BY <1>1 DEF CoherenceInv, MemoryCoherentOrAged
  <2>1. prevAge[c] >= Lesser(Expired, sinceStart + MinGap) /\ sinceStart >= MinGap
    BY <1>1 DEF Aged, Start
  <2>2. prevAge[c] \in Nat /\ sinceStart \in Nat
    BY <1>1, Ages DEF TypeOK
  <2>3. prevAge[c] >= Expired \/ prevAge[c] >= 2 * MinGap
    BY <2>1, <2>2, Ages
  <2>4. 5 * prevAge[c] <= 6 * PollerFrequency
    BY <1>1 DEF Tolerated
  <2> QED BY <2>2, <2>3, <2>4, Ages DEF SerialSchedule
<1>2. TypeOK /\ CoherenceInv =>
        [\A c \in Containers : Start(c) /\ Tolerated(prevAge[c]) => latest = c]_vars
  BY <1>1
<1>3. (Spec => []TypeOK) /\ (Spec => []CoherenceInv)
  BY TypeCorrect, CoherenceHolds
<1> QED BY <1>2, <1>3, PTL DEF HitIsImmediatelySubsequent

=============================================================================
