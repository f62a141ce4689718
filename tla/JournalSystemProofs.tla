------------------------ MODULE JournalSystemProofs ------------------------
(***************************************************************************)
(* Theorems about the journals table with both of its writers, for every   *)
(* value of the constants and any schedule of the two.                     *)
(***************************************************************************)
EXTENDS JournalSystem, JournalPollerProofs

LEMMA SystemTypeInit == SystemInit => SystemTypeOK
BY TypeInit, Ages DEF SystemInit, SystemTypeOK

\* The reaper's steps keep the poller's types.
LEMMA ReaperTypes ==
    ASSUME TypeOK, ReaperStart \/ ReaperProceed \/ ReaperStops \/ \E s \in Staff : RemoveFails(s)
    PROVE  TypeOK'
<1>1. CASE UNCHANGED vars
  <2>1. TypeOK /\ [Next]_vars
      BY <1>1
  <2>2. QED  BY <2>1, TypeStep
<1>2. ASSUME UNCHANGED <<source, table, invocation, cache, platform, changes>>, Fault
      PROVE  TypeOK'
  <2>1. faults' \in 0..MaxFaults
      BY <1>2, ConstantsAssumption DEF Fault, TypeOK
  <2>2. QED
      BY <1>2, <2>1 DEF TypeOK, source, table, invocation, built, scan, save, cache, platform
<1>3. ASSUME NEW s \in Staff, RemoveJournal(s) PROVE TypeOK'
  <2>1. journals' \in Table /\ rowAge' \in [Staff -> 0..RowAgeCap]
    <3>1. 0 \in 0..RowAgeCap /\ None \in Hash
        BY ConstantsAssumption DEF Hash
    <3>2. QED  BY <1>3, <3>1 DEF RemoveJournal, TypeOK, Table
  <2>2. QED
      BY <1>3, <2>1 DEF RemoveJournal, TypeOK, source, invocation, built, scan, save, cache,
                        platform
<1>4. QED
    BY <1>1, <1>2, <1>3 DEF ReaperStart, ReaperProceed, ReaperStops, IdentifyInactivePage,
                            ReaperFinish, RemoveFails

LEMMA SystemTypeStep == SystemTypeOK /\ [SystemNext]_systemVars => SystemTypeOK'
<1> SUFFICES ASSUME SystemTypeOK, [SystemNext]_systemVars PROVE SystemTypeOK'
    OBVIOUS
<1>1. TypeOK
    BY DEF SystemTypeOK
<1>2. CASE UNCHANGED systemVars
  <2>1. TypeOK'
      BY <1>1, <1>2, TypeStep DEF systemVars
  <2>2. QED  BY <1>2, <2>1 DEF systemVars, reaperVars, SystemTypeOK
<1>3. CASE SystemTick
  <2>1. TypeOK'
      BY <1>1, <1>3, TypeStep DEF SystemTick, Next
  <2>2. reaperAge' \in 0..LambdaTimeout
      BY <1>3, Ages DEF SystemTick, SystemTypeOK
  <2>3. QED  BY <1>3, <2>1, <2>2 DEF SystemTick, SystemTypeOK
<1>4. CASE PollerStep
  <2>1. TypeOK'
      BY <1>1, <1>4, TypeStep DEF PollerStep, Next
  <2>2. QED  BY <1>4, <2>1 DEF PollerStep, reaperVars, SystemTypeOK
<1>5. CASE ReaperStart \/ ReaperProceed \/ ReaperStops \/ \E s \in Staff : RemoveFails(s)
  <2>1. TypeOK'
      BY <1>1, <1>5, ReaperTypes
  <2>2. QED
      BY <1>5, <2>1, Ages
         DEF SystemTypeOK, ReaperStart, ReaperProceed, IdentifyInactivePage, RemoveJournal,
             ReaperFinish, ReaperStops, ReaperEnd, RemoveFails
<1>6. QED  BY <1>2, <1>3, <1>4, <1>5 DEF SystemNext

\* Every variable keeps its type, and the reaper its timeout.
THEOREM SystemTypeCorrect == SystemSpec => []SystemTypeOK
BY SystemTypeInit, SystemTypeStep, PTL DEF SystemSpec

----------------------------------------------------------------------------
\* A journal is stamped by the invocation that writes it.
BuiltInInvocation ==
    \A c \in Containers : /\ builtAge[c] <= runAge[c]
                          /\ pc[c] = "idle" => polled[c] = NoRows /\ builtAge[c] = 0

\* A condemned row was inactive when the reaper began, or was written since.
CondemnedWereInactive ==
    \A s \in inactive : journals[s] # None =>
        \/ rowAge[s] - reaperAge > ReapAge
        \/ rowAge[s] <= reaperAge + LambdaTimeout

IdleReaper == reaper = "idle" => reaperAge = 0 /\ inactive = {}

ReapInv == BuiltInInvocation /\ CondemnedWereInactive /\ IdleReaper

LEMMA ReapInit == SystemInit => ReapInv
BY DEF SystemInit, Init, ReapInv, BuiltInInvocation, CondemnedWereInactive, IdleReaper

\* An invocation that ends, having written or not.
LEMMA BuiltEnd ==
    ASSUME TypeOK, BuiltInInvocation, NEW c \in Containers, End(c)
    PROVE  BuiltInInvocation'
BY DEF TypeOK, BuiltInInvocation, End

\* What a write does to condemned rows makes them young.
LEMMA CondemnedPut ==
    ASSUME SystemTypeOK, BuiltInInvocation, CondemnedWereInactive,
           NEW c \in Containers, NEW items, Put(c, items), UNCHANGED reaperVars
    PROVE  CondemnedWereInactive'
<1>1. builtAge[c] <= LambdaTimeout /\ builtAge[c] \in Int
    BY Ages, ConstantsAssumption DEF SystemTypeOK, TypeOK, BuiltInInvocation
<1>2. reaperAge \in Nat
    BY Ages DEF SystemTypeOK
<1>3. SUFFICES ASSUME NEW s \in inactive, journals'[s] # None
               PROVE  \/ rowAge'[s] - reaperAge > ReapAge
                      \/ rowAge'[s] <= reaperAge + LambdaTimeout
    BY DEF CondemnedWereInactive, reaperVars
<1>4. s \in Staff
    BY DEF SystemTypeOK
<1>5. CASE s \in items
  <2>1. rowAge'[s] = builtAge[c]
      BY <1>4, <1>5 DEF Put
  <2>2. QED  BY <1>1, <1>2, <2>1, Ages
<1>6. CASE s \notin items
  <2>1. rowAge'[s] = rowAge[s] /\ journals'[s] = journals[s]
      BY <1>4, <1>6 DEF Put
  <2>2. QED  BY <1>3, <2>1 DEF CondemnedWereInactive
<1>7. QED  BY <1>5, <1>6

\* Time makes what was inactive no younger, and what was young no older than the
\* reaper's invocation allows.
LEMMA ReapTick == SystemTypeOK /\ ReapInv /\ SystemTick => ReapInv'
<1> SUFFICES ASSUME SystemTypeOK, ReapInv, SystemTick PROVE ReapInv'
    OBVIOUS
<1> USE Ages, ConstantsAssumption, ReapAgeAssumption
<1>1. BuiltInInvocation'
  <2> SUFFICES ASSUME NEW c \in Containers
               PROVE  /\ builtAge'[c] <= runAge'[c]
                      /\ pc'[c] = "idle" => polled'[c] = NoRows /\ builtAge'[c] = 0
      BY DEF BuiltInInvocation
  <2>1. /\ builtAge[c] \in 0..RowAgeCap /\ runAge[c] \in Nat /\ builtAge[c] <= runAge[c]
        /\ pc[c] = "idle" => polled[c] = NoRows
      BY DEF SystemTypeOK, TypeOK, ReapInv, BuiltInInvocation
  <2>2. /\ runAge'[c] = IF pc[c] = "idle" THEN 0 ELSE runAge[c] + 1
        /\ builtAge'[c] = IF polled[c] = NoRows THEN 0 ELSE Lesser(builtAge[c] + 1, RowAgeCap)
        /\ UNCHANGED <<pc, polled>>
      BY DEF SystemTick, Tick
  <2>3. QED  BY <2>1, <2>2
<1>2. CondemnedWereInactive'
  <2> SUFFICES ASSUME NEW s \in inactive, journals[s] # None
               PROVE  \/ rowAge'[s] - reaperAge' > ReapAge
                      \/ rowAge'[s] <= reaperAge' + LambdaTimeout
      BY DEF CondemnedWereInactive, SystemTick, Tick
  <2>1. s \in Staff /\ reaper # "idle"
      BY DEF SystemTypeOK, ReapInv, IdleReaper
  <2>2. /\ rowAge'[s] = Lesser(rowAge[s] + 1, RowAgeCap)
        /\ reaperAge' = reaperAge + 1 /\ reaperAge < LambdaTimeout
      BY <2>1 DEF SystemTick, Tick
  <2>3. rowAge[s] \in 0..RowAgeCap /\ reaperAge \in Nat
      BY <2>1 DEF SystemTypeOK, TypeOK
  <2>4. rowAge[s] - reaperAge > ReapAge \/ rowAge[s] <= reaperAge + LambdaTimeout
      BY DEF ReapInv, CondemnedWereInactive
  <2>5. QED  BY <2>2, <2>3, <2>4
<1>3. IdleReaper'
    BY DEF SystemTick, ReapInv, IdleReaper
<1>4. QED  BY <1>1, <1>2, <1>3 DEF ReapInv

LEMMA ReapStep == SystemTypeOK /\ ReapInv /\ [SystemNext]_systemVars => ReapInv'
<1> SUFFICES ASSUME SystemTypeOK, ReapInv, [SystemNext]_systemVars PROVE ReapInv'
    OBVIOUS
<1> USE DEF reaperVars, source, table, invocation, built, cache, platform
<1>1. TypeOK /\ BuiltInInvocation /\ CondemnedWereInactive /\ IdleReaper
    BY DEF SystemTypeOK, ReapInv
<1>2. CASE UNCHANGED systemVars
    BY <1>2 DEF systemVars, vars, ReapInv, BuiltInInvocation, CondemnedWereInactive, IdleReaper
<1>3. CASE SystemTick
    BY <1>3, ReapTick
\* The poller.
<1>4. ASSUME UNCHANGED reaperVars, UNCHANGED table, BuiltInInvocation' PROVE ReapInv'
    BY <1>1, <1>4 DEF ReapInv, CondemnedWereInactive, IdleReaper
<1>5. ASSUME NEW c \in Containers, UNCHANGED reaperVars, UNCHANGED table, End(c)
      PROVE  ReapInv'
    BY <1>1, <1>4, <1>5, BuiltEnd
<1>6. ASSUME NEW c \in Containers, NEW phase, pc[c] # "idle", phase # "idle",
             pc' = [pc EXCEPT ![c] = phase], UNCHANGED <<runAge, built>>
      PROVE  BuiltInInvocation'
    BY <1>1, <1>6 DEF TypeOK, BuiltInInvocation
<1>7. ASSUME NEW s \in Staff, SourceChange(s), UNCHANGED reaperVars PROVE ReapInv'
  <2>1. BuiltInInvocation'
      BY <1>1, <1>7 DEF SourceChange, BuiltInInvocation
  <2>2. QED  BY <1>4, <1>7, <2>1 DEF SourceChange
<1>8. ASSUME NEW c \in Containers, Start(c), UNCHANGED reaperVars PROVE ReapInv'
  <2>1. BuiltInInvocation'
      BY <1>1, <1>8 DEF Start, TypeOK, BuiltInInvocation
  <2>2. QED  BY <1>4, <1>8, <2>1 DEF Start
<1>9. ASSUME NEW c \in Containers, QueryExaminers(c), UNCHANGED reaperVars PROVE ReapInv'
  <2>1. CASE End(c)
      BY <1>5, <1>9, <2>1 DEF QueryExaminers
  <2>2. CASE pc' = [pc EXCEPT ![c] = "datasets"] /\ UNCHANGED <<runAge, built>>
      BY <1>4, <1>6, <1>9, <2>2 DEF QueryExaminers
  <2>3. QED  BY <1>9, <2>1, <2>2 DEF QueryExaminers
<1>10. ASSUME NEW c \in Containers, BuildJournals(c), UNCHANGED reaperVars PROVE ReapInv'
  <2>1. /\ pc' = [pc EXCEPT ![c] = "filter"] /\ builtAge' = [builtAge EXCEPT ![c] = 0]
        /\ \A d \in Containers \ {c} : polled'[d] = polled[d]
        /\ runAge' = runAge /\ UNCHANGED table
      BY <1>1, <1>10 DEF BuildJournals, TypeOK
  <2>2. runAge[c] >= 0
      BY <1>1, Ages DEF TypeOK
  <2>3. BuiltInInvocation'
      BY <1>1, <2>1, <2>2 DEF TypeOK, BuiltInInvocation
  <2>4. QED  BY <1>4, <1>10, <2>1, <2>3
<1>11. ASSUME NEW c \in Containers, CacheHit(c), UNCHANGED reaperVars PROVE ReapInv'
  <2>1. BuiltInInvocation'
      BY <1>6, <1>11 DEF CacheHit, SaveJournals
  <2>2. QED  BY <1>4, <1>11, <2>1 DEF CacheHit
<1>12. ASSUME NEW c \in Containers, CacheMiss(c), UNCHANGED reaperVars PROVE ReapInv'
  <2>1. BuiltInInvocation'
      BY <1>6, <1>12 DEF CacheMiss
  <2>2. QED  BY <1>4, <1>12, <2>1 DEF CacheMiss
<1>13. ASSUME NEW c \in Containers, ScanPage(c), UNCHANGED reaperVars PROVE ReapInv'
  <2>1. CASE pc' = [pc EXCEPT ![c] = "save"]
    <3>1. BuiltInInvocation'
        BY <1>6, <1>13, <2>1 DEF ScanPage
    <3>2. QED  BY <1>4, <1>13, <3>1 DEF ScanPage
  <2>2. CASE pc' = pc
    <3>1. BuiltInInvocation'
        BY <1>1, <1>13, <2>2 DEF ScanPage, BuiltInInvocation
    <3>2. QED  BY <1>4, <1>13, <3>1 DEF ScanPage
  <2>3. QED  BY <1>13, <2>1, <2>2 DEF ScanPage, SaveJournals
<1>14. ASSUME NEW c \in Containers, SubmitBatch(c), UNCHANGED reaperVars PROVE ReapInv'
  <2>1. BuiltInInvocation'
      BY <1>6, <1>14 DEF SubmitBatch
  <2>2. QED  BY <1>4, <1>14, <2>1 DEF SubmitBatch
<1>15. ASSUME NEW c \in Containers, BatchWritten(c), UNCHANGED reaperVars PROVE ReapInv'
  <2>1. BuiltInInvocation'
      BY <1>6, <1>15 DEF BatchWritten
  <2>2. PICK items : Put(c, items)
      BY <1>15 DEF BatchWritten
  <2>3. CondemnedWereInactive'
      BY <1>1, <1>15, <2>2, CondemnedPut
  <2>4. QED  BY <1>1, <1>15, <2>1, <2>3 DEF ReapInv, IdleReaper
<1>16. ASSUME NEW c \in Containers, Finish(c) \/ PhaseFails(c), UNCHANGED reaperVars
       PROVE  ReapInv'
    BY <1>5, <1>16 DEF Finish, PhaseFails
<1>17. ASSUME NEW c \in Containers, BatchFails(c) \/ Restart(c), UNCHANGED reaperVars
       PROVE  ReapInv'
  <2>1. End(c) /\ (UNCHANGED table \/ \E items : Put(c, items))
      BY <1>17 DEF BatchFails, Restart
  <2>2. CASE UNCHANGED table
      BY <1>5, <1>17, <2>1, <2>2
  <2>3. ASSUME NEW items, Put(c, items) PROVE ReapInv'
    <3>1. CondemnedWereInactive'
        BY <1>1, <1>17, <2>3, CondemnedPut
    <3>2. QED  BY <1>1, <1>17, <2>1, <3>1, BuiltEnd DEF ReapInv, IdleReaper
  <2>4. QED  BY <2>1, <2>2, <2>3
\* The reaper.
<1>18. ASSUME UNCHANGED <<invocation, table>>, UNCHANGED reaperAge,
              inactive' \subseteq inactive, reaper' = reaper
       PROVE  ReapInv'
    BY <1>1, <1>18 DEF ReapInv, BuiltInInvocation, CondemnedWereInactive, IdleReaper
<1>19. CASE ReaperStart
    BY <1>1, <1>19
       DEF ReaperStart, vars, ReapInv, BuiltInInvocation, CondemnedWereInactive, IdleReaper
<1>20. CASE IdentifyInactivePage
  <2>1. /\ UNCHANGED <<vars, reaperAge>> /\ reaper' # "idle"
        /\ \A s \in inactive' : s \in inactive \/ IsInactive(s)
      BY <1>20 DEF IdentifyInactivePage
  <2>2. CondemnedWereInactive'
      BY <1>1, <2>1 DEF CondemnedWereInactive, IsInactive, vars
  <2>3. QED  BY <1>1, <2>1, <2>2 DEF ReapInv, BuiltInInvocation, IdleReaper, vars
<1>21. ASSUME NEW s \in Staff, RemoveJournal(s) PROVE ReapInv'
  <2>1. /\ UNCHANGED <<invocation, reaper, reaperAge>> /\ inactive' = inactive \ {s}
        /\ \A r \in Staff \ {s} : journals'[r] = journals[r] /\ rowAge'[r] = rowAge[r]
      BY <1>21 DEF RemoveJournal, SystemTypeOK, TypeOK
  <2>2. \A r \in inactive' : r \in Staff \ {s}
      BY <2>1 DEF SystemTypeOK
  <2>3. CondemnedWereInactive'
      BY <1>1, <2>1, <2>2 DEF CondemnedWereInactive
  <2>4. QED  BY <1>1, <2>1, <2>3 DEF ReapInv, BuiltInInvocation, IdleReaper
<1>22. ASSUME NEW s \in Staff, RemoveFails(s) PROVE ReapInv'
    BY <1>18, <1>22 DEF RemoveFails
<1>23. ASSUME ReaperEnd, UNCHANGED <<invocation, table>> PROVE ReapInv'
    BY <1>1, <1>23 DEF ReaperEnd, ReapInv, BuiltInInvocation, CondemnedWereInactive, IdleReaper
<1>24. CASE ReaperFinish \/ ReaperStops
    BY <1>23, <1>24 DEF ReaperFinish, ReaperStops, vars
<1>25. CASE PollerStep
    BY <1>7, <1>8, <1>9, <1>10, <1>11, <1>12, <1>13, <1>14, <1>15, <1>16, <1>17, <1>25
       DEF PollerStep, Proceed
<1>26. QED
    BY <1>2, <1>3, <1>19, <1>20, <1>21, <1>22, <1>24, <1>25 DEF SystemNext, ReaperProceed

\* A row is deleted only if its journal was not rewritten for long before the reaper
\* began, or was rewritten just then.
THEOREM OnlyInactiveRemoved == SystemSpec => RemovedWereInactive
<1>1. SystemTypeOK /\ ReapInv =>
          \A s \in Staff : RemoveJournal(s) /\ journals[s] # None =>
              \/ rowAge[s] - reaperAge > ReapAge
              \/ rowAge[s] <= reaperAge + LambdaTimeout
    BY DEF ReapInv, CondemnedWereInactive, RemoveJournal
<1>2. QED
    BY <1>1, SystemTypeCorrect, ReapInit, ReapStep, PTL
       DEF SystemSpec, RemovedWereInactive

=============================================================================
