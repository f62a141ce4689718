----------------------- MODULE TestCentrePollerProofs -----------------------
(***************************************************************************)
(* Theorems about the test centre poller, for every value of its           *)
(* constants: its types, and that it implements TableFollower.             *)
(***************************************************************************)
EXTENDS TestCentrePoller, PolledTableProofs

LEMMA TestCentreInit == Init => TypeOK
BY PolledTableAssumption
   DEF Init, PollersInit, TypeOK, TypeOKFor, Phases, NoRows, Nothing

LEMMA BuildTestCentreRowsType ==
    ASSUME NEW records \in [Keys -> SUBSET Details]
    PROVE  BuildTestCentreRows(records) \in [Keys -> SUBSET Details]
BY DEF BuildTestCentreRows, Nothing

LEMMA TestCentreStepTypes == TypeOK /\ [Next]_vars => TypeOK'
<1> DEFINE Row == Details \cup {None, Legacy}
<1> SUFFICES ASSUME TypeOKFor(Row), [Next]_vars PROVE TypeOKFor(Row)'
    BY DEF TypeOK
<1>1. CASE UNCHANGED vars
    BY <1>1 DEF vars, invocation, history, TypeOKFor
<1>2. CASE CommonNext
    BY <1>2, CommonNextTypes
<1>3. ASSUME NEW p \in Pollers, Proceed(p) PROVE TypeOKFor(Row)'
  <2>1. CASE QueryAndBuild(p)
    <3>1. BuildTestCentreRows(source) \in [Keys -> SUBSET Details]
        BY BuildTestCentreRowsType DEF TypeOKFor
    <3>2. QED  BY <2>1, <3>1, QueriedTypes DEF QueryAndBuild
  <2>2. CASE ScanPage(p)
      BY <2>2, ScanPageTypes
  <2>3. CASE RequestLands(p)
      BY <2>3, RequestLandsTypes
  <2>4. CASE UnCacheTestCentreExaminers(p)
    <3>1. ExtractCachedTestCentresForDeletion(p) \X {None}
              \in SUBSET (Keys \X (Details \cup {None}))
        BY DEF ExtractCachedTestCentresForDeletion
    <3>2. QED  BY <2>4, <3>1, SendTypes DEF UnCacheTestCentreExaminers, Phases
  <2>5. CASE UpdateTestCentreExaminers(p)
    <3>1. {item \in UpdateRows(p) : item[1] \notin NonNumeric}
              \in SUBSET (Keys \X (Details \cup {None}))
        BY DEF UpdateRows
    <3>2. (IF NullAmong(UpdateRows(p)) THEN "rejected" ELSE "put") \in Phases
        BY DEF Phases
    <3>3. QED  BY <2>5, <3>1, <3>2, SendTypes DEF UpdateTestCentreExaminers
  <2>6. CASE Finish(p, "put")
      BY <2>6, FinishTypes
  <2>7. CASE PutRejected(p)
      BY <2>7 DEF PutRejected, End, TypeOKFor, Phases, NoRows, Nothing
  <2>8. QED  BY <1>3, <2>1, <2>2, <2>3, <2>4, <2>5, <2>6, <2>7 DEF Proceed
<1>4. ASSUME NEW p \in Pollers, QueryReturnsNothing(p) PROVE TypeOKFor(Row)'
  <2>1. Nothing \in [Keys -> SUBSET Details]
      BY DEF Nothing
  <2>2. QED  BY <1>4, <2>1, QueriedTypes DEF QueryReturnsNothing
<1>5. QED  BY <1>1, <1>2, <1>3, <1>4 DEF Next

\* Every variable keeps its type.
THEOREM TestCentreTypeCorrect == Spec => []TypeOK
BY TestCentreInit, TestCentreStepTypes, PTL DEF Spec

----------------------------------------------------------------------------
\* The offers of the phases, those of the removal of old rows, and no other.
LEMMA OffersParts ==
    LET phases == {"scan", "reconcile", "delete"} IN
    /\ \A item : item \in Offers <=>
          \/ item \in OffersIn(phases, FALSE)
          \/ \E p \in Pollers : item \in LegacyRemovals(p)
    /\ \A item : item \in Offers' <=>
          \/ item \in OffersIn(phases, FALSE)'
          \/ \E p \in Pollers : item \in LegacyRemovals(p)'
BY DEF Offers

LEMMA FollowerInit == Init => Follower!Init
<1> SUFFICES ASSUME Init PROVE Follower!Init
    OBVIOUS
<1>1. OffersIn({"scan", "reconcile", "delete"}, FALSE) = {}
    BY InitOffers DEF Init
<1>2. \A p \in Pollers : LegacyRemovals(p) = {}
    BY TestCentreAssumption DEF Init, PollersInit, NoRows, LegacyRemovals
<1>3. Offers = {}
    BY <1>1, <1>2, OffersParts
<1>4. rows \in [Keys -> {Legacy} \cup {None}]
    BY DEF Init
<1>5. QED
    BY <1>3, <1>4 DEF Init, PollersInit, Follower!Init

LEMMA FollowerStep == TypeOK /\ [Next]_vars => [Follower!Next]_(Follower!vars)
<1> DEFINE Row == Details \cup {None, Legacy}
           phases == {"scan", "reconcile", "delete"}
           Old(p) == LegacyRemovals(p)
<1> SUFFICES ASSUME TypeOKFor(Row), [Next]_vars
             PROVE  Follower!Next \/ UNCHANGED Follower!vars
    BY DEF TypeOK, Follower!vars
<1>1. faults \in Int
    BY PolledTableAssumption DEF TypeOKFor
<1>2. /\ "scan" \in phases /\ "reconcile" \in phases /\ "delete" \in phases
      /\ "idle" \notin phases /\ "query" \notin phases
    OBVIOUS
<1>3. /\ \A item : item \in Offers <=>
             item \in OffersIn(phases, FALSE) \/ \E p \in Pollers : item \in Old(p)
      /\ \A item : item \in Offers' <=>
             item \in OffersIn(phases, FALSE)' \/ \E p \in Pollers : item \in Old(p)'
    BY OffersParts
<1>4. ASSUME UNCHANGED cached PROVE \A p \in Pollers : Old(p)' = Old(p)
    BY <1>4 DEF LegacyRemovals
<1>5. ASSUME NEW p \in Pollers, End(p) PROVE \A q \in Pollers : Old(q)' \subseteq Old(q)
    BY <1>5, TestCentreAssumption DEF End, NoRows, LegacyRemovals, TypeOKFor
<1> HIDE DEF phases, Row, Old
\* Most steps read nothing new.
<1>6. ASSUME Offers' \subseteq Offers, UNCHANGED <<source, rows>>, UNCHANGED faults \/ Fault
      PROVE  Follower!Read
  <2>1. faults' >= faults
      BY <1>1, <1>6 DEF Fault
  <2>2. QED  BY <1>6, <2>1 DEF Follower!Read
<1>7. ASSUME UNCHANGED <<invocation, strays>> PROVE UNCHANGED Offers
  <2>1. OffersIn(phases, FALSE)' = OffersIn(phases, FALSE) /\ UNCHANGED cached
      BY <1>7, SameOffers DEF invocation
  <2>2. QED  BY <1>3, <1>4, <2>1
<1>8. CASE UNCHANGED vars
    BY <1>7, <1>8 DEF vars, Follower!vars
<1>9. ASSUME NEW k \in Keys, SourceChange(k) PROVE Follower!SourceChanges
  <2>1. source' \in [Keys -> SUBSET Details]
      BY <1>9 DEF SourceChange, TypeOKFor
  <2>2. QED  BY <1>7, <1>9, <2>1 DEF SourceChange, Follower!SourceChanges
<1>10. ASSUME NEW p \in Pollers, Start(p) PROVE Follower!Read
  <2>1. OffersIn(phases, FALSE)' \subseteq OffersIn(phases, FALSE)
      BY <1>2, <1>10, StartOffers
  <2>2. Offers' \subseteq Offers
      BY <1>3, <1>4, <1>10, <2>1 DEF Start
  <2>3. QED  BY <1>6, <1>10, <2>2 DEF Start
<1>11. ASSUME NEW p \in Pollers, Abandon(p) \/ Finish(p, "put") \/ PutRejected(p)
       PROVE  Follower!Read
  <2>1. End(p) /\ strays' \subseteq strays \cup requests[p]
      BY <1>11 DEF Abandon, Finish, PutRejected
  <2>2. OffersIn(phases, FALSE)' \subseteq OffersIn(phases, FALSE)
      BY <1>2, <2>1, EndOffers
  <2>3. Offers' \subseteq Offers
      BY <1>3, <1>5, <2>1, <2>2
  <2>4. QED  BY <1>6, <1>11, <2>3 DEF Abandon, Finish, PutRejected
<1>12. CASE StrayIsLost
  <2>1. OffersIn(phases, FALSE)' \subseteq OffersIn(phases, FALSE)
      BY <1>12, StrayIsLostOffers
  <2>2. Offers' \subseteq Offers
      BY <1>3, <1>4, <1>12, <2>1 DEF StrayIsLost, invocation
  <2>3. Follower!Read
      BY <1>6, <1>12, <2>2 DEF StrayIsLost
  <2>4. QED  BY <2>3 DEF Follower!Next
<1>13. ASSUME StrayLands \/ \E p \in Pollers : RequestLands(p) PROVE Follower!Write
  <2>1. /\ OffersIn(phases, FALSE)' \subseteq OffersIn(phases, FALSE)
        /\ \E item \in OffersIn(phases, FALSE) : rows' = [rows EXCEPT ![item[1]] = item[2]]
      BY <1>13, LandingOffers
  <2>2. UNCHANGED <<source, faults, cached>>
      BY <1>13 DEF StrayLands, RequestLands, invocation
  <2>3. \A p \in Pollers : Old(p)' = Old(p)
      BY <1>4, <2>2
  <2>4. OffersIn(phases, FALSE)' \subseteq OffersIn(phases, FALSE)
      BY <2>1
  <2>5. Offers' \subseteq Offers
      BY <1>3, <2>3, <2>4
  <2>6. \E item \in Offers : rows' = [rows EXCEPT ![item[1]] = item[2]]
      BY <1>3, <2>1
  <2>7. QED  BY <2>2, <2>5, <2>6 DEF Follower!Write
<1>14. ASSUME NEW p \in Pollers, NEW STATE result, Queried(p, result)
       PROVE  Offers' \subseteq Offers \cup Implied(result, FALSE)
  <2>1. OffersIn(phases, FALSE)' \subseteq OffersIn(phases, FALSE) \cup Implied(result, FALSE)
      BY <1>14, QueriedOffers
  <2>2. QED  BY <1>3, <1>4, <1>14, <2>1 DEF Queried
<1>15. Implied(Nothing, FALSE) \subseteq Keys \X {None}
    BY DEF Implied, Nothing
\* One malformed record, and the whole source seems empty.
<1>16. ASSUME NEW p \in Pollers, QueryAndBuild(p), MalformedIn(source)
       PROVE  Follower!Misread
  <2>1. Offers' \subseteq Offers \cup Implied(Nothing, FALSE)
      BY <1>14, <1>16 DEF QueryAndBuild, BuildTestCentreRows
  <2>2. UNCHANGED <<source, rows>>
      BY <1>16 DEF QueryAndBuild, Queried
  <2>3. \E k \in Keys : source[k] \cap Malformed # {}
      BY <1>16 DEF MalformedIn
  <2>4. Offers' \subseteq Offers \cup (Keys \X {None})
      BY <1>15, <2>1
  <2>5. QED  BY <2>2, <2>3, <2>4 DEF Follower!Misread
<1>17. ASSUME NEW p \in Pollers, QueryAndBuild(p), ~MalformedIn(source)
       PROVE  Follower!Read
  <2>1. Offers' \subseteq Offers \cup Implied(source, FALSE)
      BY <1>14, <1>17 DEF QueryAndBuild, BuildTestCentreRows
  <2>2. Implied(source, FALSE) \subseteq Follower!Writes(source)
      BY DEF Implied, Follower!Writes
  <2>3. UNCHANGED <<source, rows, faults>>
      BY <1>17 DEF QueryAndBuild, Queried
  <2>4. faults' >= faults
      BY <1>1, <2>3
  <2>5. QED  BY <2>1, <2>2, <2>3, <2>4 DEF Follower!Read
<1>18. ASSUME NEW p \in Pollers, QueryReturnsNothing(p) PROVE Follower!Misread
  <2>1. Offers' \subseteq Offers \cup Implied(Nothing, FALSE)
      BY <1>14, <1>18 DEF QueryReturnsNothing
  <2>2. UNCHANGED <<source, rows>> /\ faults' > faults
      BY <1>1, <1>18 DEF QueryReturnsNothing, Queried, Fault
  <2>3. QED  BY <1>15, <2>1, <2>2 DEF Follower!Misread
\* The scan may find old rows.
<1>19. ASSUME NEW p \in Pollers, ScanPage(p) PROVE Follower!Read
  <2>1. OffersIn(phases, FALSE)' \subseteq OffersIn(phases, FALSE)
      BY <1>2, <1>19, ScanPageOffers
  <2>2. \A q \in Pollers : Old(q)' \subseteq
            Old(q) \cup {<<k, None>> : k \in {j \in Keys : rows[j] \in {Legacy}}}
      BY <1>19 DEF ScanPage, Old, LegacyRemovals, TypeOKFor
  <2>3. Offers' \subseteq
            Offers \cup {<<k, None>> : k \in {j \in Keys : rows[j] \in {Legacy}}}
      BY <1>3, <2>1, <2>2
  <2>4. UNCHANGED <<source, rows, faults>>
      BY <1>19 DEF ScanPage
  <2>5. faults' >= faults
      BY <1>1, <2>4
  <2>6. QED  BY <2>3, <2>4, <2>5 DEF Follower!Read
<1>20. ASSUME NEW p \in Pollers, UnCacheTestCentreExaminers(p) PROVE Follower!Read
  <2>1. ExtractCachedTestCentresForDeletion(p) \X {None}
            \subseteq Implied(active[p], FALSE) \cup Old(p)
      BY DEF ExtractCachedTestCentresForDeletion, Implied, Old, LegacyRemovals
  <2>2. OffersIn(phases, FALSE)' \subseteq OffersIn(phases, FALSE) \cup Old(p)
      BY <1>2, <1>20, <2>1, SendOffers DEF UnCacheTestCentreExaminers
  <2>3. Offers' \subseteq Offers
      BY <1>3, <1>4, <1>20, <2>2 DEF UnCacheTestCentreExaminers, Send
  <2>4. QED  BY <1>6, <1>20, <2>3 DEF UnCacheTestCentreExaminers, Send
<1>21. ASSUME NEW p \in Pollers, UpdateTestCentreExaminers(p) PROVE Follower!Read
  <2>1. {item \in UpdateRows(p) : item[1] \notin NonNumeric}
            \subseteq Implied(active[p], FALSE) \cup {}
      BY DEF UpdateRows, Implied
  <2>2. OffersIn(phases, FALSE)' \subseteq OffersIn(phases, FALSE) \cup {}
      BY <1>2, <1>21, <2>1, SendOffers DEF UpdateTestCentreExaminers
  <2>3. Offers' \subseteq Offers
      BY <1>3, <1>4, <1>21, <2>2 DEF UpdateTestCentreExaminers, Send
  <2>4. QED  BY <1>6, <1>21, <2>3 DEF UpdateTestCentreExaminers, Send
<1>22. QED
    BY <1>8, <1>9, <1>10, <1>11, <1>12, <1>13, <1>16, <1>17, <1>18, <1>19, <1>20, <1>21
       DEF Next, CommonNext, Proceed, Follower!Next

\* The test centre poller implements the follower of a source that seems empty while
\* one of its records is malformed, and of a table whose old rows are removed.
THEOREM TestCentreFollowsSource == Spec => FollowsSource
BY TestCentreTypeCorrect, FollowerInit, FollowerStep, PTL
   DEF Spec, FollowsSource, Follower!Spec

----------------------------------------------------------------------------
\* Why a clean invocation succeeds: during the deletes, an examiner without a record
\* has no row or is about to lose it; during the puts, that is over, and one with a
\* record has a row of it or is about to get it.
DeletesAccounted(p) ==
    /\ \A item \in requests[p] : item[2] = None
    /\ \A k \in Keys :
           active[p][k] = {} => rows[k] = None \/ <<k, None>> \in requests[p]

PutsAccounted(p) ==
    /\ \A item \in requests[p] : item[2] \in active[p][item[1]]
    /\ \A k \in Keys :
           IF active[p][k] = {} THEN rows[k] = None
           ELSE rows[k] \in active[p][k] \/ \E d \in active[p][k] : <<k, d>> \in requests[p]

Accounted(p) ==
    /\ pc[p] = "delete" => DeletesAccounted(p)
    /\ pc[p] = "put" => PutsAccounted(p)

SuccessInv == CleanInv /\ \A p \in clean : Accounted(p)

LEMMA SuccessInit == Init => SuccessInv
BY CleanInit DEF Init, PollersInit, SuccessInv

LEMMA SuccessClean == TypeOK /\ CleanInv /\ [Next]_vars => CleanInv'
<1> DEFINE Row == Details \cup {None, Legacy}
<1> SUFFICES ASSUME TypeOKFor(Row), CleanInv, [Next]_vars PROVE CleanInv'
    BY DEF TypeOK
<1>1. CASE UNCHANGED vars
    BY <1>1 DEF vars, invocation, history, CleanInv, NothingAsked, CleanIsAlone, ScannedIsCurrent
<1>2. CASE CommonNext
    BY <1>2, CleanCommonNext
<1>3. ASSUME NEW p \in Pollers, QueryAndBuild(p) \/ QueryReturnsNothing(p) PROVE CleanInv'
    BY <1>3, CleanQueried DEF QueryAndBuild, QueryReturnsNothing
<1>4. ASSUME NEW p \in Pollers, ScanPage(p) PROVE CleanInv'
    BY <1>4, CleanScanPage
<1>5. ASSUME NEW p \in Pollers, RequestLands(p) PROVE CleanInv'
    BY <1>5, CleanRequestLands
<1>6. ASSUME NEW p \in Pollers, UnCacheTestCentreExaminers(p) PROVE CleanInv'
    BY <1>6, CleanSend DEF UnCacheTestCentreExaminers
<1>7. ASSUME NEW p \in Pollers, UpdateTestCentreExaminers(p) PROVE CleanInv'
  <2>1. (IF NullAmong(UpdateRows(p)) THEN "rejected" ELSE "put") \in {"put", "delete", "rejected"}
      OBVIOUS
  <2>2. QED  BY <1>7, <2>1, CleanSend DEF UpdateTestCentreExaminers
<1>8. ASSUME NEW p \in Pollers, Finish(p, "put") \/ PutRejected(p) PROVE CleanInv'
    BY <1>8, CleanEnd DEF Finish, PutRejected
<1>9. QED
    BY <1>1, <1>2, <1>3, <1>4, <1>5, <1>6, <1>7, <1>8 DEF Next, Proceed

\* A step that leaves rows and what the invocation knows alone.
LEMMA AccountedSame ==
    ASSUME NEW p, Accounted(p), rows' = rows, pc'[p] = pc[p], active'[p] = active[p],
           requests'[p] = requests[p]
    PROVE  Accounted(p)'
<1>1. DeletesAccounted(p) => DeletesAccounted(p)'
    BY DEF DeletesAccounted
<1>2. PutsAccounted(p) => PutsAccounted(p)'
    BY DEF PutsAccounted
<1>3. QED  BY <1>1, <1>2 DEF Accounted

LEMMA SuccessStep == TypeOK /\ SuccessInv /\ [Next]_vars => SuccessInv'
<1> SUFFICES ASSUME TypeOK, SuccessInv, [Next]_vars, NEW p \in clean'
             PROVE  Accounted(p)'
    BY SuccessClean DEF SuccessInv
<1>1. CleanInv /\ \A q \in clean : Accounted(q)
    BY DEF SuccessInv
<1> USE DEF TypeOK, TypeOKFor
<1>2. CASE UNCHANGED vars
    BY <1>1, <1>2, AccountedSame DEF vars, invocation, history
<1>3. ASSUME NEW k \in Keys, SourceChange(k) PROVE Accounted(p)'
    BY <1>1, <1>3, AccountedSame DEF SourceChange, invocation
<1>4. ASSUME NEW q \in Pollers, Start(q) PROVE Accounted(p)'
    BY <1>4 DEF Start, Accounted
<1>5. ASSUME NEW q \in Pollers, End(q), UNCHANGED rows PROVE Accounted(p)'
  <2>1. p \in clean /\ p # q
      BY <1>5 DEF End
  <2>2. QED  BY <1>1, <1>5, <2>1, AccountedSame DEF End
<1>6. CASE StrayLands \/ StrayIsLost
    BY <1>1, <1>6 DEF StrayLands, StrayIsLost, history, CleanInv, CleanIsAlone
<1>7. ASSUME NEW q \in Pollers, NEW STATE result, Queried(q, result) PROVE Accounted(p)'
  <2>1. p \in clean /\ q = p
      BY <1>1, <1>7, CleanLanding DEF Queried, history
  <2>2. QED  BY <1>7, <2>1 DEF Queried, Accounted
<1>8. ASSUME NEW q \in Pollers, ScanPage(q) PROVE Accounted(p)'
  <2>1. p \in clean /\ q = p
      BY <1>1, <1>8, CleanLanding DEF ScanPage, history
  <2>2. pc'[p] \in {"scan", "reconcile"}
      BY <1>8, <2>1 DEF ScanPage
  <2>3. QED  BY <2>2 DEF Accounted
<1>9. ASSUME NEW q \in Pollers, UnCacheTestCentreExaminers(q) PROVE Accounted(p)'
  <2>1. p \in clean /\ q = p
      BY <1>1, <1>9, CleanLanding DEF UnCacheTestCentreExaminers, Send, history
  <2>2. /\ pc'[p] = "delete"
        /\ requests'[p] = ExtractCachedTestCentresForDeletion(p) \X {None}
        /\ UNCHANGED <<active, cached, rows>>
      BY <1>9, <2>1 DEF UnCacheTestCentreExaminers, Send
  <2>3. \A k \in Keys : cached[p][k] = rows[k]
      BY <1>1, <1>9, <2>1
         DEF UnCacheTestCentreExaminers, Send, CleanInv, ScannedIsCurrent
  <2>4. DeletesAccounted(p)'
      BY <2>2, <2>3 DEF DeletesAccounted, ExtractCachedTestCentresForDeletion
  <2>5. QED  BY <2>2, <2>4 DEF Accounted
\* Every record of the query's result is put: none compares equal to a row.
<1>10. ASSUME NEW q \in Pollers, UpdateTestCentreExaminers(q) PROVE Accounted(p)'
  <2>1. p \in clean /\ q = p
      BY <1>1, <1>10, CleanLanding DEF UpdateTestCentreExaminers, Send, history
  <2>2. /\ pc'[p] \in {"put", "rejected"}
        /\ pc'[p] = "put" => /\ ~NullAmong(UpdateRows(p))
                             /\ requests'[p] = UpdateRows(p)
        /\ UNCHANGED <<active, cached, rows>> /\ requests[p] = {} /\ pc[p] = "delete"
      BY <1>10, <2>1 DEF UpdateTestCentreExaminers, Send, NullAmong
  <2>3. \A k \in Keys : active[p][k] = {} => rows[k] = None
      BY <1>1, <2>1, <2>2 DEF Accounted, DeletesAccounted
  <2>4. ASSUME pc'[p] = "put" PROVE PutsAccounted(p)'
    <3>1. requests'[p] = {item \in Keys \X Details : item[2] \in active[p][item[1]]}
        BY <2>2, <2>4 DEF UpdateRows, UnchangedRows, ComparedAs
    <3>2. \A k \in Keys : active[p][k] \subseteq Details
        BY <2>1
    <3>3. \A k \in Keys : active[p][k] # {} => \E d \in active[p][k] : <<k, d>> \in requests'[p]
        BY <3>1, <3>2
    <3>4. QED  BY <2>2, <2>3, <3>1, <3>3 DEF PutsAccounted
  <2>5. QED  BY <2>2, <2>4 DEF Accounted
<1>11. ASSUME NEW q \in Pollers, RequestLands(q) PROVE Accounted(p)'
  <2>1. p \in clean /\ q = p
      BY <1>1, <1>11, CleanLanding DEF RequestLands, history
  <2>2. PICK r \in requests[p] : /\ rows' = [rows EXCEPT ![r[1]] = r[2]]
                                 /\ requests'[p] = requests[p] \ {r}
      BY <1>11, <2>1 DEF RequestLands
  <2>3. UNCHANGED <<pc, active, cached>> /\ r \in Keys \X (Details \cup {None})
      BY <1>11, <2>1 DEF RequestLands
  <2>4. /\ rows'[r[1]] = r[2] /\ \A k \in Keys \ {r[1]} : rows'[k] = rows[k]
        /\ \A k \in Keys \ {r[1]} : \A d : <<k, d>> \in requests[p] => <<k, d>> \in requests'[p]
      BY <2>2, <2>3
  <2>5. ASSUME pc[p] = "delete" PROVE DeletesAccounted(p)'
    <3>1. DeletesAccounted(p)
        BY <1>1, <2>1, <2>5 DEF Accounted
    <3>2. rows'[r[1]] = None
        BY <2>2, <2>4, <3>1 DEF DeletesAccounted
    <3>3. QED  BY <2>2, <2>3, <2>4, <3>1, <3>2 DEF DeletesAccounted
  <2>6. ASSUME pc[p] = "put" PROVE PutsAccounted(p)'
    <3>1. PutsAccounted(p)
        BY <1>1, <2>1, <2>6 DEF Accounted
    <3>2. rows'[r[1]] \in active[p][r[1]]
        BY <2>2, <2>4, <3>1 DEF PutsAccounted
    <3>3. \A item \in requests'[p] : item[2] \in active'[p][item[1]]
        BY <2>2, <2>3, <3>1 DEF PutsAccounted
    <3>4. ASSUME NEW k \in Keys \ {r[1]}
          PROVE  IF active[p][k] = {} THEN rows'[k] = None
                 ELSE rows'[k] \in active[p][k]
                          \/ \E d \in active[p][k] : <<k, d>> \in requests'[p]
        BY <2>4, <3>1 DEF PutsAccounted
    <3>5. QED  BY <2>3, <3>2, <3>3, <3>4 DEF PutsAccounted
  <2>7. QED  BY <2>3, <2>5, <2>6 DEF Accounted
<1>12. QED
    BY <1>2, <1>3, <1>4, <1>5, <1>6, <1>7, <1>8, <1>9, <1>10, <1>11
       DEF Next, CommonNext, Proceed, Abandon, Finish, PutRejected, QueryAndBuild,
           QueryReturnsNothing

\* An invocation that succeeds with nothing beside it leaves the rows of its query.
THEOREM TestCentreSuccessMeansCurrent == Spec => []SuccessMeansCurrent
<1>1. SuccessInv => SuccessMeansCurrent
    BY DEF SuccessInv, Accounted, PutsAccounted, SuccessMeansCurrent
<1>2. QED
    BY <1>1, TestCentreTypeCorrect, SuccessInit, SuccessStep, PTL DEF Spec

=============================================================================
