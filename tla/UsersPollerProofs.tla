------------------------- MODULE UsersPollerProofs -------------------------
(***************************************************************************)
(* Theorems about the users poller, for every value of its constants: its  *)
(* types, that it removes only leavers, and that it implements             *)
(* TableFollower.                                                          *)
(***************************************************************************)
EXTENDS UsersPoller, PolledTableProofs

LEMMA UsersInit == Init => TypeOK
BY PolledTableAssumption
   DEF Init, PollersInit, TypeOK, TypeOKFor, Phases, NoRows, Nothing

LEMMA UsersStepTypes == TypeOK /\ [Next]_vars => TypeOK'
<1> DEFINE Row == Details \cup {None}
<1> SUFFICES ASSUME TypeOKFor(Row), [Next]_vars PROVE TypeOKFor(Row)'
    BY DEF TypeOK
<1>1. CASE UNCHANGED vars
    BY <1>1 DEF vars, invocation, history, TypeOKFor
<1>2. CASE CommonNext
    BY <1>2, CommonNextTypes
<1>3. ASSUME NEW p \in Pollers, Proceed(p) PROVE TypeOKFor(Row)'
  <2>1. CASE Query(p)
    <3>1. source \in [Keys -> SUBSET Details]
        BY DEF TypeOKFor
    <3>2. QED  BY <2>1, <3>1, QueriedTypes DEF Query
  <2>2. CASE ScanPage(p)
      BY <2>2, ScanPageTypes
  <2>3. CASE RequestLands(p)
      BY <2>3, RequestLandsTypes
  <2>4. CASE CacheStaffDetails(p)
    <3>1. SelectStaffDetailsToCache(p) \in SUBSET (Keys \X (Details \cup {None}))
        BY DEF SelectStaffDetailsToCache
    <3>2. QED  BY <2>4, <3>1, SendTypes DEF CacheStaffDetails, Phases
  <2>5. CASE UncacheStaffNumbers(p)
    <3>1. StaffNumbersToUncache(p) \X {None} \in SUBSET (Keys \X (Details \cup {None}))
        BY DEF StaffNumbersToUncache
    <3>2. QED  BY <2>5, <3>1, SendTypes DEF UncacheStaffNumbers, Phases
  <2>6. CASE Finish(p, "delete")
      BY <2>6, FinishTypes
  <2>7. QED  BY <1>3, <2>1, <2>2, <2>3, <2>4, <2>5, <2>6 DEF Proceed, CommonProceed
<1>4. ASSUME NEW p \in Pollers, Unprocessed(p) PROVE TypeOKFor(Row)'
    BY <1>4, PolledTableAssumption DEF Unprocessed, Fault, TypeOKFor, Phases
<1>5. ASSUME NEW p \in Pollers, QueryReturnsNothing(p) PROVE TypeOKFor(Row)'
  <2>1. Nothing \in [Keys -> SUBSET Details]
      BY DEF Nothing
  <2>2. QED  BY <1>5, <2>1, QueriedTypes DEF QueryReturnsNothing
<1>6. QED  BY <1>1, <1>2, <1>3, <1>4, <1>5 DEF Next

\* Every variable keeps its type.
THEOREM UsersTypeCorrect == Spec => []TypeOK
BY UsersInit, UsersStepTypes, PTL DEF Spec

----------------------------------------------------------------------------
\* What makes a delete justified: while an invocation runs, the staff numbers
\* without a record now, and those without one in what it has read, are among
\* those that have been without one; and it deletes nothing it has read.
LeaversKnown ==
    \A p \in Pollers :
        /\ pc[p] # "idle" => Absent \subseteq left[p]
        /\ active[p] = Nothing \/ \A k \in Keys : active[p][k] = {} => k \in left[p]
        /\ \A k \in Keys : <<k, None>> \in requests[p] => active[p][k] = {}
        /\ pc[p] = "idle" => active[p] = Nothing /\ requests[p] = {}
        /\ pc[p] = "query" => requests[p] = {}

LEMMA LeaversInit == Init => LeaversKnown
BY DEF Init, PollersInit, LeaversKnown, Nothing

LEMMA LeaversEnd ==
    ASSUME TypeOK, LeaversKnown, NEW p \in Pollers, End(p), UNCHANGED source
    PROVE  LeaversKnown'
<1> USE DEF TypeOK, TypeOKFor, LeaversKnown
<1>1. /\ pc'[p] = "idle" /\ active'[p] = Nothing /\ requests'[p] = {}
      /\ \A q \in Pollers \ {p} : /\ pc'[q] = pc[q] /\ active'[q] = active[q]
                                   /\ requests'[q] = requests[q] /\ left'[q] = left[q]
    BY DEF End
<1>2. QED  BY <1>1 DEF Absent

LEMMA LeaversStep == TypeOK /\ LeaversKnown /\ [Next]_vars => LeaversKnown'
<1> SUFFICES ASSUME TypeOK, LeaversKnown, [Next]_vars PROVE LeaversKnown'
    OBVIOUS
<1> USE PolledTableAssumption DEF TypeOK, TypeOKFor, LeaversKnown
<1>1. CASE UNCHANGED vars
    BY <1>1 DEF vars, invocation, history, Absent
<1>2. ASSUME NEW k \in Keys, SourceChange(k) PROVE LeaversKnown'
  <2>1. /\ UNCHANGED <<pc, active, requests>>
        /\ \A p \in Pollers : pc[p] # "idle" =>
                left'[p] = left[p] \cup {j \in Keys : source'[j] = {}}
      BY <1>2 DEF SourceChange, invocation
  <2>2. \A q \in Pollers : pc[q] # "idle" => Absent' \subseteq left'[q]
      BY <2>1 DEF Absent
  <2>3. \A q \in Pollers : active[q] = Nothing \/ left[q] \subseteq left'[q]
      BY <2>1
  <2>4. QED  BY <2>1, <2>2, <2>3
<1>3. ASSUME NEW p \in Pollers, Start(p) PROVE LeaversKnown'
    BY <1>3 DEF Start, Absent
<1>4. ASSUME NEW p \in Pollers, Abandon(p) PROVE LeaversKnown'
    BY <1>4, LeaversEnd DEF Abandon
<1>5. CASE StrayLands \/ StrayIsLost
    BY <1>5 DEF StrayLands, StrayIsLost, invocation, history, Absent
<1>6. ASSUME NEW p \in Pollers, Query(p) PROVE LeaversKnown'
    BY <1>6 DEF Query, Queried, history, Absent
<1>7. ASSUME NEW p \in Pollers, QueryReturnsNothing(p) PROVE LeaversKnown'
    BY <1>7 DEF QueryReturnsNothing, Queried, history, Absent
<1>8. ASSUME NEW p \in Pollers, ScanPage(p) PROVE LeaversKnown'
    BY <1>8 DEF ScanPage, history, Absent
<1>9. ASSUME NEW p \in Pollers, RequestLands(p) PROVE LeaversKnown'
    BY <1>9 DEF RequestLands, history, Absent
<1>10. ASSUME NEW p \in Pollers, Unprocessed(p) PROVE LeaversKnown'
    BY <1>10 DEF Unprocessed, Absent
<1>11. ASSUME NEW p \in Pollers, CacheStaffDetails(p) PROVE LeaversKnown'
  <2>1. \A k \in Keys : <<k, None>> \notin SelectStaffDetailsToCache(p)
      BY DEF SelectStaffDetailsToCache
  <2>2. QED  BY <1>11, <2>1 DEF CacheStaffDetails, Send, history, Absent
<1>12. ASSUME NEW p \in Pollers, UncacheStaffNumbers(p) PROVE LeaversKnown'
  <2>1. \A k \in Keys : <<k, None>> \in StaffNumbersToUncache(p) \X {None}
                             => active[p][k] = {}
      BY DEF StaffNumbersToUncache, StaffNumbers
  <2>2. QED  BY <1>12, <2>1 DEF UncacheStaffNumbers, Send, history, Absent
<1>13. ASSUME NEW p \in Pollers, Finish(p, "delete") PROVE LeaversKnown'
    BY <1>13, LeaversEnd DEF Finish
<1>14. QED
    BY <1>1, <1>2, <1>3, <1>4, <1>5, <1>6, <1>7, <1>8, <1>9, <1>10, <1>11, <1>12, <1>13
       DEF Next, CommonNext, Proceed, CommonProceed

\* Only users who were without an active record at some time of the invocation
\* are removed, unless there seemed to be no users at all.
THEOREM OnlyLeaversRemoved == Spec => []RemovesOnlyLeavers
<1>1. LeaversKnown => RemovesOnlyLeavers
    BY DEF LeaversKnown, RemovesOnlyLeavers
<1>2. QED
    BY <1>1, UsersTypeCorrect, LeaversInit, LeaversStep, PTL DEF Spec

----------------------------------------------------------------------------
LEMMA FollowerInit == Init => Follower!Init
<1> SUFFICES ASSUME Init PROVE Follower!Init
    OBVIOUS
<1>1. Offers = {}
    BY InitOffers DEF Init, Offers
<1>2. QED
    BY <1>1 DEF Init, PollersInit, NoRows, Follower!Init

LEMMA FollowerStep == TypeOK /\ [Next]_vars => [Follower!Next]_(Follower!vars)
<1> DEFINE Row == Details \cup {None}
<1> SUFFICES ASSUME TypeOKFor(Row), [Next]_vars
             PROVE  Follower!Next \/ UNCHANGED Follower!vars
    BY DEF TypeOK, Follower!vars
<1>1. faults \in Int
    BY PolledTableAssumption DEF TypeOKFor
\* Most steps read nothing new.
<1>2. ASSUME Offers' \subseteq Offers, UNCHANGED <<source, rows>>, UNCHANGED faults \/ Fault
      PROVE  Follower!Read
  <2>1. faults' >= faults
      BY <1>1, <1>2 DEF Fault
  <2>2. QED  BY <1>2, <2>1 DEF Follower!Read
<1>3. CASE UNCHANGED vars
    BY <1>3, SameOffers DEF vars, invocation, Offers, Follower!vars
<1>4. ASSUME NEW k \in Keys, SourceChange(k) PROVE Follower!SourceChanges
  <2>1. source' \in [Keys -> SUBSET Details]
      BY <1>4 DEF SourceChange, TypeOKFor
  <2>2. UNCHANGED Offers
      BY <1>4, SameOffers DEF SourceChange, invocation, Offers
  <2>3. QED  BY <1>4, <2>1, <2>2 DEF SourceChange, Follower!SourceChanges
<1>5. ASSUME NEW p \in Pollers, Start(p) PROVE Follower!Read
  <2>1. Offers' \subseteq Offers
      BY <1>5, StartOffers DEF Offers
  <2>2. QED  BY <1>2, <1>5, <2>1 DEF Start
<1>6. ASSUME NEW p \in Pollers, Abandon(p) PROVE Follower!Read
  <2>1. Offers' \subseteq Offers
      BY <1>6, EndOffers DEF Offers, Abandon
  <2>2. QED  BY <1>2, <1>6, <2>1 DEF Abandon
<1>7. CASE StrayIsLost
  <2>1. Offers' \subseteq Offers
      BY <1>7, StrayIsLostOffers DEF Offers
  <2>2. Follower!Read
      BY <1>2, <1>7, <2>1 DEF StrayIsLost
  <2>3. QED  BY <2>2 DEF Follower!Next
<1>8. ASSUME StrayLands \/ \E p \in Pollers : RequestLands(p) PROVE Follower!Write
  <2>1. /\ Offers' \subseteq Offers
        /\ \E item \in Offers : rows' = [rows EXCEPT ![item[1]] = item[2]]
      BY <1>8, LandingOffers DEF Offers
  <2>2. UNCHANGED <<source, faults>>
      BY <1>8 DEF StrayLands, RequestLands
  <2>3. QED  BY <2>1, <2>2 DEF Follower!Write
<1>9. ASSUME NEW p \in Pollers, Query(p) PROVE Follower!Read
  <2>1. Offers' \subseteq Offers \cup Implied(source, TRUE)
      BY <1>9, QueriedOffers DEF Query, Offers
  <2>2. Implied(source, TRUE) \subseteq Follower!Writes(source)
      BY DEF Implied, Follower!Writes
  <2>3. UNCHANGED <<source, rows, faults>>
      BY <1>9 DEF Query, Queried
  <2>4. faults' >= faults
      BY <1>1, <2>3
  <2>5. QED  BY <2>1, <2>2, <2>3, <2>4 DEF Follower!Read
<1>10. ASSUME NEW p \in Pollers, QueryReturnsNothing(p) PROVE Follower!Misread
  <2>1. Offers' \subseteq Offers \cup Implied(Nothing, TRUE)
      BY <1>10, QueriedOffers DEF QueryReturnsNothing, Offers
  <2>2. Implied(Nothing, TRUE) \subseteq Keys \X {None}
      BY DEF Implied, Nothing
  <2>3. UNCHANGED <<source, rows>> /\ faults' > faults
      BY <1>1, <1>10 DEF QueryReturnsNothing, Queried, Fault
  <2>4. QED  BY <2>1, <2>2, <2>3 DEF Follower!Misread
<1>11. ASSUME NEW p \in Pollers, ScanPage(p) PROVE Follower!Read
  <2> DEFINE phases == {"scan", "reconcile", "put"}
  <2>1. "scan" \in phases
      OBVIOUS
  <2>2. Offers = OffersIn(phases, TRUE) /\ Offers' = OffersIn(phases, TRUE)'
      BY DEF Offers
  <2>3. TypeOKFor(Row) /\ ScanPage(p)
      BY <1>11
  <2> HIDE DEF phases, Row
  <2>4. OffersIn(phases, TRUE)' \subseteq OffersIn(phases, TRUE)
      BY <2>1, <2>3, ScanPageOffers
  <2>5. Offers' \subseteq Offers
      BY <2>2, <2>4
  <2>6. QED  BY <1>2, <1>11, <2>5 DEF ScanPage
<1>12. ASSUME NEW p \in Pollers, CacheStaffDetails(p) PROVE Follower!Read
  <2>1. SelectStaffDetailsToCache(p) \subseteq Implied(active[p], TRUE) \cup {}
      BY DEF SelectStaffDetailsToCache, Implied
  <2>2. Offers' \subseteq Offers \cup {}
      BY <1>12, <2>1, SendOffers DEF CacheStaffDetails, Offers
  <2>3. QED  BY <1>2, <1>12, <2>2 DEF CacheStaffDetails, Send
<1>13. ASSUME NEW p \in Pollers, UncacheStaffNumbers(p) PROVE Follower!Read
  <2>1. StaffNumbersToUncache(p) \X {None} \subseteq Implied(active[p], TRUE) \cup {}
      BY DEF StaffNumbersToUncache, StaffNumbers, Implied
  <2>2. Offers' \subseteq Offers \cup {}
      BY <1>13, <2>1, SendOffers DEF UncacheStaffNumbers, Offers
  <2>3. QED  BY <1>2, <1>13, <2>2 DEF UncacheStaffNumbers, Send
<1>14. ASSUME NEW p \in Pollers, Finish(p, "delete") PROVE Follower!Read
  <2>1. Offers' \subseteq Offers
      BY <1>14, EndOffers DEF Offers, Finish
  <2>2. QED  BY <1>2, <1>14, <2>1 DEF Finish
<1>15. ASSUME NEW p \in Pollers, Unprocessed(p) PROVE Follower!Read
  <2>1. PICK r \in requests[p] : requests' = [requests EXCEPT ![p] = @ \ {r}]
      BY <1>15 DEF Unprocessed
  <2>2. \A q \in Pollers : requests'[q] \subseteq requests[q]
      BY <2>1 DEF TypeOKFor
  <2>3. Offers' \subseteq Offers
      BY <1>15, <2>2 DEF Unprocessed, Offers, OffersIn, OffersOf, Implied
  <2>4. QED  BY <1>2, <1>15, <2>3 DEF Unprocessed
<1>16. QED
    BY <1>3, <1>4, <1>5, <1>6, <1>7, <1>8, <1>9, <1>10, <1>11, <1>12, <1>13, <1>14, <1>15
       DEF Next, CommonNext, Proceed, CommonProceed, Follower!Next

\* The users poller implements the follower of a source: every write, whenever it
\* takes effect, is of something that was read, and rows of users with a record go
\* only on account of a fault.
THEOREM UsersFollowSource == Spec => FollowsSource
BY UsersTypeCorrect, FollowerInit, FollowerStep, PTL DEF Spec, FollowsSource, Follower!Spec

----------------------------------------------------------------------------
\* Why a clean invocation succeeds: during the puts, a row is current or about to be
\* put, and rows that are not to be put are as scanned; during the deletes, the
\* puts are done, and a row without a user is gone or about to be deleted.
PutsAccounted(p) ==
    /\ \A item \in requests[p] : active[p][item[1]] = {item[2]}
    /\ \A k \in Keys :
           IF \E d \in Details : active[p][k] = {d}
           THEN active[p][k] = {rows[k]} \/ \E d \in active[p][k] : <<k, d>> \in requests[p]
           ELSE rows[k] = cached[p][k]

DeletesAccounted(p) ==
    /\ \A item \in requests[p] : active[p][item[1]] = {} /\ item[2] = None
    /\ \A k \in Keys :
           \/ active[p][k] = {rows[k]}
           \/ active[p][k] = {} /\ (rows[k] = None \/ <<k, None>> \in requests[p])
           \/ /\ active[p][k] # {} /\ \A d \in Details : active[p][k] # {d}
              /\ rows[k] = cached[p][k]

Accounted(p) ==
    /\ pc[p] = "put" => PutsAccounted(p)
    /\ pc[p] = "delete" => DeletesAccounted(p)

SuccessInv == CleanInv /\ \A p \in clean : Accounted(p)

LEMMA SuccessInit == Init => SuccessInv
BY CleanInit DEF Init, PollersInit, SuccessInv

LEMMA SuccessClean == TypeOK /\ CleanInv /\ [Next]_vars => CleanInv'
<1> DEFINE Row == Details \cup {None}
<1> SUFFICES ASSUME TypeOKFor(Row), CleanInv, [Next]_vars PROVE CleanInv'
    BY DEF TypeOK
<1>1. CASE UNCHANGED vars
    BY <1>1 DEF vars, invocation, history, CleanInv, NothingAsked, CleanIsAlone, ScannedIsCurrent
<1>2. CASE CommonNext
    BY <1>2, CleanCommonNext
<1>3. ASSUME NEW p \in Pollers, Query(p) \/ QueryReturnsNothing(p) PROVE CleanInv'
    BY <1>3, CleanQueried DEF Query, QueryReturnsNothing
<1>4. ASSUME NEW p \in Pollers, ScanPage(p) PROVE CleanInv'
    BY <1>4, CleanScanPage
<1>5. ASSUME NEW p \in Pollers, RequestLands(p) PROVE CleanInv'
    BY <1>5, CleanRequestLands
<1>6. ASSUME NEW p \in Pollers, CacheStaffDetails(p) PROVE CleanInv'
    BY <1>6, CleanSend DEF CacheStaffDetails
<1>7. ASSUME NEW p \in Pollers, UncacheStaffNumbers(p) PROVE CleanInv'
    BY <1>7, CleanSend DEF UncacheStaffNumbers
<1>8. ASSUME NEW p \in Pollers, Finish(p, "delete") PROVE CleanInv'
    BY <1>8, CleanEnd DEF Finish
<1>9. ASSUME NEW p \in Pollers, Unprocessed(p) PROVE CleanInv'
    BY <1>9 DEF Unprocessed, CleanInv, NothingAsked, CleanIsAlone, ScannedIsCurrent, TypeOKFor
<1>10. QED
    BY <1>1, <1>2, <1>3, <1>4, <1>5, <1>6, <1>7, <1>8, <1>9
       DEF Next, Proceed, CommonProceed

\* A step that leaves rows and what the invocation knows alone.
LEMMA AccountedSame ==
    ASSUME NEW p, Accounted(p), rows' = rows, pc'[p] = pc[p], active'[p] = active[p],
           cached'[p] = cached[p], requests'[p] = requests[p]
    PROVE  Accounted(p)'
<1>1. PutsAccounted(p) => PutsAccounted(p)'
    BY DEF PutsAccounted
<1>2. DeletesAccounted(p) => DeletesAccounted(p)'
    BY DEF DeletesAccounted
<1>3. QED  BY <1>1, <1>2 DEF Accounted

LEMMA SuccessStep == TypeOK /\ SuccessInv /\ [Next]_vars => SuccessInv'
<1> SUFFICES ASSUME TypeOK, SuccessInv, [Next]_vars, NEW p \in clean'
             PROVE  Accounted(p)'
    BY SuccessClean DEF SuccessInv
<1>1. CleanInv /\ \A q \in clean : Accounted(q)
    BY DEF SuccessInv
<1> USE DEF TypeOK, TypeOKFor
<1>2. CASE UNCHANGED vars
    BY <1>1, <1>2, AccountedSame DEF vars, invocation, history
<1>3. ASSUME NEW k \in Keys, SourceChange(k) PROVE Accounted(p)'
    BY <1>1, <1>3, AccountedSame DEF SourceChange, invocation
<1>4. ASSUME NEW q \in Pollers, Start(q) PROVE Accounted(p)'
    BY <1>4 DEF Start, Accounted
<1>5. ASSUME NEW q \in Pollers, End(q), UNCHANGED rows PROVE Accounted(p)'
  <2>1. p \in clean /\ p # q
      BY <1>5 DEF End
  <2>2. QED  BY <1>1, <1>5, <2>1, AccountedSame DEF End
<1>6. CASE StrayLands \/ StrayIsLost
    BY <1>1, <1>6 DEF StrayLands, StrayIsLost, history, CleanInv, CleanIsAlone
<1>7. ASSUME NEW q \in Pollers, NEW STATE result, Queried(q, result) PROVE Accounted(p)'
  <2>1. p \in clean /\ q = p
      BY <1>1, <1>7, CleanLanding DEF Queried, history
  <2>2. QED  BY <1>7, <2>1 DEF Queried, Accounted
<1>8. ASSUME NEW q \in Pollers, ScanPage(q) PROVE Accounted(p)'
  <2>1. p \in clean /\ q = p
      BY <1>1, <1>8, CleanLanding DEF ScanPage, history
  <2>2. pc'[p] \in {"scan", "reconcile"}
      BY <1>8, <2>1 DEF ScanPage
  <2>3. QED  BY <2>2 DEF Accounted
<1>9. ASSUME NEW q \in Pollers, CacheStaffDetails(q) PROVE Accounted(p)'
  <2>1. p \in clean /\ q = p
      BY <1>1, <1>9, CleanLanding DEF CacheStaffDetails, Send, history
  <2>2. /\ pc'[p] = "put" /\ requests'[p] = SelectStaffDetailsToCache(p)
        /\ UNCHANGED <<active, cached, rows>>
      BY <1>9, <2>1 DEF CacheStaffDetails, Send
  <2>3. \A k \in Keys : cached[p][k] = rows[k]
      BY <1>1, <1>9, <2>1 DEF CacheStaffDetails, Send, CleanInv, ScannedIsCurrent
  <2>4. PutsAccounted(p)'
      BY <2>2, <2>3 DEF PutsAccounted, SelectStaffDetailsToCache, StaffDetailEligibleForCache
  <2>5. QED  BY <2>2, <2>4 DEF Accounted
<1>10. ASSUME NEW q \in Pollers, UncacheStaffNumbers(q) PROVE Accounted(p)'
  <2>1. p \in clean /\ q = p
      BY <1>1, <1>10, CleanLanding DEF UncacheStaffNumbers, Send, history
  <2>2. /\ pc'[p] = "delete" /\ requests'[p] = StaffNumbersToUncache(p) \X {None}
        /\ UNCHANGED <<active, cached, rows>> /\ requests[p] = {} /\ pc[p] = "put"
      BY <1>10, <2>1 DEF UncacheStaffNumbers, Send
  <2>3. PutsAccounted(p)
      BY <1>1, <2>1, <2>2 DEF Accounted
  <2>4. \A item \in requests'[p] : active'[p][item[1]] = {} /\ item[2] = None
      BY <2>2 DEF StaffNumbersToUncache, StaffNumbers
  <2>5. ASSUME NEW k \in Keys, active[p][k] = {}
        PROVE  rows[k] = None \/ <<k, None>> \in requests'[p]
      BY <2>2, <2>3, <2>5 DEF PutsAccounted, StaffNumbersToUncache, StaffNumbers
  <2>6. DeletesAccounted(p)'
      BY <2>2, <2>3, <2>4, <2>5 DEF PutsAccounted, DeletesAccounted
  <2>7. QED  BY <2>2, <2>6 DEF Accounted
<1>11. ASSUME NEW q \in Pollers, RequestLands(q) PROVE Accounted(p)'
  <2>1. p \in clean /\ q = p
      BY <1>1, <1>11, CleanLanding DEF RequestLands, history
  <2>2. PICK r \in requests[p] : /\ rows' = [rows EXCEPT ![r[1]] = r[2]]
                                 /\ requests'[p] = requests[p] \ {r}
      BY <1>11, <2>1 DEF RequestLands
  <2>3. UNCHANGED <<pc, active, cached>> /\ r \in Keys \X (Details \cup {None})
      BY <1>11, <2>1 DEF RequestLands
  <2>4. ASSUME pc[p] = "put" PROVE PutsAccounted(p)'
    <3>1. PutsAccounted(p)
        BY <1>1, <2>1, <2>4 DEF Accounted
    <3>2. active[p][r[1]] = {r[2]} /\ rows'[r[1]] = r[2]
        BY <2>2, <2>3, <3>1 DEF PutsAccounted
    <3>3. \A k \in Keys \ {r[1]} : rows'[k] = rows[k] /\
              \A d : <<k, d>> \in requests[p] => <<k, d>> \in requests'[p]
        BY <2>2, <2>3
    <3>4. r[2] \in Details
        BY <2>1, <2>3, <3>2
    <3>5. \A item \in requests'[p] : active'[p][item[1]] = {item[2]}
        BY <2>2, <2>3, <3>1 DEF PutsAccounted
    <3>6. ASSUME NEW k \in Keys, NEW d \in Details, active[p][k] = {d}
          PROVE  active[p][k] = {rows'[k]} \/ <<k, d>> \in requests'[p]
      <4>1. CASE k = r[1]
          BY <3>2, <3>6, <4>1
      <4>2. CASE k # r[1]
          BY <3>1, <3>3, <3>6, <4>2 DEF PutsAccounted
      <4>3. QED  BY <4>1, <4>2
    <3>7. ASSUME NEW k \in Keys, \A d \in Details : active[p][k] # {d}
          PROVE  rows'[k] = cached[p][k]
      <4>1. k # r[1]
          BY <3>2, <3>4, <3>7
      <4>2. QED  BY <3>1, <3>3, <3>7, <4>1 DEF PutsAccounted
    <3>8. QED  BY <2>3, <3>5, <3>6, <3>7 DEF PutsAccounted
  <2>5. ASSUME pc[p] = "delete" PROVE DeletesAccounted(p)'
    <3>1. DeletesAccounted(p)
        BY <1>1, <2>1, <2>5 DEF Accounted
    <3>2. active[p][r[1]] = {} /\ rows'[r[1]] = None
        BY <2>2, <2>3, <3>1 DEF DeletesAccounted
    <3>3. \A k \in Keys \ {r[1]} : rows'[k] = rows[k] /\
              (<<k, None>> \in requests[p] => <<k, None>> \in requests'[p])
        BY <2>2, <2>3
    <3>4. /\ active'[p] = active[p] /\ cached'[p] = cached[p]
          /\ requests'[p] \subseteq requests[p]
        BY <2>2, <2>3
    <3>5. ASSUME NEW k \in Keys
          PROVE  \/ active'[p][k] = {rows'[k]}
                 \/ active'[p][k] = {} /\ (rows'[k] = None \/ <<k, None>> \in requests'[p])
                 \/ /\ active'[p][k] # {} /\ \A d \in Details : active'[p][k] # {d}
                    /\ rows'[k] = cached'[p][k]
      <4>1. CASE k = r[1]
          BY <3>2, <3>4, <4>1
      <4>2. CASE k # r[1]
        <5>1. \/ active[p][k] = {rows[k]}
              \/ active[p][k] = {} /\ (rows[k] = None \/ <<k, None>> \in requests[p])
              \/ /\ active[p][k] # {} /\ \A d \in Details : active[p][k] # {d}
                 /\ rows[k] = cached[p][k]
            BY <3>1 DEF DeletesAccounted
        <5>2. rows'[k] = rows[k] /\ (<<k, None>> \in requests[p] => <<k, None>> \in requests'[p])
            BY <3>3, <4>2
        <5>3. QED  BY <3>4, <5>1, <5>2
      <4>3. QED  BY <4>1, <4>2
    <3>6. \A item \in requests'[p] : active'[p][item[1]] = {} /\ item[2] = None
        BY <3>1, <3>4 DEF DeletesAccounted
    <3>7. QED  BY <3>5, <3>6 DEF DeletesAccounted
  <2>6. QED  BY <2>3, <2>4, <2>5 DEF Accounted
<1>12. ASSUME NEW q \in Pollers, Unprocessed(q) PROVE Accounted(p)'
  <2>1. p \in clean /\ p # q
      BY <1>12 DEF Unprocessed
  <2>2. QED  BY <1>1, <1>12, <2>1, CleanLanding DEF Unprocessed
<1>13. QED
    BY <1>2, <1>3, <1>4, <1>5, <1>6, <1>7, <1>8, <1>9, <1>10, <1>11, <1>12
       DEF Next, CommonNext, Proceed, CommonProceed, Abandon, Finish, Query,
           QueryReturnsNothing

\* An invocation that succeeds with nothing beside it leaves the table current.
THEOREM UsersSuccessMeansCurrent == Spec => []SuccessMeansCurrent
<1>1. SuccessInv => SuccessMeansCurrent
    BY DEF SuccessInv, Accounted, DeletesAccounted, SuccessMeansCurrent
<1>2. QED
    BY <1>1, UsersTypeCorrect, SuccessInit, SuccessStep, PTL DEF Spec

=============================================================================
