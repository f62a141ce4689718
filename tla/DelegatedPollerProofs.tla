----------------------- MODULE DelegatedPollerProofs -----------------------
(***************************************************************************)
(* Theorems about the delegated bookings poller, for every value of its    *)
(* constants: its types, that it removes only bookings past the retention   *)
(* unless a put overtakes a delete, that it implements TableFollower, and  *)
(* what an undisturbed invocation leaves in the table.                     *)
(***************************************************************************)
EXTENDS DelegatedPoller, PolledTableProofs

LEMMA DelegatedInit == Init => DelegatedTypeOK
BY PolledTableAssumption, DaysAssumption
   DEF Init, PollersInit, DelegatedTypeOK, TypeOKFor, Phases, NoRows, Nothing

LEMMA DelegatedStepTypes ==
    DelegatedTypeOK /\ [Next]_delegatedVars => DelegatedTypeOK'
<1> DEFINE Row == Details \cup {None}
<1> SUFFICES ASSUME TypeOKFor(Row), today \in 0..LastDay, [Steps]_<<vars, today>>
             PROVE  TypeOKFor(Row)' /\ today' \in 0..LastDay
    BY DEF DelegatedTypeOK, Next, Overtake, delegatedVars
<1>1. CASE UNCHANGED vars /\ (UNCHANGED today \/ DayPasses)
  <2>1. TypeOKFor(Row)'
      BY <1>1 DEF vars, invocation, history, TypeOKFor
  <2>2. QED  BY <1>1, <2>1, DaysAssumption DEF DayPasses
<1>2. ASSUME CommonNext PROVE TypeOKFor(Row)'
    BY <1>2, CommonNextTypes
<1>3. ASSUME NEW p \in Pollers, Proceed(p) PROVE TypeOKFor(Row)'
  <2>1. CASE Query(p)
    <3>1. source \in [Keys -> SUBSET Details]
        BY DEF TypeOKFor
    <3>2. QED  BY <2>1, <3>1, QueriedTypes DEF Query
  <2>2. CASE ScanPage(p)
      BY <2>2, ScanPageTypes
  <2>3. CASE RequestLands(p)
      BY <2>3, RequestLandsTypes
  <2>4. CASE UnCacheDelegatedBookingDetails(p)
    <3>1. ExtractCachedBookingsEligibleForDeletion(p) \X {None}
              \in SUBSET (Keys \X (Details \cup {None}))
        BY DEF ExtractCachedBookingsEligibleForDeletion
    <3>2. QED  BY <2>4, <3>1, SendTypes DEF UnCacheDelegatedBookingDetails, Phases
  <2>5. CASE CacheDelegatedBookingDetails(p)
    <3>1. SelectDelegatedBookingsToCache(p) \in SUBSET (Keys \X (Details \cup {None}))
        BY DEF SelectDelegatedBookingsToCache
    <3>2. QED  BY <2>5, <3>1, SendTypes DEF CacheDelegatedBookingDetails, Phases
  <2>6. CASE Finish(p, "put")
      BY <2>6, FinishTypes
  <2>7. QED  BY <1>3, <2>1, <2>2, <2>3, <2>4, <2>5, <2>6 DEF Proceed, CommonProceed
<1>4. ASSUME NEW p \in Pollers, QueryReturnsNothing(p) PROVE TypeOKFor(Row)'
  <2>1. Nothing \in [Keys -> SUBSET Details]
      BY DEF Nothing
  <2>2. QED  BY <1>4, <2>1, QueriedTypes DEF QueryReturnsNothing
<1>5. QED
    BY <1>1, <1>2, <1>3, <1>4 DEF Steps, DayPasses

\* Every variable keeps its type.
THEOREM DelegatedTypeCorrect == Spec => []DelegatedTypeOK
BY DelegatedInit, DelegatedStepTypes, PTL DEF Spec

----------------------------------------------------------------------------
\* A row of a booking that no put overtook is past the retention if a delete of it is
\* under way, and is as scanned where a delete may follow from the scan.
Settled(k) ==
    \/ k \in overtaken
    \/ /\ DeleteUnderWay(k) => Expired(rows[k])
       /\ \A p \in Pollers : DeleteMayFollow(p, k) => cached[p][k] = rows[k]

\* Nothing is awaited before the deletes are sent, and nothing known before the scan.
RetainsInv ==
    /\ \A p \in Pollers :
           /\ pc[p] \in {"idle", "query", "scan", "reconcile"} => requests[p] = {}
           /\ pc[p] \in {"idle", "query"} => \A k \in Keys : cached[p][k] = None
    /\ \A k \in Keys : rows[k] \in Details => Settled(k)

LEMMA RetainsInit == Init => RetainsInv
BY PolledTableAssumption DEF Init, PollersInit, NoRows, RetainsInv

\* A row that is replaced is settled: either a delete is in prospect and overtaken,
\* or there is none.
LEMMA ReplacedSettled ==
    ASSUME NEW k \in Keys, Overtake, rows'[k] # None, rows'[k] # rows[k]
    PROVE  Settled(k)'
BY DEF Overtake, InProspect, Settled

\* A row that is not replaced stays settled, if the deletes that are new under way
\* follow from what was scanned and what is newly scanned is the row.
LEMMA SameSettled ==
    ASSUME DelegatedTypeOK, today' \in Int, today' >= today,
           NEW k \in Keys, rows[k] \in Details, Settled(k), Overtake, rows'[k] = rows[k],
           DeleteUnderWay(k)' =>
               \/ DeleteUnderWay(k)
               \/ \E p \in Pollers : DeleteMayFollow(p, k) /\ Expired(cached[p][k]),
           \A p \in Pollers : DeleteMayFollow(p, k)' =>
               \/ DeleteMayFollow(p, k) /\ cached'[p][k] = cached[p][k]
               \/ cached'[p][k] = rows[k]
    PROVE  Settled(k)'
<1>1. CASE k \in overtaken
    BY <1>1 DEF Overtake, InProspect, Settled
<1>2. CASE k \notin overtaken
  <2>1. /\ DeleteUnderWay(k) => Expired(rows[k])
        /\ \A p \in Pollers : DeleteMayFollow(p, k) => cached[p][k] = rows[k]
      BY <1>2 DEF Settled
  <2>2. DeleteUnderWay(k)' => Expired(rows[k])
      BY <2>1
  <2>3. Expired(rows[k]) => Expired(rows[k])'
      BY DaysAssumption DEF Expired, DelegatedTypeOK
  <2>4. \A p \in Pollers : DeleteMayFollow(p, k)' => cached'[p][k] = rows'[k]
      BY <2>1
  <2>5. QED  BY <2>2, <2>3, <2>4 DEF Settled
<1>3. QED  BY <1>1, <1>2

LEMMA RetainsStep ==
    DelegatedTypeOK /\ RetainsInv /\ [Next]_delegatedVars => RetainsInv'
<1> SUFFICES ASSUME DelegatedTypeOK, RetainsInv, [Next]_delegatedVars PROVE RetainsInv'
    OBVIOUS
<1> USE DEF DelegatedTypeOK, TypeOKFor
<1> DEFINE Idle(p) ==
               /\ pc[p] \in {"idle", "query", "scan", "reconcile"} => requests[p] = {}
               /\ pc[p] \in {"idle", "query"} => \A k \in Keys : cached[p][k] = None
           NewDeletes(k) == DeleteUnderWay(k)' =>
               \/ DeleteUnderWay(k)
               \/ \E p \in Pollers : DeleteMayFollow(p, k) /\ Expired(cached[p][k])
           NewScanned(k) == \A p \in Pollers : DeleteMayFollow(p, k)' =>
               \/ DeleteMayFollow(p, k) /\ cached'[p][k] = cached[p][k]
               \/ cached'[p][k] = rows[k]
           Good == /\ \A p \in Pollers : Idle(p)'
                   /\ \A k \in Keys : rows'[k] = rows[k] => NewDeletes(k) /\ NewScanned(k)
<1>1. CASE UNCHANGED delegatedVars
    BY <1>1 DEF delegatedVars, vars, invocation, RetainsInv, Settled, DeleteUnderWay,
                DeleteMayFollow, Expired
<1>2. \A p \in Pollers : Idle(p)
    BY DEF RetainsInv
<1>3. ASSUME UNCHANGED vars PROVE Good
    BY <1>2, <1>3 DEF vars, invocation, DeleteUnderWay, DeleteMayFollow
<1>4. ASSUME NEW j \in Keys, SourceChange(j) PROVE Good
    BY <1>2, <1>4 DEF SourceChange, invocation, DeleteUnderWay, DeleteMayFollow
<1>5. ASSUME NEW p \in Pollers, Start(p) PROVE Good
    BY <1>2, <1>5 DEF Start, DeleteUnderWay, DeleteMayFollow
<1>6. ASSUME NEW p \in Pollers, End(p), UNCHANGED rows,
             strays' \subseteq strays \cup requests[p]
      PROVE  Good
  <2>1. \A q \in Pollers \ {p} : /\ pc'[q] = pc[q] /\ requests'[q] = requests[q]
                                 /\ active'[q] = active[q] /\ cached'[q] = cached[q]
      BY <1>6 DEF End
  <2>2. /\ pc'[p] = "idle" /\ requests'[p] = {}
        /\ \A k \in Keys : cached'[p][k] = None
      BY <1>6 DEF End, NoRows
  <2>3. \A q \in Pollers : Idle(q)'
      BY <1>2, <2>1, <2>2
  <2>4. \A k \in Keys : NewDeletes(k)
      BY <1>6, <2>1, <2>2 DEF DeleteUnderWay
  <2>5. \A k \in Keys : NewScanned(k)
      BY <2>1, <2>2 DEF DeleteMayFollow
  <2>6. QED  BY <2>3, <2>4, <2>5
<1>7. ASSUME StrayLands \/ StrayIsLost PROVE Good
  <2>1. strays' \subseteq strays /\ UNCHANGED invocation
      BY <1>7 DEF StrayLands, StrayIsLost
  <2>2. QED  BY <1>2, <2>1 DEF invocation, DeleteUnderWay, DeleteMayFollow
<1>8. ASSUME NEW p \in Pollers, NEW STATE result, Queried(p, result) PROVE Good
  <2>1. /\ pc[p] = "query" /\ pc'[p] = "scan"
        /\ \A q \in Pollers \ {p} : pc'[q] = pc[q] /\ active'[q] = active[q]
        /\ UNCHANGED <<requests, cached, strays>>
      BY <1>8 DEF Queried
  <2>2. QED  BY <1>2, <2>1 DEF DeleteUnderWay, DeleteMayFollow
<1>9. ASSUME NEW p \in Pollers, ScanPage(p) PROVE Good
  <2>1. /\ pc[p] = "scan" /\ pc'[p] \in {"scan", "reconcile"}
        /\ \A q \in Pollers \ {p} : pc'[q] = pc[q] /\ cached'[q] = cached[q]
        /\ \A k \in Keys : cached'[p][k] = cached[p][k] \/ cached'[p][k] = rows[k]
        /\ UNCHANGED <<requests, active, strays>>
      BY <1>9 DEF ScanPage
  <2>2. \A q \in Pollers : Idle(q)'
      BY <1>2, <2>1
  <2>3. \A k \in Keys : NewDeletes(k)
      BY <2>1 DEF DeleteUnderWay
  <2>4. \A k \in Keys : NewScanned(k)
      BY <2>1, PolledTableAssumption DEF DeleteMayFollow
  <2>5. QED  BY <2>2, <2>3, <2>4
<1>10. ASSUME NEW p \in Pollers, RequestLands(p) PROVE Good
  <2>1. /\ \A q \in Pollers : requests'[q] \subseteq requests[q]
        /\ UNCHANGED <<pc, active, cached, strays>>
      BY <1>10 DEF RequestLands
  <2>2. QED  BY <1>2, <2>1 DEF DeleteUnderWay, DeleteMayFollow
<1>11. ASSUME NEW p \in Pollers, UnCacheDelegatedBookingDetails(p) PROVE Good
  <2>1. /\ pc[p] = "reconcile" /\ pc'[p] = "delete"
        /\ requests'[p] = ExtractCachedBookingsEligibleForDeletion(p) \X {None}
        /\ \A q \in Pollers \ {p} : pc'[q] = pc[q] /\ requests'[q] = requests[q]
        /\ UNCHANGED <<active, cached, strays>>
      BY <1>11 DEF UnCacheDelegatedBookingDetails, Send
  <2>2. \A q \in Pollers : Idle(q)'
      BY <1>2, <2>1
  <2>3. \A k \in Keys : <<k, None>> \in requests'[p] =>
            DeleteMayFollow(p, k) /\ Expired(cached[p][k])
      BY <2>1 DEF ExtractCachedBookingsEligibleForDeletion, DeleteMayFollow
  <2>4. \A k \in Keys : NewDeletes(k)
      BY <2>1, <2>3 DEF DeleteUnderWay
  <2>5. \A k \in Keys : NewScanned(k)
      BY <2>1 DEF DeleteMayFollow
  <2>6. QED  BY <2>2, <2>4, <2>5
<1>12. ASSUME NEW p \in Pollers, CacheDelegatedBookingDetails(p) PROVE Good
  <2>1. /\ pc[p] = "delete" /\ pc'[p] = "put"
        /\ requests'[p] = SelectDelegatedBookingsToCache(p)
        /\ \A q \in Pollers \ {p} : pc'[q] = pc[q] /\ requests'[q] = requests[q]
        /\ UNCHANGED <<active, cached, strays>>
      BY <1>12 DEF CacheDelegatedBookingDetails, Send
  <2>2. \A k \in Keys : <<k, None>> \notin requests'[p]
      BY <2>1, PolledTableAssumption DEF SelectDelegatedBookingsToCache
  <2>3. QED  BY <1>2, <2>1, <2>2 DEF DeleteUnderWay, DeleteMayFollow
<1>13. CASE Next
  <2>1. Good
    <3> HIDE DEF Good
    <3> QED
      BY <1>3, <1>4, <1>5, <1>6, <1>7, <1>8, <1>9, <1>10, <1>11, <1>12, <1>13
         DEF Next, Steps, DayPasses, CommonNext, Proceed, CommonProceed, Abandon, Finish,
             Query, QueryReturnsNothing
  <2>2. today' \in Int /\ today' >= today
      BY <1>13, DaysAssumption DEF Next, Steps, DayPasses
  <2>3. Overtake
      BY <1>13 DEF Next
  <2>4. ASSUME NEW k \in Keys, rows'[k] \in Details PROVE Settled(k)'
    <3>1. CASE rows'[k] # rows[k]
        BY <2>3, <2>4, <3>1, ReplacedSettled, PolledTableAssumption
    <3>2. CASE rows'[k] = rows[k]
      <4>1. Settled(k)
          BY <2>4, <3>2 DEF RetainsInv
      <4>2. NewDeletes(k) /\ NewScanned(k)
          BY <2>1, <3>2
      <4> HIDE DEF DelegatedTypeOK
      <4>3. QED  BY <2>2, <2>3, <2>4, <3>2, <4>1, <4>2, SameSettled
    <3>3. QED  BY <3>1, <3>2
  <2>5. QED  BY <2>1, <2>4 DEF RetainsInv
<1>14. QED  BY <1>1, <1>13

\* The step that removes a row is a delete taking effect, awaited or not.
LEMMA RemovedWereUnderWay ==
    ASSUME DelegatedTypeOK, [Next]_delegatedVars,
           NEW k \in Keys, rows[k] \in Details, rows'[k] = None
    PROVE  DeleteUnderWay(k)
<1>1. rows'[k] # rows[k]
    BY PolledTableAssumption
<1>2. StrayLands \/ \E p \in Pollers : RequestLands(p)
    BY <1>1 DEF Next, Steps, DayPasses, delegatedVars, vars, CommonNext, SourceChange,
                Start, Abandon, StrayIsLost, Proceed, CommonProceed, Query, Queried,
                QueryReturnsNothing, ScanPage, UnCacheDelegatedBookingDetails,
                CacheDelegatedBookingDetails, Send, Finish
<1>3. ASSUME NEW requested, requested \subseteq Keys \X (Details \cup {None}),
             \E r \in requested : rows' = [rows EXCEPT ![r[1]] = r[2]]
      PROVE  <<k, None>> \in requested
  <2>1. PICK r \in requested : rows' = [rows EXCEPT ![r[1]] = r[2]]
      BY <1>3
  <2>2. r = <<r[1], r[2]>> /\ r[1] \in Keys
      BY <1>3
  <2>3. r[1] = k /\ r[2] = None
      BY <1>1, <2>1, <2>2 DEF DelegatedTypeOK, TypeOKFor
  <2>4. QED  BY <2>2, <2>3
<1>4. CASE StrayLands
    BY <1>3, <1>4 DEF StrayLands, DeleteUnderWay, DelegatedTypeOK, TypeOKFor
<1>5. CASE \E p \in Pollers : RequestLands(p)
    BY <1>3, <1>5 DEF RequestLands, DeleteUnderWay, DelegatedTypeOK, TypeOKFor
<1>6. QED  BY <1>2, <1>4, <1>5

\* Whatever fails, however many pollers and whenever the deletes take effect, the row
\* removed is past the retention unless a put overtook that delete.
THEOREM OnlyExpiredRemoved == Spec => RetainedUntilExpired
<1> DEFINE Removal == \A k \in Keys : rows[k] \in Details /\ rows'[k] = None =>
                          today - StartDay[rows[k]] > Retain \/ k \in overtaken
<1>1. DelegatedTypeOK /\ RetainsInv /\ [Next]_delegatedVars => [Removal]_delegatedVars
  <2> SUFFICES ASSUME DelegatedTypeOK, RetainsInv, [Next]_delegatedVars,
                      NEW k \in Keys, rows[k] \in Details, rows'[k] = None
               PROVE  today - StartDay[rows[k]] > Retain \/ k \in overtaken
      OBVIOUS
  <2>1. DeleteUnderWay(k)
      BY RemovedWereUnderWay
  <2>2. QED  BY <2>1 DEF RetainsInv, Settled, Expired
<1>2. QED
    BY <1>1, DelegatedTypeCorrect, RetainsInit, RetainsStep, PTL
       DEF Spec, RetainedUntilExpired

----------------------------------------------------------------------------
LEMMA FollowerInit == Init => Follower!Init
<1> SUFFICES ASSUME Init PROVE Follower!Init
    OBVIOUS
<1>1. Offers = {}
    BY InitOffers DEF Init, Offers
<1>2. QED
    BY <1>1 DEF Init, PollersInit, NoRows, Follower!Init

LEMMA FollowerStep == DelegatedTypeOK /\ [Next]_delegatedVars => [Follower!Next]_(Follower!vars)
<1> DEFINE Row == Details \cup {None}
           phases == {"scan", "reconcile", "delete"}
<1> SUFFICES ASSUME TypeOKFor(Row), [Next]_delegatedVars
             PROVE  Follower!Next \/ UNCHANGED Follower!vars
    BY DEF DelegatedTypeOK, Follower!vars
<1>1. faults \in Int
    BY PolledTableAssumption DEF TypeOKFor
<1>2. /\ "scan" \in phases /\ "reconcile" \in phases /\ "delete" \in phases
      /\ "idle" \notin phases /\ "query" \notin phases
    OBVIOUS
<1>3. Offers = OffersIn(phases, FALSE) /\ Offers' = OffersIn(phases, FALSE)'
    BY DEF Offers
<1> HIDE DEF phases, Row
\* Most steps read nothing new.
<1>4. ASSUME Offers' \subseteq Offers, UNCHANGED <<source, rows>>, UNCHANGED faults \/ Fault
      PROVE  Follower!Read
  <2>1. faults' >= faults
      BY <1>1, <1>4 DEF Fault
  <2>2. QED  BY <1>4, <2>1 DEF Follower!Read
<1>5. ASSUME UNCHANGED vars PROVE UNCHANGED Follower!vars
    BY <1>3, <1>5, SameOffers DEF vars, invocation, Follower!vars
<1>6. ASSUME NEW k \in Keys, SourceChange(k) PROVE Follower!SourceChanges
  <2>1. source' \in [Keys -> SUBSET Details]
      BY <1>6 DEF SourceChange, TypeOKFor
  <2>2. UNCHANGED Offers
      BY <1>3, <1>6, SameOffers DEF SourceChange, invocation
  <2>3. QED  BY <1>6, <2>1, <2>2 DEF SourceChange, Follower!SourceChanges
<1>7. ASSUME NEW p \in Pollers, Start(p) PROVE Follower!Read
  <2>1. Offers' \subseteq Offers
      BY <1>2, <1>3, <1>7, StartOffers
  <2>2. QED  BY <1>4, <1>7, <2>1 DEF Start
<1>8. ASSUME NEW p \in Pollers, Abandon(p) \/ Finish(p, "put") PROVE Follower!Read
  <2>1. Offers' \subseteq Offers
      BY <1>2, <1>3, <1>8, EndOffers DEF Abandon, Finish
  <2>2. QED  BY <1>4, <1>8, <2>1 DEF Abandon, Finish
<1>9. ASSUME StrayIsLost PROVE Follower!Read
  <2>1. Offers' \subseteq Offers
      BY <1>3, <1>9, StrayIsLostOffers
  <2>2. QED  BY <1>4, <1>9, <2>1 DEF StrayIsLost
<1>10. ASSUME StrayLands \/ \E p \in Pollers : RequestLands(p) PROVE Follower!Write
  <2>1. /\ Offers' \subseteq Offers
        /\ \E item \in Offers : rows' = [rows EXCEPT ![item[1]] = item[2]]
      BY <1>3, <1>10, LandingOffers
  <2>2. UNCHANGED <<source, faults>>
      BY <1>10 DEF StrayLands, RequestLands
  <2>3. QED  BY <2>1, <2>2 DEF Follower!Write
<1>11. ASSUME NEW p \in Pollers, Query(p) PROVE Follower!Read
  <2>1. Offers' \subseteq Offers \cup Implied(source, FALSE)
      BY <1>3, <1>11, QueriedOffers DEF Query
  <2>2. Implied(source, FALSE) \subseteq Follower!Writes(source)
      BY DEF Implied, Follower!Writes
  <2>3. UNCHANGED <<source, rows, faults>>
      BY <1>11 DEF Query, Queried
  <2>4. faults' >= faults
      BY <1>1, <2>3
  <2>5. QED  BY <2>1, <2>2, <2>3, <2>4 DEF Follower!Read
<1>12. ASSUME NEW p \in Pollers, QueryReturnsNothing(p) PROVE Follower!Misread
  <2>1. Offers' \subseteq Offers \cup Implied(Nothing, FALSE)
      BY <1>3, <1>12, QueriedOffers DEF QueryReturnsNothing
  <2>2. Implied(Nothing, FALSE) \subseteq Keys \X {None}
      BY DEF Implied, Nothing
  <2>3. UNCHANGED <<source, rows>> /\ faults' > faults
      BY <1>1, <1>12 DEF QueryReturnsNothing, Queried, Fault
  <2>4. QED  BY <2>1, <2>2, <2>3 DEF Follower!Misread
<1>13. ASSUME NEW p \in Pollers, ScanPage(p) PROVE Follower!Read
  <2>1. Offers' \subseteq Offers
      BY <1>2, <1>3, <1>13, ScanPageOffers
  <2>2. QED  BY <1>4, <1>13, <2>1 DEF ScanPage
<1>14. ASSUME NEW p \in Pollers, UnCacheDelegatedBookingDetails(p) PROVE Follower!Read
  <2>1. ExtractCachedBookingsEligibleForDeletion(p) \X {None}
            \subseteq Implied(active[p], FALSE) \cup {}
      BY DEF ExtractCachedBookingsEligibleForDeletion, Implied
  <2>2. Offers' \subseteq Offers \cup {}
      BY <1>2, <1>3, <1>14, <2>1, SendOffers DEF UnCacheDelegatedBookingDetails
  <2>3. QED  BY <1>4, <1>14, <2>2 DEF UnCacheDelegatedBookingDetails, Send
<1>15. ASSUME NEW p \in Pollers, CacheDelegatedBookingDetails(p) PROVE Follower!Read
  <2>1. SelectDelegatedBookingsToCache(p) \subseteq Implied(active[p], FALSE) \cup {}
      BY DEF SelectDelegatedBookingsToCache, Implied
  <2>2. Offers' \subseteq Offers \cup {}
      BY <1>2, <1>3, <1>15, <2>1, SendOffers DEF CacheDelegatedBookingDetails
  <2>3. QED  BY <1>4, <1>15, <2>2 DEF CacheDelegatedBookingDetails, Send
<1>16. QED
    BY <1>5, <1>6, <1>7, <1>8, <1>9, <1>10, <1>11, <1>12, <1>13, <1>14, <1>15
       DEF Next, Steps, DayPasses, delegatedVars, CommonNext, Proceed, CommonProceed, Follower!Next

\* The delegated bookings poller implements the follower of a source, however many
\* days pass between what it reads and what it writes.
THEOREM DelegatedFollowsSource == Spec => FollowsSource
BY DelegatedTypeCorrect, FollowerInit, FollowerStep, PTL
   DEF Spec, FollowsSource, Follower!Spec

----------------------------------------------------------------------------
\* Why a clean invocation succeeds: during the deletes, rows are as scanned but for
\* those past the retention; during the puts, a reference with bookings has the row
\* of one of them or is about to get it.
Kept(p, k) ==
    /\ active[p][k] = {}
    /\ \/ rows[k] = cached[p][k]
       \/ /\ rows[k] = None
          /\ cached[p][k] \in Details /\ today - StartDay[cached[p][k]] > Retain

DeletesAccounted(p) ==
    /\ \A item \in requests[p] :
           /\ active[p][item[1]] = {} /\ item[2] = None
           /\ cached[p][item[1]] \in Details
           /\ today - StartDay[cached[p][item[1]]] > Retain
    /\ \A k \in Keys : rows[k] = cached[p][k] \/ Kept(p, k)

PutsAccounted(p) ==
    /\ \A item \in requests[p] : item[2] \in active[p][item[1]]
    /\ \A k \in Keys :
           \/ rows[k] \in active[p][k]
           \/ \E d \in active[p][k] : <<k, d>> \in requests[p]
           \/ Kept(p, k)

Accounted(p) ==
    /\ pc[p] = "delete" => DeletesAccounted(p)
    /\ pc[p] = "put" => PutsAccounted(p)

SuccessInv == CleanInv /\ \A p \in clean : Accounted(p)

LEMMA SuccessInit == Init => SuccessInv
BY CleanInit DEF Init, PollersInit, SuccessInv

LEMMA SuccessClean == DelegatedTypeOK /\ CleanInv /\ [Next]_delegatedVars => CleanInv'
<1> DEFINE Row == Details \cup {None}
<1> SUFFICES ASSUME TypeOKFor(Row), CleanInv, [Next]_delegatedVars PROVE CleanInv'
    BY DEF DelegatedTypeOK
<1>1. CASE UNCHANGED vars
    BY <1>1 DEF vars, invocation, history, CleanInv, NothingAsked, CleanIsAlone, ScannedIsCurrent
<1>2. CASE CommonNext
    BY <1>2, CleanCommonNext
<1>3. ASSUME NEW p \in Pollers, Query(p) \/ QueryReturnsNothing(p) PROVE CleanInv'
    BY <1>3, CleanQueried DEF Query, QueryReturnsNothing
<1>4. ASSUME NEW p \in Pollers, ScanPage(p) PROVE CleanInv'
    BY <1>4, CleanScanPage
<1>5. ASSUME NEW p \in Pollers, RequestLands(p) PROVE CleanInv'
    BY <1>5, CleanRequestLands
<1>6. ASSUME NEW p \in Pollers, UnCacheDelegatedBookingDetails(p) PROVE CleanInv'
    BY <1>6, CleanSend DEF UnCacheDelegatedBookingDetails
<1>7. ASSUME NEW p \in Pollers, CacheDelegatedBookingDetails(p) PROVE CleanInv'
    BY <1>7, CleanSend DEF CacheDelegatedBookingDetails
<1>8. ASSUME NEW p \in Pollers, Finish(p, "put") PROVE CleanInv'
    BY <1>8, CleanEnd DEF Finish
<1>9. QED
    BY <1>1, <1>2, <1>3, <1>4, <1>5, <1>6, <1>7, <1>8
       DEF Next, Steps, DayPasses, delegatedVars, Proceed, CommonProceed

\* A step, of a day perhaps, that leaves rows and what the invocation knows alone.
LEMMA AccountedSame ==
    ASSUME NEW p, Accounted(p), today \in Int, today' \in Int, today' >= today,
           rows' = rows, pc'[p] = pc[p], active'[p] = active[p],
           cached'[p] = cached[p], requests'[p] = requests[p]
    PROVE  Accounted(p)'
<1>1. ASSUME NEW d \in Details, today - StartDay[d] > Retain
      PROVE  today' - StartDay[d] > Retain
    BY <1>1, DaysAssumption
<1>2. ASSUME NEW k, Kept(p, k) PROVE Kept(p, k)'
    BY <1>1, <1>2 DEF Kept
<1>3. DeletesAccounted(p) => DeletesAccounted(p)'
    BY <1>1, <1>2 DEF DeletesAccounted
<1>4. PutsAccounted(p) => PutsAccounted(p)'
    BY <1>2 DEF PutsAccounted
<1>5. QED  BY <1>3, <1>4 DEF Accounted

LEMMA SuccessStep ==
    DelegatedTypeOK /\ SuccessInv /\ [Next]_delegatedVars => SuccessInv'
<1> SUFFICES ASSUME DelegatedTypeOK, SuccessInv, [Next]_delegatedVars, NEW p \in clean'
             PROVE  Accounted(p)'
    BY SuccessClean DEF SuccessInv
<1>1. CleanInv /\ \A q \in clean : Accounted(q)
    BY DEF SuccessInv
<1>2. today \in Int
    BY DaysAssumption DEF DelegatedTypeOK
<1> USE DEF DelegatedTypeOK, TypeOKFor
<1>3. CASE UNCHANGED vars /\ (UNCHANGED today \/ DayPasses)
  <2>1. today' \in Int /\ today' >= today
      BY <1>2, <1>3 DEF DayPasses
  <2>2. QED  BY <1>1, <1>2, <1>3, <2>1, AccountedSame DEF vars, invocation, history
<1>4. ASSUME UNCHANGED today, NEW k \in Keys, SourceChange(k) PROVE Accounted(p)'
    BY <1>1, <1>2, <1>4, AccountedSame DEF SourceChange, invocation
<1>5. ASSUME UNCHANGED today, NEW q \in Pollers, Start(q) PROVE Accounted(p)'
    BY <1>5 DEF Start, Accounted
<1>6. ASSUME UNCHANGED today, NEW q \in Pollers, End(q), UNCHANGED rows
      PROVE  Accounted(p)'
  <2>1. p \in clean /\ p # q
      BY <1>6 DEF End
  <2>2. QED  BY <1>1, <1>2, <1>6, <2>1, AccountedSame DEF End
<1>7. CASE StrayLands \/ StrayIsLost
    BY <1>1, <1>7 DEF StrayLands, StrayIsLost, history, CleanInv, CleanIsAlone
<1>8. ASSUME UNCHANGED today, NEW q \in Pollers, NEW STATE result, Queried(q, result)
      PROVE  Accounted(p)'
  <2>1. p \in clean /\ q = p
      BY <1>1, <1>8, CleanLanding DEF Queried, history
  <2>2. QED  BY <1>8, <2>1 DEF Queried, Accounted
<1>9. ASSUME UNCHANGED today, NEW q \in Pollers, ScanPage(q) PROVE Accounted(p)'
  <2>1. p \in clean /\ q = p
      BY <1>1, <1>9, CleanLanding DEF ScanPage, history
  <2>2. pc'[p] \in {"scan", "reconcile"}
      BY <1>9, <2>1 DEF ScanPage
  <2>3. QED  BY <2>2 DEF Accounted
<1>10. ASSUME UNCHANGED today, NEW q \in Pollers, UnCacheDelegatedBookingDetails(q)
       PROVE  Accounted(p)'
  <2>1. p \in clean /\ q = p
      BY <1>1, <1>10, CleanLanding DEF UnCacheDelegatedBookingDetails, Send, history
  <2>2. /\ pc'[p] = "delete"
        /\ requests'[p] = ExtractCachedBookingsEligibleForDeletion(p) \X {None}
        /\ UNCHANGED <<active, cached, rows>>
      BY <1>10, <2>1 DEF UnCacheDelegatedBookingDetails, Send
  <2>3. \A k \in Keys : cached[p][k] = rows[k]
      BY <1>1, <1>10, <2>1
         DEF UnCacheDelegatedBookingDetails, Send, CleanInv, ScannedIsCurrent
  <2>4. DeletesAccounted(p)'
      BY <1>10, <2>1, <2>2, <2>3
         DEF DeletesAccounted, ExtractCachedBookingsEligibleForDeletion, Expired
  <2>5. QED  BY <2>2, <2>4 DEF Accounted
<1>11. ASSUME UNCHANGED today, NEW q \in Pollers, CacheDelegatedBookingDetails(q)
       PROVE  Accounted(p)'
  <2>1. p \in clean /\ q = p
      BY <1>1, <1>11, CleanLanding DEF CacheDelegatedBookingDetails, Send, history
  <2>2. /\ pc'[p] = "put" /\ requests'[p] = SelectDelegatedBookingsToCache(p)
        /\ UNCHANGED <<active, cached, rows>> /\ requests[p] = {} /\ pc[p] = "delete"
      BY <1>11, <2>1 DEF CacheDelegatedBookingDetails, Send
  <2>3. DeletesAccounted(p)
      BY <1>1, <2>1, <2>2 DEF Accounted
  <2>4. \A item \in requests'[p] : item[2] \in active'[p][item[1]]
      BY <2>2 DEF SelectDelegatedBookingsToCache
  <2>5. ASSUME NEW k \in Keys
        PROVE  \/ rows[k] \in active[p][k]
               \/ \E d \in active[p][k] : <<k, d>> \in requests'[p]
               \/ Kept(p, k)
    <3>1. CASE active[p][k] = {}
        BY <2>3, <3>1 DEF DeletesAccounted, Kept
    <3>2. CASE active[p][k] # {}
      <4>1. PICK d \in active[p][k] : TRUE
          BY <3>2
      <4>2. rows[k] = cached[p][k]
          BY <2>3, <3>2 DEF DeletesAccounted, Kept
      <4>3. d \in Details
          BY <2>1, <4>1
      <4>4. cached[p][k] = d \/ <<k, d>> \in requests'[p]
          BY <2>2, <4>1, <4>3
             DEF SelectDelegatedBookingsToCache, DelegatedBookingsEligibleForCache
      <4>5. QED  BY <4>1, <4>2, <4>4
    <3>3. QED  BY <3>1, <3>2
  <2>6. \A k \in Keys : Kept(p, k)' <=> Kept(p, k)
      BY <1>11, <2>2 DEF Kept
  <2>7. PutsAccounted(p)'
      BY <2>2, <2>4, <2>5, <2>6 DEF PutsAccounted
  <2>8. QED  BY <2>2, <2>7 DEF Accounted
<1>12. ASSUME UNCHANGED today, NEW q \in Pollers, RequestLands(q) PROVE Accounted(p)'
  <2>1. p \in clean /\ q = p
      BY <1>1, <1>12, CleanLanding DEF RequestLands, history
  <2>2. PICK r \in requests[p] : /\ rows' = [rows EXCEPT ![r[1]] = r[2]]
                                 /\ requests'[p] = requests[p] \ {r}
      BY <1>12, <2>1 DEF RequestLands
  <2>3. UNCHANGED <<pc, active, cached>> /\ r \in Keys \X (Details \cup {None})
      BY <1>12, <2>1 DEF RequestLands
  <2>4. rows'[r[1]] = r[2] /\ \A k \in Keys \ {r[1]} : rows'[k] = rows[k]
      BY <2>2, <2>3
  <2>5. \A k \in Keys \ {r[1]} : Kept(p, k) => Kept(p, k)'
      BY <1>12, <2>3, <2>4 DEF Kept
  <2>6. ASSUME pc[p] = "delete" PROVE DeletesAccounted(p)'
    <3>1. DeletesAccounted(p)
        BY <1>1, <2>1, <2>6 DEF Accounted
    <3>2. Kept(p, r[1])'
        BY <1>12, <2>2, <2>3, <2>4, <3>1 DEF DeletesAccounted, Kept
    <3>3. \A item \in requests'[p] :
             /\ active'[p][item[1]] = {} /\ item[2] = None
             /\ cached'[p][item[1]] \in Details
             /\ today' - StartDay[cached'[p][item[1]]] > Retain
        BY <1>12, <2>2, <2>3, <3>1 DEF DeletesAccounted
    <3>4. \A k \in Keys : rows'[k] = cached'[p][k] \/ Kept(p, k)'
        BY <2>3, <2>4, <2>5, <3>1, <3>2 DEF DeletesAccounted
    <3>5. QED  BY <3>3, <3>4 DEF DeletesAccounted
  <2>7. ASSUME pc[p] = "put" PROVE PutsAccounted(p)'
    <3>1. PutsAccounted(p)
        BY <1>1, <2>1, <2>7 DEF Accounted
    <3>2. rows'[r[1]] \in active'[p][r[1]]
        BY <2>2, <2>3, <2>4, <3>1 DEF PutsAccounted
    <3>3. \A item \in requests'[p] : item[2] \in active'[p][item[1]]
        BY <2>2, <2>3, <3>1 DEF PutsAccounted
    <3>4. ASSUME NEW k \in Keys \ {r[1]}
          PROVE  \/ rows'[k] \in active'[p][k]
                 \/ \E d \in active'[p][k] : <<k, d>> \in requests'[p]
                 \/ Kept(p, k)'
      <4>1. \A d : <<k, d>> \in requests[p] => <<k, d>> \in requests'[p]
          BY <2>2, <2>3
      <4>2. QED  BY <2>3, <2>4, <2>5, <3>1, <4>1 DEF PutsAccounted
    <3>5. QED  BY <3>2, <3>3, <3>4 DEF PutsAccounted
  <2>8. QED  BY <2>3, <2>6, <2>7 DEF Accounted
<1>13. QED
    BY <1>3, <1>4, <1>5, <1>6, <1>7, <1>8, <1>9, <1>10, <1>11, <1>12
       DEF Next, Steps, DayPasses, delegatedVars, CommonNext, Proceed, CommonProceed, Abandon,
           Finish, Query, QueryReturnsNothing

\* An invocation that succeeds with nothing beside it leaves the table as it should be.
THEOREM DelegatedSuccessMeansCurrent == Spec => []SuccessMeansCurrent
<1>1. SuccessInv => SuccessMeansCurrent
    BY DEF SuccessInv, Accounted, PutsAccounted, Kept, SuccessMeansCurrent
<1>2. QED
    BY <1>1, DelegatedTypeCorrect, SuccessInit, SuccessStep, PTL DEF Spec

=============================================================================
