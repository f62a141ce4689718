------------------------- MODULE PolledTableProofs -------------------------
(***************************************************************************)
(* What holds of the steps that the users, test centre and delegated       *)
(* bookings pollers share, whatever each of them adds: the types of the    *)
(* state, for the rows each table can have, and what becomes of the offers *)
(* by which they implement TableFollower.                                  *)
(***************************************************************************)
EXTENDS PolledTable, TLAPS

\* A step of the source, the schedule, a failure or a stray request keeps the types.
LEMMA CommonNextTypes ==
    ASSUME NEW Row, Details \cup {None} \subseteq Row, None \in Row,
           TypeOKFor(Row), CommonNext
    PROVE  TypeOKFor(Row)'
<1> USE PolledTableAssumption DEF TypeOKFor, Phases, NoRows, Nothing, Fault, Absent,
                                  invocation, history
<1>1. ASSUME NEW k \in Keys, SourceChange(k) PROVE TypeOKFor(Row)'
    BY <1>1 DEF SourceChange
<1>2. ASSUME NEW p \in Pollers, Start(p) PROVE TypeOKFor(Row)'
    BY <1>2 DEF Start
<1>3. ASSUME NEW p \in Pollers, Abandon(p) PROVE TypeOKFor(Row)'
    BY <1>3 DEF Abandon, End
<1>4. CASE StrayLands
    BY <1>4 DEF StrayLands
<1>5. CASE StrayIsLost
    BY <1>5 DEF StrayIsLost
<1>6. QED  BY <1>1, <1>2, <1>3, <1>4, <1>5 DEF CommonNext

\* So does a query, whatever it returns.
LEMMA QueriedTypes ==
    ASSUME NEW Row, TypeOKFor(Row), NEW p \in Pollers,
           NEW result \in [Keys -> SUBSET Details], Queried(p, result),
           UNCHANGED faults \/ Fault
    PROVE  TypeOKFor(Row)'
BY PolledTableAssumption DEF TypeOKFor, Phases, Queried, Fault, history

\* So does a page of the scan.
LEMMA ScanPageTypes ==
    ASSUME NEW Row, TypeOKFor(Row), NEW p \in Pollers, ScanPage(p)
    PROVE  TypeOKFor(Row)'
BY DEF TypeOKFor, Phases, ScanPage, history

\* So does the beginning of a phase of requests of the right type.
LEMMA SendTypes ==
    ASSUME NEW Row, TypeOKFor(Row), NEW p \in Pollers, NEW from, NEW to \in Phases,
           NEW items \in SUBSET (Keys \X (Details \cup {None})),
           Send(p, from, to, items)
    PROVE  TypeOKFor(Row)'
BY DEF TypeOKFor, Send, history

\* So does a request that takes effect.
LEMMA RequestLandsTypes ==
    ASSUME NEW Row, Details \cup {None} \subseteq Row, TypeOKFor(Row),
           NEW p \in Pollers, RequestLands(p)
    PROVE  TypeOKFor(Row)'
BY DEF TypeOKFor, RequestLands, history

\* So does the end of an invocation.
LEMMA FinishTypes ==
    ASSUME NEW Row, None \in Row, TypeOKFor(Row), NEW p \in Pollers, NEW last,
           Finish(p, last)
    PROVE  TypeOKFor(Row)'
BY DEF TypeOKFor, Phases, Finish, End, NoRows, Nothing

----------------------------------------------------------------------------
\* Offers, one by one; the same of the next state.
LEMMA OffersUnion ==
    ASSUME NEW phases, NEW unambiguous
    PROVE  /\ \A item : item \in OffersIn(phases, unambiguous) <=>
                  item \in strays \/ \E p \in Pollers : item \in OffersOf(p, phases, unambiguous)
           /\ \A item : item \in OffersIn(phases, unambiguous)' <=>
                  item \in strays' \/ \E p \in Pollers : item \in OffersOf(p, phases, unambiguous)'
BY DEF OffersIn

\* The invocations that do not move go on offering what they did.
LEMMA OffersOfOthers ==
    ASSUME NEW phases, NEW unambiguous, NEW p \in Pollers, NEW q \in Pollers \ {p},
           pc'[q] = pc[q], active'[q] = active[q], requests'[q] = requests[q]
    PROVE  OffersOf(q, phases, unambiguous)' = OffersOf(q, phases, unambiguous)
<1>1. Implied(active'[q], unambiguous) = Implied(active[q], unambiguous)
    OBVIOUS
<1>2. OffersOf(q, phases, unambiguous)' =
          requests'[q] \cup IF pc'[q] \in phases THEN Implied(active'[q], unambiguous) ELSE {}
    BY DEF OffersOf, Implied
<1>3. QED  BY <1>1, <1>2 DEF OffersOf

\* A step of one invocation offers what it offered before, and what is new.
LEMMA OffersOfOne ==
    ASSUME NEW phases, NEW unambiguous, NEW p \in Pollers, NEW STATE New,
           \A q \in Pollers \ {p} :
               pc'[q] = pc[q] /\ active'[q] = active[q] /\ requests'[q] = requests[q],
           OffersOf(p, phases, unambiguous)' \subseteq OffersOf(p, phases, unambiguous) \cup New,
           strays' \subseteq strays \cup OffersOf(p, phases, unambiguous)
    PROVE  OffersIn(phases, unambiguous)' \subseteq OffersIn(phases, unambiguous) \cup New
<1>1. \A q \in Pollers \ {p} :
          OffersOf(q, phases, unambiguous)' = OffersOf(q, phases, unambiguous)
    BY OffersOfOthers
<1>2. QED  BY <1>1, OffersUnion

\* Nothing is offered in the beginning.
LEMMA InitOffers ==
    ASSUME NEW phases, NEW unambiguous, "idle" \notin phases, PollersInit
    PROVE  OffersIn(phases, unambiguous) = {}
<1>1. \A p \in Pollers : OffersOf(p, phases, unambiguous) = {}
    BY DEF PollersInit, OffersOf
<1>2. strays = {}
    BY DEF PollersInit
<1>3. QED  BY <1>1, <1>2, OffersUnion

\* The source changes, a day passes: the offers are the same.
LEMMA SameOffers ==
    ASSUME NEW phases, NEW unambiguous, UNCHANGED <<pc, active, requests, strays>>
    PROVE  OffersIn(phases, unambiguous)' = OffersIn(phases, unambiguous)
BY DEF OffersIn, OffersOf, Implied

\* Beginning an invocation offers nothing.
LEMMA StartOffers ==
    ASSUME NEW Row, TypeOKFor(Row), NEW phases, NEW unambiguous, "query" \notin phases,
           NEW p \in Pollers, Start(p)
    PROVE  OffersIn(phases, unambiguous)' \subseteq OffersIn(phases, unambiguous)
<1>1. OffersOf(p, phases, unambiguous)' \subseteq OffersOf(p, phases, unambiguous) \cup {}
    BY DEF TypeOKFor, Start, OffersOf
<1>2. \A q \in Pollers \ {p} :
          pc'[q] = pc[q] /\ active'[q] = active[q] /\ requests'[q] = requests[q]
    BY DEF TypeOKFor, Start
<1>3. OffersIn(phases, unambiguous)' \subseteq OffersIn(phases, unambiguous) \cup {}
    BY <1>1, <1>2, OffersOfOne DEF Start
<1>4. QED  BY <1>3

\* A query offers what its result implies.
LEMMA QueriedOffers ==
    ASSUME NEW Row, TypeOKFor(Row), NEW phases, NEW unambiguous,
           NEW p \in Pollers, NEW STATE result, Queried(p, result)
    PROVE  OffersIn(phases, unambiguous)' \subseteq
               OffersIn(phases, unambiguous) \cup Implied(result, unambiguous)
<1>1. OffersOf(p, phases, unambiguous)' \subseteq
          OffersOf(p, phases, unambiguous) \cup Implied(result, unambiguous)
    BY DEF TypeOKFor, Queried, OffersOf, Implied
<1>2. \A q \in Pollers \ {p} :
          pc'[q] = pc[q] /\ active'[q] = active[q] /\ requests'[q] = requests[q]
    BY DEF TypeOKFor, Queried
<1>3. QED  BY <1>1, <1>2, OffersOfOne DEF Queried

\* A page of the scan offers nothing new.
LEMMA ScanPageOffers ==
    ASSUME NEW Row, TypeOKFor(Row), NEW phases, NEW unambiguous, "scan" \in phases,
           NEW p \in Pollers, ScanPage(p)
    PROVE  OffersIn(phases, unambiguous)' \subseteq OffersIn(phases, unambiguous)
<1>1. OffersOf(p, phases, unambiguous)' \subseteq OffersOf(p, phases, unambiguous) \cup {}
    BY DEF TypeOKFor, ScanPage, OffersOf, Implied
<1>2. \A q \in Pollers \ {p} :
          pc'[q] = pc[q] /\ active'[q] = active[q] /\ requests'[q] = requests[q]
    BY DEF TypeOKFor, ScanPage
<1>3. OffersIn(phases, unambiguous)' \subseteq OffersIn(phases, unambiguous) \cup {}
    BY <1>1, <1>2, OffersOfOne DEF ScanPage
<1>4. QED  BY <1>3

\* What is sent is new only as far as what was read does not imply it.
LEMMA SendOffers ==
    ASSUME NEW Row, TypeOKFor(Row), NEW phases, NEW unambiguous, NEW p \in Pollers,
           NEW STATE from, from \in phases, NEW STATE to, NEW STATE items, NEW STATE New,
           items \subseteq Implied(active[p], unambiguous) \cup New,
           Send(p, from, to, items)
    PROVE  OffersIn(phases, unambiguous)' \subseteq OffersIn(phases, unambiguous) \cup New
<1>1. OffersOf(p, phases, unambiguous)' \subseteq OffersOf(p, phases, unambiguous) \cup New
    BY DEF TypeOKFor, Send, OffersOf, Implied
<1>2. \A q \in Pollers \ {p} :
          pc'[q] = pc[q] /\ active'[q] = active[q] /\ requests'[q] = requests[q]
    BY DEF TypeOKFor, Send
<1>3. QED  BY <1>1, <1>2, OffersOfOne DEF Send

\* A request that takes effect was offered, whether it is awaited or left behind.
LEMMA LandingOffers ==
    ASSUME NEW Row, TypeOKFor(Row), NEW phases, NEW unambiguous,
           StrayLands \/ \E p \in Pollers : RequestLands(p)
    PROVE  /\ OffersIn(phases, unambiguous)' \subseteq OffersIn(phases, unambiguous)
           /\ \E item \in OffersIn(phases, unambiguous) :
                 rows' = [rows EXCEPT ![item[1]] = item[2]]
<1>1. CASE StrayLands
  <2>1. PICK r \in strays : rows' = [rows EXCEPT ![r[1]] = r[2]] /\ strays' = strays \ {r}
      BY <1>1 DEF StrayLands
  <2>2. OffersIn(phases, unambiguous)' \subseteq OffersIn(phases, unambiguous)
      BY <1>1, <2>1 DEF StrayLands, invocation, OffersIn, OffersOf, Implied
  <2>3. QED  BY <2>1, <2>2, OffersUnion
<1>2. ASSUME NEW p \in Pollers, RequestLands(p)
      PROVE  /\ OffersIn(phases, unambiguous)' \subseteq OffersIn(phases, unambiguous)
             /\ \E item \in OffersIn(phases, unambiguous) :
                   rows' = [rows EXCEPT ![item[1]] = item[2]]
  <2>1. PICK r \in requests[p] : /\ rows' = [rows EXCEPT ![r[1]] = r[2]]
                                 /\ requests' = [requests EXCEPT ![p] = @ \ {r}]
      BY <1>2 DEF RequestLands
  <2>2. OffersOf(p, phases, unambiguous)' \subseteq OffersOf(p, phases, unambiguous) \cup {}
      BY <1>2, <2>1 DEF TypeOKFor, RequestLands, OffersOf, Implied
  <2>3. \A q \in Pollers \ {p} :
            pc'[q] = pc[q] /\ active'[q] = active[q] /\ requests'[q] = requests[q]
      BY <1>2, <2>1 DEF TypeOKFor, RequestLands
  <2>4. OffersIn(phases, unambiguous)' \subseteq OffersIn(phases, unambiguous) \cup {}
      BY <1>2, <2>2, <2>3, OffersOfOne DEF RequestLands
  <2>5. r \in OffersIn(phases, unambiguous)
      BY <2>1, OffersUnion DEF OffersOf
  <2>6. QED  BY <2>1, <2>4, <2>5
<1>3. QED  BY <1>1, <1>2

\* A stray request that is lost is not offered any more.
LEMMA StrayIsLostOffers ==
    ASSUME NEW phases, NEW unambiguous, StrayIsLost
    PROVE  OffersIn(phases, unambiguous)' \subseteq OffersIn(phases, unambiguous)
BY DEF StrayIsLost, invocation, OffersIn, OffersOf, Implied

\* The end of an invocation withdraws its offers, or leaves requests to themselves.
LEMMA EndOffers ==
    ASSUME NEW Row, TypeOKFor(Row), NEW phases, NEW unambiguous, "idle" \notin phases,
           NEW p \in Pollers, End(p), strays' \subseteq strays \cup requests[p]
    PROVE  OffersIn(phases, unambiguous)' \subseteq OffersIn(phases, unambiguous)
<1>1. OffersOf(p, phases, unambiguous)' \subseteq OffersOf(p, phases, unambiguous) \cup {}
    BY DEF TypeOKFor, End, OffersOf
<1>2. \A q \in Pollers \ {p} :
          pc'[q] = pc[q] /\ active'[q] = active[q] /\ requests'[q] = requests[q]
    BY DEF TypeOKFor, End
<1>3. strays' \subseteq strays \cup OffersOf(p, phases, unambiguous)
    BY DEF OffersOf
<1>4. OffersIn(phases, unambiguous)' \subseteq OffersIn(phases, unambiguous) \cup {}
    BY <1>1, <1>2, <1>3, OffersOfOne
<1>5. QED  BY <1>4

----------------------------------------------------------------------------
\* Until an invocation has sent its first requests it awaits none.
NothingAsked ==
    \A p \in Pollers : pc[p] \in {"idle", "query", "scan", "reconcile"} => requests[p] = {}

\* Beside a clean invocation nothing can be written: there is no other
\* invocation, and no stray request.
CleanIsAlone ==
    \A p \in clean : /\ pc[p] # "idle" /\ strays = {}
                     /\ \A q \in Pollers \ {p} : pc[q] = "idle"

\* So what a clean invocation has scanned is what the table holds.
ScannedIsCurrent ==
    \A p \in clean :
        /\ pc[p] \in {"scan", "reconcile"} =>
               \A k \in Keys \ unscanned[p] : cached[p][k] = rows[k]
        /\ pc[p] = "reconcile" => unscanned[p] = {}

CleanInv == NothingAsked /\ CleanIsAlone /\ ScannedIsCurrent

LEMMA CleanInit == PollersInit => CleanInv
BY DEF PollersInit, CleanInv, NothingAsked, CleanIsAlone, ScannedIsCurrent

\* An invocation that ends is not clean any more, and its end disturbs no other.
LEMMA CleanEnd ==
    ASSUME NEW Row, TypeOKFor(Row), CleanInv, NEW p \in Pollers, pc[p] # "idle", End(p),
           UNCHANGED rows, strays' = strays \/ strays' = strays \cup requests[p]
    PROVE  CleanInv'
<1> USE DEF CleanInv, NothingAsked, CleanIsAlone, ScannedIsCurrent, TypeOKFor, End
<1>1. NothingAsked'
    OBVIOUS
<1>2. clean' = {}
    OBVIOUS
<1>3. QED  BY <1>1, <1>2

\* So do the steps of the source and of the schedule, and those of stray requests.
LEMMA CleanCommonNext ==
    ASSUME NEW Row, TypeOKFor(Row), CleanInv, CommonNext
    PROVE  CleanInv'
<1>1. ASSUME NEW k \in Keys, SourceChange(k) PROVE CleanInv'
    BY <1>1 DEF SourceChange, invocation, CleanInv, NothingAsked, CleanIsAlone, ScannedIsCurrent
<1>2. ASSUME NEW p \in Pollers, Start(p) PROVE CleanInv'
    BY <1>2 DEF Start, CleanInv, NothingAsked, CleanIsAlone, ScannedIsCurrent, TypeOKFor
<1>3. ASSUME NEW p \in Pollers, Abandon(p) PROVE CleanInv'
    BY <1>3, CleanEnd DEF Abandon
<1>4. CASE StrayLands \/ StrayIsLost
  <2>1. clean = {}
      BY <1>4 DEF StrayLands, StrayIsLost, CleanInv, CleanIsAlone
  <2>2. QED
      BY <1>4, <2>1 DEF StrayLands, StrayIsLost, invocation, history, CleanInv,
                        NothingAsked, CleanIsAlone, ScannedIsCurrent
<1>5. QED  BY <1>1, <1>2, <1>3, <1>4 DEF CommonNext

\* A query's result is of no concern to the table.
LEMMA CleanQueried ==
    ASSUME NEW Row, TypeOKFor(Row), CleanInv, NEW p \in Pollers, NEW STATE result,
           Queried(p, result)
    PROVE  CleanInv'
BY DEF Queried, history, CleanInv, NothingAsked, CleanIsAlone, ScannedIsCurrent, TypeOKFor

\* A page of the scan returns what the table holds.
LEMMA CleanScanPage ==
    ASSUME NEW Row, TypeOKFor(Row), CleanInv, NEW p \in Pollers, ScanPage(p)
    PROVE  CleanInv'
<1> USE DEF CleanInv, NothingAsked, CleanIsAlone, ScannedIsCurrent, TypeOKFor, history
<1>1. PICK page \in SUBSET unscanned[p] \ {{}} :
         /\ cached' = [cached EXCEPT ![p] =
                [k \in Keys |-> IF k \in page THEN rows[k] ELSE cached[p][k]]]
         /\ unscanned' = [unscanned EXCEPT ![p] = @ \ page]
         /\ pc' = IF page = unscanned[p] THEN [pc EXCEPT ![p] = "reconcile"] ELSE pc
    BY DEF ScanPage
<1>2. /\ pc[p] = "scan" /\ UNCHANGED <<rows, requests, strays, clean>>
      /\ pc'[p] \in {"scan", "reconcile"}
      /\ \A q \in Pollers \ {p} : pc'[q] = pc[q]
    BY <1>1 DEF ScanPage
<1>3. NothingAsked' /\ CleanIsAlone'
    BY <1>2
<1>4. \A k \in Keys \ unscanned'[p] : p \in clean => cached'[p][k] = rows[k]
    BY <1>1, <1>2
<1>5. pc'[p] = "reconcile" => unscanned'[p] = {}
    BY <1>1, <1>2
<1>6. ScannedIsCurrent'
    BY <1>1, <1>2, <1>4, <1>5
<1>7. QED  BY <1>3, <1>6

\* Requests are sent when the scan is over.
LEMMA CleanSend ==
    ASSUME NEW Row, TypeOKFor(Row), CleanInv, NEW p \in Pollers, NEW STATE items,
           NEW from, from # "idle", NEW to \in {"put", "delete", "rejected"},
           Send(p, from, to, items)
    PROVE  CleanInv'
BY DEF Send, history, CleanInv, NothingAsked, CleanIsAlone, ScannedIsCurrent, TypeOKFor

\* A request takes effect in an invocation that has ended its scan.
LEMMA CleanRequestLands ==
    ASSUME NEW Row, TypeOKFor(Row), CleanInv, NEW p \in Pollers, RequestLands(p)
    PROVE  CleanInv'
<1> USE DEF CleanInv, NothingAsked, CleanIsAlone, ScannedIsCurrent, TypeOKFor, history
<1>1. /\ requests[p] # {} /\ UNCHANGED <<pc, strays, clean, unscanned, cached>>
      /\ \A q \in Pollers : requests'[q] \subseteq requests[q]
    BY DEF RequestLands
<1>2. pc[p] \notin {"idle", "query", "scan", "reconcile"}
    BY <1>1
<1>3. \A q \in clean : pc[q] \notin {"scan", "reconcile"}
    BY <1>2
<1>4. QED  BY <1>1, <1>3

\* While an invocation is clean, only its own requests take effect.
LEMMA CleanLanding ==
    ASSUME CleanInv, NEW p \in clean, NEW q \in Pollers, requests[q] # {} \/ pc[q] # "idle"
    PROVE  q = p
BY DEF CleanInv, NothingAsked, CleanIsAlone

=============================================================================
