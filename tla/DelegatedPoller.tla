-------------------------- MODULE DelegatedPoller --------------------------
(***************************************************************************)
(* The delegated bookings poller: one row per application reference.  A    *)
(* row is kept for a while after its booking is gone from the replica, so  *)
(* that a result can still be submitted for it: it is deleted once the     *)
(* slot lies more than NUMBER_OF_DAYS_TO_RETAIN_CACHED_BOOKINGS in the     *)
(* past.  Deletes come first and puts second.                              *)
(***************************************************************************)
EXTENDS PolledTable

CONSTANTS
    StartDay,   \* details -> the day of the slot
    Retain,     \* NUMBER_OF_DAYS_TO_RETAIN_CACHED_BOOKINGS
    LastDay     \* bound on the days that pass

ASSUME DaysAssumption ==
    StartDay \in [Details -> Int] /\ Retain \in Nat /\ LastDay \in Nat

VARIABLES
    today,
    overtaken   \* history: keys whose row was replaced with a delete in prospect

delegatedVars == <<vars, today, overtaken>>

Init == PollersInit /\ rows = NoRows /\ today = 0 /\ overtaken = {}

DayPasses ==
    /\ today < LastDay
    /\ today' = today + 1
    /\ UNCHANGED vars

\* Mutant: the last day of the retention is not kept.
ExpiredOnLastDay(detail) == today - StartDay[detail] >= Retain

\* daysDiff from the start of the slot's day to the start of today.
Expired(detail) == today - StartDay[detail] > Retain

\* Mutant: an active booking is deleted like any other.
ExtractExpired(p) == {k \in Keys : cached[p][k] # None /\ Expired(cached[p][k])}

ExtractCachedBookingsEligibleForDeletion(p) ==
    {k \in Keys : active[p][k] = {} /\ cached[p][k] # None /\ Expired(cached[p][k])}

\* Mutant: a booking that is in the table already is never put again.
EligibleWhenNew(p, k, detail) == cached[p][k] = None

\* Mutant: every booking is put.
EligibleAlways(p, k, detail) == TRUE

DelegatedBookingsEligibleForCache(p, k, detail) == cached[p][k] # detail

\* Mutant: the bookings of a reference are put as one.
SelectBookingsTogether(p) == {<<k, active[p][k]>> : k \in {j \in Keys : active[p][j] # {}}}

SelectDelegatedBookingsToCache(p) ==
    {item \in Keys \X Details :
        /\ item[2] \in active[p][item[1]]
        /\ DelegatedBookingsEligibleForCache(p, item[1], item[2])}

UnCacheDelegatedBookingDetails(p) ==
    Send(p, "reconcile", "delete", ExtractCachedBookingsEligibleForDeletion(p) \X {None})

CacheDelegatedBookingDetails(p) ==
    Send(p, "delete", "put", SelectDelegatedBookingsToCache(p))

Proceed(p) ==
    \/ CommonProceed(p)
    \/ UnCacheDelegatedBookingDetails(p) \/ CacheDelegatedBookingDetails(p)
    \/ Finish(p, "put")

\* getActiveDelegatedExaminerBookings catches every error and returns no bookings.
Steps ==
    \/ DayPasses
    \/ /\ UNCHANGED today
       /\ CommonNext \/ \E p \in Pollers : Proceed(p) \/ QueryReturnsNothing(p)

\* A delete of the key is under way, awaited or left behind.
DeleteUnderWay(k) ==
    <<k, None>> \in strays \/ \E p \in Pollers : <<k, None>> \in requests[p]

\* One may follow from a row that was scanned and has no booking.
DeleteMayFollow(p, k) ==
    pc[p] \in {"scan", "reconcile"} /\ active[p][k] = {} /\ cached[p][k] # None

InProspect(k) == DeleteUnderWay(k) \/ \E p \in Pollers : DeleteMayFollow(p, k)

\* History only: it restricts no step.
Overtake ==
    overtaken' = {k \in Keys : /\ k \in overtaken \/ rows'[k] \notin {None, rows[k]}
                              /\ InProspect(k)'}

Next == Steps /\ Overtake

Spec == Init /\ [][Next]_delegatedVars

\* Days need not pass for the rest to go on.
Fairness ==
    /\ \A p \in Pollers : /\ WF_delegatedVars(Start(p) /\ UNCHANGED today /\ Overtake)
                          /\ WF_delegatedVars(Proceed(p) /\ UNCHANGED today /\ Overtake)
    /\ WF_delegatedVars((StrayLands \/ StrayIsLost) /\ UNCHANGED today /\ Overtake)

FairSpec == Spec /\ Fairness

\* Nothing new is asked for once the puts have been sent.
Offers == OffersIn({"scan", "reconcile", "delete"}, FALSE)

Follower == INSTANCE TableFollower WITH
                offers <- Offers, Obsolete <- {}, Unambiguous <- FALSE,
                Unreadable <- {}

\* The poller is a follower of the source: every write, a stray request's
\* included, is of what one query returned, however many days pass meanwhile, and
\* an active booking is removed only on account of a query that failed.
FollowsSource == Follower!Spec

\* Every variable has its type; what is put is one booking, never several.
DelegatedTypeOK ==
    TypeOKFor(Details \cup {None}) /\ today \in 0..LastDay /\ overtaken \subseteq Keys

\* The row that a delete removes when it takes effect, however late and on behalf of
\* whichever invocation, abandoned ones included, is that of a slot more than the
\* retention period in the past, even if the query failed and returned no bookings;
\* unless a put replaced the row while that delete was under way or still to follow
\* from a scan. The exception is real: DeleteCommand has no condition, so that the
\* delete an abandoned invocation left behind removes the row of a booking that came
\* back in the meantime.
RetainedUntilExpired ==
    [][\A k \in Keys : rows[k] \in Details /\ rows'[k] = None =>
           today - StartDay[rows[k]] > Retain \/ k \in overtaken]_delegatedVars

\* An invocation that ends in success, with no other invocation beside it and
\* no stray request behind it, leaves a row the query returned for every
\* reference with active bookings, and for the others the row it found or, past
\* the retention, none.
SuccessMeansCurrent ==
    \A p \in clean : pc[p] = "put" /\ requests[p] = {} =>
        \A k \in Keys :
            \/ rows[k] \in active[p][k]
            \/ active[p][k] = {} /\ rows[k] = cached[p][k]
            \/ /\ active[p][k] = {} /\ rows[k] = None
               /\ today - StartDay[cached[p][k]] > Retain

\* Once source, days and faults have come to rest, the row of a booking with a
\* unique application reference is current, and rows of bookings that are gone
\* and past the retention period are gone, for good.
Converges ==
    <>[](\A k \in Keys :
            /\ source[k] = {} => rows[k] = None \/ ~Expired(rows[k])
            /\ \A d \in Details : source[k] = {d} => rows[k] = d)

\* Then the poller stops writing, unless two active records share a reference.
Quiesces ==
    <>[]((\A k \in Keys : Cardinality(source[k]) <= 1) => \A p \in Pollers : requests[p] = {})

=============================================================================
