---------------------------- MODULE UsersPoller ----------------------------
(***************************************************************************)
(* The users poller: StaffDetail rows, put in batches of 25 and then       *)
(* deleted one by one.  BatchWrite may return items as unprocessed, and    *)
(* cacheStaffDetails does not look.                                        *)
(*                                                                         *)
(* Two or more records of one key are users whose staff numbers differ in  *)
(* leading zeroes only; they are dropped from the puts before any detail   *)
(* is compared, but still count as active.                                 *)
(***************************************************************************)
EXTENDS PolledTable

Init == PollersInit /\ rows = NoRows

\* Mutant: staff numbers that occur more than once are not active.
StaffNumbersUnique(p) == {k \in Keys : Cardinality(active[p][k]) = 1}

StaffNumbers(p) == {k \in Keys : active[p][k] # {}}

\* Mutant: a user who is in the table already is never put again.
EligibleWhenNew(p, k, detail) == cached[p][k] = None

\* Mutant: every user is put.
EligibleAlways(p, k, detail) == TRUE

StaffDetailEligibleForCache(p, k, detail) == cached[p][k] # detail

\* Mutant: the group of records of a staff number is put, not its only record.
SelectGroups(p) ==
    {<<k, active[p][k]>> : k \in {j \in Keys : Cardinality(active[p][j]) = 1}}

SelectStaffDetailsToCache(p) ==
    {item \in Keys \X Details :
        /\ active[p][item[1]] = {item[2]}
        /\ StaffDetailEligibleForCache(p, item[1], item[2])}

StaffNumbersToUncache(p) == {k \in Keys \ StaffNumbers(p) : cached[p][k] # None}

CacheStaffDetails(p) == Send(p, "reconcile", "put", SelectStaffDetailsToCache(p))

\* Returned as unprocessed in a response that counts as a success.
Unprocessed(p) ==
    /\ pc[p] = "put"
    /\ Fault
    /\ \E r \in requests[p] : requests' = [requests EXCEPT ![p] = @ \ {r}]
    /\ clean' = clean \ {p}
    /\ UNCHANGED <<source, rows, pc, active, unscanned, cached, strays, left, changes>>

UncacheStaffNumbers(p) == Send(p, "put", "delete", StaffNumbersToUncache(p) \X {None})

Proceed(p) ==
    \/ CommonProceed(p)
    \/ CacheStaffDetails(p) \/ UncacheStaffNumbers(p) \/ Finish(p, "delete")

\* buildStaffDetailsFromQueryResult catches its own errors and returns no users.
Next ==
    \/ CommonNext
    \/ \E p \in Pollers : Proceed(p) \/ Unprocessed(p) \/ QueryReturnsNothing(p)

Spec == Init /\ [][Next]_vars

\* The schedule goes on, requests are answered, strays settle one way or other.
Fairness ==
    /\ \A p \in Pollers : WF_vars(Start(p)) /\ WF_vars(Proceed(p))
    /\ WF_vars(StrayLands \/ StrayIsLost)

FairSpec == Spec /\ Fairness

\* Nothing new is asked for once the deletes have been sent.
Offers == OffersIn({"scan", "reconcile", "put"}, TRUE)

Follower == INSTANCE TableFollower WITH
                offers <- Offers, Obsolete <- {}, Unambiguous <- TRUE,
                Unreadable <- {}

\* The poller is a follower of the source: every write, a stray request's
\* included, is of what one query returned, and a staff number that is not unique
\* is neither put nor removed on account of what was read while it was not.
FollowsSource == Follower!Spec

\* Every variable has its type; what is put is the details of one user, never a group.
TypeOK == TypeOKFor(Details \cup {None})

\* The poller asks to remove a user only if, at some time of the invocation,
\* the replica had no active record for the staff number, or if mapping the
\* records failed and there seemed to be no users at all; in particular users
\* omitted for a duplicate staff number keep the row they have.
RemovesOnlyLeavers ==
    \A p \in Pollers : active[p] = Nothing \/
        \A k \in Keys : <<k, None>> \in requests[p] => k \in left[p]

\* An invocation that ends in success, with no other invocation beside it, no
\* stray request behind it and no item returned as unprocessed, leaves the
\* current row of every user with a unique staff number, the old row, if any,
\* where the number is not unique, and no other row.
SuccessMeansCurrent ==
    \A p \in clean : pc[p] = "delete" /\ requests[p] = {} =>
        \A k \in Keys :
            \/ active[p][k] = {rows[k]}
            \/ active[p][k] = {} /\ rows[k] = None
            \/ /\ active[p][k] # {} /\ \A d \in Details : active[p][k] # {d}
               /\ rows[k] = cached[p][k]

\* Once the source and the faults have come to rest, every user with a unique
\* staff number has a current row and no leaver has one, for good, whatever was
\* unprocessed, failed or left behind before.
Converges ==
    <>[](\A k \in Keys :
            /\ source[k] = {} => rows[k] = None
            /\ \A d \in Details : source[k] = {d} => rows[k] = d)

\* Then the poller stops writing: an invocation that finds the table up to date
\* sends nothing.
Quiesces == <>[](\A p \in Pollers : requests[p] = {})

=============================================================================
