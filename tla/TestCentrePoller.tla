------------------------- MODULE TestCentrePoller --------------------------
(***************************************************************************)
(* The test centre poller: one row per examiner with the examiners and the *)
(* cost codes of the centres they work at.  Rows are deleted first and put *)
(* second.  Rows written by an earlier version of the poller hold          *)
(* testCentreIDs instead of testCentreCostCodes.                           *)
(*                                                                         *)
(* The examiners of a centre come as JSON that the query concatenates: a   *)
(* quote in a name, or group_concat_max_len, makes it something else, and  *)
(* JSON.parse throws.  All records whose staff number is not a number have *)
(* the key null, which DynamoDB rejects.                                   *)
(***************************************************************************)
EXTENDS PolledTable

CONSTANTS
    Legacy,     \* a row with testCentreIDs
    Malformed,  \* details that are not JSON, or have no cost code
    NonNumeric  \* the keys that stand for null

ASSUME TestCentreAssumption ==
    /\ Legacy \notin Details \cup {None}
    /\ Malformed \subseteq Details
    /\ NonNumeric \subseteq Keys

Init ==
    /\ PollersInit
    /\ rows \in [Keys -> {None, Legacy}]
    /\ \A k \in NonNumeric : rows[k] = None

MalformedIn(records) == \E k \in Keys : records[k] \cap Malformed # {}

\* Mutant: the records that cannot be mapped are left out, the others kept.
OmitMalformed(records) == [k \in Keys |-> records[k] \ Malformed]

\* One record that cannot be mapped, and no record is returned.
BuildTestCentreRows(records) == IF MalformedIn(records) THEN Nothing ELSE records

QueryAndBuild(p) == Queried(p, BuildTestCentreRows(source)) /\ UNCHANGED faults

ExtractCachedTestCentresForDeletion(p) ==
    {k \in Keys : \/ active[p][k] = {} /\ cached[p][k] # None
                  \/ cached[p][k] = Legacy}

\* Mutant: any row that is there compares equal.
ComparedLoosely(row, detail) == row # None

\* getUnChangedRows rebuilds the cached row from staffNumber, examiners and
\* testCentreIDs: in a row with cost codes the last is undefined, and the ids of
\* an old row are no cost codes, so no row compares equal to an active record.
ComparedAs(row, detail) == FALSE

UnchangedRows(p) ==
    {k \in Keys : \E d \in active[p][k] : ComparedAs(cached[p][k], d)}

\* Mutant: what was scanned is put back instead of what was queried.
UpdateWithCached(p) ==
    {<<k, cached[p][k]>> : k \in {j \in Keys : cached[p][j] # None}}

UpdateRows(p) ==
    {item \in Keys \X Details :
        item[2] \in active[p][item[1]] /\ item[1] \notin UnchangedRows(p)}

UnCacheTestCentreExaminers(p) ==
    Send(p, "reconcile", "delete", ExtractCachedTestCentresForDeletion(p) \X {None})

\* Mutant: a put of the key null is not noticed.
NullIgnored(items) == FALSE

NullAmong(items) == \E item \in items : item[1] \in NonNumeric

\* A put of the key null takes no effect.
UpdateTestCentreExaminers(p) ==
    Send(p, "delete", IF NullAmong(UpdateRows(p)) THEN "rejected" ELSE "put",
         {item \in UpdateRows(p) : item[1] \notin NonNumeric})

\* Promise.all rejects for the key null, whatever becomes of the other puts.
PutRejected(p) ==
    /\ pc[p] = "rejected"
    /\ strays' = strays \cup requests[p]
    /\ End(p)
    /\ UNCHANGED <<source, rows, changes, faults>>

Proceed(p) ==
    \/ QueryAndBuild(p) \/ ScanPage(p) \/ RequestLands(p)
    \/ UnCacheTestCentreExaminers(p) \/ UpdateTestCentreExaminers(p)
    \/ Finish(p, "put") \/ PutRejected(p)

\* getActiveTestCentreExaminers catches every error and returns no rows.
Next ==
    \/ CommonNext
    \/ \E p \in Pollers : Proceed(p) \/ QueryReturnsNothing(p)

Spec == Init /\ [][Next]_vars

\* The schedule goes on, requests are answered, strays settle one way or other.
Fairness ==
    /\ \A p \in Pollers : WF_vars(Start(p)) /\ WF_vars(Proceed(p))
    /\ WF_vars(StrayLands \/ StrayIsLost)

FairSpec == Spec /\ Fairness

\* Nothing new is asked for once the puts have been sent; old rows that were scanned
\* may be removed, too.
LegacyRemovals(p) == {k \in Keys : cached[p][k] = Legacy} \X {None}

Offers ==
    OffersIn({"scan", "reconcile", "delete"}, FALSE)
        \cup (UNION {LegacyRemovals(p) : p \in Pollers})

Follower == INSTANCE TableFollower WITH
                offers <- Offers, Obsolete <- {Legacy}, Unambiguous <- FALSE,
                Unreadable <- Malformed

\* The poller is a follower of the source: every write, a stray request's
\* included, is of what one query returned, and the row of an active record is
\* removed only on account of an old form, of a query that failed or of a
\* malformed record.
FollowsSource == Follower!Spec

\* Every variable has its type; what is put is the details of a record, never an old row.
TypeOK == TypeOKFor(Details \cup {None, Legacy})

\* What the reconciler's comment says of the rows it deletes: their staff
\* numbers are no longer active, or they are of the old system.
DeletesInactiveOrLegacy ==
    \A p \in Pollers : pc[p] = "delete" =>
        \A k \in Keys : <<k, None>> \in requests[p] =>
            k \in left[p] \/ cached[p][k] = Legacy

\* An invocation that ends in success, with no other invocation beside it and
\* no stray request behind it, leaves exactly the rows its query returned, rows
\* of the old system replaced; the deletes it began with undo none of its puts.
SuccessMeansCurrent ==
    \A p \in clean : pc[p] = "put" /\ requests[p] = {} =>
        \A k \in Keys : IF active[p][k] = {} THEN rows[k] = None
                        ELSE rows[k] \in active[p][k]

\* Once the source and the faults have come to rest, every row is current and
\* no row is left of an examiner without slots, for good.  But a single record
\* that is malformed empties the table while it is there, and while a staff
\* number is no number nobody awaits the puts of the others.
Converges ==
    <>[](IF MalformedIn(source) THEN rows = NoRows
         ELSE \A k \in Keys :
                /\ source[k] = {} => rows[k] = None
                /\ (\A j \in NonNumeric : source[j] = {})
                       => \A d \in Details : source[k] = {d} => rows[k] = d)

\* What the reconciler's comments say of the rows it puts: a row that is the same
\* in the table and in the query result is not among them.
UnchangedNotRewritten ==
    \A p \in Pollers : pc[p] = "put" =>
        \A item \in requests[p] : cached[p][item[1]] # item[2]

=============================================================================
