--------------------------- MODULE WarmContainers ---------------------------
(***************************************************************************)
(* What the containers of the four pollers keep from one invocation to the *)
(* next besides the journal hashes: the configuration, with the passwords  *)
(* of the databases in it, and the connection pools that were not ended.   *)
(*                                                                         *)
(* The passwords are IAM tokens, good for opening a connection for a       *)
(* while.  Each invocation asks for new ones, but bootstrapConfig logs an  *)
(* error and lets the invocation go on with the configuration there is.    *)
(* The replica (TARS) and the bookings database (DSP) accept so many       *)
(* connections, whoever opens them, and close those idle for a long time.  *)
(***************************************************************************)
EXTENDS Integers, FiniteSets

CONSTANTS
    Containers,
    Poller,         \* container -> the poller it runs
    Unset,          \* no configuration; in one, no details of the DSP
    TokenLife,      \* ticks an IAM token is good for: 15 minutes
    IdleTimeout,    \* ticks after which a database closes an idle connection
    MinGap,         \* ticks between two starts in one container; none runs longer
    PoolSize,       \* connections the journals poller opens to the replica
    Limit,          \* connections a database accepts
    MaxFaults       \* bound on the failures

Pollers == {"journals", "users", "testCentre", "delegated"}

ASSUME ContainersAssumption ==
    /\ IsFiniteSet(Containers)
    /\ Poller \in [Containers -> Pollers]
    /\ {TokenLife, IdleTimeout, MinGap, PoolSize, Limit} \subseteq Nat \ {0}
    /\ MinGap <= TokenLife
    /\ Unset \notin Nat /\ Unset \notin [TARS : Nat, DSP : Nat \cup {Unset}]
    /\ MaxFaults \in Nat

VARIABLES
    configuration,  \* the ages of the two tokens, or Unset
    pc,             \* where the invocation is, "idle" between invocations
    sinceStart,     \* age of the latest invocation
    using,          \* connections in use by the invocation: database -> number
    pools,          \* pools left behind: the database, connections, time idle
    taken,          \* whether this invocation read records and bookings
    table,          \* poller -> what its table holds
    hurt,           \* history: what failed during this invocation
    faults

invocation == <<pc, using, taken, hurt>>
vars == <<configuration, invocation, sinceStart, pools, table, faults>>

Databases == {"TARS", "DSP"}
NoneUsed == [db \in Databases |-> 0]
NothingTaken == [records |-> FALSE, bookings |-> FALSE]

\* The connections to a database, numbered: those in use, and those in the pools
\* left behind.
InUse(db) == UNION {{<<c, n>> : n \in 1..using[c][db]} : c \in Containers}

LeftBehind(db) ==
    UNION {UNION {{<<c, pool, n>> : n \in 1..pool.connections} :
                      pool \in {pool \in pools[c] : pool.db = db}} : c \in Containers}

Open(db) == Cardinality(InUse(db)) + Cardinality(LeftBehind(db))

Fresh(age) == age # Unset /\ age < TokenLife

Fault(c, where) ==
    /\ faults < MaxFaults
    /\ faults' = faults + 1
    /\ hurt' = [hurt EXCEPT ![c] = @ \cup {where}]

NoFault == UNCHANGED <<faults, hurt>>

Init ==
    /\ configuration = [c \in Containers |-> Unset]
    /\ pc = [c \in Containers |-> "idle"]
    /\ sinceStart = [c \in Containers |-> MinGap]
    /\ using = [c \in Containers |-> NoneUsed]
    /\ pools = [c \in Containers |-> {}]
    /\ taken = [c \in Containers |-> NothingTaken]
    /\ table = [p \in Pollers |-> "current"]
    /\ hurt = [c \in Containers |-> {}]
    /\ faults = 0

----------------------------------------------------------------------------
(* bootstrapConfig                                                         *)

Start(c) ==
    /\ pc[c] = "idle" /\ sinceStart[c] = MinGap
    /\ pc' = [pc EXCEPT ![c] = "token"]
    /\ sinceStart' = [sinceStart EXCEPT ![c] = 0]
    /\ hurt' = [hurt EXCEPT ![c] = {}]
    /\ UNCHANGED <<configuration, using, pools, taken, table, faults>>

\* Mutant: a container that is configured keeps its configuration.
BootstrapOnce(c) == IF configuration[c] = Unset THEN [TARS |-> 0, DSP |-> Unset]
                    ELSE configuration[c]

\* Mutant: every poller has the details of the DSP.
BootstrapAll(c) == [TARS |-> 0, DSP |-> 0]

\* The whole configuration is replaced, its details of the DSP included.
Bootstrapped(c) == [TARS |-> 0, DSP |-> Unset]

TokenFetched(c) ==
    /\ pc[c] = "token"
    /\ configuration' = [configuration EXCEPT ![c] = Bootstrapped(c)]
    /\ pc' = [pc EXCEPT ![c] = IF Poller[c] = "journals" THEN "desToken" ELSE "connect"]
    /\ NoFault
    /\ UNCHANGED <<using, pools, taken, table, sinceStart>>

DesTokenFetched(c) ==
    /\ pc[c] = "desToken"
    /\ configuration' = [configuration EXCEPT ![c].DSP = 0]
    /\ pc' = [pc EXCEPT ![c] = "connect"]
    /\ NoFault
    /\ UNCHANGED <<using, pools, taken, table, sinceStart>>

\* The error is logged; the rest of the configuration is as it was.
BootstrapFails(c) ==
    /\ pc[c] \in {"token", "desToken"}
    /\ Fault(c, "bootstrap")
    /\ pc' = [pc EXCEPT ![c] = "connect"]
    /\ UNCHANGED <<configuration, using, pools, taken, table, sinceStart>>

----------------------------------------------------------------------------
(* The queries of the replica and of the DSP.                              *)

Needs(c) == IF Poller[c] = "journals" THEN PoolSize ELSE 1

Password(c, db) == IF configuration[c] = Unset THEN Unset ELSE configuration[c][db]

MayConnect(c, db, number) == Fresh(Password(c, db)) /\ Open(db) + number <= Limit

\* The pool of a database is left behind, with the connections it has opened.
LeaveBehind(c, dbs) ==
    pools' = [pools EXCEPT ![c] = @ \cup
        {[db |-> db, connections |-> using[c][db], idle |-> 0] :
            db \in {db \in dbs : using[c][db] > 0}}]

Respond(c) ==
    /\ pc' = [pc EXCEPT ![c] = "idle"]
    /\ using' = [using EXCEPT ![c] = NoneUsed]
    /\ taken' = [taken EXCEPT ![c] = NothingTaken]

Connect(c) ==
    /\ pc[c] = "connect"
    /\ MayConnect(c, "TARS", Needs(c))
    /\ using' = [using EXCEPT ![c]["TARS"] = Needs(c)]
    /\ pc' = [pc EXCEPT ![c] = "query"]
    /\ NoFault
    /\ UNCHANGED <<configuration, sinceStart, pools, taken, table>>

\* Mutant: an error leaves the connection of a single query open.
EndsItself == {}

\* query() ends its connection in a finally block; pools are not ended there.
EndedInFinally == {"users", "delegated"}

\* These take an error for a result without records and go on; the others throw.
Swallowing == {"testCentre", "delegated"}

QueryFailed(c) ==
    /\ IF Poller[c] \in EndedInFinally THEN UNCHANGED pools ELSE LeaveBehind(c, Databases)
    /\ IF Poller[c] \in Swallowing
       THEN /\ pc' = [pc EXCEPT ![c] = "reconcile"]
            /\ using' = [using EXCEPT ![c] = NoneUsed]
            /\ UNCHANGED taken
       ELSE Respond(c)
    /\ UNCHANGED <<configuration, sinceStart, table>>

\* There is no configuration, the password has expired, or the database has no
\* connection to give.
CannotConnect(c) ==
    /\ pc[c] = "connect"
    /\ ~MayConnect(c, "TARS", Needs(c))
    /\ NoFault
    /\ QueryFailed(c)

QueryFails(c) == pc[c] \in {"query", "datasets"} /\ Fault(c, "query") /\ QueryFailed(c)

\* The first query of the journals poller is followed by those of the datasets,
\* the bookings of the DSP, over a pool of their own, among them.
QueryAnswered(c) ==
    /\ pc[c] = "query"
    /\ IF Poller[c] = "journals"
       THEN /\ pc' = [pc EXCEPT ![c] = "bookings"]
            /\ UNCHANGED <<using, taken, pools>>
       ELSE /\ pc' = [pc EXCEPT ![c] = "reconcile"]
            /\ using' = [using EXCEPT ![c] = NoneUsed]
            /\ taken' = [taken EXCEPT ![c].records = TRUE]
            /\ IF Poller[c] \in EndedInFinally THEN UNCHANGED pools
               ELSE LeaveBehind(c, Databases)
    /\ NoFault
    /\ UNCHANGED <<configuration, sinceStart, table>>

BookingsConnect(c) ==
    /\ pc[c] = "bookings"
    /\ using[c]["DSP"] = 0
    /\ MayConnect(c, "DSP", 1)
    /\ using' = [using EXCEPT ![c]["DSP"] = 1]
    /\ NoFault
    /\ UNCHANGED <<configuration, pc, sinceStart, pools, taken, table>>

BookingsAnswered(c) ==
    /\ pc[c] = "bookings"
    /\ using[c]["DSP"] = 1
    /\ pc' = [pc EXCEPT ![c] = "datasets"]
    /\ taken' = [taken EXCEPT ![c].bookings = TRUE]
    /\ NoFault
    /\ UNCHANGED <<configuration, using, sinceStart, pools, table>>

\* getDSPTestSlots answers any failure with no bookings.
BookingsFail(c) ==
    /\ pc[c] = "bookings"
    /\ \/ using[c]["DSP"] = 0 /\ ~MayConnect(c, "DSP", 1) /\ NoFault
       \/ Fault(c, "query")
    /\ pc' = [pc EXCEPT ![c] = "datasets"]
    /\ UNCHANGED <<configuration, using, taken, sinceStart, pools, table>>

\* Mutant: connectionPool.end() is missing.
NoneEnded == Databases

\* connectionPool.end() ends the pool of the replica, and nothing that of the DSP.
NeverEnded == {"DSP"}

DatasetsAnswered(c) ==
    /\ pc[c] = "datasets"
    /\ pc' = [pc EXCEPT ![c] = "reconcile"]
    /\ using' = [using EXCEPT ![c] = NoneUsed]
    /\ taken' = [taken EXCEPT ![c].records = TRUE]
    /\ LeaveBehind(c, NeverEnded)
    /\ NoFault
    /\ UNCHANGED <<configuration, sinceStart, table>>

----------------------------------------------------------------------------
(* The table.  getDynamoClient reads the configuration, too.               *)

JournalsWritten(c) == IF taken[c].bookings THEN "current" ELSE "withoutBookings"

\* No records: every row is deleted.
TestCentresWritten(c) == IF taken[c].records THEN "current" ELSE "empty"

\* No records: rows are kept for the retention period.
DelegatedWritten(c) == IF taken[c].records THEN "current" ELSE table["delegated"]

Written(c) ==
    CASE Poller[c] = "journals" -> JournalsWritten(c)
      [] Poller[c] = "users" -> "current"
      [] Poller[c] = "testCentre" -> TestCentresWritten(c)
      [] Poller[c] = "delegated" -> DelegatedWritten(c)

Reconcile(c) ==
    /\ pc[c] = "reconcile" /\ configuration[c] # Unset
    /\ table' = [table EXCEPT ![Poller[c]] = Written(c)]
    /\ Respond(c)
    /\ NoFault
    /\ UNCHANGED <<configuration, sinceStart, pools>>

ReconcileFails(c) ==
    /\ pc[c] = "reconcile"
    /\ (configuration[c] = Unset /\ NoFault) \/ Fault(c, "table")
    /\ Respond(c)
    /\ UNCHANGED <<configuration, sinceStart, pools, table>>

----------------------------------------------------------------------------
(* The platform.                                                           *)

\* A container that is not in use goes away, and another comes in its place. Either
\* its connections are closed with it, or the databases hold them like any other
\* until they have been idle for long enough.
Recycle(c) ==
    /\ pc[c] = "idle"
    /\ configuration' = [configuration EXCEPT ![c] = Unset]
    /\ pools' \in {pools, [pools EXCEPT ![c] = {}]}
    /\ UNCHANGED <<invocation, sinceStart, table, faults>>

Older(age, cap) == IF age = Unset \/ age = cap THEN age ELSE age + 1

Tick ==
    /\ \A c \in Containers : pc[c] # "idle" => sinceStart[c] < MinGap - 1
    /\ sinceStart' = [c \in Containers |-> Older(sinceStart[c], MinGap)]
    /\ configuration' =
           [c \in Containers |-> IF configuration[c] = Unset THEN Unset
                ELSE [db \in Databases |-> Older(configuration[c][db], TokenLife)]]
    /\ pools' = [c \in Containers |->
           {[pool EXCEPT !.idle = @ + 1] :
               pool \in {pool \in pools[c] : pool.idle + 1 < IdleTimeout}}]
    /\ UNCHANGED <<invocation, table, faults>>

Proceed(c) ==
    \/ TokenFetched(c) \/ DesTokenFetched(c)
    \/ Connect(c) \/ CannotConnect(c) \/ QueryAnswered(c)
    \/ BookingsConnect(c) \/ BookingsAnswered(c) \/ BookingsFail(c) \/ DatasetsAnswered(c)
    \/ Reconcile(c) \/ ReconcileFails(c)

Next ==
    \/ Tick
    \/ \E c \in Containers : \/ Start(c) \/ Proceed(c)
                             \/ BootstrapFails(c) \/ QueryFails(c)
                             \/ Recycle(c)

Spec == Init /\ [][Next]_vars

\* Time passes, the schedule goes on, and what is asked is answered; the faults
\* among the steps are finite in number.
Fairness ==
    /\ WF_vars(Tick)
    /\ \A c \in Containers : WF_vars(Start(c)) /\ WF_vars(Proceed(c))

FairSpec == Spec /\ Fairness

----------------------------------------------------------------------------
Ages(cap) == 0..cap

Pool == [db : Databases, connections : 1..PoolSize, idle : 0..IdleTimeout - 1]

\* The types of the state; only the journals poller knows of the DSP.
TypeOK ==
    /\ configuration \in
           [Containers -> [TARS : Ages(TokenLife), DSP : Ages(TokenLife) \cup {Unset}] \cup {Unset}]
    /\ \A c \in Containers : Password(c, "DSP") # Unset => Poller[c] = "journals"
    /\ pc \in [Containers -> {"idle", "token", "desToken", "connect", "query", "bookings",
                              "datasets", "reconcile"}]
    /\ sinceStart \in [Containers -> Ages(MinGap)]
    /\ using \in [Containers -> [Databases -> 0..PoolSize]]
    /\ pools \in [Containers -> SUBSET Pool]
    /\ taken \in [Containers -> [records : BOOLEAN, bookings : BOOLEAN]]
    /\ table \in [Pollers -> {"current", "withoutBookings", "empty"}]
    /\ hurt \in [Containers -> SUBSET {"bootstrap", "query", "table"}]
    /\ faults \in 0..MaxFaults

\* The invocations of one container in the time a connection may stay idle.
Overlapping == (IdleTimeout + MinGap - 1) \div MinGap

OfPoller(poller) == {c \in Containers : Poller[c] = poller}

\* What the pollers need at most if nothing fails: the containers of the test
\* centre poller leave one connection to the replica behind each time, those of
\* the journals poller one to the DSP.
Demand(db) ==
    IF db = "DSP" THEN Cardinality(OfPoller("journals")) * (Overlapping + 1)
    ELSE Cardinality(OfPoller("testCentre")) * (Overlapping + 1)
             + Cardinality(OfPoller("journals")) * PoolSize
             + Cardinality(OfPoller("users") \cup OfPoller("delegated"))

\* Connections to the replica that stay behind are those of the test centre
\* poller, of its latest few invocations, and those of an invocation of the journals
\* poller that failed (getJournalDetails ends its pool only at the end of the query
\* phase); users and delegated bookings pollers leave none, whatever fails.
PoolsAccountedFor ==
    /\ \A db \in Databases : Open(db) <= Demand(db) + faults * PoolSize
    /\ \A c \in Containers : Poller[c] \in {"users", "delegated"} => pools[c] = {}

\* So many that neither the pollers nor what they leave behind run out of them.
AmpleConnections == \A db \in Databases : Demand(db) + MaxFaults * PoolSize <= Limit

\* An invocation whose query failed, or which has no good password because getting
\* one failed; a token fetched before, by another invocation, is as good as new.
Excused(c, db) ==
    "query" \in hurt[c] \/ ("bootstrap" \in hurt[c] /\ ~Fresh(Password(c, db)))

\* The test centre table is emptied, and journals lose their bookings, only by an
\* invocation with a failure of its own: the tokens of a bootstrap that succeeded
\* are good to the end of it, a bootstrap that failed (bootstrapConfig swallows it)
\* does no harm while the earlier tokens are good, and the connections that other
\* containers leave behind never exhaust a database.
DegradedOnlyByFault ==
    [][AmpleConnections =>
          \A c \in Containers : Reconcile(c) =>
              /\ Written(c) = "empty" => Excused(c, "TARS")
              /\ Written(c) = "withoutBookings" => Excused(c, "DSP")]_vars

\* Once the failures have stopped, every table is current for good: no container
\* stays with an expired password, and no database without connections to give.
Recovers == AmpleConnections => <>[](\A p \in Pollers : table[p] = "current")
=============================================================================
