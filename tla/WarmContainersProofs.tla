----------------------- MODULE WarmContainersProofs ------------------------
(***************************************************************************)
(* Proofs about the configuration and the connections that warm containers *)
(* keep, for any containers, timings and limits.                           *)
(***************************************************************************)
EXTENDS WarmContainers, FiniteSetTheorems, TLAPS

----------------------------------------------------------------------------
(* The invariant.                                                          *)

\* An invocation before the end of its queries, when it closes its connections
\* or leaves them behind.
Asking == {"token", "desToken", "connect", "query", "bookings", "datasets"}

\* The connections an invocation may come to use.
ToUse(c, db) == IF db = "TARS" THEN Needs(c) ELSE IF Poller[c] = "journals" THEN 1 ELSE 0

\* Connections are in use during the queries, and those to the DSP only by the
\* journals poller.
UsingInv ==
    \A c \in Containers :
        /\ pc[c] \in {"desToken", "bookings", "datasets"} => Poller[c] = "journals"
        /\ pc[c] \notin {"query", "bookings", "datasets"} => using[c] = NoneUsed
        /\ pc[c] = "query" => using[c]["DSP"] = 0
        /\ \A db \in Databases : using[c][db] <= ToUse(c, db)

\* Who leaves which pools.
PoolsInv ==
    \A c \in Containers : \A pool \in pools[c] :
        /\ Poller[c] \in {"journals", "testCentre"}
        /\ pool.db = "DSP" => Poller[c] = "journals"
        /\ (pool.db = "DSP" \/ Poller[c] = "testCentre") => pool.connections = 1

\* The ages of the invocations that left the pools of a container behind: a pool
\* was left in the invocation's own time, and the invocations are MinGap apart.
Spaced(c, age) ==
    /\ age \in [pools[c] -> 0..IdleTimeout + MinGap]
    /\ \A pool \in pools[c] :
           /\ pool.idle <= age[pool] /\ age[pool] < pool.idle + MinGap
           /\ sinceStart[c] <= age[pool]
           /\ pc[c] \in Asking => sinceStart[c] + MinGap <= age[pool]
    /\ \A p, q \in pools[c] :
           (p # q /\ p.db = q.db) => age[p] + MinGap <= age[q] \/ age[q] + MinGap <= age[p]

SpacedInv == \A c \in Containers : \E age : Spaced(c, age)

\* The pools to the replica that failed invocations of the journals poller left.
Failed == UNION {{c} \X {pool \in pools[c] : pool.db = "TARS"} : c \in OfPoller("journals")}

FailedInv == IsFiniteSet(Failed) /\ Cardinality(Failed) <= faults

\* The tokens of an invocation that could get them are no older than it.
TokensInv ==
    \A c \in Containers :
        /\ pc[c] # "idle" => sinceStart[c] < MinGap
        /\ pc[c] = "desToken" => configuration[c] # Unset /\ configuration[c].TARS <= sinceStart[c]
        /\ (pc[c] \notin {"idle", "token", "desToken"} /\ "bootstrap" \notin hurt[c]) =>
               /\ configuration[c] # Unset /\ configuration[c].TARS <= sinceStart[c]
               /\ Poller[c] = "journals" =>
                      configuration[c].DSP # Unset /\ configuration[c].DSP <= sinceStart[c]

ExcusedInv ==
    AmpleConnections =>
        \A c \in Containers :
            /\ (Poller[c] = "testCentre" /\ pc[c] = "reconcile" /\ ~taken[c].records) =>
                   Excused(c, "TARS")
            /\ (Poller[c] = "journals" /\ pc[c] \in {"datasets", "reconcile"}
                    /\ ~taken[c].bookings) => Excused(c, "DSP")

IInv == /\ TypeOK /\ UsingInv /\ PoolsInv /\ SpacedInv /\ FailedInv /\ TokensInv
        /\ ExcusedInv /\ table["delegated"] = "current"

\* What may be in use before the queries end.
Reserved(C, db) ==
    UNION {{<<c, n>> : n \in 1..ToUse(c, db)} : c \in {c \in C : pc[c] \in Asking}}

----------------------------------------------------------------------------
(* Types and connections in use.                                           *)

Step(c) == \/ Start(c) \/ Proceed(c) \/ BootstrapFails(c) \/ QueryFails(c) \/ Recycle(c)

LEMMA InvInit == Init => IInv
<1> SUFFICES ASSUME Init
             PROVE  IInv
    OBVIOUS
<1> USE ContainersAssumption
<1>1. TypeOK
    BY DEF Init, TypeOK, Password, NothingTaken, NoneUsed, Ages, Databases, Pollers
<1>2. UsingInv
    BY DEF Init, UsingInv, NoneUsed, ToUse, Needs, Databases
<1>3. PoolsInv /\ TokensInv /\ ExcusedInv
    BY DEF Init, PoolsInv, TokensInv, ExcusedInv
<1>4. SpacedInv
    <2> SUFFICES ASSUME NEW c \in Containers
                 PROVE  \E age : Spaced(c, age)
        BY DEF SpacedInv
    <2> DEFINE none == [pool \in pools[c] |-> 0]
    <2>1. Spaced(c, none)
        BY DEF Init, Spaced
    <2> QED
        BY <2>1
<1>5. FailedInv
    <2>1. Failed = {}
        BY DEF Init, Failed, OfPoller
    <2> QED
        BY <2>1, FS_EmptySet DEF Init, FailedInv
<1>6. table["delegated"] = "current"
    BY DEF Init, Pollers
<1> QED
    BY <1>1, <1>2, <1>3, <1>4, <1>5, <1>6 DEF IInv

LEMMA NeedsType ==
    ASSUME NEW c \in Containers
    PROVE  /\ Needs(c) \in 1..PoolSize /\ ToUse(c, "TARS") = Needs(c)
           /\ ToUse(c, "DSP") = IF Poller[c] = "journals" THEN 1 ELSE 0
           /\ \A db \in Databases : ToUse(c, db) \in 0..PoolSize
BY ContainersAssumption DEF Needs, ToUse, Databases

\* What is left behind, by whom.
LEMMA LeftBehindPools ==
    ASSUME TypeOK, NEW c \in Containers, NEW dbs, dbs \subseteq Databases,
           LeaveBehind(c, dbs)
    PROVE  /\ \A k \in Containers : k # c => pools'[k] = pools[k]
           /\ pools'[c] = pools[c] \cup
                  {[db |-> db, connections |-> using[c][db], idle |-> 0] :
                      db \in {db \in dbs : using[c][db] > 0}}
           /\ pools' \in [Containers -> SUBSET Pool]
<1> DEFINE new == {[db |-> db, connections |-> using[c][db], idle |-> 0] :
                      db \in {db \in dbs : using[c][db] > 0}}
<1>1. pools \in [Containers -> SUBSET Pool] /\ using \in [Containers -> [Databases -> 0..PoolSize]]
    BY DEF TypeOK
<1>2. pools' = [pools EXCEPT ![c] = @ \cup new]
    BY DEF LeaveBehind
<1>3. new \subseteq Pool
    <2> SUFFICES ASSUME NEW db \in dbs, using[c][db] > 0
                 PROVE  [db |-> db, connections |-> using[c][db], idle |-> 0] \in Pool
        OBVIOUS
    <2>1. using[c][db] \in 1..PoolSize /\ db \in Databases
        BY <1>1, ContainersAssumption
    <2>2. 0 \in 0..IdleTimeout - 1
        BY ContainersAssumption
    <2> QED
        BY <2>1, <2>2 DEF Pool
<1> HIDE DEF new
<1>4. pools' \in [Containers -> SUBSET Pool] /\ pools'[c] = pools[c] \cup new
    BY <1>1, <1>2, <1>3
<1> QED
    BY <1>1, <1>2, <1>4 DEF new

\* The parts of the state that a step of one container, or of time, changes.
LEMMA TypeStep == IInv /\ [Next]_vars => TypeOK'
<1> SUFFICES ASSUME IInv, [Next]_vars
             PROVE  TypeOK'
    OBVIOUS
<1> DEFINE Config == [TARS : Ages(TokenLife), DSP : Ages(TokenLife) \cup {Unset}] \cup {Unset}
           Typed == /\ pc \in [Containers -> {"idle", "token", "desToken", "connect", "query",
                                             "bookings", "datasets", "reconcile"}]
                    /\ sinceStart \in [Containers -> Ages(MinGap)]
                    /\ using \in [Containers -> [Databases -> 0..PoolSize]]
                    /\ pools \in [Containers -> SUBSET Pool]
                    /\ taken \in [Containers -> [records : BOOLEAN, bookings : BOOLEAN]]
                    /\ table \in [Pollers -> {"current", "withoutBookings", "empty"}]
                    /\ hurt \in [Containers -> SUBSET {"bootstrap", "query", "table"}]
                    /\ faults \in 0..MaxFaults
           Configured == /\ configuration \in [Containers -> Config]
                         /\ \A c \in Containers : Password(c, "DSP") # Unset => Poller[c] = "journals"
<1>1. Typed /\ Configured /\ TypeOK
    BY DEF IInv, TypeOK
<1>2. ASSUME NEW c \in Containers, Fault(c, "bootstrap") \/ Fault(c, "query") \/ Fault(c, "table") \/ NoFault
      PROVE  /\ hurt' \in [Containers -> SUBSET {"bootstrap", "query", "table"}]
             /\ faults' \in 0..MaxFaults
    <2>1. CASE NoFault
        BY <1>1, <2>1 DEF NoFault
    <2>2. ASSUME NEW where \in {"bootstrap", "query", "table"}, Fault(c, where)
          PROVE  /\ hurt' \in [Containers -> SUBSET {"bootstrap", "query", "table"}]
                 /\ faults' \in 0..MaxFaults
        BY <1>1, <2>2, ContainersAssumption DEF Fault
    <2> QED
        BY <1>2, <2>1, <2>2
<1>3. UNCHANGED configuration => Configured'
    BY <1>1 DEF Password
<1>4. 0 \in 0..PoolSize /\ 1 \in 0..PoolSize /\ NoneUsed \in [Databases -> 0..PoolSize]
    BY ContainersAssumption DEF NoneUsed
<1>5. NothingTaken \in [records : BOOLEAN, bookings : BOOLEAN]
    BY DEF NothingTaken
<1>6. ASSUME NEW c \in Containers, Respond(c)
      PROVE  /\ pc' \in [Containers -> {"idle", "token", "desToken", "connect", "query",
                                        "bookings", "datasets", "reconcile"}]
             /\ using' \in [Containers -> [Databases -> 0..PoolSize]]
             /\ taken' \in [Containers -> [records : BOOLEAN, bookings : BOOLEAN]]
    BY <1>1, <1>4, <1>5, <1>6 DEF Respond
<1>7. ASSUME NEW c \in Containers, QueryFailed(c)
      PROVE  /\ pc' \in [Containers -> {"idle", "token", "desToken", "connect", "query",
                                        "bookings", "datasets", "reconcile"}]
             /\ using' \in [Containers -> [Databases -> 0..PoolSize]]
             /\ taken' \in [Containers -> [records : BOOLEAN, bookings : BOOLEAN]]
             /\ pools' \in [Containers -> SUBSET Pool]
             /\ UNCHANGED <<configuration, sinceStart, table>>
    <2>1. pools' \in [Containers -> SUBSET Pool]
        BY <1>1, <1>7, LeftBehindPools DEF QueryFailed
    <2>2. CASE Poller[c] \in Swallowing
        <3>1. /\ pc' = [pc EXCEPT ![c] = "reconcile"] /\ using' = [using EXCEPT ![c] = NoneUsed]
              /\ taken' = taken
            BY <1>7, <2>2 DEF QueryFailed
        <3> QED
            BY <1>1, <1>4, <1>7, <2>1, <3>1 DEF QueryFailed
    <2>3. CASE Poller[c] \notin Swallowing
        BY <1>6, <1>7, <2>1, <2>3 DEF QueryFailed
    <2> QED
        BY <2>2, <2>3
<1>8. ASSUME Typed', Configured'
      PROVE  TypeOK'
    BY <1>8 DEF TypeOK
<1> HIDE DEF Typed, Configured, Config
<1>9. ASSUME NEW c \in Containers, Start(c)
      PROVE  TypeOK'
    BY <1>1, <1>3, <1>8, <1>9, ContainersAssumption DEF Start, Typed, Ages
<1>10. ASSUME NEW c \in Containers, TokenFetched(c)
       PROVE  TypeOK'
    <2>1. Typed'
        BY <1>1, <1>2, <1>10 DEF TokenFetched, Typed
    <2>2. Configured'
        <3>1. Bootstrapped(c) \in Config
            BY ContainersAssumption DEF Bootstrapped, Config, Ages
        <3>2. configuration' \in [Containers -> Config]
            BY <1>1, <1>10, <3>1 DEF TokenFetched, Configured
        <3>3. \A k \in Containers : k # c => configuration'[k] = configuration[k]
            BY <1>1, <1>10 DEF TokenFetched, Configured
        <3>4. configuration'[c] = Bootstrapped(c)
            BY <1>1, <1>10 DEF TokenFetched, Configured
        <3>5. configuration'[c].DSP = Unset
            BY <3>4 DEF Bootstrapped
        <3> QED
            BY <1>1, <3>2, <3>3, <3>5 DEF Configured, Password
    <2> QED
        BY <1>8, <2>1, <2>2
<1>11. ASSUME NEW c \in Containers, DesTokenFetched(c)
       PROVE  TypeOK'
    <2>1. Typed'
        BY <1>1, <1>2, <1>11 DEF DesTokenFetched, Typed
    <2>2. Configured'
        <3>1. Poller[c] = "journals" /\ configuration[c] # Unset
            BY <1>11 DEF DesTokenFetched, IInv, UsingInv, TokensInv
        <3>2. configuration' \in [Containers -> Config]
            BY <1>1, <1>11, <3>1, ContainersAssumption
            DEF DesTokenFetched, Configured, Config, Ages
        <3>3. \A k \in Containers : k # c => configuration'[k] = configuration[k]
            BY <1>1, <1>11 DEF DesTokenFetched, Configured
        <3> QED
            BY <1>1, <3>1, <3>2, <3>3 DEF Configured, Password
    <2> QED
        BY <1>8, <2>1, <2>2
<1>12. ASSUME NEW c \in Containers, BootstrapFails(c)
       PROVE  TypeOK'
    BY <1>1, <1>2, <1>3, <1>8, <1>12 DEF BootstrapFails, Typed
<1>13. ASSUME NEW c \in Containers, Connect(c)
       PROVE  TypeOK'
    <2>1. Needs(c) \in 0..PoolSize
        BY NeedsType, ContainersAssumption
    <2>2. using' \in [Containers -> [Databases -> 0..PoolSize]]
        BY <1>1, <1>13, <2>1 DEF Connect, Typed
    <2> QED
        BY <1>1, <1>2, <1>3, <1>8, <1>13, <2>2 DEF Connect, Typed
<1>14. ASSUME NEW c \in Containers, CannotConnect(c) \/ QueryFails(c)
       PROVE  TypeOK'
    BY <1>1, <1>2, <1>3, <1>7, <1>8, <1>14 DEF CannotConnect, QueryFails, Typed
<1>15. ASSUME NEW c \in Containers, QueryAnswered(c)
       PROVE  TypeOK'
    <2>1. pools' \in [Containers -> SUBSET Pool]
        BY <1>1, <1>15, LeftBehindPools DEF QueryAnswered, Typed
    <2>2. CASE Poller[c] = "journals"
        BY <1>1, <1>2, <1>3, <1>8, <1>15, <2>2 DEF QueryAnswered, Typed
    <2>3. CASE Poller[c] # "journals"
        <3>1. taken' = [taken EXCEPT ![c].records = TRUE] /\ using' = [using EXCEPT ![c] = NoneUsed]
              /\ pc' = [pc EXCEPT ![c] = "reconcile"]
            BY <1>15, <2>3 DEF QueryAnswered
        <3>2. taken' \in [Containers -> [records : BOOLEAN, bookings : BOOLEAN]]
            BY <1>1, <3>1 DEF Typed
        <3> QED
            BY <1>1, <1>2, <1>3, <1>4, <1>8, <1>15, <2>1, <3>1, <3>2 DEF QueryAnswered, Typed
    <2> QED
        BY <2>2, <2>3
<1>16. ASSUME NEW c \in Containers, BookingsConnect(c)
       PROVE  TypeOK'
    <2>1. using' \in [Containers -> [Databases -> 0..PoolSize]]
        BY <1>1, <1>4, <1>16 DEF BookingsConnect, Typed
    <2> QED
        BY <1>1, <1>2, <1>3, <1>8, <1>16, <2>1 DEF BookingsConnect, Typed
<1>17. ASSUME NEW c \in Containers, BookingsAnswered(c) \/ BookingsFail(c)
       PROVE  TypeOK'
    <2>1. taken' \in [Containers -> [records : BOOLEAN, bookings : BOOLEAN]]
        <3>1. taken' = taken \/ taken' = [taken EXCEPT ![c].bookings = TRUE]
            BY <1>17 DEF BookingsAnswered, BookingsFail
        <3>2. taken \in [Containers -> [records : BOOLEAN, bookings : BOOLEAN]]
            BY <1>1 DEF Typed
        <3>3. CASE taken' = [taken EXCEPT ![c].bookings = TRUE]
            BY <3>2, <3>3
        <3> QED
            BY <3>1, <3>2, <3>3
    <2>2. /\ hurt' \in [Containers -> SUBSET {"bootstrap", "query", "table"}]
          /\ faults' \in 0..MaxFaults
        BY <1>2, <1>17 DEF BookingsAnswered, BookingsFail
    <2>3. /\ pc' = [pc EXCEPT ![c] = "datasets"]
          /\ UNCHANGED <<configuration, using, sinceStart, pools, table>>
        BY <1>17 DEF BookingsAnswered, BookingsFail
    <2> QED
        BY <1>1, <1>3, <1>8, <2>1, <2>2, <2>3 DEF Typed
<1>18. ASSUME NEW c \in Containers, DatasetsAnswered(c)
       PROVE  TypeOK'
    <2>1. pools' \in [Containers -> SUBSET Pool]
        BY <1>1, <1>18, LeftBehindPools DEF DatasetsAnswered, NeverEnded, Databases
    <2> QED
        BY <1>1, <1>2, <1>3, <1>4, <1>8, <1>18, <2>1 DEF DatasetsAnswered, Typed
<1>19. ASSUME NEW c \in Containers, Reconcile(c) \/ ReconcileFails(c)
       PROVE  TypeOK'
    <2>1. Written(c) \in {"current", "withoutBookings", "empty"}
        BY <1>1, ContainersAssumption
        DEF Written, JournalsWritten, TestCentresWritten, DelegatedWritten, Typed, Pollers
    <2>2. table' \in [Pollers -> {"current", "withoutBookings", "empty"}]
        BY <1>1, <1>19, <2>1 DEF Reconcile, ReconcileFails, Typed
    <2> QED
        BY <1>1, <1>2, <1>3, <1>6, <1>8, <1>19, <2>2 DEF Reconcile, ReconcileFails, Typed
<1>20. ASSUME NEW c \in Containers, Recycle(c)
       PROVE  TypeOK'
    <2>1. Typed'
        BY <1>1, <1>20 DEF Recycle, Typed, invocation
    <2>2. Configured'
        BY <1>1, <1>20 DEF Recycle, Configured, Config, Password
    <2> QED
        BY <1>8, <2>1, <2>2
<1>21. CASE Tick
    <2>1. \A age \in Ages(MinGap) : Older(age, MinGap) \in Ages(MinGap)
        BY ContainersAssumption DEF Older, Ages
    <2>2. \A c \in Containers : pools'[c] \subseteq Pool
        <3> SUFFICES ASSUME NEW c \in Containers, NEW pool \in pools[c],
                            pool.idle + 1 < IdleTimeout
                     PROVE  [pool EXCEPT !.idle = @ + 1] \in Pool
            BY <1>21 DEF Tick
        <3>1. pool \in Pool
            BY <1>1 DEF Typed
        <3> QED
            BY <3>1, ContainersAssumption DEF Pool
    <2>3. Typed'
        BY <1>1, <1>21, <2>1, <2>2 DEF Tick, Typed, invocation
    <2>4. ASSUME NEW c \in Containers
          PROVE  /\ configuration'[c] \in Config
                 /\ Password(c, "DSP")' # Unset => Password(c, "DSP") # Unset
        <3>1. CASE configuration[c] = Unset
            BY <1>21, <3>1 DEF Tick, Password, Config
        <3>2. CASE configuration[c] # Unset
            <4>1. configuration[c] \in [TARS : Ages(TokenLife), DSP : Ages(TokenLife) \cup {Unset}]
                BY <1>1, <3>2 DEF Configured, Config
            <4>2. configuration'[c] =
                      [db \in {"TARS", "DSP"} |-> Older(configuration[c][db], TokenLife)]
                BY <1>21, <3>2 DEF Tick, Databases
            <4>3. configuration'[c] =
                      [TARS |-> Older(configuration[c].TARS, TokenLife),
                       DSP |-> Older(configuration[c].DSP, TokenLife)]
                BY <4>2
            <4>4. \A age \in Ages(TokenLife) : Older(age, TokenLife) \in Ages(TokenLife)
                BY ContainersAssumption DEF Older, Ages
            <4>5. Older(Unset, TokenLife) = Unset
                BY DEF Older
            <4>6. configuration'[c] \in [TARS : Ages(TokenLife), DSP : Ages(TokenLife) \cup {Unset}]
                BY <4>1, <4>3, <4>4, <4>5
            <4>7. configuration[c].DSP = Unset => configuration'[c].DSP = Unset
                BY <4>3, <4>5
            <4> QED
                BY <3>2, <4>6, <4>7 DEF Config, Password
        <3> QED
            BY <3>1, <3>2
    <2>5. Configured'
        <3>1. configuration' = [c \in Containers |-> configuration'[c]]
            BY <1>21 DEF Tick
        <3> QED
            BY <1>1, <2>4, <3>1 DEF Configured
    <2> QED
        BY <1>8, <2>3, <2>5
<1>22. CASE UNCHANGED vars
    BY <1>1, <1>3, <1>8, <1>22 DEF vars, invocation, Typed
<1> QED
    BY <1>9, <1>10, <1>11, <1>12, <1>13, <1>14, <1>15, <1>16, <1>17, <1>18, <1>19, <1>20,
       <1>21, <1>22 DEF Next, Proceed

\* A step of one container leaves the others alone.
LEMMA OthersKeep ==
    ASSUME TypeOK, NEW c \in Containers, Step(c), NEW k \in Containers, k # c
    PROVE  /\ pc'[k] = pc[k] /\ sinceStart'[k] = sinceStart[k] /\ using'[k] = using[k]
           /\ pools'[k] = pools[k] /\ taken'[k] = taken[k] /\ hurt'[k] = hurt[k]
           /\ configuration'[k] = configuration[k]
<1> DEFINE Same == /\ pc'[k] = pc[k] /\ sinceStart'[k] = sinceStart[k] /\ using'[k] = using[k]
                   /\ pools'[k] = pools[k] /\ taken'[k] = taken[k] /\ hurt'[k] = hurt[k]
                   /\ configuration'[k] = configuration[k]
<1>0. /\ DOMAIN pc = Containers /\ DOMAIN sinceStart = Containers /\ DOMAIN using = Containers
      /\ DOMAIN pools = Containers /\ DOMAIN taken = Containers /\ DOMAIN hurt = Containers
      /\ DOMAIN configuration = Containers
    BY DEF TypeOK
<1>1. ASSUME NEW where, Fault(c, where)
      PROVE  hurt'[k] = hurt[k]
    BY <1>0, <1>1 DEF Fault
<1>2. NoFault => hurt'[k] = hurt[k]
    BY <1>0 DEF NoFault
<1>3. ASSUME NEW dbs, LeaveBehind(c, dbs)
      PROVE  pools'[k] = pools[k]
    BY <1>0, <1>3 DEF LeaveBehind
<1>4. Respond(c) => pc'[k] = pc[k] /\ using'[k] = using[k] /\ taken'[k] = taken[k]
    BY <1>0 DEF Respond
<1>5. ASSUME QueryFailed(c)
      PROVE  /\ pc'[k] = pc[k] /\ using'[k] = using[k] /\ taken'[k] = taken[k]
             /\ pools'[k] = pools[k] /\ sinceStart'[k] = sinceStart[k]
             /\ configuration'[k] = configuration[k]
    BY <1>0, <1>3, <1>4, <1>5 DEF QueryFailed
<1>6. CASE Start(c) \/ Recycle(c)
    BY <1>0, <1>6 DEF Start, Recycle, invocation
<1>7. CASE TokenFetched(c) \/ DesTokenFetched(c)
    BY <1>0, <1>2, <1>7 DEF TokenFetched, DesTokenFetched
<1>8. CASE BootstrapFails(c)
    BY <1>0, <1>1, <1>8 DEF BootstrapFails
<1>9. CASE Connect(c) \/ BookingsConnect(c) \/ BookingsAnswered(c)
    BY <1>0, <1>2, <1>9 DEF Connect, BookingsConnect, BookingsAnswered
<1>10. CASE CannotConnect(c) \/ QueryFails(c)
    BY <1>0, <1>1, <1>2, <1>5, <1>10 DEF CannotConnect, QueryFails
<1>11. CASE QueryAnswered(c) \/ DatasetsAnswered(c)
    BY <1>0, <1>2, <1>3, <1>11 DEF QueryAnswered, DatasetsAnswered
<1>12. CASE BookingsFail(c)
    BY <1>0, <1>1, <1>2, <1>12 DEF BookingsFail
<1>13. CASE Reconcile(c) \/ ReconcileFails(c)
    BY <1>0, <1>1, <1>2, <1>4, <1>13 DEF Reconcile, ReconcileFails
<1> QED
    BY <1>0, <1>6, <1>7, <1>8, <1>9, <1>10, <1>11, <1>12, <1>13 DEF Step, Proceed

\* What the steps of a container do to its own invocation and connections.
Begins(c) ==
    /\ pc[c] = "idle" /\ pc'[c] = "token" /\ sinceStart[c] = MinGap
    /\ sinceStart'[c] = 0 /\ UNCHANGED <<using, pools, faults>>

Configures(c) ==
    /\ pc[c] \in {"token", "desToken"} /\ pc'[c] \in {"desToken", "connect"}
    /\ pc'[c] = "desToken" => Poller[c] = "journals"
    /\ faults <= faults' /\ UNCHANGED <<using, pools, sinceStart>>

Connects(c) ==
    /\ pc[c] = "connect" /\ pc'[c] = "query"
    /\ using'[c] = [using[c] EXCEPT !["TARS"] = Needs(c)]
    /\ UNCHANGED <<pools, sinceStart, faults>>

Fails(c) ==
    /\ pc[c] \in {"connect", "query", "datasets"} /\ pc'[c] \in {"idle", "reconcile"}
    /\ using'[c] = NoneUsed /\ sinceStart' = sinceStart
    /\ faults' = IF pc[c] = "connect" THEN faults ELSE faults + 1
    /\ \/ pools' = pools
       \/ Poller[c] \in {"journals", "testCentre"} /\ LeaveBehind(c, Databases)

GoesOn(c) ==
    /\ pc[c] = "query" /\ Poller[c] = "journals" /\ pc'[c] = "bookings"
    /\ UNCHANGED <<using, pools, sinceStart, faults>>

AsksForBookings(c) ==
    /\ pc[c] = "bookings" /\ pc'[c] \in {"bookings", "datasets"}
    /\ using'[c] \in {using[c], [using[c] EXCEPT !["DSP"] = 1]}
    /\ faults <= faults' /\ UNCHANGED <<pools, sinceStart>>

Answers(c) ==
    /\ pc'[c] = "reconcile" /\ using'[c] = NoneUsed /\ UNCHANGED <<sinceStart, faults>>
    /\ \/ /\ pc[c] = "query" /\ Poller[c] # "journals"
          /\ pools' = pools \/ (Poller[c] = "testCentre" /\ LeaveBehind(c, Databases))
       \/ pc[c] = "datasets" /\ LeaveBehind(c, {"DSP"})

Ends(c) ==
    /\ pc[c] = "reconcile" /\ pc'[c] = "idle" /\ using'[c] = NoneUsed
    /\ faults <= faults' /\ UNCHANGED <<pools, sinceStart>>

Leaves(c) ==
    /\ pc[c] = "idle" /\ pc'[c] = "idle" /\ pools' \in {pools, [pools EXCEPT ![c] = {}]}
    /\ UNCHANGED <<using, sinceStart, faults>>

LEMMA OwnSteps ==
    ASSUME TypeOK, NEW c \in Containers, Step(c)
    PROVE  \/ Begins(c) \/ Configures(c) \/ Connects(c) \/ Fails(c) \/ GoesOn(c)
           \/ AsksForBookings(c) \/ Answers(c) \/ Ends(c) \/ Leaves(c)
<1>1. /\ DOMAIN pc = Containers /\ using \in [Containers -> [Databases -> 0..PoolSize]]
      /\ sinceStart \in [Containers -> Ages(MinGap)] /\ faults \in Nat
      /\ Poller[c] \in Pollers
    BY ContainersAssumption DEF TypeOK
<1>2. NoFault => faults' = faults
    BY DEF NoFault
<1>3. \A where : Fault(c, where) => faults' = faults + 1
    BY DEF Fault
<1>4. Respond(c) => pc'[c] = "idle" /\ using'[c] = NoneUsed
    BY <1>1 DEF Respond
<1>5. QueryFailed(c) => /\ pc'[c] \in {"idle", "reconcile"} /\ using'[c] = NoneUsed
                        /\ sinceStart' = sinceStart
                        /\ pools' = pools \/ (/\ Poller[c] \in {"journals", "testCentre"}
                                              /\ LeaveBehind(c, Databases))
    BY <1>1, <1>4 DEF QueryFailed, EndedInFinally, Pollers
<1>6. CASE Start(c)
    BY <1>1, <1>6 DEF Start, Begins
<1>7. CASE TokenFetched(c)
    BY <1>1, <1>2, <1>7 DEF TokenFetched, Configures
<1>8. CASE DesTokenFetched(c)
    BY <1>1, <1>2, <1>8 DEF DesTokenFetched, Configures
<1>9. CASE BootstrapFails(c)
    BY <1>1, <1>3, <1>9 DEF BootstrapFails, Configures
<1>10. CASE Connect(c)
    BY <1>1, <1>2, <1>10 DEF Connect, Connects
<1>11. CASE CannotConnect(c)
    BY <1>1, <1>2, <1>5, <1>11 DEF CannotConnect, Fails
<1>12. CASE QueryFails(c)
    BY <1>1, <1>3, <1>5, <1>12 DEF QueryFails, Fails
<1>13. CASE QueryAnswered(c)
    <2>1. CASE Poller[c] = "journals"
        BY <1>1, <1>2, <1>13, <2>1 DEF QueryAnswered, GoesOn
    <2>2. CASE Poller[c] # "journals"
        BY <1>1, <1>2, <1>13, <2>2 DEF QueryAnswered, EndedInFinally, Pollers, Answers
    <2> QED
        BY <2>1, <2>2
<1>14. CASE BookingsConnect(c)
    BY <1>1, <1>2, <1>14 DEF BookingsConnect, AsksForBookings
<1>15. CASE BookingsAnswered(c)
    BY <1>1, <1>2, <1>15 DEF BookingsAnswered, AsksForBookings
<1>16. CASE BookingsFail(c)
    BY <1>1, <1>2, <1>3, <1>16 DEF BookingsFail, AsksForBookings
<1>17. CASE DatasetsAnswered(c)
    BY <1>1, <1>2, <1>17 DEF DatasetsAnswered, NeverEnded, Answers
<1>18. CASE Reconcile(c)
    BY <1>1, <1>2, <1>4, <1>18 DEF Reconcile, Ends
<1>19. CASE ReconcileFails(c)
    BY <1>1, <1>2, <1>3, <1>4, <1>19 DEF ReconcileFails, Ends
<1>20. CASE Recycle(c)
    BY <1>1, <1>20 DEF Recycle, invocation, Leaves
<1> QED
    BY <1>6, <1>7, <1>8, <1>9, <1>10, <1>11, <1>12, <1>13, <1>14, <1>15, <1>16, <1>17,
       <1>18, <1>19, <1>20 DEF Step, Proceed

LEMMA StepOrTime ==
    ASSUME [Next]_vars
    PROVE  Tick \/ (\E c \in Containers : Step(c)) \/ UNCHANGED vars
BY DEF Next, Step

LEMMA UsingStep == IInv /\ [Next]_vars => UsingInv'
<1> SUFFICES ASSUME IInv, [Next]_vars, NEW k \in Containers
             PROVE  /\ pc'[k] \in {"desToken", "bookings", "datasets"} => Poller[k] = "journals"
                    /\ pc'[k] \notin {"query", "bookings", "datasets"} => using'[k] = NoneUsed
                    /\ pc'[k] = "query" => using'[k]["DSP"] = 0
                    /\ \A db \in Databases : using'[k][db] <= ToUse(k, db)
    BY DEF UsingInv, ToUse, Needs
<1>1. /\ TypeOK /\ DOMAIN using[k] = Databases
      /\ pc[k] \in {"desToken", "bookings", "datasets"} => Poller[k] = "journals"
      /\ pc[k] \notin {"query", "bookings", "datasets"} => using[k] = NoneUsed
      /\ pc[k] = "query" => using[k]["DSP"] = 0
      /\ \A db \in Databases : using[k][db] <= ToUse(k, db)
    BY DEF IInv, TypeOK, UsingInv
<1>2. \A db \in Databases : NoneUsed[db] = 0 /\ NoneUsed[db] <= ToUse(k, db)
    BY NeedsType, ContainersAssumption DEF NoneUsed
<1>3. ASSUME NEW c \in Containers, Step(c), c # k
      PROVE  pc'[k] = pc[k] /\ using'[k] = using[k]
    BY <1>1, <1>3, OthersKeep
<1>4. CASE Tick \/ UNCHANGED vars \/ (\E c \in Containers : c # k /\ Step(c))
    <2>1. pc'[k] = pc[k] /\ using'[k] = using[k]
        BY <1>3, <1>4 DEF Tick, vars, invocation
    <2> QED
        BY <1>1, <2>1
<1>5. CASE Step(k)
    <2>1. CASE Begins(k) \/ Configures(k)
        BY <1>1, <2>1 DEF Begins, Configures
    <2>2. CASE Connects(k)
        <3>1. using[k] = NoneUsed
            BY <1>1, <2>2 DEF Connects
        <3>2. using'[k]["TARS"] = Needs(k) /\ using'[k]["DSP"] = 0
            BY <1>1, <1>2, <2>2, <3>1 DEF Connects, Databases
        <3>3. Needs(k) <= ToUse(k, "TARS") /\ 0 <= ToUse(k, "DSP")
            BY NeedsType, ContainersAssumption DEF Databases
        <3> QED
            BY <2>2, <3>2, <3>3 DEF Connects, Databases
    <2>3. CASE Fails(k) \/ Answers(k) \/ Ends(k)
        BY <1>2, <2>3 DEF Fails, Answers, Ends
    <2>4. CASE GoesOn(k) \/ Leaves(k)
        BY <1>1, <2>4 DEF GoesOn, Leaves
    <2>5. CASE AsksForBookings(k)
        <3>1. Poller[k] = "journals"
            BY <1>1, <2>5 DEF AsksForBookings
        <3>2. ToUse(k, "DSP") = 1
            BY <3>1, NeedsType
        <3>3. \A db \in Databases : using'[k][db] <= ToUse(k, db)
            <4>1. CASE using'[k] = using[k]
                BY <1>1, <4>1
            <4>2. CASE using'[k] = [using[k] EXCEPT !["DSP"] = 1]
                BY <1>1, <3>2, <4>2 DEF Databases
            <4> QED
                BY <2>5, <4>1, <4>2 DEF AsksForBookings
        <3> QED
            BY <2>5, <3>1, <3>3 DEF AsksForBookings
    <2> QED
        BY <1>1, <1>5, <2>1, <2>2, <2>3, <2>4, <2>5, OwnSteps
<1> QED
    BY <1>4, <1>5, StepOrTime

\* The pools that a step adds are of the latest invocation, and new.
LEMMA PoolsOfStep ==
    ASSUME IInv, NEW c \in Containers, Step(c)
    PROVE  \A pool \in pools'[c] \ pools[c] :
               /\ pool.idle = 0 /\ (Fails(c) \/ Answers(c))
               /\ Poller[c] \in {"journals", "testCentre"}
               /\ pool.db \in Databases /\ pool.connections = using[c][pool.db]
               /\ pool.connections # 0
               /\ pool = [db |-> pool.db, connections |-> using[c][pool.db], idle |-> 0]
               /\ pool.db = "TARS" => ~(Answers(c) /\ Poller[c] = "journals")
<1>1. TypeOK /\ UsingInv
    BY DEF IInv
<1>2. ASSUME NEW dbs, dbs \subseteq Databases, LeaveBehind(c, dbs)
      PROVE  \A pool \in pools'[c] \ pools[c] :
                 /\ pool.idle = 0 /\ pool.db \in dbs
                 /\ pool = [db |-> pool.db, connections |-> using[c][pool.db], idle |-> 0]
                 /\ pool.connections = using[c][pool.db] /\ pool.connections # 0
    <2>1. pools'[c] = pools[c] \cup
              {[db |-> db, connections |-> using[c][db], idle |-> 0] :
                  db \in {db \in dbs : using[c][db] > 0}}
        BY <1>1, <1>2, LeftBehindPools
    <2> SUFFICES ASSUME NEW db \in dbs, using[c][db] > 0
                 PROVE  LET pool == [db |-> db, connections |-> using[c][db], idle |-> 0]
                        IN  /\ pool.idle = 0 /\ pool.db \in dbs
                            /\ pool = [db |-> pool.db, connections |-> using[c][pool.db], idle |-> 0]
                            /\ pool.connections = using[c][pool.db] /\ pool.connections # 0
        BY <2>1
    <2> QED
        BY <1>1 DEF TypeOK
<1>3. CASE pools'[c] \subseteq pools[c]
    BY <1>3
<1>4. CASE Fails(c) /\ LeaveBehind(c, Databases)
    <2>1. ~Answers(c)
        BY <1>1, <1>4, ContainersAssumption DEF Fails, Answers, TypeOK
    <2> QED
        BY <1>2, <1>4, <2>1 DEF Fails
<1>5. CASE Answers(c)
    BY <1>1, <1>2, <1>5 DEF Answers, Databases, UsingInv
<1> QED
    BY <1>1, <1>3, <1>4, <1>5, OwnSteps
    DEF Begins, Configures, Connects, Fails, GoesOn, AsksForBookings, Ends, Leaves, TypeOK

LEMMA PoolsStep == IInv /\ [Next]_vars => PoolsInv'
<1> SUFFICES ASSUME IInv, [Next]_vars, NEW k \in Containers, NEW pool \in pools'[k]
             PROVE  /\ Poller[k] \in {"journals", "testCentre"}
                    /\ pool.db = "DSP" => Poller[k] = "journals"
                    /\ (pool.db = "DSP" \/ Poller[k] = "testCentre") => pool.connections = 1
    BY DEF PoolsInv
<1> DEFINE Kept(p) == /\ Poller[k] \in {"journals", "testCentre"}
                      /\ p.db = "DSP" => Poller[k] = "journals"
                      /\ (p.db = "DSP" \/ Poller[k] = "testCentre") => p.connections = 1
<1>1. TypeOK /\ UsingInv /\ \A p \in pools[k] : Kept(p)
    BY DEF IInv, PoolsInv
<1>2. CASE pool \in pools[k]
    BY <1>1, <1>2
<1>3. CASE Tick
    <2>1. PICK p \in pools[k] : pool = [p EXCEPT !.idle = @ + 1]
        BY <1>3 DEF Tick
    <2>2. p \in Pool
        BY <1>1 DEF TypeOK
    <2>3. pool.db = p.db /\ pool.connections = p.connections
        BY <2>1, <2>2 DEF Pool
    <2> QED
        BY <1>1, <2>3
<1>4. CASE Step(k) /\ pool \notin pools[k]
    <2>1. /\ Poller[k] \in {"journals", "testCentre"} /\ pool.db \in Databases
          /\ pool.connections = using[k][pool.db] /\ pool.connections # 0
        BY <1>4, PoolsOfStep
    <2>2. using[k][pool.db] <= ToUse(k, pool.db) /\ using[k][pool.db] \in Nat
        BY <1>1, <2>1, ContainersAssumption DEF UsingInv, TypeOK
    <2>3. ToUse(k, "DSP") = IF Poller[k] = "journals" THEN 1 ELSE 0
        BY DEF ToUse
    <2>4. Poller[k] = "testCentre" => ToUse(k, "TARS") = 1
        BY DEF ToUse, Needs
    <2> QED
        BY <2>1, <2>2, <2>3, <2>4 DEF Databases
<1> QED
    BY <1>1, <1>2, <1>3, <1>4, StepOrTime, OthersKeep DEF vars

----------------------------------------------------------------------------
(* The invocations that left pools behind are MinGap apart.                *)

LEMMA SpacedTick ==
    ASSUME IInv, Tick, NEW k \in Containers, NEW age, Spaced(k, age)
    PROVE  \E later : Spaced(k, later)'
<1> DEFINE prev(q) == [q EXCEPT !.idle = @ - 1]
<1>0. PICK later : later = [q \in pools'[k] |-> age[prev(q)] + 1]
    OBVIOUS
<1>1. /\ pools[k] \subseteq Pool /\ sinceStart[k] \in Nat /\ sinceStart'[k] \in Nat
      /\ sinceStart'[k] <= sinceStart[k] + 1 /\ pc'[k] = pc[k]
      /\ MinGap \in Nat \ {0} /\ IdleTimeout \in Nat \ {0}
    BY ContainersAssumption DEF IInv, TypeOK, Tick, invocation, Older, Ages
<1>2. ASSUME NEW q \in pools'[k]
      PROVE  /\ prev(q) \in pools[k] /\ q = [prev(q) EXCEPT !.idle = @ + 1]
             /\ q.idle = prev(q).idle + 1 /\ q.db = prev(q).db
             /\ q.idle \in Nat /\ q.idle < IdleTimeout
    <2>1. PICK p \in pools[k] : q = [p EXCEPT !.idle = @ + 1] /\ p.idle + 1 < IdleTimeout
        BY DEF Tick
    <2>2. p = [db |-> p.db, connections |-> p.connections, idle |-> p.idle] /\ p.idle \in Nat
        BY <1>1 DEF Pool
    <2>3. q = [db |-> p.db, connections |-> p.connections, idle |-> p.idle + 1]
        BY <2>1, <2>2
    <2>4. prev(q) = p
        BY <2>2, <2>3
    <2> HIDE DEF prev
    <2> QED
        BY <2>1, <2>2, <2>3, <2>4
<1>3. \A q \in pools'[k] : later[q] = age[prev(q)] + 1
    BY <1>0
<1> HIDE DEF prev
<1>4. ASSUME NEW q \in pools'[k]
      PROVE  /\ later[q] \in 0..IdleTimeout + MinGap
             /\ q.idle <= later[q] /\ later[q] < q.idle + MinGap
             /\ sinceStart'[k] <= later[q]
             /\ pc'[k] \in Asking => sinceStart'[k] + MinGap <= later[q]
    <2>1. prev(q) \in pools[k] /\ age[prev(q)] \in Nat /\ later[q] = age[prev(q)] + 1
        BY <1>2, <1>3, <1>1 DEF Spaced
    <2>2. /\ prev(q).idle <= age[prev(q)] /\ age[prev(q)] < prev(q).idle + MinGap
          /\ sinceStart[k] <= age[prev(q)]
          /\ pc[k] \in Asking => sinceStart[k] + MinGap <= age[prev(q)]
        BY <2>1 DEF Spaced
    <2>3. prev(q).idle \in Nat /\ q.idle = prev(q).idle + 1 /\ q.idle < IdleTimeout
        BY <1>1, <1>2 DEF Pool
    <2> QED
        BY <1>1, <2>1, <2>2, <2>3
<1>5. ASSUME NEW p \in pools'[k], NEW q \in pools'[k], p # q, p.db = q.db
      PROVE  later[p] + MinGap <= later[q] \/ later[q] + MinGap <= later[p]
    <2>1. /\ prev(p) \in pools[k] /\ prev(q) \in pools[k]
          /\ prev(p) # prev(q) /\ prev(p).db = prev(q).db
        BY <1>2, <1>5
    <2>2. /\ age[prev(p)] \in Nat /\ age[prev(q)] \in Nat
          /\ \/ age[prev(p)] + MinGap <= age[prev(q)]
             \/ age[prev(q)] + MinGap <= age[prev(p)]
        BY <2>1, <1>1 DEF Spaced
    <2> QED
        BY <1>1, <1>3, <2>2
<1>6. later \in [pools'[k] -> 0..IdleTimeout + MinGap]
    BY <1>0, <1>4
<1>7. Spaced(k, later)'
    BY <1>4, <1>5, <1>6 DEF Spaced
<1> QED
    BY <1>7

LEMMA SpacedLeft ==
    ASSUME IInv, NEW k \in Containers, Step(k), Fails(k) \/ Answers(k),
           NEW age, Spaced(k, age)
    PROVE  \E later : Spaced(k, later)'
<1>0. PICK later : later = [q \in pools'[k] |-> IF q \in pools[k] THEN age[q] ELSE sinceStart[k]]
    OBVIOUS
<1>1. /\ pools[k] \subseteq Pool /\ sinceStart[k] \in Nat /\ sinceStart[k] < MinGap
      /\ sinceStart'[k] = sinceStart[k] /\ pc[k] \in Asking /\ pc'[k] \notin Asking
      /\ MinGap \in Nat \ {0} /\ IdleTimeout \in Nat \ {0}
    <2>1. sinceStart[k] \in Nat /\ pools[k] \subseteq Pool
        BY ContainersAssumption DEF IInv, TypeOK, Ages
    <2>2. /\ sinceStart'[k] = sinceStart[k] /\ pc[k] \in Asking /\ pc'[k] \notin Asking
          /\ pc[k] # "idle"
        BY DEF Fails, Answers, Asking
    <2> QED
        BY <2>1, <2>2, ContainersAssumption DEF IInv, TokensInv
<1>2. \A q \in pools[k] : age[q] \in Nat /\ sinceStart[k] + MinGap <= age[q]
    BY <1>1 DEF Spaced
<1>3. \A q \in pools'[k] \ pools[k] :
          /\ q.idle = 0 /\ later[q] = sinceStart[k]
          /\ q = [db |-> q.db, connections |-> using[k][q.db], idle |-> 0]
    BY <1>0, PoolsOfStep
<1>4. \A q \in pools'[k] \cap pools[k] : later[q] = age[q]
    BY <1>0
<1>5. later = [q \in pools'[k] |-> later[q]]
    BY <1>0
<1>6. ASSUME NEW q \in pools'[k]
      PROVE  /\ later[q] \in 0..IdleTimeout + MinGap
             /\ q.idle <= later[q] /\ later[q] < q.idle + MinGap
             /\ sinceStart'[k] <= later[q]
    <2>1. CASE q \in pools[k]
        BY <1>1, <1>2, <1>4, <2>1 DEF Spaced
    <2>2. CASE q \notin pools[k]
        BY <1>1, <1>3, <2>2
    <2> QED
        BY <2>1, <2>2
<1>7. ASSUME NEW p \in pools'[k], NEW q \in pools'[k], p # q, p.db = q.db
      PROVE  later[p] + MinGap <= later[q] \/ later[q] + MinGap <= later[p]
    <2>1. CASE p \in pools[k] /\ q \in pools[k]
        BY <1>4, <1>7, <2>1 DEF Spaced
    <2>2. CASE p \in pools[k] /\ q \notin pools[k]
        BY <1>1, <1>2, <1>3, <1>4, <2>2
    <2>3. CASE p \notin pools[k] /\ q \in pools[k]
        BY <1>1, <1>2, <1>3, <1>4, <2>3
    <2>4. CASE p \notin pools[k] /\ q \notin pools[k]
        BY <1>3, <1>7, <2>4
    <2> QED
        BY <2>1, <2>2, <2>3, <2>4
<1>8. later \in [pools'[k] -> 0..IdleTimeout + MinGap]
    BY <1>5, <1>6
<1>9. Spaced(k, later)'
    BY <1>1, <1>6, <1>7, <1>8 DEF Spaced
<1> QED
    BY <1>9

LEMMA SpacedStep == IInv /\ [Next]_vars => SpacedInv'
<1> SUFFICES ASSUME IInv, [Next]_vars, NEW k \in Containers
             PROVE  \E later : Spaced(k, later)'
    BY DEF SpacedInv
<1>1. PICK age : Spaced(k, age)
    BY DEF IInv, SpacedInv
<1>2. TypeOK /\ sinceStart[k] \in Nat /\ MinGap \in Nat
    BY ContainersAssumption DEF IInv, TypeOK, Ages
<1>3. ASSUME pools'[k] = pools[k], sinceStart'[k] = sinceStart[k],
             pc'[k] \in Asking => pc[k] \in Asking
      PROVE  Spaced(k, age)'
    BY <1>1, <1>3 DEF Spaced
<1>4. CASE UNCHANGED vars \/ \E c \in Containers : c # k /\ Step(c)
    <2>1. pools'[k] = pools[k] /\ sinceStart'[k] = sinceStart[k] /\ pc'[k] = pc[k]
        BY <1>2, <1>4, OthersKeep DEF vars, invocation
    <2> QED
        BY <1>3, <2>1
<1>5. CASE Tick
    BY <1>1, <1>5, SpacedTick
<1>6. CASE Step(k)
    <2>1. CASE Begins(k)
        <3>1. Spaced(k, age)'
            BY <1>1, <1>2, <2>1 DEF Begins, Spaced
        <3> QED
            BY <3>1
    <2>2. CASE Configures(k) \/ Connects(k) \/ GoesOn(k) \/ AsksForBookings(k) \/ Ends(k)
        <3>1. Spaced(k, age)'
            BY <1>3, <2>2 DEF Configures, Connects, GoesOn, AsksForBookings, Ends, Asking
        <3> QED
            BY <3>1
    <2>3. CASE Fails(k) \/ Answers(k)
        BY <1>1, <1>6, <2>3, SpacedLeft
    <2>4. CASE Leaves(k)
        <3> DEFINE none == [pool \in {} |-> 0]
        <3>1. CASE pools' = pools
            <4>1. Spaced(k, age)'
                BY <1>3, <2>4, <3>1 DEF Leaves, Asking
            <4> QED
                BY <4>1
        <3>2. CASE pools' # pools
            <4>1. pools'[k] = {}
                BY <1>2, <2>4, <3>2 DEF Leaves, TypeOK
            <4>2. Spaced(k, none)'
                BY <4>1 DEF Spaced
            <4> QED
                BY <4>2
        <3> QED
            BY <3>1, <3>2
    <2> QED
        BY <1>2, <1>6, <2>1, <2>2, <2>3, <2>4, OwnSteps
<1> QED
    BY <1>4, <1>5, <1>6, StepOrTime

----------------------------------------------------------------------------
(* Each failure leaves one pool to the replica behind at most.             *)

LEMMA FailedMembers ==
    \A x : x \in Failed <=> \E c \in OfPoller("journals") : \E pool \in pools[c] :
                               pool.db = "TARS" /\ x = <<c, pool>>
BY DEF Failed

LEMMA FailedTick ==
    ASSUME IInv, Tick
    PROVE  IsFiniteSet(Failed') /\ Cardinality(Failed') <= Cardinality(Failed)
<1> DEFINE prev(q) == [q EXCEPT !.idle = @ - 1]
           f == [x \in Failed' |-> <<x[1], prev(x[2])>>]
<1>1. ASSUME NEW x \in Failed'
      PROVE  /\ f[x] \in Failed /\ x = <<x[1], x[2]>> /\ f[x][1] = x[1]
             /\ x[2] = [f[x][2] EXCEPT !.idle = @ + 1]
    <2>0. PICK c \in OfPoller("journals") : \E q \in pools'[c] : q.db = "TARS" /\ x = <<c, q>>
        BY DEF Failed, OfPoller
    <2>1. PICK q \in pools'[c] : q.db = "TARS" /\ x = <<c, q>>
        BY <2>0
    <2>2. c \in Containers /\ pools[c] \subseteq Pool
        BY <2>0 DEF OfPoller, IInv, TypeOK
    <2>3. PICK p \in pools[c] : q = [p EXCEPT !.idle = @ + 1]
        BY <2>2 DEF Tick
    <2>4. p = [db |-> p.db, connections |-> p.connections, idle |-> p.idle] /\ p.idle \in Nat
        BY <2>2, ContainersAssumption DEF Pool
    <2>5. q = [db |-> p.db, connections |-> p.connections, idle |-> p.idle + 1]
        BY <2>3, <2>4
    <2>6. prev(q) = p /\ p.db = "TARS"
        BY <2>1, <2>4, <2>5
    <2>7. f[x] = <<c, p>>
        BY <2>1, <2>6
    <2>8. <<c, p>> \in Failed
        BY <2>0, <2>6, FailedMembers
    <2> HIDE DEF f, prev
    <2> QED
        BY <2>1, <2>3, <2>7, <2>8
<1>2. DOMAIN f = Failed'
    OBVIOUS
<1>3. f \in [Failed' -> Failed]
    BY <1>1
<1> HIDE DEF f
<1>4. ASSUME NEW x \in Failed', NEW y \in Failed', f[x] = f[y]
      PROVE  x = y
    <2>1. /\ x = <<x[1], x[2]>> /\ f[x][1] = x[1]
          /\ x[2] = [f[x][2] EXCEPT !.idle = @ + 1]
        BY <1>1
    <2>2. /\ y = <<y[1], y[2]>> /\ f[y][1] = y[1]
          /\ y[2] = [f[y][2] EXCEPT !.idle = @ + 1]
        BY <1>1
    <2>3. x[1] = y[1]
        BY <1>4, <2>1, <2>2
    <2>4. x[2] = y[2]
        BY <1>4, <2>1, <2>2
    <2> QED
        BY <2>1, <2>2, <2>3, <2>4
<1>5. f \in Injection(Failed', Failed)
    BY <1>3, <1>4 DEF Injection, IsInjective
<1> QED
    BY <1>5, FS_Injection DEF IInv, FailedInv

LEMMA FailedStep == IInv /\ [Next]_vars => FailedInv'
<1> SUFFICES ASSUME IInv, [Next]_vars
             PROVE  IsFiniteSet(Failed') /\ Cardinality(Failed') <= faults'
    BY DEF FailedInv
<1>1. /\ TypeOK /\ UsingInv /\ faults \in Nat
      /\ IsFiniteSet(Failed) /\ Cardinality(Failed) <= faults /\ Cardinality(Failed) \in Nat
    BY FS_CardinalityType, ContainersAssumption DEF IInv, FailedInv, TypeOK
<1>2. ASSUME Failed' \subseteq Failed, faults' \in Nat, faults <= faults'
      PROVE  IsFiniteSet(Failed') /\ Cardinality(Failed') <= faults'
    <2>1. IsFiniteSet(Failed') /\ Cardinality(Failed') <= Cardinality(Failed)
        BY <1>1, <1>2, FS_Subset
    <2>2. Cardinality(Failed') \in Nat
        BY <2>1, FS_CardinalityType
    <2> QED
        BY <1>1, <1>2, <2>1, <2>2
<1>3. faults' \in Nat
    BY TypeStep, ContainersAssumption DEF TypeOK
<1>4. CASE UNCHANGED vars
    BY <1>1, <1>2, <1>4 DEF vars, Failed
<1>5. CASE Tick
    <2>1. Cardinality(Failed') \in Nat /\ faults' = faults
        BY <1>5, FailedTick, FS_CardinalityType DEF Tick
    <2> QED
        BY <1>1, <1>5, <2>1, FailedTick
<1>6. ASSUME NEW c \in Containers, Step(c)
      PROVE  IsFiniteSet(Failed') /\ Cardinality(Failed') <= faults'
    <2> DEFINE left == [db |-> "TARS", connections |-> using[c]["TARS"], idle |-> 0]
    <2>1. ASSUME NEW x \in Failed', x \notin Failed
          PROVE  x = <<c, left>> /\ Fails(c) /\ pc[c] # "connect"
        <3>0. PICK k \in OfPoller("journals") : \E q \in pools'[k] : q.db = "TARS" /\ x = <<k, q>>
            BY DEF Failed, OfPoller
        <3>1. PICK q \in pools'[k] : q.db = "TARS" /\ x = <<k, q>>
            BY <3>0
        <3>2. k \in Containers /\ Poller[k] = "journals"
            BY DEF OfPoller
        <3>3. q \notin pools[k]
            BY <2>1, <3>1, FailedMembers
        <3>4. k = c
            BY <1>1, <1>6, <3>2, <3>3, OthersKeep
        <3>5. /\ (Fails(c) \/ Answers(c)) /\ q.connections = using[c]["TARS"] /\ q.connections # 0
              /\ q = left /\ ~Answers(c)
            BY <1>6, <3>1, <3>2, <3>3, <3>4, PoolsOfStep
        <3>6. pc[c] # "connect"
            BY <1>1, <3>5 DEF UsingInv, NoneUsed, Databases
        <3> QED
            BY <3>1, <3>4, <3>5, <3>6
    <2>2. CASE Failed' \subseteq Failed
        <3>1. faults <= faults'
            <4>1. faults' = faults \/ faults <= faults' \/ faults' = faults + 1
                BY <1>1, <1>6, OwnSteps
                DEF Begins, Configures, Connects, Fails, GoesOn, AsksForBookings, Answers, Ends,
                    Leaves
            <4> QED
                BY <1>1, <4>1
        <3> QED
            BY <1>2, <1>3, <2>2, <3>1
    <2>3. CASE ~(Failed' \subseteq Failed)
        <3>1. Fails(c) /\ pc[c] # "connect" /\ Failed' \subseteq Failed \cup {<<c, left>>}
            BY <2>1, <2>3
        <3>2. faults' = faults + 1
            BY <3>1 DEF Fails
        <3> HIDE DEF left
        <3>3. /\ IsFiniteSet(Failed \cup {<<c, left>>})
              /\ Cardinality(Failed \cup {<<c, left>>}) <= Cardinality(Failed) + 1
              /\ Cardinality(Failed \cup {<<c, left>>}) \in Nat
            <4>1. /\ IsFiniteSet(Failed \cup {<<c, left>>})
                  /\ Cardinality(Failed \cup {<<c, left>>}) =
                         IF <<c, left>> \in Failed THEN Cardinality(Failed) ELSE Cardinality(Failed) + 1
                BY <1>1, FS_AddElement
            <4> QED
                BY <1>1, <4>1
        <3>4. /\ IsFiniteSet(Failed')
              /\ Cardinality(Failed') <= Cardinality(Failed \cup {<<c, left>>})
            BY <3>1, <3>3, FS_Subset
        <3>5. Cardinality(Failed') \in Nat
            BY <3>4, FS_CardinalityType
        <3> QED
            BY <1>1, <3>2, <3>3, <3>4, <3>5
    <2> QED
        BY <2>2, <2>3
<1> QED
    BY <1>4, <1>5, <1>6, StepOrTime

----------------------------------------------------------------------------
(* The tokens.                                                             *)

Config == [TARS : Nat, DSP : Nat \cup {Unset}]

\* A configuration is none, or has ages.
LEMMA ConfigType ==
    ASSUME TypeOK, NEW c \in Containers
    PROVE  /\ configuration[c] # Unset => configuration[c] \in Config
           /\ \A config \in Config : config # Unset
           /\ sinceStart[c] \in Nat /\ MinGap \in Nat \ {0} /\ TokenLife \in Nat \ {0}
           /\ hurt \in [Containers -> SUBSET {"bootstrap", "query", "table"}]
BY ContainersAssumption DEF TypeOK, Config, Ages

LEMMA ConfigTick ==
    ASSUME TypeOK, Tick, NEW c \in Containers
    PROVE  /\ configuration[c] = Unset => configuration'[c] = Unset
           /\ configuration[c] # Unset =>
                  configuration'[c] = [TARS |-> Older(configuration[c].TARS, TokenLife),
                                       DSP |-> Older(configuration[c].DSP, TokenLife)]
           /\ sinceStart'[c] = Older(sinceStart[c], MinGap)
           /\ pc[c] # "idle" => sinceStart[c] < MinGap - 1
<1>1. configuration[c] # Unset =>
          configuration'[c] = [db \in {"TARS", "DSP"} |-> Older(configuration[c][db], TokenLife)]
    BY DEF Tick, Databases
<1> QED
    BY <1>1 DEF Tick

\* After bootstrapConfig an invocation leaves its configuration alone.
LEMMA LaterSteps ==
    ASSUME TypeOK, NEW c \in Containers, Step(c), pc[c] \notin {"idle", "token", "desToken"}
    PROVE  /\ configuration' = configuration /\ sinceStart' = sinceStart
           /\ hurt[c] \subseteq hurt'[c] /\ pc'[c] \notin {"token", "desToken"}
<1>1. \A where : Fault(c, where) => hurt[c] \subseteq hurt'[c]
    BY ConfigType DEF Fault
<1>2. NoFault => hurt[c] \subseteq hurt'[c]
    BY DEF NoFault
<1>3. DOMAIN pc = Containers
    BY DEF TypeOK
<1>4. Respond(c) => pc'[c] = "idle"
    BY <1>3 DEF Respond
<1>5. QueryFailed(c) => /\ configuration' = configuration /\ sinceStart' = sinceStart
                        /\ pc'[c] \in {"idle", "reconcile"}
    BY <1>3, <1>4 DEF QueryFailed
<1>6. CASE Connect(c) \/ BookingsConnect(c) \/ BookingsAnswered(c) \/ QueryAnswered(c)
           \/ DatasetsAnswered(c)
    BY <1>2, <1>3, <1>6
    DEF Connect, BookingsConnect, BookingsAnswered, QueryAnswered, DatasetsAnswered
<1>7. CASE CannotConnect(c) \/ QueryFails(c)
    BY <1>1, <1>2, <1>5, <1>7 DEF CannotConnect, QueryFails
<1>8. CASE BookingsFail(c)
    BY <1>1, <1>2, <1>3, <1>8 DEF BookingsFail
<1>9. CASE Reconcile(c) \/ ReconcileFails(c)
    BY <1>1, <1>2, <1>4, <1>9 DEF Reconcile, ReconcileFails
<1> QED
    BY <1>6, <1>7, <1>8, <1>9
    DEF Step, Proceed, Start, TokenFetched, DesTokenFetched, BootstrapFails, Recycle

LEMMA TokensStep == IInv /\ [Next]_vars => TokensInv'
<1> SUFFICES ASSUME IInv, [Next]_vars, NEW k \in Containers
             PROVE  /\ pc'[k] # "idle" => sinceStart'[k] < MinGap
                    /\ pc'[k] = "desToken" => /\ configuration'[k] # Unset
                                              /\ configuration'[k].TARS <= sinceStart'[k]
                    /\ (pc'[k] \notin {"idle", "token", "desToken"} /\ "bootstrap" \notin hurt'[k]) =>
                           /\ configuration'[k] # Unset
                           /\ configuration'[k].TARS <= sinceStart'[k]
                           /\ Poller[k] = "journals" =>
                                  /\ configuration'[k].DSP # Unset
                                  /\ configuration'[k].DSP <= sinceStart'[k]
    BY DEF TokensInv
<1>1. /\ TypeOK
      /\ pc[k] # "idle" => sinceStart[k] < MinGap
      /\ pc[k] = "desToken" => configuration[k] # Unset /\ configuration[k].TARS <= sinceStart[k]
      /\ (pc[k] \notin {"idle", "token", "desToken"} /\ "bootstrap" \notin hurt[k]) =>
             /\ configuration[k] # Unset /\ configuration[k].TARS <= sinceStart[k]
             /\ Poller[k] = "journals" =>
                    configuration[k].DSP # Unset /\ configuration[k].DSP <= sinceStart[k]
    BY DEF IInv, TokensInv
<1>2. /\ configuration[k] # Unset => configuration[k] \in Config
      /\ \A config \in Config : config # Unset
      /\ sinceStart[k] \in Nat /\ MinGap \in Nat \ {0} /\ TokenLife \in Nat \ {0}
      /\ Unset \notin Nat
      /\ DOMAIN pc = Containers /\ DOMAIN configuration = Containers
      /\ DOMAIN sinceStart = Containers /\ DOMAIN hurt = Containers
    BY <1>1, ConfigType, ContainersAssumption DEF TypeOK
<1>3. CASE UNCHANGED vars \/ \E c \in Containers : c # k /\ Step(c)
    <2>1. /\ pc'[k] = pc[k] /\ sinceStart'[k] = sinceStart[k] /\ hurt'[k] = hurt[k]
          /\ configuration'[k] = configuration[k]
        BY <1>1, <1>3, OthersKeep DEF vars, invocation
    <2> QED
        BY <1>1, <2>1
<1>4. CASE Tick
    <2>1. /\ pc'[k] = pc[k] /\ hurt'[k] = hurt[k]
          /\ pc[k] # "idle" => /\ sinceStart[k] < MinGap - 1
                               /\ sinceStart'[k] = sinceStart[k] + 1
        BY <1>1, <1>2, <1>4, ConfigTick DEF Tick, invocation, Older
    <2>2. ASSUME configuration[k] # Unset
          PROVE  /\ configuration'[k] \in Config
                 /\ configuration'[k].TARS <= configuration[k].TARS + 1
                 /\ configuration[k].DSP # Unset =>
                        /\ configuration'[k].DSP # Unset
                        /\ configuration'[k].DSP <= configuration[k].DSP + 1
        <3>1. /\ configuration[k].TARS \in Nat
              /\ configuration[k].DSP \in Nat \cup {Unset}
            BY <1>2, <2>2 DEF Config
        <3>2. configuration'[k] = [TARS |-> Older(configuration[k].TARS, TokenLife),
                                   DSP |-> Older(configuration[k].DSP, TokenLife)]
            BY <1>1, <1>4, <2>2, ConfigTick
        <3>3. \A n \in Nat : Older(n, TokenLife) \in Nat /\ Older(n, TokenLife) <= n + 1
            BY <1>2 DEF Older
        <3>4. Older(Unset, TokenLife) = Unset
            BY DEF Older
        <3> QED
            BY <1>2, <3>1, <3>2, <3>3, <3>4 DEF Config
    <2>3. ASSUME configuration[k] # Unset
          PROVE  /\ configuration[k].TARS \in Nat /\ configuration[k].DSP \in Nat \cup {Unset}
                 /\ configuration'[k].TARS \in Nat /\ configuration'[k].DSP \in Nat \cup {Unset}
                 /\ configuration'[k] # Unset
        BY <1>2, <2>2, <2>3 DEF Config
    <2> QED
        BY <1>1, <1>2, <2>1, <2>2, <2>3
<1>5. CASE Step(k)
    <2>1. CASE pc[k] \notin {"idle", "token", "desToken"}
        BY <1>1, <1>5, <2>1, LaterSteps
    <2>2. CASE Start(k) \/ Recycle(k)
        BY <1>1, <1>2, <2>2 DEF Start, Recycle, invocation
    <2>3. CASE TokenFetched(k)
        <3>1. /\ configuration'[k] = [TARS |-> 0, DSP |-> Unset] /\ sinceStart' = sinceStart
              /\ pc'[k] = IF Poller[k] = "journals" THEN "desToken" ELSE "connect"
              /\ pc[k] = "token"
            BY <1>2, <2>3 DEF TokenFetched, Bootstrapped
        <3>2. configuration'[k] # Unset /\ configuration'[k].TARS = 0
            BY <1>2, <3>1 DEF Config
        <3> QED
            BY <1>1, <1>2, <3>1, <3>2
    <2>4. CASE DesTokenFetched(k)
        <3>1. /\ configuration'[k] = [configuration[k] EXCEPT !.DSP = 0] /\ sinceStart' = sinceStart
              /\ pc[k] = "desToken" /\ pc'[k] = "connect"
            BY <1>2, <2>4 DEF DesTokenFetched
        <3>2. /\ configuration'[k] \in Config /\ configuration'[k].DSP = 0
              /\ configuration'[k].TARS = configuration[k].TARS
            BY <1>1, <1>2, <3>1 DEF Config
        <3> QED
            BY <1>1, <1>2, <3>1, <3>2
    <2>5. CASE BootstrapFails(k)
        <3>1. /\ "bootstrap" \in hurt'[k] /\ sinceStart' = sinceStart /\ pc'[k] = "connect"
              /\ pc[k] # "idle"
            BY <1>2, <2>5 DEF BootstrapFails, Fault
        <3> QED
            BY <1>1, <3>1
    <2> QED
        BY <1>5, <2>1, <2>2, <2>3, <2>4, <2>5
        DEF Step, Proceed, Connect, CannotConnect, QueryAnswered, BookingsConnect,
            BookingsAnswered, BookingsFail, DatasetsAnswered, Reconcile, ReconcileFails, QueryFails
<1> QED
    BY <1>3, <1>4, <1>5, StepOrTime

----------------------------------------------------------------------------
(* The connections left behind, one to a slot of MinGap ticks.             *)

LeftBy(C, db) ==
    UNION {UNION {{<<c, pool, n>> : n \in 1..pool.connections} :
                      pool \in {pool \in pools[c] : pool.db = db}} : c \in C}

Slot(c, pool) == (CHOOSE age : Spaced(c, age))[pool] \div MinGap

LEMMA ReservedMembers ==
    ASSUME NEW C, NEW db
    PROVE  \A x : x \in Reserved(C, db) <=>
                      \E c \in C : \E n \in 1..ToUse(c, db) : pc[c] \in Asking /\ x = <<c, n>>
BY DEF Reserved

LEMMA LeftMembers ==
    ASSUME NEW C, NEW db
    PROVE  \A x : x \in LeftBy(C, db) <=>
                      \E c \in C : \E pool \in pools[c] : \E n \in 1..pool.connections :
                          pool.db = db /\ x = <<c, pool, n>>
BY DEF LeftBy

LEMMA DivBounds ==
    ASSUME NEW n \in Nat, NEW d \in Nat \ {0}
    PROVE  n \div d \in Nat /\ d * (n \div d) <= n /\ n < d * (n \div d) + d
<1> DEFINE q == n \div d
<1>1. q \in Int /\ d * q <= n /\ n < d * q + d
    OBVIOUS
<1>2. q \in Nat
    BY <1>1
<1> QED
    BY <1>1, <1>2

LEMMA FactorOut ==
    ASSUME NEW d \in Nat \ {0}, NEW m \in Nat, NEW n \in Nat, d * m < d * n + d
    PROVE  m <= n
<1>1. SUFFICES ASSUME m >= n + 1 PROVE FALSE
    OBVIOUS
<1>2. PICK k \in Nat : m = n + 1 + k
    <2>1. m - n - 1 \in Nat /\ m = n + 1 + (m - n - 1)
        BY <1>1
    <2> QED
        BY <2>1
<1>3. d * m = d * n + d + d * k
    BY <1>2, SMTT(30)
<1>4. d * k \in Nat /\ d * m \in Nat /\ d * n \in Nat
    BY SMTT(30)
<1> QED
    BY <1>3, <1>4

LEMMA OverlappingBound ==
    Overlapping \in Nat /\ IdleTimeout <= MinGap * Overlapping
<1>1. IdleTimeout + MinGap - 1 \in Nat /\ MinGap \in Nat \ {0} /\ IdleTimeout \in Nat
    BY ContainersAssumption
<1>2. MinGap * Overlapping \in Int
    BY <1>1, DivBounds DEF Overlapping
<1> QED
    BY <1>1, <1>2, DivBounds DEF Overlapping

\* The pools to one database that a container left behind have slots of their own,
\* and none has the slot of the invocation that is still to leave one.
LEMMA SlotsApart ==
    ASSUME IInv, NEW c \in Containers
    PROVE  /\ \A pool \in pools[c] : /\ Slot(c, pool) \in 0..Overlapping
                                     /\ pc[c] \in Asking => Slot(c, pool) # 0
           /\ \A p, q \in pools[c] : (p # q /\ p.db = q.db) => Slot(c, p) # Slot(c, q)
<1> DEFINE age == CHOOSE age : Spaced(c, age)
<1>1. Spaced(c, age)
    BY DEF IInv, SpacedInv
<1>2. /\ pools[c] \subseteq Pool /\ sinceStart[c] \in Nat
      /\ MinGap \in Nat \ {0} /\ IdleTimeout \in Nat \ {0}
    BY ContainersAssumption DEF IInv, TypeOK, Ages
<1>3. \A pool \in pools[c] : Slot(c, pool) = age[pool] \div MinGap
    BY DEF Slot
<1> HIDE DEF age
<1>4. ASSUME NEW pool \in pools[c]
      PROVE  /\ age[pool] \in Nat /\ Slot(c, pool) \in Nat
             /\ MinGap * Slot(c, pool) \in Nat
             /\ MinGap * Slot(c, pool) <= age[pool]
             /\ age[pool] < MinGap * Slot(c, pool) + MinGap
    <2>1. age[pool] \in Nat
        BY <1>1, <1>2 DEF Spaced
    <2>2. /\ Slot(c, pool) \in Nat /\ MinGap * Slot(c, pool) <= age[pool]
          /\ age[pool] < MinGap * Slot(c, pool) + MinGap
        BY <1>2, <1>3, <2>1, DivBounds
    <2>3. MinGap * Slot(c, pool) \in Nat
        BY <1>2, <2>2, SMTT(30)
    <2> QED
        BY <2>1, <2>2, <2>3
<1>5. ASSUME NEW pool \in pools[c]
      PROVE  Slot(c, pool) \in 0..Overlapping /\ (pc[c] \in Asking => Slot(c, pool) # 0)
    <2>1. age[pool] < pool.idle + MinGap /\ pool.idle \in Nat /\ pool.idle + 1 <= IdleTimeout
        BY <1>1, <1>2 DEF Spaced, Pool
    <2>2. MinGap * Overlapping \in Nat /\ IdleTimeout <= MinGap * Overlapping /\ Overlapping \in Nat
        BY <1>2, OverlappingBound, SMTT(30)
    <2>3. MinGap * Slot(c, pool) < MinGap * Overlapping + MinGap
        BY <1>2, <1>4, <2>1, <2>2
    <2>4. Slot(c, pool) <= Overlapping
        BY <1>2, <1>4, <2>2, <2>3, FactorOut
    <2>5. pc[c] \in Asking => MinGap <= age[pool]
        BY <1>1, <1>2, <1>4 DEF Spaced
    <2>6. Slot(c, pool) = 0 => MinGap * Slot(c, pool) = 0
        BY <1>2
    <2>7. pc[c] \in Asking => Slot(c, pool) # 0
        BY <1>2, <1>4, <2>5, <2>6
    <2> QED
        BY <1>4, <2>2, <2>4, <2>7
<1>6. ASSUME NEW p \in pools[c], NEW q \in pools[c], p # q, p.db = q.db
      PROVE  Slot(c, p) # Slot(c, q)
    <2>1. age[p] + MinGap <= age[q] \/ age[q] + MinGap <= age[p]
        BY <1>1, <1>6 DEF Spaced
    <2> QED
        BY <1>2, <1>4, <2>1
<1> QED
    BY <1>5, <1>6

\* Containers that leave one connection to a database behind each time.
LEMMA OneToASlot ==
    ASSUME IInv, NEW db \in Databases, NEW C \in SUBSET Containers,
           \A c \in C : /\ ToUse(c, db) = 1
                        /\ \A pool \in pools[c] : pool.db = db => pool.connections = 1
    PROVE  /\ IsFiniteSet(Reserved(C, db)) /\ IsFiniteSet(LeftBy(C, db))
           /\ Cardinality(Reserved(C, db)) + Cardinality(LeftBy(C, db))
                  <= Cardinality(C) * (Overlapping + 1)
<1> DEFINE All == C \X (0..Overlapping)
           First == {x \in All : x[2] = 0 /\ pc[x[1]] \in Asking}
           Later == {x \in All : ~(x[2] = 0 /\ pc[x[1]] \in Asking)}
           f == [x \in Reserved(C, db) |-> <<x[1], 0>>]
           g == [x \in LeftBy(C, db) |-> <<x[1], Slot(x[1], x[2])>>]
<1>1. IsFiniteSet(All) /\ Cardinality(All) = Cardinality(C) * (Overlapping + 1)
    <2>1. IsFiniteSet(C)
        BY FS_Subset, ContainersAssumption
    <2>2. IsFiniteSet(0..Overlapping) /\ Cardinality(0..Overlapping) = Overlapping + 1
        BY OverlappingBound, FS_Interval
    <2> QED
        BY <2>1, <2>2, FS_Product
<1>2. f \in Injection(Reserved(C, db), First)
    <2>1. ASSUME NEW x \in Reserved(C, db)
          PROVE  f[x] \in First /\ x = <<f[x][1], 1>>
        <3>1. PICK c \in C : pc[c] \in Asking /\ x = <<c, 1>>
            BY ReservedMembers
        <3>2. f[x] = <<c, 0>> /\ 0 \in 0..Overlapping
            BY <3>1, OverlappingBound
        <3> HIDE DEF f
        <3> QED
            BY <3>1, <3>2
    <2>2. f \in [Reserved(C, db) -> First]
        BY <2>1
    <2> HIDE DEF f
    <2>3. \A x, y \in Reserved(C, db) : f[x] = f[y] => x = y
        BY <2>1
    <2> QED
        BY <2>2, <2>3 DEF Injection, IsInjective
<1>3. g \in Injection(LeftBy(C, db), Later)
    <2>1. ASSUME NEW x \in LeftBy(C, db)
          PROVE  /\ x = <<x[1], x[2], 1>> /\ x[1] \in C /\ x[2] \in pools[x[1]] /\ x[2].db = db
                 /\ g[x] = <<x[1], Slot(x[1], x[2])>> /\ g[x] \in Later
        <3>1. PICK c \in C : \E pool \in pools[c] : \E n \in 1..pool.connections :
                                 pool.db = db /\ x = <<c, pool, n>>
            BY LeftMembers
        <3>2. PICK pool \in pools[c] : \E n \in 1..pool.connections :
                                           pool.db = db /\ x = <<c, pool, n>>
            BY <3>1
        <3>3. pool.connections = 1
            BY <3>2
        <3>4. x = <<c, pool, 1>> /\ pool.db = db
            BY <3>2, <3>3
        <3>5. Slot(c, pool) \in 0..Overlapping /\ (pc[c] \in Asking => Slot(c, pool) # 0)
            BY SlotsApart
        <3>6. g[x] = <<c, Slot(c, pool)>>
            BY <3>4
        <3> HIDE DEF g
        <3> QED
            BY <3>4, <3>5, <3>6
    <2>2. g \in [LeftBy(C, db) -> Later]
        BY <2>1
    <2> HIDE DEF g
    <2>3. ASSUME NEW x \in LeftBy(C, db), NEW y \in LeftBy(C, db), g[x] = g[y]
          PROVE  x = y
        <3>1. x[1] = y[1] /\ Slot(x[1], x[2]) = Slot(x[1], y[2])
            BY <2>1, <2>3
        <3>2. x[2] = y[2]
            BY <2>1, <3>1, SlotsApart
        <3> QED
            BY <2>1, <3>1, <3>2
    <2> QED
        BY <2>2, <2>3 DEF Injection, IsInjective
<1> HIDE DEF f, g
<1>4. /\ IsFiniteSet(First) /\ IsFiniteSet(Later)
      /\ Cardinality(First) + Cardinality(Later) = Cardinality(All)
    <2>1. IsFiniteSet(First) /\ IsFiniteSet(Later)
        BY <1>1, FS_Subset
    <2>2. First \cup Later = All /\ First \cap Later = {}
        OBVIOUS
    <2> HIDE DEF First, Later, All
    <2>3. Cardinality(All) = Cardinality(First) + Cardinality(Later) - 0
        BY <2>1, <2>2, FS_Union, FS_EmptySet
    <2> QED
        BY <2>1, <2>3, FS_CardinalityType
<1>5. /\ IsFiniteSet(Reserved(C, db)) /\ IsFiniteSet(LeftBy(C, db))
      /\ Cardinality(Reserved(C, db)) <= Cardinality(First)
      /\ Cardinality(LeftBy(C, db)) <= Cardinality(Later)
    <2> HIDE DEF First, Later, All
    <2> QED
        BY <1>2, <1>3, <1>4, FS_Injection
<1> HIDE DEF First, Later, All
<1> QED
    BY <1>1, <1>4, <1>5, FS_CardinalityType

----------------------------------------------------------------------------
(* What the databases are asked for.                                       *)

LEMMA ProductGrows ==
    ASSUME NEW m \in Nat, NEW n \in Nat, NEW d \in Nat, m <= n
    PROVE  m * d <= n * d /\ n * d \in Nat
<1>1. PICK k \in Nat : n = m + k
    <2>1. n - m \in Nat /\ n = m + (n - m)
        OBVIOUS
    <2> QED
        BY <2>1
<1>2. (m + k) * d = m * d + k * d /\ m * d \in Nat /\ k * d \in Nat
    BY SMTT(30)
<1> QED
    BY <1>1, <1>2

\* The pools to the replica of journals pollers, by the failures that left them.
LEMMA LeftByFailures ==
    ASSUME IInv
    PROVE  /\ IsFiniteSet(LeftBy(OfPoller("journals"), "TARS"))
           /\ Cardinality(LeftBy(OfPoller("journals"), "TARS")) <= faults * PoolSize
<1> DEFINE Left == LeftBy(OfPoller("journals"), "TARS")
           All == Failed \X (1..PoolSize)
           f == [x \in Left |-> << <<x[1], x[2]>>, x[3] >>]
<1>1. /\ IsFiniteSet(Failed) /\ Cardinality(Failed) <= faults /\ faults \in Nat
      /\ PoolSize \in Nat /\ Cardinality(Failed) \in Nat
    BY FS_CardinalityType, ContainersAssumption DEF IInv, FailedInv, TypeOK
<1>2. IsFiniteSet(All) /\ Cardinality(All) = Cardinality(Failed) * PoolSize
    <2>0. PoolSize \in Nat
        BY <1>1
    <2>1. IsFiniteSet(1..PoolSize) /\ Cardinality(1..PoolSize) = PoolSize
        BY <2>0, FS_Interval
    <2>2. IsFiniteSet(All) /\ Cardinality(All) = Cardinality(Failed) * Cardinality(1..PoolSize)
        BY <1>1, <2>1, FS_Product
    <2> QED
        BY <2>1, <2>2
<1>3. f \in Injection(Left, All)
    <2>1. ASSUME NEW x \in Left
          PROVE  f[x] = << <<x[1], x[2]>>, x[3] >> /\ f[x] \in All /\ x = <<x[1], x[2], x[3]>>
        <3>1. PICK c \in OfPoller("journals") :
                  \E pool \in pools[c] : \E n \in 1..pool.connections :
                      pool.db = "TARS" /\ x = <<c, pool, n>>
            BY LeftMembers
        <3>2. PICK pool \in pools[c] : \E n \in 1..pool.connections :
                                           pool.db = "TARS" /\ x = <<c, pool, n>>
            BY <3>1
        <3>3. PICK n \in 1..pool.connections : pool.db = "TARS" /\ x = <<c, pool, n>>
            BY <3>2
        <3>4. pool \in Pool
            BY DEF OfPoller, IInv, TypeOK
        <3>5. n \in 1..PoolSize
            BY <1>1, <3>4 DEF Pool
        <3>6. <<c, pool>> \in Failed
            BY <3>3, FailedMembers
        <3> QED
            BY <3>3, <3>5, <3>6
    <2>2. f \in [Left -> All]
        BY <2>1
    <2> HIDE DEF f, Left, All
    <2>3. ASSUME NEW x \in Left, NEW y \in Left, f[x] = f[y]
          PROVE  x = y
        <3>1. x[1] = y[1] /\ x[2] = y[2] /\ x[3] = y[3]
            BY <2>1, <2>3
        <3> QED
            BY <2>1, <3>1
    <2> QED
        BY <2>2, <2>3 DEF Injection, IsInjective
<1>4. IsFiniteSet(Left) /\ Cardinality(Left) <= Cardinality(All)
    <2> HIDE DEF f, Left, All
    <2> QED
        BY <1>2, <1>3, FS_Injection
<1>5. Cardinality(Failed) * PoolSize <= faults * PoolSize
    BY <1>1, ProductGrows
<1>6. Cardinality(Left) \in Nat /\ Cardinality(All) \in Nat
    BY <1>2, <1>4, FS_CardinalityType
<1>7. faults * PoolSize \in Nat
    BY <1>1, SMTT(30)
<1> HIDE DEF Left, All
<1> QED
    BY <1>2, <1>4, <1>5, <1>6, <1>7 DEF Left

LEMMA DemandOfDSP ==
    ASSUME IInv
    PROVE  /\ IsFiniteSet(Reserved(Containers, "DSP")) /\ IsFiniteSet(LeftBehind("DSP"))
           /\ Cardinality(Reserved(Containers, "DSP")) + Cardinality(LeftBehind("DSP"))
                  <= Demand("DSP") + faults * PoolSize
<1> DEFINE J == OfPoller("journals")
<1>1. J \subseteq Containers /\ "DSP" \in Databases
    BY DEF OfPoller, Databases
<1>2. \A c \in J : /\ ToUse(c, "DSP") = 1
                   /\ \A pool \in pools[c] : pool.db = "DSP" => pool.connections = 1
    BY NeedsType DEF OfPoller, IInv, PoolsInv
<1>3. /\ IsFiniteSet(Reserved(J, "DSP")) /\ IsFiniteSet(LeftBy(J, "DSP"))
      /\ Cardinality(Reserved(J, "DSP")) + Cardinality(LeftBy(J, "DSP"))
             <= Cardinality(J) * (Overlapping + 1)
    <2> HIDE DEF J
    <2> QED
        BY <1>1, <1>2, OneToASlot
<1>4. Reserved(Containers, "DSP") = Reserved(J, "DSP")
    <2>1. \A c \in Containers \ J : ToUse(c, "DSP") = 0
        BY NeedsType DEF OfPoller
    <2>2. \A c \in Containers : \A n \in 1..ToUse(c, "DSP") : c \in J
        BY <2>1
    <2> HIDE DEF J
    <2>3. \A x : x \in Reserved(Containers, "DSP") <=> x \in Reserved(J, "DSP")
        BY <1>1, <2>2, ReservedMembers
    <2> QED
        BY <2>3
<1>5. LeftBehind("DSP") = LeftBy(J, "DSP")
    <2>1. LeftBehind("DSP") = LeftBy(Containers, "DSP")
        BY DEF LeftBehind, LeftBy
    <2>2. \A c \in Containers : \A pool \in pools[c] : pool.db = "DSP" => c \in J
        BY DEF OfPoller, IInv, PoolsInv
    <2> HIDE DEF J
    <2>3. \A x : x \in LeftBy(Containers, "DSP") <=> x \in LeftBy(J, "DSP")
        BY <1>1, <2>2, LeftMembers
    <2> QED
        BY <2>1, <2>3
<1>6. Demand("DSP") = Cardinality(J) * (Overlapping + 1)
    BY DEF Demand
<1>7. Cardinality(J) * (Overlapping + 1) \in Nat /\ faults * PoolSize \in Nat
    <2>1. Cardinality(J) \in Nat
        BY <1>1, FS_Subset, FS_CardinalityType, ContainersAssumption
    <2>2. faults \in Nat /\ PoolSize \in Nat
        BY ContainersAssumption DEF IInv, TypeOK
    <2> HIDE DEF J
    <2> QED
        BY <2>1, <2>2, OverlappingBound, SMTT(30)
<1>8. Cardinality(Reserved(J, "DSP")) \in Nat /\ Cardinality(LeftBy(J, "DSP")) \in Nat
    BY <1>3, FS_CardinalityType
<1> HIDE DEF J
<1> QED
    BY <1>3, <1>4, <1>5, <1>6, <1>7, <1>8

LEMMA UnionBound ==
    ASSUME NEW A, IsFiniteSet(A), NEW B, IsFiniteSet(B)
    PROVE  /\ IsFiniteSet(A \cup B) /\ Cardinality(A \cup B) \in Nat
           /\ Cardinality(A) \in Nat /\ Cardinality(B) \in Nat
           /\ Cardinality(A \cup B) <= Cardinality(A) + Cardinality(B)
           /\ A \cap B = {} => Cardinality(A \cup B) = Cardinality(A) + Cardinality(B)
<1>1. /\ IsFiniteSet(A \cup B)
      /\ Cardinality(A \cup B) = Cardinality(A) + Cardinality(B) - Cardinality(A \cap B)
    BY FS_Union
<1>2. IsFiniteSet(A \cap B)
    BY FS_Intersection
<1>3. /\ Cardinality(A \cup B) \in Nat /\ Cardinality(A) \in Nat /\ Cardinality(B) \in Nat
      /\ Cardinality(A \cap B) \in Nat
    BY <1>1, <1>2, FS_CardinalityType
<1>4. A \cap B = {} => Cardinality(A \cap B) = 0
    BY FS_EmptySet
<1> QED
    BY <1>1, <1>3, <1>4

\* The connections to the replica of invocations on their way.
LEMMA ReservedAtReplica ==
    ASSUME IInv, NEW C \in SUBSET Containers, NEW k \in Nat,
           \A c \in C : ToUse(c, "TARS") <= k
    PROVE  /\ IsFiniteSet(Reserved(C, "TARS"))
           /\ Cardinality(Reserved(C, "TARS")) <= Cardinality(C) * k
           /\ Cardinality(C) \in Nat
<1>1. Reserved(C, "TARS") \subseteq C \X (1..k)
    <2> SUFFICES ASSUME NEW x \in Reserved(C, "TARS")
                 PROVE  x \in C \X (1..k)
        OBVIOUS
    <2>1. PICK c \in C : \E n \in 1..ToUse(c, "TARS") : x = <<c, n>>
        BY ReservedMembers
    <2>2. PICK n \in 1..ToUse(c, "TARS") : x = <<c, n>>
        BY <2>1
    <2>3. n \in 1..k
        BY NeedsType, ContainersAssumption DEF Databases
    <2> QED
        BY <2>2, <2>3
<1>2. IsFiniteSet(1..k) /\ Cardinality(1..k) = k
    BY FS_Interval
<1>3. IsFiniteSet(C)
    BY FS_Subset, ContainersAssumption
<1>4. IsFiniteSet(C \X (1..k)) /\ Cardinality(C \X (1..k)) = Cardinality(C) * k
    BY <1>2, <1>3, FS_Product
<1> QED
    BY <1>1, <1>3, <1>4, FS_Subset, FS_CardinalityType

LEMMA DemandOfReplica ==
    ASSUME IInv
    PROVE  /\ IsFiniteSet(Reserved(Containers, "TARS")) /\ IsFiniteSet(LeftBehind("TARS"))
           /\ Cardinality(Reserved(Containers, "TARS")) + Cardinality(LeftBehind("TARS"))
                  <= Demand("TARS") + faults * PoolSize
<1> DEFINE J == OfPoller("journals")
           T == OfPoller("testCentre")
           U == OfPoller("users") \cup OfPoller("delegated")
           R(C) == Reserved(C, "TARS")
           L(C) == LeftBy(C, "TARS")
<1>1. /\ J \subseteq Containers /\ T \subseteq Containers /\ U \subseteq Containers
      /\ Containers = T \cup (J \cup U) /\ "TARS" \in Databases
    BY ContainersAssumption DEF OfPoller, Pollers, Databases
<1>2. /\ IsFiniteSet(R(T)) /\ IsFiniteSet(L(T))
      /\ Cardinality(R(T)) + Cardinality(L(T)) <= Cardinality(T) * (Overlapping + 1)
    <2>1. \A c \in T : /\ ToUse(c, "TARS") = 1
                       /\ \A pool \in pools[c] : pool.db = "TARS" => pool.connections = 1
        BY DEF OfPoller, IInv, PoolsInv, ToUse, Needs
    <2> HIDE DEF T
    <2> QED
        BY <1>1, <2>1, OneToASlot
<1>3. /\ IsFiniteSet(R(J)) /\ Cardinality(R(J)) <= Cardinality(J) * PoolSize
      /\ Cardinality(J) \in Nat
    <2>1. \A c \in J : ToUse(c, "TARS") <= PoolSize
        BY NeedsType, ContainersAssumption DEF OfPoller
    <2> HIDE DEF J
    <2> QED
        BY <1>1, <2>1, ReservedAtReplica, ContainersAssumption
<1>4. /\ IsFiniteSet(R(U)) /\ Cardinality(R(U)) <= Cardinality(U)
    <2>1. \A c \in U : ToUse(c, "TARS") <= 1
        BY DEF OfPoller, ToUse, Needs
    <2> HIDE DEF U
    <2>2. /\ IsFiniteSet(R(U)) /\ Cardinality(R(U)) <= Cardinality(U) * 1 /\ Cardinality(U) \in Nat
        BY <1>1, <2>1, ReservedAtReplica
    <2> QED
        BY <2>2
<1>5. IsFiniteSet(L(J)) /\ Cardinality(L(J)) <= faults * PoolSize
    BY LeftByFailures
<1>6. Reserved(Containers, "TARS") = R(T) \cup (R(J) \cup R(U))
    <2> HIDE DEF J, T, U
    <2>1. \A x : x \in Reserved(Containers, "TARS") <=> x \in R(T) \cup (R(J) \cup R(U))
        BY <1>1, ReservedMembers
    <2> QED
        BY <2>1
<1>7. LeftBehind("TARS") = L(T) \cup L(J)
    <2>1. LeftBehind("TARS") = L(Containers)
        BY DEF LeftBehind, LeftBy
    <2>2. \A c \in Containers : pools[c] # {} => c \in T \cup J
        BY DEF OfPoller, IInv, PoolsInv
    <2> HIDE DEF J, T, U
    <2>3. \A x : x \in L(Containers) <=> x \in L(T) \cup L(J)
        BY <1>1, <2>2, LeftMembers
    <2> QED
        BY <2>1, <2>3
<1>8. Demand("TARS") = Cardinality(T) * (Overlapping + 1) + Cardinality(J) * PoolSize
                           + Cardinality(U)
    BY DEF Demand
<1>9. /\ Cardinality(T) * (Overlapping + 1) \in Nat /\ Cardinality(J) * PoolSize \in Nat
      /\ faults * PoolSize \in Nat /\ Cardinality(U) \in Nat
    <2>1. Cardinality(T) \in Nat /\ Cardinality(U) \in Nat
        BY <1>1, FS_Subset, FS_CardinalityType, ContainersAssumption
    <2>2. faults \in Nat /\ PoolSize \in Nat
        BY ContainersAssumption DEF IInv, TypeOK
    <2> HIDE DEF J, T, U
    <2> QED
        BY <1>3, <2>1, <2>2, OverlappingBound, SMTT(30)
<1> HIDE DEF J, T, U, R, L
<1>10. /\ IsFiniteSet(R(J) \cup R(U)) /\ Cardinality(R(J) \cup R(U)) \in Nat
       /\ Cardinality(R(J)) \in Nat /\ Cardinality(R(U)) \in Nat
       /\ Cardinality(R(J) \cup R(U)) <= Cardinality(R(J)) + Cardinality(R(U))
    BY <1>3, <1>4, UnionBound
<1>11. /\ IsFiniteSet(R(T) \cup (R(J) \cup R(U))) /\ Cardinality(R(T)) \in Nat
       /\ Cardinality(R(T) \cup (R(J) \cup R(U))) \in Nat
       /\ Cardinality(R(T) \cup (R(J) \cup R(U)))
              <= Cardinality(R(T)) + Cardinality(R(J) \cup R(U))
    BY <1>2, <1>10, UnionBound
<1>12. /\ IsFiniteSet(L(T) \cup L(J)) /\ Cardinality(L(T) \cup L(J)) \in Nat
       /\ Cardinality(L(T)) \in Nat /\ Cardinality(L(J)) \in Nat
       /\ Cardinality(L(T) \cup L(J)) <= Cardinality(L(T)) + Cardinality(L(J))
    BY <1>2, <1>5, UnionBound
<1>13. Cardinality(R(T) \cup (R(J) \cup R(U))) + Cardinality(L(T) \cup L(J))
           <= Demand("TARS") + faults * PoolSize
    <2> DEFINE t == Cardinality(T) * (Overlapping + 1)
               j == Cardinality(J) * PoolSize
               f == faults * PoolSize
    <2>1. /\ t \in Nat /\ j \in Nat /\ f \in Nat /\ Demand("TARS") = t + j + Cardinality(U)
          /\ Cardinality(R(T)) + Cardinality(L(T)) <= t /\ Cardinality(R(J)) <= j
          /\ Cardinality(L(J)) <= f
        BY <1>2, <1>3, <1>5, <1>8, <1>9
    <2> HIDE DEF t, j
    <2>2. Cardinality(R(T) \cup (R(J) \cup R(U))) + Cardinality(L(T) \cup L(J))
              <= t + j + Cardinality(U) + f
        <3> HIDE DEF f
        <3> QED
            BY <1>4, <1>9, <1>10, <1>11, <1>12, <2>1
    <2> QED
        BY <2>1, <2>2
<1> QED
    BY <1>6, <1>7, <1>11, <1>12, <1>13

LEMMA DemandType ==
    ASSUME IInv, NEW db \in Databases
    PROVE  /\ Demand(db) \in Nat /\ faults * PoolSize \in Nat /\ MaxFaults * PoolSize \in Nat
<1>1. \A poller : Cardinality(OfPoller(poller)) \in Nat
    BY FS_Subset, FS_CardinalityType, ContainersAssumption DEF OfPoller
<1>2. Cardinality(OfPoller("users") \cup OfPoller("delegated")) \in Nat
    BY FS_Subset, FS_CardinalityType, ContainersAssumption DEF OfPoller
<1>3. faults \in Nat /\ PoolSize \in Nat /\ MaxFaults \in Nat
    BY ContainersAssumption DEF IInv, TypeOK
<1>4. \A m, n \in Nat : m * n \in Nat
    OBVIOUS
<1>5. Overlapping + 1 \in Nat
    BY OverlappingBound
<1>6. /\ Cardinality(OfPoller("journals")) * (Overlapping + 1) \in Nat
      /\ Cardinality(OfPoller("testCentre")) * (Overlapping + 1) \in Nat
      /\ Cardinality(OfPoller("journals")) * PoolSize \in Nat
    BY <1>1, <1>3, <1>4, <1>5
<1>7. Demand(db) \in Nat
    BY <1>2, <1>6 DEF Demand
<1> QED
    BY <1>3, <1>4, <1>7

\* An invocation that is still to connect has what it needs set aside for it.
LEMMA RoomToConnect ==
    ASSUME IInv, NEW db \in Databases
    PROVE  /\ Open(db) \in Nat /\ Open(db) <= Demand(db) + faults * PoolSize
           /\ \A c \in Containers : (pc[c] \in Asking /\ using[c][db] = 0) =>
                  Open(db) + ToUse(c, db) <= Demand(db) + faults * PoolSize
<1> DEFINE R == Reserved(Containers, db)
<1>1. /\ IsFiniteSet(R) /\ IsFiniteSet(LeftBehind(db))
      /\ Cardinality(R) + Cardinality(LeftBehind(db)) <= Demand(db) + faults * PoolSize
    BY DemandOfDSP, DemandOfReplica DEF Databases
<1>2. \A x : x \in InUse(db) <=> \E c \in Containers : \E n \in 1..using[c][db] : x = <<c, n>>
    BY DEF InUse
<1>3. ASSUME NEW x \in InUse(db)
      PROVE  x \in R
    <2>1. PICK c \in Containers : \E n \in 1..using[c][db] : x = <<c, n>>
        BY <1>2
    <2>2. PICK n \in 1..using[c][db] : x = <<c, n>>
        BY <2>1
    <2>3. /\ using[c][db] \in Nat /\ ToUse(c, db) \in Nat /\ using[c][db] <= ToUse(c, db)
          /\ using[c] # NoneUsed
        BY NeedsType, ContainersAssumption DEF IInv, TypeOK, UsingInv, NoneUsed
    <2>4. pc[c] \in Asking
        BY <2>3 DEF IInv, UsingInv, Asking
    <2> QED
        BY <2>2, <2>3, <2>4, ReservedMembers
<1>4. IsFiniteSet(InUse(db)) /\ Cardinality(InUse(db)) <= Cardinality(R)
    <2> HIDE DEF R
    <2> QED
        BY <1>1, <1>3, FS_Subset
<1>5. /\ Cardinality(R) \in Nat /\ Cardinality(LeftBehind(db)) \in Nat
      /\ Cardinality(InUse(db)) \in Nat
    BY <1>1, <1>4, FS_CardinalityType
<1>6. Demand(db) + faults * PoolSize \in Int
    BY DemandType
<1>7. Open(db) \in Nat /\ Open(db) <= Demand(db) + faults * PoolSize
    <2> HIDE DEF R
    <2> QED
        BY <1>1, <1>4, <1>5, <1>6 DEF Open
<1>8. ASSUME NEW c \in Containers, pc[c] \in Asking, using[c][db] = 0
      PROVE  Open(db) + ToUse(c, db) <= Demand(db) + faults * PoolSize
    <2> DEFINE own == {c} \X (1..ToUse(c, db))
    <2>1. ToUse(c, db) \in Nat
        BY NeedsType, ContainersAssumption
    <2>2. IsFiniteSet(own) /\ Cardinality(own) = ToUse(c, db)
        <3>1. IsFiniteSet({c}) /\ Cardinality({c}) = 1
            BY FS_Singleton
        <3>2. IsFiniteSet(1..ToUse(c, db)) /\ Cardinality(1..ToUse(c, db)) = ToUse(c, db)
            BY <2>1, FS_Interval
        <3>3. IsFiniteSet(own) /\ Cardinality(own) = Cardinality({c}) * Cardinality(1..ToUse(c, db))
            BY <3>1, <3>2, FS_Product
        <3> HIDE DEF own
        <3> QED
            BY <2>1, <3>1, <3>2, <3>3
    <2>3. own \subseteq R
        BY <1>8, ReservedMembers
    <2>4. InUse(db) \cap own = {}
        <3> SUFFICES ASSUME NEW x \in InUse(db), x \in own
                     PROVE  FALSE
            OBVIOUS
        <3>1. PICK k \in Containers : \E n \in 1..using[k][db] : x = <<k, n>>
            BY <1>2
        <3>2. k = c
            BY <3>1
        <3> QED
            BY <1>8, <3>1, <3>2
    <2> HIDE DEF R, own
    <2>5. Cardinality(InUse(db) \cup own) = Cardinality(InUse(db)) + Cardinality(own)
        BY <1>4, <2>2, <2>4, UnionBound
    <2>6. Cardinality(InUse(db) \cup own) <= Cardinality(R)
        BY <1>1, <1>3, <2>3, FS_Subset
    <2> QED
        BY <1>1, <1>5, <1>6, <2>1, <2>2, <2>5, <2>6 DEF Open
<1> QED
    BY <1>7, <1>8

----------------------------------------------------------------------------
(* Without a failure of its own an invocation gets what it asks for.       *)

LEMMA CannotOnlyIfStale ==
    ASSUME IInv, AmpleConnections, NEW c \in Containers, NEW db \in Databases,
           pc[c] \in {"connect", "bookings"}, using[c][db] = 0,
           db = "DSP" => Poller[c] = "journals",
           ~MayConnect(c, db, ToUse(c, db))
    PROVE  "bootstrap" \in hurt[c] /\ ~Fresh(Password(c, db))
<1>1. Open(db) + ToUse(c, db) <= Demand(db) + faults * PoolSize
    BY RoomToConnect DEF Asking
<1>2. faults * PoolSize <= MaxFaults * PoolSize
    <2>1. /\ faults \in Nat /\ MaxFaults \in Nat /\ PoolSize \in Nat /\ faults <= MaxFaults
        BY ContainersAssumption DEF IInv, TypeOK
    <2> QED
        BY <2>1, ProductGrows
<1>3. Demand(db) + MaxFaults * PoolSize <= Limit
    BY DEF AmpleConnections
<1>4. Open(db) + ToUse(c, db) <= Limit
    <2>1. Open(db) \in Nat /\ ToUse(c, db) \in Nat /\ Limit \in Nat
        BY RoomToConnect, NeedsType, ContainersAssumption
    <2>2. Demand(db) \in Nat /\ faults * PoolSize \in Nat /\ MaxFaults * PoolSize \in Nat
        BY DemandType
    <2> QED
        BY <1>1, <1>2, <1>3, <2>1, <2>2
<1>5. ~Fresh(Password(c, db))
    BY <1>4 DEF MayConnect
<1>6. ASSUME "bootstrap" \notin hurt[c]
      PROVE  FALSE
    <2>1. /\ configuration[c] # Unset /\ configuration[c] \in Config
          /\ configuration[c].TARS <= sinceStart[c]
          /\ Poller[c] = "journals" =>
                 configuration[c].DSP # Unset /\ configuration[c].DSP <= sinceStart[c]
          /\ sinceStart[c] < MinGap
        BY <1>6, ConfigType DEF IInv, TokensInv
    <2>2. /\ configuration[c][db] # Unset /\ configuration[c][db] <= sinceStart[c]
          /\ configuration[c][db] \in Nat
        BY <2>1, ContainersAssumption DEF Config, Databases
    <2>3. sinceStart[c] \in Nat /\ MinGap \in Nat /\ TokenLife \in Nat /\ MinGap <= TokenLife
        BY ConfigType, ContainersAssumption DEF IInv
    <2>4. Fresh(Password(c, db))
        BY <2>1, <2>2, <2>3 DEF Fresh, Password
    <2> QED
        BY <1>5, <2>4
<1> QED
    BY <1>5, <1>6

\* A password that is not good does not become so as time passes.
LEMMA StaleStays ==
    ASSUME TypeOK, Tick, NEW c \in Containers, NEW db \in Databases, Excused(c, db)
    PROVE  Excused(c, db)'
<1>1. hurt' = hurt
    BY DEF Tick, invocation
<1>2. ASSUME ~Fresh(Password(c, db))
      PROVE  ~Fresh(Password(c, db)')
    <2>1. CASE configuration[c] = Unset
        BY <2>1, ConfigTick DEF Fresh, Password
    <2>2. CASE configuration[c] # Unset
        <3>1. /\ configuration[c].TARS \in Nat /\ configuration[c].DSP \in Nat \cup {Unset}
              /\ TokenLife \in Nat \ {0} /\ Unset \notin Nat
            BY <2>2, ConfigType, ContainersAssumption DEF Config
        <3>0. configuration'[c] = [TARS |-> Older(configuration[c].TARS, TokenLife),
                                   DSP |-> Older(configuration[c].DSP, TokenLife)]
            BY <2>2, ConfigTick
        <3>2. /\ configuration'[c].TARS = Older(configuration[c].TARS, TokenLife)
              /\ configuration'[c].DSP = Older(configuration[c].DSP, TokenLife)
            BY <3>0
        <3>3. configuration'[c][db] = Older(configuration[c][db], TokenLife)
              /\ configuration[c][db] \in Nat \cup {Unset}
            BY <3>1, <3>2 DEF Databases
        <3>4. configuration[c][db] = Unset \/ configuration[c][db] >= TokenLife
            BY <1>2, <2>2, <3>1, <3>3 DEF Fresh, Password
        <3>5. configuration'[c][db] = Unset \/ ~(configuration'[c][db] < TokenLife)
            BY <3>1, <3>3, <3>4 DEF Older
        <3> QED
            BY <3>5 DEF Fresh, Password
    <2> QED
        BY <2>1, <2>2
<1> QED
    BY <1>1, <1>2 DEF Excused, Fresh

\* What an invocation has not got, it has an excuse for.
Wanting(c, db) ==
    IF db = "TARS" THEN Poller[c] = "testCentre" /\ pc[c] = "reconcile" /\ ~taken[c].records
    ELSE Poller[c] = "journals" /\ pc[c] \in {"datasets", "reconcile"} /\ ~taken[c].bookings

LEMMA ExcusedStep == IInv /\ [Next]_vars => ExcusedInv'
<1> SUFFICES ASSUME IInv, [Next]_vars, AmpleConnections, NEW k \in Containers,
                    NEW db \in Databases, Wanting(k, db)'
             PROVE  Excused(k, db)'
    BY DEF ExcusedInv, Wanting, Databases, AmpleConnections, Demand, OfPoller, Overlapping
<1>1. /\ TypeOK /\ UsingInv
      /\ Wanting(k, db) => Excused(k, db)
      /\ DOMAIN pc = Containers /\ DOMAIN taken[k] = {"records", "bookings"}
      /\ taken \in [Containers -> [records : BOOLEAN, bookings : BOOLEAN]]
      /\ hurt \in [Containers -> SUBSET {"bootstrap", "query", "table"}]
    BY DEF IInv, ExcusedInv, Wanting, Databases, TypeOK
<1>2. ASSUME pc'[k] = pc[k], taken'[k] = taken[k], hurt'[k] = hurt[k],
             configuration'[k] = configuration[k]
      PROVE  Excused(k, db)'
    BY <1>1, <1>2 DEF Wanting, Excused, Password, Fresh
<1>3. CASE UNCHANGED vars \/ \E c \in Containers : c # k /\ Step(c)
    <2>1. /\ pc'[k] = pc[k] /\ taken'[k] = taken[k] /\ hurt'[k] = hurt[k]
          /\ configuration'[k] = configuration[k]
        BY <1>1, <1>3, OthersKeep DEF vars, invocation
    <2> QED
        BY <1>2, <2>1
<1>4. CASE Tick
    <2>1. Wanting(k, db)
        BY <1>4 DEF Wanting, Tick, invocation
    <2> QED
        BY <1>1, <1>4, <2>1, StaleStays
<1>5. CASE Step(k)
    <2>1. \A where : Fault(k, where) => where \in hurt'[k]
        BY <1>1 DEF Fault
    <2>2. ASSUME "query" \in hurt'[k]
          PROVE  Excused(k, db)'
        BY <2>2 DEF Excused
    <2>3. pc'[k] \in {"datasets", "reconcile"}
        BY DEF Wanting
    <2>4. CASE CannotConnect(k)
        <3>1. /\ pc[k] = "connect" /\ ~MayConnect(k, "TARS", Needs(k))
              /\ configuration' = configuration /\ hurt' = hurt /\ QueryFailed(k)
            BY <2>4 DEF CannotConnect, QueryFailed, NoFault
        <3>2. Poller[k] # "journals"
            <4>1. Respond(k) => pc'[k] = "idle"
                BY <1>1 DEF Respond
            <4> QED
                BY <2>3, <3>1, <4>1 DEF QueryFailed, Swallowing
        <3>3. db = "TARS"
            BY <3>2 DEF Wanting, Databases
        <3>4. using[k]["TARS"] = 0
            BY <1>1, <3>1 DEF UsingInv, NoneUsed, Databases
        <3>5. ToUse(k, "TARS") = Needs(k)
            BY DEF ToUse
        <3>6. "bootstrap" \in hurt[k] /\ ~Fresh(Password(k, db))
            BY <3>1, <3>3, <3>4, <3>5, CannotOnlyIfStale
        <3> QED
            BY <3>1, <3>6 DEF Excused, Password, Fresh
    <2>5. CASE QueryFails(k)
        BY <2>1, <2>2, <2>5 DEF QueryFails
    <2>6. CASE QueryAnswered(k)
        <3>1. /\ pc[k] = "query" /\ Poller[k] # "journals"
              /\ taken' = [taken EXCEPT ![k].records = TRUE]
            BY <1>1, <2>3, <2>6 DEF QueryAnswered
        <3>2. taken'[k].records
            BY <1>1, <3>1
        <3> QED
            BY <3>1, <3>2 DEF Wanting
    <2>7. CASE BookingsAnswered(k)
        <3>1. pc'[k] = "datasets" /\ taken'[k].bookings
            BY <1>1, <2>7 DEF BookingsAnswered
        <3> QED
            BY <3>1 DEF Wanting
    <2>8. CASE BookingsFail(k)
        <3>1. CASE Fault(k, "query")
            BY <2>1, <2>2, <3>1
        <3>2. CASE ~Fault(k, "query")
            <4>1. /\ pc[k] = "bookings" /\ using[k]["DSP"] = 0 /\ ~MayConnect(k, "DSP", 1)
                  /\ configuration' = configuration /\ hurt' = hurt /\ pc'[k] = "datasets"
                BY <1>1, <2>8, <3>2 DEF BookingsFail, NoFault
            <4>2. Poller[k] = "journals" /\ db = "DSP"
                BY <1>1, <4>1 DEF UsingInv, Wanting, Databases
            <4>3. ToUse(k, "DSP") = 1
                BY <4>2 DEF ToUse
            <4>4. "bootstrap" \in hurt[k] /\ ~Fresh(Password(k, db))
                BY <4>1, <4>2, <4>3, CannotOnlyIfStale
            <4> QED
                BY <4>1, <4>4 DEF Excused, Password, Fresh
        <3> QED
            BY <3>1, <3>2
    <2>9. CASE DatasetsAnswered(k)
        <3>1. /\ pc[k] = "datasets" /\ taken' = [taken EXCEPT ![k].records = TRUE]
              /\ hurt' = hurt /\ configuration' = configuration
            BY <2>9 DEF DatasetsAnswered, NoFault
        <3>2. Poller[k] = "journals"
            BY <1>1, <3>1 DEF UsingInv
        <3>3. taken'[k].bookings = taken[k].bookings
            BY <1>1, <3>1
        <3>4. Wanting(k, db)
            BY <3>1, <3>2, <3>3 DEF Wanting, Databases
        <3> QED
            BY <1>1, <3>1, <3>4 DEF Excused, Password, Fresh
    <2>10. ~(Start(k) \/ TokenFetched(k) \/ DesTokenFetched(k) \/ BootstrapFails(k)
                \/ Connect(k) \/ BookingsConnect(k) \/ Reconcile(k) \/ ReconcileFails(k)
                \/ Recycle(k))
        <3>1. Respond(k) => pc'[k] = "idle"
            BY <1>1 DEF Respond
        <3> QED
            BY <1>1, <2>3, <3>1
            DEF Start, TokenFetched, DesTokenFetched, BootstrapFails, Connect,
                BookingsConnect, Reconcile, ReconcileFails, Recycle, invocation
    <2> QED
        BY <1>5, <2>4, <2>5, <2>6, <2>7, <2>8, <2>9, <2>10 DEF Step, Proceed
<1> QED
    BY <1>3, <1>4, <1>5, StepOrTime

\* The delegated bookings poller, for want of records, leaves its table as it is.
LEMMA DelegatedStep == IInv /\ [Next]_vars => table'["delegated"] = "current"
<1> SUFFICES ASSUME IInv, [Next]_vars
             PROVE  table'["delegated"] = "current"
    OBVIOUS
<1>1. table["delegated"] = "current" /\ DOMAIN table = Pollers
    BY DEF IInv, TypeOK
<1>2. ASSUME NEW c \in Containers, Reconcile(c)
      PROVE  table'["delegated"] = "current"
    <2>1. Poller[c] = "delegated" => Written(c) = "current"
        BY <1>1 DEF Written, DelegatedWritten
    <2>2. table' = [table EXCEPT ![Poller[c]] = Written(c)]
        BY <1>2 DEF Reconcile
    <2> QED
        BY <1>1, <2>1, <2>2
<1>3. ASSUME NEW c \in Containers, Step(c), ~Reconcile(c)
      PROVE  table' = table
    BY <1>3
    DEF Step, Proceed, Start, TokenFetched, DesTokenFetched, BootstrapFails, Connect,
        CannotConnect, QueryFails, QueryFailed, QueryAnswered, BookingsConnect,
        BookingsAnswered, BookingsFail, DatasetsAnswered, ReconcileFails, Recycle
<1>4. CASE Tick \/ UNCHANGED vars
    BY <1>1, <1>4 DEF Tick, vars
<1> QED
    BY <1>1, <1>2, <1>3, <1>4, StepOrTime

----------------------------------------------------------------------------
(* The theorems.                                                           *)

LEMMA InvHolds == Spec => []IInv
<1>1. IInv /\ [Next]_vars => IInv'
    BY TypeStep, UsingStep, PoolsStep, SpacedStep, FailedStep, TokensStep, ExcusedStep,
       DelegatedStep DEF IInv
<1> QED
    BY InvInit, <1>1, PTL DEF Spec

\* The state has its types, however the invocations, the failures and the time
\* interleave; a configuration with details of the DSP is a journals poller's.
THEOREM TypeCorrect == Spec => []TypeOK
<1>1. IInv => TypeOK
    BY DEF IInv
<1> QED
    BY InvHolds, <1>1, PTL

\* The connections that warm containers leave open are those of the latest few
\* invocations, and those of failed ones: getTestCentres and getDSPTestSlots leave
\* one each time, getJournalDetails its pool when a query fails.
THEOREM PoolsBounded == Spec => []PoolsAccountedFor
<1>1. IInv => PoolsAccountedFor
    <2> SUFFICES ASSUME IInv
                 PROVE  PoolsAccountedFor
        OBVIOUS
    <2>1. \A db \in Databases : Open(db) <= Demand(db) + faults * PoolSize
        BY RoomToConnect
    <2>2. \A c \in Containers : Poller[c] \in {"users", "delegated"} => pools[c] = {}
        BY DEF IInv, PoolsInv
    <2> QED
        BY <2>1, <2>2 DEF PoolsAccountedFor
<1> QED
    BY InvHolds, <1>1, PTL

\* With connections enough for what the pollers need and leave behind, an invocation
\* writes an empty test centre table, or journals without bookings, only if one of
\* its own calls failed: bootstrapConfig going on with the configuration there is
\* does no harm by itself.
THEOREM DegradedNeedsFault == Spec => DegradedOnlyByFault
<1> DEFINE Excuses == AmpleConnections =>
               \A c \in Containers : Reconcile(c) =>
                   /\ Written(c) = "empty" => Excused(c, "TARS")
                   /\ Written(c) = "withoutBookings" => Excused(c, "DSP")
<1>1. IInv => Excuses
    <2> SUFFICES ASSUME IInv, AmpleConnections, NEW c \in Containers, Reconcile(c)
                 PROVE  /\ Written(c) = "empty" => Excused(c, "TARS")
                        /\ Written(c) = "withoutBookings" => Excused(c, "DSP")
        OBVIOUS
    <2>1. /\ pc[c] = "reconcile" /\ table["delegated"] = "current" /\ Poller[c] \in Pollers
          /\ (Poller[c] = "testCentre" /\ pc[c] = "reconcile" /\ ~taken[c].records) =>
                 Excused(c, "TARS")
          /\ (Poller[c] = "journals" /\ pc[c] \in {"datasets", "reconcile"}
                  /\ ~taken[c].bookings) => Excused(c, "DSP")
        BY ContainersAssumption DEF IInv, ExcusedInv, Reconcile
    <2>2. Written(c) = "empty" => Poller[c] = "testCentre" /\ ~taken[c].records
        BY <2>1 DEF Written, JournalsWritten, TestCentresWritten, DelegatedWritten, Pollers
    <2>3. Written(c) = "withoutBookings" => Poller[c] = "journals" /\ ~taken[c].bookings
        BY <2>1 DEF Written, JournalsWritten, TestCentresWritten, DelegatedWritten, Pollers
    <2> QED
        BY <2>1, <2>2, <2>3
<1>2. IInv /\ [Next]_vars => [Excuses]_vars
    BY <1>1
<1>3. Spec => [][Excuses]_vars
    BY InvHolds, <1>2, PTL DEF Spec
<1> QED
    BY <1>3 DEF DegradedOnlyByFault
====
