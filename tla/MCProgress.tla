------------------------------ MODULE MCProgress ------------------------------
(***************************************************************************)
(* What must happen in the end.  The components share no state here, so a   *)
(* behaviour is about one of them; "part" says which, and the rest stays as *)
(* it was.  Every fairness condition is the one of the component's own       *)
(* module, restated for its part.                                          *)
(***************************************************************************)
EXTENDS SchedulerGrid, TLC

VARIABLES
    part,
    command, run, pages, checkpoint, source, published, receipts,      \* CollectionControl
    client, line, command1, run1, pages1, checkpoint1, source1, published1, receipts1,
                                                                       \* CollectorClient
    item, analyses, worker, proofs, granted,                           \* AnalysisQueue
    cred, call, cache, caller, rate, nonces, accepted, lapsed,         \* ServiceTokens
    latest, job, trigger, inputs, history, cron,                       \* DailyReports
    row, manifest, tomb, observed, pass,                               \* Retention
    faults                                                             \* of client and daily jobs

gridRows      == <<enabled, recoverable, rowExists, last, slots, pc, clock>>
controlRows   == <<command, run, pages, checkpoint, source, published, receipts>>
clientRows    == <<client, line, command1, run1, pages1, checkpoint1, source1, published1, receipts1>>
queueRows     == <<item, analyses, worker, proofs, granted>>
tokenRows     == <<cred, call, cache, caller, rate, nonces, accepted, lapsed>>
dailyRows     == <<latest, job, trigger, inputs, history, cron>>
retentionRows == <<row, manifest, tomb, observed, pass>>
progressVars  == <<part, now, faults, gridRows, controlRows, clientRows, queueRows, tokenRows,
                   dailyRows, retentionRows>>

-----------------------------------------------------------------------------
(* Instances *)

\* collectors that may stop at any point
Control == INSTANCE CollectionControl WITH
    Commands <- {"c1"}, Sources <- {"s1"}, Cursors <- {}, NoCursor <- "null",
    MaxAttempts <- 2, ReservationStale <- 0, ExecutionStale <- 1, RetryDelay <- 1, PageCap <- 1,
    BudgetLevels <- {"allow"}, MaxRevision <- 1, MaxDecisions <- 1

\* a collector whose calls are lost or which crashes, twice at most
Client == INSTANCE CollectorClient WITH
    Commands <- {"c1"}, Sources <- {"s1"}, Cursors <- {"x"}, NoCursor <- "null",
    MaxAttempts <- 3, ReservationStale <- 0, ExecutionStale <- 1, RetryDelay <- 1, PageCap <- 2,
    BudgetLevels <- {"allow"}, MaxRevision <- 6, MaxDecisions <- 1,
    command <- command1, run <- run1, pages <- pages1, checkpoint <- checkpoint1,
    source <- source1, published <- published1, receipts <- receipts1,
    SourceOrder <- <<"s1">>, Answers <- {"page", "last"}, MaxFaults <- 2

\* a worker that may die
Queue == INSTANCE AnalysisQueue WITH
    Items <- {"i1"}, Workers <- {"w1"}, Requirements <- {"q1"},
    LeaseDuration <- 2, RetryDelays <- <<1, 2>>, MaxProofs <- 1

\* two requests that wait for one exchange
Tokens == INSTANCE ServiceTokens WITH
    clock <- now,
    Keys <- {"read"}, Callers <- {"g1", "g2"}, Jobs <- {}, Requests <- {},
    TokenTtl <- 3, CacheMax <- 2, Safety <- 1, Skew <- 1, RequestMaxAge <- 2, Retention <- 4,
    ExchangeLimit <- 2, Window <- 3, MaxClock <- 2

\* daily invocations with a fault, on two dates
Daily == INSTANCE DailyReports WITH
    Crons <- {"c1"}, LastDate <- 2, CatchUp <- 2, MaxAttempts <- 2, Hashes <- {"x"},
    MaxTriggers <- 2, MaxChanges <- 0, MaxFaults <- 1

\* a version with a match and an engagement observation, batches of one row
Retained == INSTANCE Retention WITH
    Kind <- <<"post_version", "match", "engagement">>, Owner <- <<1, 1, 1>>, Dates <- {"d1"},
    Passes <- {"p1"}, MaxManifests <- 1, Batch <- 1, RawDays <- 1, ReportDays <- 4, MaxTime <- 2

-----------------------------------------------------------------------------
(* One part moves, the others do not *)

GridOnly ==
    /\ part = "grid"
    /\ UNCHANGED <<part, faults, controlRows, clientRows, queueRows, tokenRows, dailyRows, retentionRows>>
ControlOnly ==
    /\ part = "control"
    /\ UNCHANGED <<part, now, faults, gridRows, clientRows, queueRows, tokenRows, dailyRows, retentionRows>>
ClientOnly ==
    /\ part = "client"
    /\ UNCHANGED <<part, now, gridRows, controlRows, queueRows, tokenRows, dailyRows, retentionRows>>
QueueOnly ==
    /\ part = "queue"
    /\ UNCHANGED <<part, now, faults, gridRows, controlRows, clientRows, tokenRows, dailyRows, retentionRows>>
TokensOnly ==
    /\ part = "tokens"
    /\ UNCHANGED <<part, faults, gridRows, controlRows, clientRows, queueRows, dailyRows, retentionRows>>
DailyOnly ==
    /\ part = "daily"
    /\ UNCHANGED <<part, now, gridRows, controlRows, clientRows, queueRows, tokenRows, retentionRows>>
RetainedOnly ==
    /\ part = "retention"
    /\ UNCHANGED <<part, faults, gridRows, controlRows, clientRows, queueRows, tokenRows, dailyRows>>

ProgressInit ==
    /\ part \in {"grid", "control", "client", "queue", "tokens", "daily", "retention"}
    /\ Init /\ Control!Init /\ Client!ClientInit /\ Queue!QueueInit /\ Tokens!TokenInit
    /\ Daily!Init /\ Retained!Init
    /\ part # "grid" => ~enabled /\ recoverable

ProgressNext ==
    \/ GridOnly /\ Next
    \/ ControlOnly /\ Control!Next
    \/ ClientOnly /\ Client!UndisturbedNext
    \/ QueueOnly /\ Queue!QueueNext
    \/ TokensOnly /\ Tokens!TokenNext
    \/ DailyOnly /\ Daily!Next
    \/ RetainedOnly /\ Retained!Next

\* Time passes in every part.
TimePasses ==
    \/ GridOnly /\ Tick
    \/ ControlOnly /\ Control!Tick
    \/ ClientOnly /\ Client!Clock
    \/ QueueOnly /\ Queue!QueueTick
    \/ DailyOnly /\ Daily!NextDay
    \/ RetainedOnly /\ Retained!Tick

\* Schedules start what they are there to start, and a lease runs out.
ScheduleActs ==
    \/ ControlOnly /\ Control!MaterializeSome
    \/ QueueOnly /\ Queue!RecoverSome
    \/ DailyOnly /\ Daily!GoesStale
    \/ RetainedOnly /\ Retained!StartPass("p1")

\* What was started goes on, or ends at its timeout.
WorkGoesOn ==
    \/ ClientOnly /\ Client!ClientStep
    \/ TokensOnly /\ (Tokens!Receive("read") \/ Tokens!ExchangeFails("read"))
    \/ DailyOnly /\ Daily!Step("c1")
    \/ RetainedOnly /\ Retained!Step("p1")

\* "part" never changes, so each conjunct is one condition for every part.
ProgressFairness ==
    /\ WF_progressVars(TimePasses)
    /\ WF_progressVars(ScheduleActs)
    /\ WF_progressVars(WorkGoesOn)
    /\ WF_progressVars(DailyOnly /\ Daily!Start("c1"))
    /\ SF_progressVars(ClientOnly /\ Client!StartWorkflow /\ client'.pc = "materialize")
    /\ \A p \in Callers : WF_progressVars(GridOnly /\ Call(p))

ProgressSpec == ProgressInit /\ [][ProgressNext]_progressVars /\ ProgressFairness

-----------------------------------------------------------------------------
(* Properties *)

\* A command is neither left leased by a collector that went silent nor lost to
\* fewer faults than it has attempts.
CollectionGoesOn == Control!AbandonedIsReleased /\ Client!FaultsSurvived

\* Nobody waits for one that is gone: a dead worker's item is leased to others,
\* and a request that shares another's exchange is answered though it fails.
NobodyWaitsForever == Queue!DeadLeaseReclaimed /\ Tokens!EveryCallerAnswered

\* Days missed are caught up, reconciliation requests are served or given up,
\* and derived rows are deleted behind rows that no pass can delete.
DailyWorkDone == Daily!CatchesUp /\ Daily!TriggersSettle /\ Retained!DerivedRowsGo
==============================================================================
