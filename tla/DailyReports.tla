---------------------------- MODULE DailyReports ----------------------------
(***************************************************************************)
(* The daily cron: one invocation walks at most CatchUp Seoul dates and    *)
(* runs the report job and the retention job of each under a durable lease,*)
(* or serves one administrator trigger.  Invocations overlap, die between  *)
(* two transactions and outlive their lease.  A report is reconciled from  *)
(* a REPEATABLE READ snapshot of its inputs, so what it read may be old    *)
(* when it appends.                                                        *)
(*                                                                         *)
(* A date is its distance from the day before the first modelled one;      *)
(* corrections of still earlier dates are left out.                        *)
(***************************************************************************)
EXTENDS Integers, Sequences, FiniteSets, FiniteSetsExt

CONSTANTS
    Crons,        \* invocations of /api/cron/daily that may overlap
    LastDate,     \* the last modelled Seoul date
    CatchUp,      \* MAX_CATCH_UP_DAYS
    MaxAttempts,  \* MAX_JOB_ATTEMPTS
    Hashes,       \* input_set_hash values
    MaxTriggers,  \* bound on administrator reconciliation requests
    MaxChanges,   \* bound on changes of the facts behind the reports
    MaxFaults     \* bound on crashes and failing operations

ASSUME DailyAssumption ==
    /\ LastDate \in Nat \ {0} /\ CatchUp \in Nat \ {0} /\ MaxAttempts \in Nat \ {0}
    /\ MaxTriggers \in Nat /\ MaxChanges \in Nat /\ MaxFaults \in Nat

VARIABLES
    latest,   \* the latest complete Seoul date
    job,      \* scheduled_job_runs of the two daily kinds
    trigger,  \* scheduled_job_runs of kind reconciliation, oldest first
    inputs,   \* the facts a report of each date is projected from
    history,  \* daily_report_versions of each date, by revision
    cron,     \* the invocations
    faults    \* faults so far

vars == <<latest, job, trigger, inputs, history, cron, faults>>

Dates == 1..LastDate
Kinds == {"report", "retention"}
Settled == {"succeeded", "terminal"}

\* The columns of a scheduled_job_runs row; fresh: not yet claimed for fifteen
\* minutes.
JobStatus == {"queued", "running", "succeeded", "retryable", "terminal"}
Job == [st : JobStatus, attempt : 1..MaxAttempts, fresh : BOOLEAN]

\* Where an invocation is between two transactions.
Stage == {"off", "cursors", "report", "snapshot", "append", "finish", "retention", "retain",
          "finishRetention"}

\* A row a claim has not inserted yet counts as the queued row it inserts.
Queued == [st |-> "queued", attempt |-> 1, fresh |-> FALSE]

\* snap is what a reconciliation read: the facts, and how many versions it saw
NoSnap == [hash |-> "none", ver |-> 0, seen |-> 0]
Off ==
    [pc |-> "off", last |-> 0, reportNext |-> 0, retentionNext |-> 0, date |-> 0, end |-> 0,
     reportOk |-> TRUE, retentionOk |-> TRUE, held |-> 0, snap |-> NoSnap,
     ok |-> TRUE, trigger |-> 0, failed |-> FALSE]

Init ==
    /\ latest = 1
    /\ job = [k \in Kinds |-> [d \in Dates |-> Queued]]
    /\ trigger = <<>>
    /\ inputs \in [Dates -> {[hash |-> h, ver |-> 0] : h \in Hashes}]
    /\ history = [d \in Dates |-> <<>>]
    /\ cron = [c \in Crons |-> Off]
    /\ faults = 0

-----------------------------------------------------------------------------
(* Claims: daily_jobs.py *)

\* Mutant: a running job is never taken over.
ClaimLockedNoRecovery(j) ==
    IF j.st \in Settled THEN [job |-> j, disposition |-> j.st]
    ELSE IF j.st = "running" THEN [job |-> j, disposition |-> "busy"]
    ELSE [job |-> [st |-> "running", fresh |-> TRUE,
                   attempt |-> IF j.st = "queued" THEN 1 ELSE j.attempt + 1],
          disposition |-> "run"]

\* _claim_locked.  Every grant after the first raises the attempt, so within a
\* job the attempt stands for the random lease the grant creates.  An invocation
\* whose clock is older than a retryable job's available_at (the clock of its last
\* grant) finds it busy; clocks are not modelled, and it is granted here.
ClaimLocked(j) ==
    LET attempt == IF j.st = "queued" THEN j.attempt ELSE j.attempt + 1
    IN  IF j.st \in Settled THEN [job |-> j, disposition |-> j.st]
        ELSE IF j.st = "running" /\ j.fresh THEN [job |-> j, disposition |-> "busy"]
        ELSE IF attempt > MaxAttempts
        THEN [job |-> [j EXCEPT !.st = "terminal"], disposition |-> "terminal"]
        ELSE [job |-> [st |-> "running", attempt |-> attempt, fresh |-> TRUE],
              disposition |-> "run"]

\* latest_succeeded_date; 0 when there is none
LatestSucceeded(k, through) ==
    Max({d \in 1..through : job[k][d].st = "succeeded"} \cup {0})

\* Mutant: catch-up starts at the latest date.
NextDateLatest(lastSucceeded, last) == last

\* _next_date
NextDate(lastSucceeded, last) ==
    IF lastSucceeded = 0 THEN last ELSE Min({lastSucceeded + 1, last})

\* the compare-and-set of finish
Holds(j, held) == j.st = "running" /\ j.attempt = held

\* the status finish writes
FinishedStatus(ok, attempt) ==
    IF ok THEN "succeeded" ELSE IF attempt < MaxAttempts THEN "retryable" ELSE "terminal"

Finished(j, ok) == [j EXCEPT !.st = FinishedStatus(ok, j.attempt), !.fresh = FALSE]

\* What the invocation does next; a failing step that nothing catches ends it.
Goto(c, pc) == cron' = [cron EXCEPT ![c].pc = pc]
Die(c) == cron' = [cron EXCEPT ![c] = Off]

-----------------------------------------------------------------------------
(* run_daily *)

\* administrator triggers that are not settled
Due == {t \in DOMAIN trigger : trigger[t].st \notin Settled}

\* claim_reconciliation takes the oldest; 0 when there is none
Oldest == IF Due = {} THEN 0 ELSE Min(Due)

\* catch_up_dates: at most CatchUp ascending dates
WalkEnd(first, last) == Min({first + CatchUp - 1, last})

\* the clock, claim_reconciliation, and the walk of the requested runner
Start(c) ==
    /\ cron[c].pc = "off"
    /\ UNCHANGED <<latest, job, inputs, history, faults>>
    /\ LET claim == ClaimLocked(trigger[Oldest])
           started == [Off EXCEPT !.last = latest, !.pc = "cursors"]
       IN  IF Oldest = 0
           THEN trigger' = trigger /\ cron' = [cron EXCEPT ![c] = started]
           ELSE /\ trigger' = [trigger EXCEPT ![Oldest] = claim.job]
                /\ cron' = [cron EXCEPT ![c] =
                       IF claim.disposition # "run" THEN started
                       ELSE [started EXCEPT !.pc = "snapshot", !.trigger = Oldest,
                                            !.held = claim.job.attempt,
                                            !.date = Max({1, latest - CatchUp + 1})]]

\* both cursors and the first date; trailing corrections once the latest date
\* is reported.  The two cursor reads see disjoint rows.
Cursors(c) ==
    /\ cron[c].pc = "cursors"
    /\ UNCHANGED <<latest, job, trigger, inputs, history, faults>>
    /\ LET last == cron[c].last
           reports == LatestSucceeded("report", last)
           reportNext == NextDate(reports, last)
           retentionNext == NextDate(LatestSucceeded("retention", last), last)
           trailing == IF reports = last THEN {Max({1, last - CatchUp + 1})} ELSE {}
           first == Min({reportNext, retentionNext} \cup trailing)
       IN  cron' = [cron EXCEPT ![c].pc = "report", ![c].date = first,
                                ![c].end = WalkEnd(first, last),
                                ![c].reportNext = reportNext,
                                ![c].retentionNext = retentionNext]

-----------------------------------------------------------------------------
(* One date: daily_execution.py *)

\* the report's outcome is known; the same date's retention is next, except
\* for a forced run, which retains once after its last date
ReportDone(c, ok) ==
    LET w == cron[c]
    IN  cron' = [cron EXCEPT ![c].reportOk = @ /\ ok, ![c].held = IF w.trigger # 0 THEN @ ELSE 0,
                             ![c].snap = NoSnap, ![c].ok = TRUE,
                             ![c].failed = @ \/ (w.trigger # 0 /\ ~ok),
                             ![c].pc = IF w.trigger = 0 THEN "retention"
                                       ELSE IF w.date = w.last THEN "retain" ELSE "snapshot",
                             ![c].date = IF w.trigger # 0 /\ w.date < w.last THEN @ + 1 ELSE @]

\* report_outcome up to the work
Report(c) ==
    LET w == cron[c]
        claim == ClaimLocked(job["report"][w.date])
        claims == w.date >= w.reportNext /\ w.reportOk
    IN  /\ w.pc = "report"
        /\ job' = IF claims THEN [job EXCEPT !["report"][w.date] = claim.job] ELSE job
        /\ IF w.date < w.reportNext \/ (claims /\ claim.disposition = "succeeded")
           THEN Goto(c, "snapshot")
           ELSE IF claims /\ claim.disposition = "run"
           THEN cron' = [cron EXCEPT ![c].pc = "snapshot", ![c].held = claim.job.attempt]
           ELSE ReportDone(c, FALSE)
        /\ UNCHANGED <<latest, trigger, inputs, history, faults>>

\* coordinator.reconcile: the transaction's snapshot of facts and versions
Snapshot(c) ==
    /\ cron[c].pc = "snapshot"
    /\ cron' = [cron EXCEPT ![c].pc = "append",
                            ![c].snap = [hash |-> inputs[cron[c].date].hash,
                                         ver |-> inputs[cron[c].date].ver,
                                         seen |-> Len(history[cron[c].date])]]
    /\ UNCHANGED <<latest, job, trigger, inputs, history, faults>>

\* a regular run finishes its job next, corrections and forced runs have none
Worked(c, ok) ==
    IF cron[c].held # 0 /\ cron[c].trigger = 0
    THEN cron' = [cron EXCEPT ![c].pc = "finish", ![c].ok = ok]
    ELSE ReportDone(c, ok)

\* append_in_session under REPEATABLE READ: locking the report row fails when a
\* version was committed since the snapshot, and a first report of the date
\* that the snapshot does not show fails on uq_daily_report_date.
Current(c) == cron[c].snap.seen = Len(history[cron[c].date])

\* the latest version carries the same schema and input_set_hash
SameIdentity(c) ==
    LET versions == history[cron[c].date]
    IN  versions # <<>> /\ versions[Len(versions)].hash = cron[c].snap.hash

\* uq_report_input_identity covers every version of the date, not the latest only
IdentityTaken(c) ==
    \E n \in DOMAIN history[cron[c].date] : history[cron[c].date][n].hash = cron[c].snap.hash

\* Mutant: a changed report replaces the latest version of its date.
AppendReportInPlace(c) ==
    LET d == cron[c].date
        version == [hash |-> cron[c].snap.hash, ver |-> cron[c].snap.ver]
        kept == IF history[d] = <<>> THEN <<>> ELSE SubSeq(history[d], 1, Len(history[d]) - 1)
    IN  /\ cron[c].pc = "append"
        /\ \/ ~Current(c) /\ history' = history /\ Worked(c, FALSE)
           \/ /\ Current(c)
              /\ history' = [history EXCEPT ![d] = Append(kept, version)]
              /\ Worked(c, TRUE)
        /\ UNCHANGED <<latest, job, trigger, inputs, faults>>

\* _append_locked
AppendReport(c) ==
    LET d == cron[c].date
        version == [hash |-> cron[c].snap.hash, ver |-> cron[c].snap.ver]
    IN  /\ cron[c].pc = "append"
        /\ \/ ~Current(c) /\ history' = history /\ Worked(c, FALSE)
           \/ Current(c) /\ SameIdentity(c) /\ history' = history /\ Worked(c, TRUE)
           \/ /\ Current(c) /\ ~SameIdentity(c) /\ IdentityTaken(c)
              /\ history' = history /\ Worked(c, FALSE)
           \/ /\ Current(c) /\ ~SameIdentity(c) /\ ~IdentityTaken(c)
              /\ history' = [history EXCEPT ![d] = Append(@, version)]
              /\ Worked(c, TRUE)
        /\ UNCHANGED <<latest, job, trigger, inputs, faults>>

\* any other failure of the reconciliation: RECONCILIATION_FAILURES
ReportFails(c) ==
    /\ cron[c].pc \in {"snapshot", "append"} /\ faults < MaxFaults
    /\ faults' = faults + 1
    /\ Worked(c, FALSE)
    /\ UNCHANGED <<latest, job, trigger, inputs, history>>

\* finish of the report job; a lost lease raises through run_daily
FinishReport(c) ==
    LET w == cron[c]
        j == job["report"][w.date]
    IN  /\ w.pc = "finish"
        /\ IF Holds(j, w.held)
           THEN job' = [job EXCEPT !["report"][w.date] = Finished(j, w.ok)] /\ ReportDone(c, w.ok)
           ELSE job' = job /\ Die(c)
        /\ UNCHANGED <<latest, trigger, inputs, history, faults>>

\* the next date of the walk, or the response
RetentionDone(c, ok) ==
    LET w == cron[c]
    IN  cron' = [cron EXCEPT ![c] =
            IF w.date < w.end THEN [w EXCEPT !.pc = "report", !.date = @ + 1, !.held = 0, !.ok = TRUE,
                                   !.retentionOk = @ /\ ok]
            ELSE Off]

\* retention_outcome up to the work
Retention(c) ==
    LET w == cron[c]
        claim == ClaimLocked(job["retention"][w.date])
        claims == w.date >= w.retentionNext /\ w.retentionOk
    IN  /\ w.pc = "retention"
        /\ job' = IF claims THEN [job EXCEPT !["retention"][w.date] = claim.job] ELSE job
        /\ IF claims /\ claim.disposition = "run"
           THEN cron' = [cron EXCEPT ![c].pc = "retain", ![c].held = claim.job.attempt]
           ELSE RetentionDone(c, w.date < w.retentionNext
                                 \/ (claims /\ claim.disposition = "succeeded"))
        /\ UNCHANGED <<latest, trigger, inputs, history, faults>>

\* retention.reconcile, regular or forced
Retain(c) ==
    /\ cron[c].pc = "retain"
    /\ \/ faults' = faults
          /\ cron' = [cron EXCEPT ![c].pc = "finishRetention", ![c].ok = TRUE]
       \/ /\ faults < MaxFaults /\ faults' = faults + 1
          /\ cron' = [cron EXCEPT ![c].pc = "finishRetention", ![c].ok = FALSE,
                                  ![c].failed = cron[c].trigger # 0]
    /\ UNCHANGED <<latest, job, trigger, inputs, history>>

\* finish of the retention job, or of the administrator trigger
FinishRetention(c) ==
    LET w == cron[c]
        j == IF w.trigger = 0 THEN job["retention"][w.date] ELSE trigger[w.trigger]
    IN  /\ w.pc = "finishRetention"
        /\ IF ~Holds(j, w.held) THEN UNCHANGED <<job, trigger>> /\ Die(c)
           ELSE IF w.trigger # 0
           THEN /\ trigger' = [trigger EXCEPT ![w.trigger] = Finished(j, ~w.failed)]
                /\ job' = job /\ Die(c)
           ELSE /\ job' = [job EXCEPT !["retention"][w.date] = Finished(j, w.ok)]
                /\ trigger' = trigger /\ RetentionDone(c, w.ok)
        /\ UNCHANGED <<latest, inputs, history, faults>>

-----------------------------------------------------------------------------
(* Surroundings *)

\* admin reconcile_daily with a new request id; a known one inserts nothing
RequestReconciliation ==
    /\ Len(trigger) < MaxTriggers
    /\ trigger' = Append(trigger, Queued)
    /\ UNCHANGED <<latest, job, inputs, history, cron, faults>>

\* collection, analysis and configuration change what a date's report reads
ChangeInputs(d, h) ==
    /\ inputs[d].hash # h /\ inputs[d].ver < MaxChanges
    /\ inputs' = [inputs EXCEPT ![d] = [hash |-> h, ver |-> @.ver + 1]]
    /\ UNCHANGED <<latest, job, trigger, history, cron, faults>>

\* fifteen minutes pass since the claim of a job
GoesStale ==
    /\ \/ \E k \in Kinds, d \in Dates :
              job[k][d].fresh /\ job' = [job EXCEPT ![k][d].fresh = FALSE] /\ trigger' = trigger
       \/ \E t \in DOMAIN trigger :
              trigger[t].fresh /\ trigger' = [trigger EXCEPT ![t].fresh = FALSE] /\ job' = job
    /\ UNCHANGED <<latest, inputs, history, cron, faults>>

\* midnight in Seoul; an invocation may run across one of them
NextDay ==
    /\ latest < LastDate /\ \A c \in Crons : cron[c].last \in {0, latest}
    /\ latest' = latest + 1
    /\ UNCHANGED <<job, trigger, inputs, history, cron, faults>>

\* the platform ends an invocation between two transactions
Crash(c) ==
    /\ cron[c].pc # "off" /\ faults < MaxFaults
    /\ faults' = faults + 1 /\ Die(c)
    /\ UNCHANGED <<latest, job, trigger, inputs, history>>

Step(c) ==
    \/ Cursors(c) \/ Report(c) \/ Snapshot(c) \/ AppendReport(c) \/ FinishReport(c)
    \/ Retention(c) \/ Retain(c) \/ FinishRetention(c)

Next ==
    \/ \E c \in Crons : Start(c) \/ Step(c) \/ ReportFails(c) \/ Crash(c)
    \/ \E d \in Dates, h \in Hashes : ChangeInputs(d, h)
    \/ RequestReconciliation \/ GoesStale \/ NextDay

Spec == Init /\ [][Next]_vars

\* A started invocation goes on unless the platform ends it, the platform
\* starts one every day (the last modelled day stands for all that follow),
\* and time passes.
Fairness ==
    /\ \A c \in Crons : WF_vars(Step(c)) /\ WF_vars(Start(c))
    /\ WF_vars(GoesStale) /\ WF_vars(NextDay)

FairSpec == Spec /\ Fairness

-----------------------------------------------------------------------------
(* Properties *)

Version == [hash : Hashes, ver : 0..MaxChanges]

\* Jobs, triggers, versions and invocations stay in their domains; a version's
\* revision is its place in the history of its date.
TypeOK ==
    /\ latest \in Dates
    /\ job \in [Kinds -> [Dates -> Job]]
    /\ trigger \in Seq(Job)
    /\ inputs \in [Dates -> Version]
    /\ history \in [Dates -> Seq(Version)]
    /\ faults \in 0..MaxFaults
    /\ \A c \in Crons :
          /\ cron[c].pc \in Stage
          /\ cron[c].date \in 0..LastDate /\ cron[c].date <= cron[c].last
          /\ cron[c].held \in 0..MaxAttempts

\* The dates that succeeded form one unbroken stretch for each kind of job,
\* however invocations overlap, crash and cross midnight: the catch-up cursor
\* reads only the largest of them.
NoGap ==
    \A k \in Kinds, d, e \in Dates :
        job[k][d].st = "succeeded" /\ job[k][e].st = "succeeded"
            => \A x \in d..e : job[k][x].st = "succeeded"

\* A report job that succeeded left a report of its date.
SucceededIsReported ==
    \A d \in Dates : job["report"][d].st = "succeeded" => history[d] # <<>>

\* Two invocations never hold the same lease of one job: after a takeover the
\* old holder's attempt is no longer the row's.
HeldJob(c) ==
    IF cron[c].held = 0 THEN <<>>
    ELSE IF cron[c].trigger # 0 THEN <<"trigger", cron[c].trigger, cron[c].held>>
    ELSE IF cron[c].pc \in {"retain", "finishRetention"}
    THEN <<"retention", cron[c].date, cron[c].held>>
    ELSE <<"report", cron[c].date, cron[c].held>>
LeaseExclusive ==
    \A c1, c2 \in Crons : c1 # c2 /\ HeldJob(c1) # <<>> => HeldJob(c1) # HeldJob(c2)

\* Corrections never go back in time: a later revision of a date was projected
\* from facts at least as new as those of the revision before it.
RevisionsAdvance ==
    \A d \in Dates : \A n \in 2..Len(history[d]) :
        history[d][n - 1].ver < history[d][n].ver

\* What the job rows and the report histories promise at every moment, however
\* invocations overlap, crash, cross midnight and outlive their lease.
DailyJobsSound ==
    TypeOK /\ NoGap /\ SucceededIsReported /\ LeaseExclusive /\ RevisionsAdvance

\* The SQL repository, with its snapshots, locks, unique constraints and
\* concurrent writers, appends as the in-memory reference adapter does.
Reference == INSTANCE ReportRepository WITH
    histories <- [d \in Dates |-> [n \in DOMAIN history[d] |-> history[d][n].hash]]
ImplementsRepository == Reference!RepositorySpec

\* Once a kind has a first success, every later complete date succeeds unless
\* it or a date before it is given up after its last attempt.
CatchesUp ==
    \A k \in Kinds, d \in Dates :
        (d <= latest /\ \E e \in 1..d : job[k][e].st = "succeeded")
            ~> \/ job[k][d].st = "succeeded"
               \/ \E e \in 1..d : job[k][e].st = "terminal"

\* Every administrator trigger is served to the end or given up, also when the
\* invocation that claimed it died.
TriggersSettle ==
    \A t \in 1..MaxTriggers :
        t \in DOMAIN trigger ~> (t \in DOMAIN trigger /\ trigger[t].st \in Settled)

\* A reconciliation that read changed facts, with no version committed since,
\* appends a revision: the documented contract, which the unique constraint on
\* all revisions of a date breaks when the facts return to an earlier value.
ChangedInputAppends ==
    [][\A c \in Crons :
          /\ cron[c].pc = "append" /\ cron'[c].pc # "append" /\ faults' = faults
          /\ Current(c) /\ ~SameIdentity(c)
          => history'[cron[c].date] # history[cron[c].date]]_vars
=============================================================================
