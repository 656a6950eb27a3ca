------------------------------- MODULE Cadence -------------------------------
(***************************************************************************)
(* The thirty-day cadence evidence: the epoch contract and its workflow    *)
(* slots, the workflow runs that post one attempt each, the API recorder   *)
(* (SqlCadenceWorkflowRecorder) that decides whether an attempt earns the  *)
(* slot, the release scripts' own store (PostgresCadenceStore) that writes *)
(* the same tables, and the release gate that reports the cadence.         *)
(*                                                                         *)
(* Every recorder call is one transaction under the epoch's advisory lock, *)
(* so it is one step; what interleaves is the runs around it.              *)
(***************************************************************************)
EXTENDS Naturals, FiniteSets

CONSTANTS
    Slots,            \* workflow slots of the epoch
    Due,              \* due_at of each slot
    StartLimit,       \* 30 (collection) or 5 (verifier) minutes, scaled
    CompletionLimit,  \* 36 or 8 minutes, scaled
    ClosesAt,         \* window_closes_at
    Runs,             \* GitHub workflow runs
    MaxRunAttempts,   \* bound: attempts of one GitHub run
    MaxTime,          \* bound: the database clock
    Modes,            \* workflow modes the runs of an instance use
    Outcomes,         \* what an operation reports of its two sources: all
                      \* succeeded, a failure safe to retry, one that is not,
                      \* or results for another source set
    DirectStore,      \* may PostgresCadenceStore.record_attempt be called
    None

\* Why an attempt earns nothing ("multiple_rows": its query raises, and no row is
\* written).
Reasons ==
    {"epoch_invalidated", "source_set_mismatch", "source_failed", "manual_mode_excluded",
     "duplicate_after_acceptance", "retry_proof_invalid", "multiple_rows",
     "initial_attempt_already_recorded", "retry_attempt_already_recorded",
     "started_early", "started_late", "completed_before_start", "completed_late"}

ASSUME CadenceAssumption ==
    /\ Due \in [Slots -> Nat] /\ StartLimit \in Nat /\ CompletionLimit \in Nat
    /\ ClosesAt \in Nat /\ MaxTime \in Nat /\ MaxRunAttempts \in Nat \ {0}
    /\ Modes \subseteq {"schedule", "retry", "manual"}
    /\ Outcomes \subseteq {"ok", "safe_terminal", "hold", "wrong_sources"}
    /\ DirectStore \in BOOLEAN
    /\ None \notin Slots \cup (Runs \X (1..MaxRunAttempts)) \cup Reasons

VARIABLES
    now,        \* transaction_timestamp()
    contract,   \* cadence_epoch_contracts row: "none", "live", "invalidated"
    current,    \* latest transition active, source enabled, pointers on this epoch
    accepted,   \* cadence_workflow_slots.accepted_attempt_id
    attempts,   \* cadence_workflow_attempts by attempt id
    runs,       \* the workflow runs
    prior,      \* a cadence-status receipt exists
    report      \* the last cadence receipt's status

vars == <<now, contract, current, accepted, attempts, runs, prior, report>>

AttemptIds == Runs \X (1..MaxRunAttempts)

Recorded == {a \in AttemptIds : attempts[a] # None}

Idle == [phase |-> "idle", attempt |-> 0, slot |-> None, mode |-> None,
         cadence |-> 0, pred |-> None, started |-> 0, completed |-> 0,
         outcome |-> None, answer |-> None]

Init ==
    /\ now = 0 /\ contract = "none" /\ current = TRUE
    /\ accepted = [s \in Slots |-> None]
    /\ attempts = [a \in AttemptIds |-> None]
    /\ runs = [r \in Runs |-> Idle]
    /\ prior = FALSE /\ report = "none"

-----------------------------------------------------------------------------
(* The rules an attempt is judged by.                                      *)

\* The id is a digest of slot, workflow, run and run attempt; a run attempt
\* has one slot.
AttemptId(r) == <<r, runs[r].attempt>>

BasicReason(p) ==
    IF contract = "invalidated" THEN "epoch_invalidated"
    ELSE IF p.outcome = "wrong_sources" THEN "source_set_mismatch"
    ELSE IF p.outcome # "ok" THEN "source_failed"
    ELSE IF p.mode = "manual" THEN "manual_mode_excluded"
    ELSE None

TimeReason(p, clock) ==
    IF p.started < Due[p.slot] THEN "started_early"
    ELSE IF p.started >= Due[p.slot] + StartLimit THEN "started_late"
    ELSE IF p.completed < p.started THEN "completed_before_start"
    ELSE IF p.completed >= p.started + CompletionLimit \/ p.completed > clock THEN "completed_late"
    ELSE None

\* The rows the logical-duplicate query returns; more than one raises.
LogicalAttempts(p) ==
    {a \in Recorded : attempts[a].slot = p.slot
                      /\ attempts[a].cadence = p.cadence}

LogicalDuplicate(p) ==
    IF LogicalAttempts(p) = {} THEN None
    ELSE IF Cardinality(LogicalAttempts(p)) > 1 THEN "multiple_rows"
    ELSE IF p.cadence = 1 THEN "initial_attempt_already_recorded"
    ELSE "retry_attempt_already_recorded"

RetryProof(p) ==
    /\ p.pred \in Recorded
    /\ ~attempts[p.pred].accepted
    /\ attempts[p.pred].retry
    /\ attempts[p.pred].slot = p.slot

\* Mutant: any recorded predecessor of the slot authorizes a retry.
BranchReasonUnproved(p) ==
    IF p.mode = "retry" /\ p.pred \notin Recorded
      THEN "retry_proof_invalid" ELSE LogicalDuplicate(p)

BranchReason(p) ==
    IF p.mode = "retry" /\ ~RetryProof(p)
      THEN "retry_proof_invalid" ELSE LogicalDuplicate(p)

\* Mutant: the epoch's invalidation is only checked by the gate.
RejectionReasonStale(p) ==
    IF p.outcome = "wrong_sources" THEN "source_set_mismatch"
    ELSE IF p.outcome # "ok" THEN "source_failed"
    ELSE IF p.mode = "manual" THEN "manual_mode_excluded"
    ELSE IF accepted[p.slot] # None THEN "duplicate_after_acceptance"
    ELSE IF BranchReason(p) # None THEN BranchReason(p)
    ELSE TimeReason(p, now)

RejectionReason(p) ==
    IF BasicReason(p) # None THEN BasicReason(p)
    ELSE IF accepted[p.slot] # None THEN "duplicate_after_acceptance"
    ELSE IF BranchReason(p) # None THEN BranchReason(p)
    ELSE TimeReason(p, now)

RetryPermitted(p, reason) ==
    /\ reason = "source_failed"
    /\ p.mode = "schedule" /\ p.cadence = 1
    /\ p.outcome = "safe_terminal"
    /\ p.completed < Due[p.slot] + StartLimit

\* attempt_rejection of the release scripts: the same rules in another order,
\* without the predecessor and the logical duplicates.
AttemptRejection(p) ==
    IF p.mode = "manual" THEN "manual_mode_excluded"
    ELSE IF p.outcome = "wrong_sources" THEN "source_set_mismatch"
    ELSE IF p.outcome # "ok" THEN "source_failed"
    ELSE TimeReason(p, MaxTime)

RetryAllowed(p, reason) ==
    /\ reason \notin {"duplicate_after_acceptance", "duplicate_attempt",
                      "manual_mode_excluded", "epoch_invalidated", "started_late"}
    /\ p.completed < Due[p.slot] + StartLimit

\* A replayed post must repeat every stored field of the request.
SameAttempt(p, row) ==
    /\ <<p.slot, p.mode, p.cadence, p.pred>> = <<row.slot, row.mode, row.cadence, row.pred>>
    /\ <<p.started, p.completed, p.outcome>> = <<row.started, row.completed, row.outcome>>

-----------------------------------------------------------------------------
(* Writing an attempt: insert, compare-and-set of the slot, finalize.      *)

Row(p, reason, credited, retry) ==
    [slot |-> p.slot, mode |-> p.mode, cadence |-> p.cadence, pred |-> p.pred,
     started |-> p.started, completed |-> p.completed, outcome |-> p.outcome,
     accepted |-> credited, reason |-> reason, retry |-> retry]

CasSlot(a, p, eligible) ==
    IF eligible /\ accepted[p.slot] = None
      THEN [accepted EXCEPT ![p.slot] = a] ELSE accepted

WriteAttempt(a, p, reason, retry) ==
    LET eligible == reason = None
        credited == eligible /\ accepted[p.slot] = None
        final == IF credited THEN "accepted"
                 ELSE IF eligible THEN "duplicate_after_acceptance" ELSE reason
    IN /\ accepted' = CasSlot(a, p, eligible)
       /\ attempts' = [attempts EXCEPT ![a] = Row(p, final, credited, retry /\ ~credited)]

-----------------------------------------------------------------------------
(* The epoch.                                                              *)

\* lock_and_verify: the epoch's latest transition is active, its source enabled,
\* both pointers name this epoch and it is not closed.
EpochCurrent == current

\* verify_contract: the retained contract equals the caller's, which was
\* computed for an epoch that is not invalidated.
ContractAgrees == contract = "live"

\* cadence --phase initial: contract and slots in one transaction, a second
\* call compares the retained contract and changes nothing.
Materialize ==
    /\ EpochCurrent /\ contract = "none"
    /\ contract' = "live"
    /\ UNCHANGED <<now, current, accepted, attempts, runs, prior, report>>

\* The privacy incident adapter disables the source, appends the deactivation
\* and invalidates the contract in one transaction.
Invalidate ==
    /\ current
    /\ current' = FALSE
    /\ contract' = IF contract = "none" THEN "none" ELSE "invalidated"
    /\ UNCHANGED <<now, accepted, attempts, runs, prior, report>>

Tick ==
    /\ now < MaxTime
    /\ now' = now + 1
    /\ UNCHANGED <<contract, current, accepted, attempts, runs, prior, report>>

-----------------------------------------------------------------------------
(* The workflow runs.                                                      *)

\* The latest slot that is due; a clock before the first slot names a slot
\* outside the epoch.
ScheduledSlot ==
    LET due == {s \in Slots : Due[s] <= now}
    IN IF due = {} THEN None
       ELSE CHOOSE s \in due : \A t \in due : Due[t] <= Due[s]

Begin(r, attempt, mode, slot, pred) ==
    runs' = [runs EXCEPT ![r] =
        [phase |-> "running", attempt |-> attempt, slot |-> slot, mode |-> mode,
         cadence |-> IF mode = "retry" THEN 2 ELSE 1, pred |-> pred, started |-> now,
         completed |-> 0, outcome |-> None, answer |-> None]]

\* A scheduled or manual run resolves its slot; a retry is dispatched for a
\* slot with the id of a failed attempt.
StartRun(r, mode) ==
    /\ runs[r].phase = "idle" /\ mode \in Modes
    /\ IF mode = "retry"
         THEN \E a \in Recorded : ~attempts[a].accepted
                                  /\ Begin(r, 1, mode, attempts[a].slot, a)
         ELSE Begin(r, 1, mode, ScheduledSlot, None)
    /\ UNCHANGED <<now, contract, current, accepted, attempts, prior, report>>

\* The operation ends and writes its result file.
FinishRun(r, outcome) ==
    /\ runs[r].phase = "running"
    /\ runs' = [runs EXCEPT ![r].phase = "finished", ![r].completed = now,
                            ![r].outcome = outcome]
    /\ UNCHANGED <<now, contract, current, accepted, attempts, prior, report>>

\* The client's check of the receipt it gets: a success must be credited (a
\* manual run excepted), a failure must not be.
ReceiptOk(p, credited) ==
    IF p.outcome = "ok" THEN p.mode = "manual" \/ credited ELSE ~credited

Answer(r, ok, answer) ==
    runs' = [runs EXCEPT ![r].phase = IF ok THEN "done" ELSE "failed",
                         ![r].answer = answer]

\* The recorder's transaction, and the answer the client sees unless it is
\* lost. A second post of the same attempt replays the stored receipt.
Record(r, lost) ==
    /\ runs[r].phase = "finished" \/ (runs[r].phase = "failed" /\ runs[r].outcome # None)
    /\ LET p == runs[r]
           a == AttemptId(r)
           reason == IF p.slot = None THEN None ELSE RejectionReason(p)
           credited == reason = None
       IN \/ /\ attempts[a] # None
             /\ Answer(r, ~lost /\ SameAttempt(p, attempts[a])
                          /\ ReceiptOk(p, attempts[a].accepted), attempts[a].reason)
             /\ UNCHANGED <<accepted, attempts>>
          \/ /\ attempts[a] = None
             /\ \/ (contract = "none" \/ p.slot = None) /\ Answer(r, FALSE, "refused")
                \/ /\ contract # "none" /\ p.slot # None /\ reason = "multiple_rows"
                   /\ Answer(r, FALSE, "error")
             /\ UNCHANGED <<accepted, attempts>>
          \/ /\ attempts[a] = None /\ contract # "none" /\ p.slot # None
             /\ reason # "multiple_rows"
             /\ WriteAttempt(a, p, reason, RetryPermitted(p, reason))
             /\ Answer(r, ~lost /\ ReceiptOk(p, credited),
                       IF credited THEN "accepted" ELSE reason)
    /\ UNCHANGED <<now, contract, current, prior, report>>

\* PostgresCadenceStore.record_attempt of the same attempt: it demands the
\* current activation and the caller's contract, and answers a second post as a
\* duplicate.
StoreRecord(r) ==
    /\ DirectStore /\ runs[r].phase = "finished"
    /\ LET p == runs[r]
           a == AttemptId(r)
           reason == IF p.slot # None /\ accepted[p.slot] # None
                       THEN "duplicate_after_acceptance" ELSE AttemptRejection(p)
       IN IF EpochCurrent /\ ContractAgrees /\ p.slot # None /\ attempts[a] = None
            THEN /\ WriteAttempt(a, p, reason, reason # None /\ RetryAllowed(p, reason))
                 /\ Answer(r, TRUE, IF reason = None THEN "accepted" ELSE reason)
            ELSE /\ Answer(r, FALSE, "refused")
                 /\ UNCHANGED <<accepted, attempts>>
    /\ UNCHANGED <<now, contract, current, prior, report>>

\* GitHub re-runs a failed run under the next run attempt, with the same event
\* and inputs; a scheduled run resolves its slot again.  The workflows test that
\* GITHUB_RUN_ATTEMPT is 1, so a re-run of theirs posts nothing: the recorder takes
\* any run attempt, and its properties do not rest on the workflows' test.
Rerun(r) ==
    /\ runs[r].phase = "failed" \/ (runs[r].phase = "done" /\ runs[r].outcome # "ok")
    /\ runs[r].attempt < MaxRunAttempts
    /\ Begin(r, runs[r].attempt + 1, runs[r].mode,
             IF runs[r].mode = "retry" THEN runs[r].slot ELSE ScheduledSlot,
             runs[r].pred)
    /\ UNCHANGED <<now, contract, current, accepted, attempts, prior, report>>

-----------------------------------------------------------------------------
(* The release gate reads a repeatable-read snapshot.                      *)

Status ==
    /\ contract # "none"
    /\ prior' = TRUE /\ report' = "pending"
    /\ UNCHANGED <<now, contract, current, accepted, attempts, runs>>

Complete ==
    /\ now >= ClosesAt
    /\ contract = "live"
    /\ \A s \in Slots : accepted[s] # None

Acceptance ==
    /\ contract # "none" /\ prior
    /\ report' = IF Complete THEN "complete" ELSE "hold"
    /\ UNCHANGED <<now, contract, current, accepted, attempts, runs, prior>>

-----------------------------------------------------------------------------
Next ==
    \/ Tick \/ Materialize \/ Invalidate \/ Status \/ Acceptance
    \/ \E r \in Runs :
        \/ \E m \in Modes : StartRun(r, m)
        \/ \E o \in Outcomes : FinishRun(r, o)
        \/ \E lost \in BOOLEAN : Record(r, lost)
        \/ StoreRecord(r)
        \/ Rerun(r)

Spec == Init /\ [][Next]_vars

-----------------------------------------------------------------------------
(* Properties.                                                             *)

RowType ==
    [slot : Slots, mode : Modes, cadence : {1, 2}, pred : AttemptIds \cup {None},
     started : 0..MaxTime, completed : 0..MaxTime, outcome : Outcomes,
     accepted : BOOLEAN, reason : Reasons \cup {"accepted"}, retry : BOOLEAN]

\* An attempt that is not recorded is no row.
ASSUME NoneAssumption == None \notin RowType

\* Types of the cadence tables.
TypeOK ==
    /\ now \in 0..MaxTime /\ contract \in {"none", "live", "invalidated"}
    /\ accepted \in [Slots -> AttemptIds \cup {None}]
    /\ \A a \in Recorded : attempts[a] \in RowType
    /\ report \in {"none", "pending", "hold", "complete"}

\* The slot's pointer and the attempts' accepted flags agree: the attempts that
\* claim the credit of a slot are exactly the one its row points to, whichever
\* of the two recorders wrote it (cadence_workflow_slots.accepted_attempt_id
\* against uq_cadence_accepted_slot).
PointerAgrees ==
    \A a \in AttemptIds, s \in Slots :
        accepted[s] = a <=> (a \in Recorded /\ attempts[a].accepted /\ attempts[a].slot = s)

\* A credited attempt ran all its sources, started inside the slot's start
\* window and completed inside the completion limit: a run whose answer is lost,
\* that is re-run or that is posted late never earns a slot it missed.
CreditIsTimely ==
    \A s \in Slots : accepted[s] # None =>
        LET row == attempts[accepted[s]]
        IN /\ row.outcome = "ok" /\ row.mode # "manual"
           /\ row.started >= Due[s] /\ row.started < Due[s] + StartLimit
           /\ row.completed < row.started + CompletionLimit

\* A retry that earns the slot follows a first attempt of the same slot that
\* failed safely inside the start window and was never credited itself.
CreditedRetryIsProved ==
    \A s \in Slots : (accepted[s] # None /\ attempts[accepted[s]].mode = "retry") =>
        LET pred == attempts[attempts[accepted[s]].pred]
        IN /\ pred # None /\ pred.slot = s /\ ~pred.accepted /\ pred.cadence = 1
           /\ pred.outcome = "safe_terminal"
           /\ pred.completed < Due[s] + StartLimit

\* Evidence is append-only: an attempt once recorded keeps its verdict and a
\* slot once earned keeps its attempt, through re-runs, replays and renewed
\* posts; and no slot is earned once the epoch is invalidated, even by a run
\* that started and finished before the invalidation.
EvidenceStep ==
    /\ \A a \in Recorded : attempts'[a] = attempts[a]
    /\ \A s \in Slots : accepted[s] # None => accepted'[s] = accepted[s]
    /\ contract = "invalidated" => accepted' = accepted

EvidenceKept == [][EvidenceStep]_vars

\* COMPLETE is reported only of a closed window whose every slot has a timely
\* credit; later steps cannot take that back.
CompleteIsEarned ==
    report = "complete" => now >= ClosesAt /\ \A s \in Slots : accepted[s] # None

\* A slot points to the one attempt that earned it, which ran on time, all its
\* sources succeeding, and, if it was a retry, after a first attempt that had
\* failed safely; COMPLETE is reported only of a closed window of earned slots.
\* Runs are lost, re-run, replayed and posted late (SqlCadenceWorkflowRecorder).
CreditSound ==
    TypeOK /\ PointerAgrees /\ CreditIsTimely /\ CreditedRetryIsProved /\ CompleteIsEarned

\* What retry_permitted says of itself: "Permit only one still-timely explicit
\* retry of a failed first attempt".
OneRetryPermit ==
    \A s \in Slots :
        Cardinality({a \in Recorded : attempts[a].slot = s /\ attempts[a].retry}) <= 1

\* What record says of itself: "Record idempotently or retain a fail-closed
\* noncredit attempt": a post for a slot of the epoch always leaves a row.
PostIsRetained ==
    \A r \in Runs :
        runs[r].answer \notin {None, "refused"} => AttemptId(r) \in Recorded
=============================================================================
