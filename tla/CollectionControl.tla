------------------------- MODULE CollectionControl -------------------------
(***************************************************************************)
(* The collector control plane: command dispatch, leases, claims, page     *)
(* commits against the per-source checkpoint, skip proofs, completion with *)
(* publications, and recovery of abandoned commands.  Every repository     *)
(* method is one database transaction over locked rows, hence one action.  *)
(*                                                                         *)
(* Clients are arbitrary: any request may arrive at any time, again, or    *)
(* with the credentials of an older attempt.  A crashed collector is one   *)
(* that sends nothing more; a duplicated or delayed call is a request that *)
(* arrives once more or late.  A rejected request changes nothing.         *)
(***************************************************************************)
EXTENDS Naturals, Sequences, FiniteSets

CONSTANTS
    Commands,          \* rows of collection_commands
    Sources,           \* community sources of the scope
    Cursors,           \* provider page cursors
    NoCursor,          \* NULL cursor
    MaxAttempts,       \* MAX_COMMAND_ATTEMPTS
    ReservationStale,  \* RESERVATION_STALE_SECONDS in ticks
    ExecutionStale,    \* EXECUTION_STALE_SECONDS in ticks
    RetryDelay,        \* retry_delay_seconds in ticks
    PageCap,           \* configured reviewed_page_cap
    BudgetLevels,      \* budget levels a claim may meet
    MaxRevision,       \* bound on checkpoint revisions
    MaxDecisions       \* bound on authorization decisions per source

\* budget_decisions, as far as a run's page cap depends on the row
BudgetDecision == {"allow", "soft_limit", "hard_stop"}

ASSUME ControlAssumption ==
    /\ NoCursor \notin Cursors
    /\ MaxAttempts \in Nat \ {0}
    /\ ReservationStale \in Nat
    /\ ExecutionStale \in Nat
    /\ ReservationStale <= ExecutionStale
    /\ RetryDelay \in Nat
    /\ PageCap \in Nat \ {0}
    /\ BudgetLevels \subseteq BudgetDecision
    /\ MaxRevision \in Nat
    /\ MaxDecisions \in Nat

VARIABLES
    command,     \* collection_commands, "absent" before insertion
    run,         \* collection_runs by <<command, attempt, source>>
    pages,       \* page_commits of each run, in ordinal order
    checkpoint,  \* source_checkpoints
    source,      \* community_sources and their authorization decisions
    published,   \* source_run_publication_manifests in sequence order
    receipts     \* command_completions

vars == <<command, run, pages, checkpoint, source, published, receipts>>

Attempts == 1..MaxAttempts
Runs == Commands \X Attempts \X Sources
CursorOrNull == Cursors \cup {NoCursor}
SkipStatus == {"skipped_policy", "skipped_quota"}
FailStatus == {"failed_retryable", "failed_terminal"}
OutcomeStatus == {"succeeded"} \cup SkipStatus \cup FailStatus
CommandStatus ==
    {"absent", "queued", "dispatch_reserved", "dispatched", "running",
     "succeeded", "partial", "skipped"} \cup FailStatus
LeasedStatus == {"dispatch_reserved", "dispatched", "running"}
\* decision_kind of collection_skip_observations
SkipKinds == {"policy", "quota"}
TerminalReason == {"none", "source_exhausted", "reviewed_page_cap"}

\* Secrets are drawn afresh for every reservation: the n-th reservation of a
\* command issues lease n, together with its nonce and its completion key.
NoLease == 0
Leases == 1..MaxAttempts

\* A command row not inserted yet.
AbsentCommand ==
    [status |-> "absent", attempt |-> 1, issued |-> 0, lease |-> NoLease,
     sources |-> {}, age |-> 0, wait |-> 0]

\* A run row not inserted yet.
NoRun ==
    [status |-> "none", lease |-> NoLease, auth |-> 0, budget |-> "allow",
     start |-> 0, first |-> NoCursor, count |-> 0, final |-> NoCursor,
     sealed |-> FALSE, skip |-> "none", proof |-> 0]

\* Runs of the command's current attempt.
CurrentRuns(c) ==
    {r \in Runs : /\ r[1] = c
                  /\ r[2] = command[c].attempt
                  /\ run[r].status # "none"}

-----------------------------------------------------------------------------
(* Authorization *)

\* require_active_authorization; an "expired" decision is an approval whose
\* window has passed.
Authorized(s) ==
    /\ source[s].enabled
    /\ source[s].active # 0
    /\ source[s].decisions[source[s].active] = "approved"

\* _authorization_snapshot as validate_new_page_commit uses it: the decision
\* the run was claimed on is still the active one, and in force.
RunAuthorized(r) ==
    /\ source[r[3]].active = run[r].auth
    /\ Authorized(r[3])

\* monitor_require_running_source_authorization, the trigger on every write of
\* a running collection_runs row
RunsWritable(c) == \A r \in CurrentRuns(c) : Authorized(r[3])

\* _require_completion_authorization for a run finished by its collector
CompletionAuthorized(r) ==
    LET s == source[r[3]]
    IN  IF run[r].skip = "policy"
        THEN s.active = run[r].proof /\ ~s.enabled
        ELSE RunAuthorized(r)

\* ... and for a run finished by recovery, where a decision replaced since the
\* claim is enough as long as the source is enabled.
RecoveryAuthorized(r) ==
    LET s == source[r[3]]
    IN  \/ CompletionAuthorized(r)
        \/ run[r].skip # "policy" /\ s.active # run[r].auth /\ s.enabled

-----------------------------------------------------------------------------
(* Claim policy *)

\* derive_claim_budget: the page cap granted under a budget level
ReviewedCap(level) ==
    CASE level = "allow" -> PageCap
      [] level = "soft_limit" -> IF PageCap \div 2 > 1 THEN PageCap \div 2 ELSE 1
      [] level = "hard_stop" -> 0

\* _reviewed_caps: the page cap recorded with the claim.
Cap(r) == ReviewedCap(run[r].budget)

\* claim_source_policies: every source of the command is authorized, also one
\* that needs no further run.
ClaimAuthorized(c) == \A s \in command[c].sources : Authorized(s)

\* Status of the latest attempt of a source, "none" if it never ran.
LatestStatus(c, s) ==
    LET tried == {a \in Attempts : run[<<c, a, s>>].status # "none"}
    IN  IF tried = {} THEN "none"
        ELSE run[<<c, CHOOSE a \in tried : \A b \in tried : b <= a, s>>].status

\* Mutant: every retry collects every source again.
EligibleAll(c) == command[c].sources

\* eligible_retry_sources
EligibleSources(c) ==
    {s \in command[c].sources : LatestStatus(c, s) \in {"none", "failed_retryable"}}

\* Mutant: the partial unique index is missing.
NoIndex(s) == TRUE

\* uq_collection_runs_active_source_scope
NoActiveRun(s) == \A r \in Runs : r[3] = s => run[r].status # "running"

-----------------------------------------------------------------------------
(* Page commits *)

PageRequests ==
    [ord : 0..(PageCap - 1), rev : 0..MaxRevision, from : CursorOrNull,
     next : CursorOrNull, asked : TerminalReason]

\* page_request of the collector: the idempotency key is derived from the
\* run and from the position the page was fetched at.
PageKey(req) == <<req.ord, req.rev, req.from>>

\* server_terminal_request: the reason after the server's own page-cap marker
ServerReason(r, req) ==
    IF run[r].count + 1 = Cap(r) /\ req.asked = "none"
    THEN "reviewed_page_cap"
    ELSE req.asked

\* Commits already stored under the key of a request.
SameKey(r, req) == {i \in 1..Len(pages[r]) : PageKey(pages[r][i]) = PageKey(req)}

\* prepare_page_commit resolving a stored key: the request hash covers every
\* field of the request together with the server's reason.
ReplayMatches(r, i, req) ==
    LET stored == pages[r][i]
    IN  /\ stored.next = req.next
        /\ stored.reason = ServerReason(r, req)

\* Mutant: the run's own status and lease are not compared.
LeaseLoose(r, l) ==
    /\ command[r[1]].status = "running"
    /\ run[r].status # "none"

\* validate_new_page_commit: lease ownership
OwnsLease(r, l) ==
    /\ command[r[1]].status = "running"
    /\ command[r[1]].lease = l
    /\ run[r].status = "running"
    /\ run[r].lease = l

\* Mutant: the ordinal is checked, the checkpoint is not.
OrdinalOnly(r, req) == req.ord = run[r].count

\* validate_new_page_commit: compare-and-swap on the checkpoint and ordinal
CasMatches(r, req) ==
    /\ req.rev = checkpoint[r[3]].revision
    /\ req.from = checkpoint[r[3]].cursor
    /\ req.ord = run[r].count

\* validate_new_page_commit, the stream itself
StreamOpen(r) ==
    /\ ~run[r].sealed
    /\ run[r].count < Cap(r)

\* validate_terminal_cap.  The post and byte caps depend on the items of the
\* page, which are not modelled; they seal like "source_exhausted".
TerminalCapValid(r, req) ==
    ServerReason(r, req) = "reviewed_page_cap" => run[r].count + 1 = Cap(r)

\* advance_checkpoint
AdvanceCheckpoint(r, req) ==
    [checkpoint EXCEPT
        ![r[3]] = [@ EXCEPT !.revision = checkpoint[r[3]].revision + 1,
                            !.cursor = req.next]]

\* advance_run
AdvanceRun(r, req) ==
    [run EXCEPT
        ![r] = [@ EXCEPT !.count = run[r].count + 1, !.final = req.next,
                         !.sealed = ServerReason(r, req) # "none"]]

\* The page_commits row.
NewPage(r, req) ==
    [ord |-> req.ord, rev |-> req.rev, from |-> req.from, next |-> req.next,
     asked |-> req.asked, reason |-> ServerReason(r, req)]

-----------------------------------------------------------------------------
(* Completion *)

\* _verify_persisted_chain for a submission that repeats the stored facts
ChainVerified(r) ==
    LET stored == pages[r]
    IN  /\ run[r].count = Len(stored)
        /\ run[r].final = checkpoint[r[3]].cursor
        /\ run[r].final = IF stored = <<>> THEN run[r].first
                          ELSE stored[Len(stored)].next

\* _success_publication
SuccessProved(r) ==
    /\ run[r].sealed
    /\ pages[r] # <<>>
    /\ pages[r][Len(pages[r])].reason # "none"
    /\ checkpoint[r[3]].revision = pages[r][Len(pages[r])].rev + 1

\* _verify_skip
SkipProved(r, st) ==
    /\ run[r].skip = IF st = "skipped_policy" THEN "policy" ELSE "quota"
    /\ pages[r] = <<>>
    /\ ~run[r].sealed

\* verify_failure: a stream with its terminal page is no failure.
FailureProved(r) == ~run[r].sealed

\* _prepare_run: whether the run may end with this status
MayFinish(r, st) ==
    /\ run[r].status = "running"
    /\ ChainVerified(r)
    /\ st = "succeeded" => SuccessProved(r)
    /\ st \in SkipStatus => SkipProved(r, st)
    /\ st \in FailStatus => FailureProved(r)

\* aggregate_command_status over the set of run statuses
Aggregate(sts) ==
    IF sts = {"succeeded"} THEN "succeeded"
    ELSE IF "succeeded" \in sts THEN "partial"
    ELSE IF sts \subseteq SkipStatus THEN "skipped"
    ELSE IF "failed_retryable" \in sts THEN "failed_retryable"
    ELSE "failed_terminal"

\* Mutant: every completion clears the lease.
FinalizedAlwaysUnlocked(c, st) ==
    [command[c] EXCEPT !.status = st, !.age = 0, !.lease = NoLease]

\* persist_completion_plan for the command row: only a retryable command
\* gives up its lease, and only below the attempt limit is it delayed.
Finalized(c, st) ==
    [command[c] EXCEPT
        !.status = st,
        !.age = 0,
        !.lease = IF st = "failed_retryable" THEN NoLease ELSE @,
        !.wait = IF st = "failed_retryable" /\ command[c].attempt < MaxAttempts
                 THEN RetryDelay ELSE @]

\* Mutant: failed and skipped runs are published too.
WinnersAll(plan) == DOMAIN plan

\* Runs of a plan that succeed.
Winners(plan) == {r \in DOMAIN plan : plan[r] = "succeeded"}

\* apply_run_state for every run of a plan
FinishRuns(plan) ==
    [r \in Runs |-> IF r \in DOMAIN plan
                    THEN [run[r] EXCEPT !.status = plan[r]]
                    ELSE run[r]]

\* last_completed_run_id of the winners' checkpoints
MarkCompleted(plan) ==
    [s \in Sources |->
        IF \E r \in Winners(plan) : r[3] = s
        THEN [checkpoint[s] EXCEPT
                !.done = <<CHOOSE r \in Winners(plan) : r[3] = s>>]
        ELSE checkpoint[s]]

\* _persist_publications: the next sequence number of each winner's source
Publish(plan) ==
    [s \in Sources |->
        IF \E r \in Winners(plan) : r[3] = s
        THEN Append(published[s], CHOOSE r \in Winners(plan) : r[3] = s)
        ELSE published[s]]

-----------------------------------------------------------------------------
(* Recovery *)

\* Mutant: abandoned reservations and dispatches are never stale.
StaleRunningOnly(c) ==
    command[c].status = "running" /\ command[c].age > ExecutionStale

\* mark_stale: strictly older than the limit of the status
Stale(c) ==
    \/ command[c].status = "dispatch_reserved" /\ command[c].age > ReservationStale
    \/ command[c].status \in {"dispatched", "running"} /\ command[c].age > ExecutionStale

\* _release_abandoned
Released(c) ==
    LET exhausted == command[c].attempt >= MaxAttempts
    IN  [command[c] EXCEPT
            !.status = IF exhausted THEN "failed_terminal" ELSE "failed_retryable",
            !.wait = IF exhausted THEN 0 ELSE RetryDelay,
            !.lease = NoLease,
            !.age = 0]

\* Every run of the attempt has its terminal page.
AllReady(c) == \A r \in CurrentRuns(c) : run[r].sealed

\* prepare_stale_recovery makes a plan: every run is sealed, or the lease died.
Planned(c) ==
    /\ command[c].status = "running"
    /\ CurrentRuns(c) # {}
    /\ AllReady(c) \/ Stale(c)

\* _recovery_outcome
RecoveryOutcome(r) ==
    IF run[r].sealed THEN "succeeded"
    ELSE IF command[r[1]].attempt >= MaxAttempts THEN "failed_terminal"
    ELSE "failed_retryable"

\* Command status of the plan: unfinished work below the limit is retried even
\* next to a success.
RecoveryStatus(c) ==
    IF ~AllReady(c) /\ command[c].attempt < MaxAttempts
    THEN "failed_retryable"
    ELSE Aggregate({RecoveryOutcome(r) : r \in CurrentRuns(c)})

\* _reconcile_command for the command row
Reconciled(c) ==
    IF Planned(c) THEN Finalized(c, RecoveryStatus(c))
    ELSE IF Stale(c) THEN Released(c)
    ELSE command[c]

\* Outcomes recovery gives to the runs of every planned command.
RecoveryPlan ==
    [r \in UNION {CurrentRuns(c) : c \in {k \in Commands : Planned(k)}} |->
        RecoveryOutcome(r)]

\* _reconcile_command raises for any running command whose runs are no longer
\* authorized, stale or not, and whenever a planned outcome is refuted.
RecoveryRefused(c) ==
    /\ command[c].status = "running"
    /\ \E r \in CurrentRuns(c) :
        \/ ~RecoveryAuthorized(r)
        \/ Planned(c) /\ ~MayFinish(r, RecoveryOutcome(r))

-----------------------------------------------------------------------------
(* Operations of the collection repository *)

Init ==
    /\ command = [c \in Commands |-> AbsentCommand]
    /\ run = [r \in Runs |-> NoRun]
    /\ pages = [r \in Runs |-> <<>>]
    /\ checkpoint = [s \in Sources |->
                        [revision |-> 0, cursor |-> NoCursor, done |-> <<>>]]
    /\ source = [s \in Sources |->
                    [enabled |-> TRUE, active |-> 1, decisions |-> <<"approved">>]]
    /\ published = [s \in Sources |-> <<>>]
    /\ receipts = [c \in Commands |-> {}]

\* A freshly inserted command row.
Queued(srcs) ==
    [AbsentCommand EXCEPT !.status = "queued", !.sources = srcs]

\* materialize_slots: the sources a new slot is for.
EnabledSources == {s \in Sources : source[s].enabled}

\* materialize: insert the commands of the slots that have come due, then
\* reconcile every leased command; one refused command fails the whole call.
Materialize(due) ==
    /\ EnabledSources # {}
    /\ \A c \in due : command[c].status = "absent"
    /\ \A c \in Commands : ~RecoveryRefused(c)
    /\ command' = [c \in Commands |->
                    IF c \in due THEN Queued(EnabledSources) ELSE Reconciled(c)]
    /\ run' = FinishRuns(RecoveryPlan)
    /\ checkpoint' = MarkCompleted(RecoveryPlan)
    /\ published' = Publish(RecoveryPlan)
    /\ UNCHANGED <<pages, source, receipts>>

\* retry_collection: an administrator queues chosen active sources.
RetryCollection(c, srcs) ==
    /\ command[c].status = "absent"
    /\ srcs # {}
    /\ \A s \in srcs : Authorized(s)
    /\ command' = [command EXCEPT ![c] = Queued(srcs)]
    /\ UNCHANGED <<run, pages, checkpoint, source, published, receipts>>

\* Mutant: a retry stays on its attempt number.
SameAttempt(c) == command[c].attempt

\* reserve_dispatch: the attempt a reservation opens
NextAttempt(c) ==
    IF command[c].status = "failed_retryable"
    THEN command[c].attempt + 1 ELSE command[c].attempt

\* Mutant: the limit is compared with the old attempt.
AttemptsLeftInclusive(c) == command[c].attempt <= MaxAttempts

\* reserve_dispatch: MAX_COMMAND_ATTEMPTS is not exceeded.
AttemptsLeft(c) == NextAttempt(c) <= MaxAttempts

\* The credentials of claim_command: attempt, and lease with its nonce.
CredentialsMatch(c, a, l) ==
    /\ command[c].attempt = a
    /\ command[c].lease = l

\* reserve_dispatch: the row after a due command got its next attempt, a nonce
\* and a lease.
Reserved(c) ==
    [command[c] EXCEPT !.status = "dispatch_reserved",
                       !.attempt = NextAttempt(c),
                       !.issued = command[c].issued + 1,
                       !.lease = command[c].issued + 1,
                       !.age = 0]

\* confirm_dispatch: the row after the workflow dispatch was accepted.
Confirmed(c) == [command[c] EXCEPT !.status = "dispatched", !.age = 0]

\* reserve
Reserve(c) ==
    /\ command[c].status \in {"queued", "failed_retryable"}
    /\ command[c].wait = 0
    /\ command[c].lease = NoLease
    /\ AttemptsLeft(c)
    /\ command' = [command EXCEPT ![c] = Reserved(c)]
    /\ UNCHANGED <<run, pages, checkpoint, source, published, receipts>>

\* confirm
Confirm(c, a, l) ==
    /\ command[c].status = "dispatch_reserved"
    /\ CredentialsMatch(c, a, l)
    /\ command' = [command EXCEPT ![c] = Confirmed(c)]
    /\ UNCHANGED <<run, pages, checkpoint, source, published, receipts>>

\* start_run with the claim's policy snapshot
StartedRun(c, s, level) ==
    [NoRun EXCEPT
        !.status = "running",
        !.lease = command[c].lease,
        !.auth = source[s].active,
        !.budget = level,
        !.start = checkpoint[s].revision,
        !.first = checkpoint[s].cursor,
        !.final = checkpoint[s].cursor,
        !.skip = IF level = "hard_stop" THEN "quota" ELSE "none"]

\* claim: one run per source still to be collected; a repeated claim of a
\* running command changes nothing.
Claim(c, a, l, level) ==
    /\ command[c].status \in {"dispatch_reserved", "dispatched"}
    /\ CredentialsMatch(c, a, l)
    /\ ClaimAuthorized(c)
    /\ \A s \in command[c].sources : LatestStatus(c, s) # "running"
    /\ CurrentRuns(c) = {}
    /\ EligibleSources(c) # {}
    /\ \A s \in EligibleSources(c) : NoActiveRun(s)
    /\ run' = [r \in Runs |->
                IF r[1] = c /\ r[2] = a /\ r[3] \in EligibleSources(c)
                THEN StartedRun(c, r[3], level[r[3]])
                ELSE run[r]]
    /\ command' = [command EXCEPT
                    ![c] = [@ EXCEPT !.status = "running", !.age = 0]]
    /\ UNCHANGED <<pages, checkpoint, source, published, receipts>>

\* heartbeat: the runs are rewritten too, which the database refuses while
\* one of their sources is not authorized (trg_collection_runs_authorization).
Heartbeat(c, a, l) ==
    /\ command[c].status = "running"
    /\ CredentialsMatch(c, a, l)
    /\ RunsWritable(c)
    /\ command' = [command EXCEPT ![c] = [@ EXCEPT !.age = 0]]
    /\ UNCHANGED <<run, pages, checkpoint, source, published, receipts>>

\* commit_page, when the request is not a replay
CommitPage(r, l, req) ==
    /\ OwnsLease(r, l)
    /\ StreamOpen(r)
    /\ CasMatches(r, req)
    /\ SameKey(r, req) = {}
    /\ RunAuthorized(r)
    /\ TerminalCapValid(r, req)
    /\ checkpoint[r[3]].revision < MaxRevision
    /\ pages' = [pages EXCEPT ![r] = Append(@, NewPage(r, req))]
    /\ run' = AdvanceRun(r, req)
    /\ checkpoint' = AdvanceCheckpoint(r, req)
    /\ UNCHANGED <<command, source, published, receipts>>

\* Mutant: committed pages are not looked at.
FreshSkip(r) == run[r].skip = "none"

\* _require_live_zero_commit
LiveZeroCommit(r) ==
    /\ command[r[1]].age <= ExecutionStale
    /\ run[r].count = 0
    /\ pages[r] = <<>>
    /\ run[r].skip = "none"

\* attach_policy_proof: a revocation replaces the active decision.
RevokeSource(s) ==
    [source EXCEPT
        ![s] = [enabled |-> FALSE,
                active |-> Len(source[s].decisions) + 1,
                decisions |-> Append(source[s].decisions, "revoked")]]

\* attach_quota_proof: the (immutable) budget record the run was claimed on
\* derives a hard stop.
QuotaProvable(r) == run[r].budget = "hard_stop"

\* attach_skip_decision: a policy proof also revokes the source.
AttachSkip(r, l, kind) ==
    /\ OwnsLease(r, l)
    /\ command[r[1]].attempt = r[2]
    /\ LiveZeroCommit(r)
    /\ RunAuthorized(r)
    /\ kind = "quota" => QuotaProvable(r)
    /\ kind = "policy" => Len(source[r[3]].decisions) < MaxDecisions
    /\ source' = IF kind = "quota" THEN source ELSE RevokeSource(r[3])
    /\ run' = [run EXCEPT
                ![r] = [@ EXCEPT !.skip = kind,
                                 !.proof = IF kind = "policy"
                                           THEN Len(source[r[3]].decisions) + 1 ELSE 0]]
    /\ UNCHANGED <<command, pages, checkpoint, published, receipts>>

\* complete: one outcome per run of the attempt, all or nothing
Complete(c, a, l, plan) ==
    /\ CredentialsMatch(c, a, l)
    /\ \A rec \in receipts[c] : rec.lease # l
    /\ command[c].status = "running"
    /\ DOMAIN plan # {}
    /\ \A r \in DOMAIN plan : CompletionAuthorized(r) /\ MayFinish(r, plan[r])
    /\ LET st == Aggregate({plan[r] : r \in DOMAIN plan})
       IN  /\ command' = [command EXCEPT ![c] = Finalized(c, st)]
           /\ receipts' = [receipts EXCEPT
                            ![c] = @ \cup {[attempt |-> a, lease |-> l, status |-> st]}]
    /\ run' = FinishRuns(plan)
    /\ checkpoint' = MarkCompleted(plan)
    /\ published' = Publish(plan)
    /\ UNCHANGED <<pages, source>>

-----------------------------------------------------------------------------
(* Environment *)

\* The database clock.  Only distances to a command's anchors matter: age to
\* the anchor of its status, wait to available_at.
Tick ==
    LET aged(c) == command[c].status \in LeasedStatus /\ command[c].age <= ExecutionStale
        waits(c) == command[c].wait > 0
    IN  /\ \E c \in Commands : aged(c) \/ waits(c)
        /\ command' = [c \in Commands |->
                        [command[c] EXCEPT !.age = IF aged(c) THEN @ + 1 ELSE @,
                                           !.wait = IF waits(c) THEN @ - 1 ELSE @]]
        /\ UNCHANGED <<run, pages, checkpoint, source, published, receipts>>

\* The window of the active approval ends; the source row is not touched.
Expire(s) ==
    /\ source[s].enabled
    /\ source[s].decisions[source[s].active] = "approved"
    /\ source' = [source EXCEPT ![s].decisions[source[s].active] = "expired"]
    /\ UNCHANGED <<command, run, pages, checkpoint, published, receipts>>

\* DISABLE_SOURCE
Disable(s) ==
    /\ source[s].active # 0
    /\ source' = [source EXCEPT ![s].enabled = FALSE, ![s].active = 0]
    /\ UNCHANGED <<command, run, pages, checkpoint, published, receipts>>

\* A new approval becomes active: ACTIVATE_SOURCE from the fully disabled state,
\* or the authorization repair of an enabled, approved source.
Activate(s) ==
    /\ Len(source[s].decisions) < MaxDecisions
    /\ Authorized(s) \/ (~source[s].enabled /\ source[s].active = 0)
    /\ source' = [source EXCEPT
                    ![s] = [enabled |-> TRUE,
                            active |-> Len(source[s].decisions) + 1,
                            decisions |-> Append(source[s].decisions, "approved")]]
    /\ UNCHANGED <<command, run, pages, checkpoint, published, receipts>>

-----------------------------------------------------------------------------
\* source_outcomes of a completion request: one asserted outcome per run
Outcomes(c) == [CurrentRuns(c) -> OutcomeStatus]

MaterializeSome == \E due \in SUBSET Commands : Materialize(due)

Request(c) ==
    \/ Reserve(c)
    \/ \E srcs \in SUBSET Sources : RetryCollection(c, srcs)
    \/ \E a \in Attempts, l \in Leases :
        \/ Confirm(c, a, l)
        \/ Heartbeat(c, a, l)
        \/ \E level \in [Sources -> BudgetLevels] : Claim(c, a, l, level)
        \/ \E plan \in Outcomes(c) : Complete(c, a, l, plan)

RunRequest(r) ==
    \E l \in Leases :
        \/ \E req \in PageRequests : CommitPage(r, l, req)
        \/ \E kind \in SkipKinds : AttachSkip(r, l, kind)

Operator(s) == Expire(s) \/ Disable(s) \/ Activate(s)

Next ==
    \/ MaterializeSome
    \/ \E c \in Commands : Request(c)
    \/ \E r \in Runs : RunRequest(r)
    \/ \E s \in Sources : Operator(s)
    \/ Tick

Spec == Init /\ [][Next]_vars

\* The collector workflow calls materialize on its cron schedule, and time
\* passes.  Nothing else is promised: a collector may stop at any point.
Fairness == WF_vars(MaterializeSome) /\ WF_vars(Tick)

FairSpec == Spec /\ Fairness

-----------------------------------------------------------------------------
(* Properties *)

CommandRow ==
    [status : CommandStatus, attempt : Attempts, issued : 0..MaxAttempts,
     lease : 0..MaxAttempts, sources : SUBSET Sources,
     age : 0..(ExecutionStale + 1), wait : 0..RetryDelay]

RunRow ==
    [status : {"none", "running"} \cup OutcomeStatus, lease : 0..MaxAttempts,
     auth : Nat, budget : BudgetDecision, start : Nat,
     first : CursorOrNull, count : Nat, final : CursorOrNull, sealed : BOOLEAN,
     skip : {"none"} \cup SkipKinds, proof : Nat]

PageRow ==
    [ord : Nat, rev : Nat, from : CursorOrNull, next : CursorOrNull,
     asked : TerminalReason, reason : TerminalReason]

CheckpointRow == [revision : Nat, cursor : CursorOrNull, done : Seq(Runs)]

Receipt == [attempt : Attempts, lease : Leases, status : CommandStatus]

\* Every table keeps its column types; in particular attempts and leases stay
\* within the attempt limit.
TypeOK ==
    /\ command \in [Commands -> CommandRow]
    /\ run \in [Runs -> RunRow]
    /\ pages \in [Runs -> Seq(PageRow)]
    /\ checkpoint \in [Sources -> CheckpointRow]
    /\ source \in [Sources -> [enabled : BOOLEAN, active : Nat,
                               decisions : Seq({"approved", "expired", "revoked"})]]
    /\ published \in [Sources -> Seq(Runs)]
    /\ receipts \in [Commands -> SUBSET Receipt]

\* Reservation n of a command opens attempt n and nothing else does: no attempt
\* ever has two leases, so credentials of an older attempt match no later one.
OneLeasePerAttempt ==
    \A c \in Commands :
        /\ command[c].issued = IF command[c].status \in {"absent", "queued"}
                               THEN 0 ELSE command[c].attempt
        /\ command[c].lease \in {NoLease, command[c].issued}
        /\ command[c].status \in {"absent", "queued"} => command[c].attempt = 1
        /\ command[c].status \in LeasedStatus => command[c].lease # NoLease

\* The pages committed for a source, as positions <<run, index>>.
Committed(s) ==
    UNION {{r} \X (1..Len(pages[r])) : r \in {q \in Runs : q[3] = s}}

PageAt(p) == pages[p[1]][p[2]]

LogGapFree(s) ==
    /\ \A p \in Committed(s) : PageAt(p).rev < checkpoint[s].revision
    /\ \A n \in 0..(checkpoint[s].revision - 1) :
        \E p \in Committed(s) : PageAt(p).rev = n

LogUnique(s) ==
    \A p, q \in Committed(s) : PageAt(p).rev = PageAt(q).rev => p = q

LogLinked(s) ==
    \A p, q \in Committed(s) :
        PageAt(q).rev = PageAt(p).rev + 1 => PageAt(q).from = PageAt(p).next

LogEndsAtCheckpoint(s) ==
    \A p \in Committed(s) :
        PageAt(p).rev + 1 = checkpoint[s].revision
            => checkpoint[s].cursor = PageAt(p).next

\* Exactly-once page log.  Whatever attempts, commands and stale collectors
\* did, the pages of a source form one gap-free sequence: every revision below
\* the checkpoint was consumed by exactly one commit, each commit continues
\* from the cursor the previous one left, and the checkpoint stands at the end.
CheckpointIsLog ==
    \A s \in Sources :
        LogGapFree(s) /\ LogUnique(s) /\ LogLinked(s) /\ LogEndsAtCheckpoint(s)

\* Command and runs never drift apart: the active runs are exactly the runs of
\* the current attempt of running commands, held under the command's lease,
\* and no run exists for an attempt that was never reserved.
RunsFollowCommand ==
    /\ \A c \in Commands :
        command[c].status = "running" =>
            CurrentRuns(c) # {} /\ \A r \in CurrentRuns(c) : run[r].status = "running"
    /\ \A r \in Runs : run[r].status = "running" =>
        /\ command[r[1]].status = "running"
        /\ command[r[1]].attempt = r[2]
        /\ command[r[1]].lease = run[r].lease
    /\ \A r \in Runs : run[r].status # "none" => r[2] <= command[r[1]].attempt

\* Between claim and finalization a run is held under its command's lease and
\* has its source's checkpoint to itself: the checkpoint is where the run's own
\* pages took it, so neither completion nor recovery can meet a chain mismatch.
ActiveRunOwnsCheckpoint ==
    /\ RunsFollowCommand
    /\ \A r \in Runs : run[r].status = "running" =>
        /\ ChainVerified(r)
        /\ checkpoint[r[3]].revision = run[r].start + run[r].count
        /\ \A q \in Runs : run[q].status = "running" /\ q[3] = r[3] => q = r

\* A run that committed its terminal page is never finished as a failure or a
\* skip, by its collector or by recovery at any attempt.
SealedEndsInSuccess ==
    \A r \in Runs : run[r].sealed => run[r].status \in {"running", "succeeded"}

\* Every successful run is published exactly once for its source, nothing else
\* is, and the checkpoint names the last publication.
PublishedExactlyOnce ==
    /\ \A r \in Runs :
        Cardinality({i \in 1..Len(published[r[3]]) : published[r[3]][i] = r})
            = IF run[r].status = "succeeded" THEN 1 ELSE 0
    /\ \A s \in Sources :
        checkpoint[s].done = IF published[s] = <<>> THEN <<>>
                             ELSE <<published[s][Len(published[s])]>>

\* Within a command a source that succeeded, was skipped or failed for good is
\* never collected again by a later attempt.
SettledSourceNotRepeated ==
    \A c \in Commands, s \in Sources, a, b \in Attempts :
        /\ a < b
        /\ run[<<c, b, s>>].status # "none"
        => run[<<c, a, s>>].status \in {"none", "failed_retryable"}

\* A skip proof is only ever attached to a run that committed nothing, and
\* stays that way: no page slips in after the proof.
SkipProofMeansNoPages ==
    \A r \in Runs : run[r].skip # "none" => pages[r] = <<>>

\* How a run may end agrees with what it committed: pages sealed by a terminal
\* reason end in success, a skip proof stands for no pages at all.
OutcomeFollowsPages == SealedEndsInSuccess /\ SkipProofMeansNoPages

\* A completion that settled its command can be replayed for ever: the command
\* still has the receipt's attempt, lease and status.
SettledReceiptReplays ==
    \A c \in Commands : \A rec \in receipts[c] :
        rec.status # "failed_retryable" =>
            /\ command[c].attempt = rec.attempt
            /\ command[c].lease = rec.lease
            /\ command[c].status = rec.status

\* Once a run has ended, its row and its pages never change again, whoever
\* still holds the lease of an older attempt.
EndedRunsAreFrozen ==
    [][\A r \in Runs : run[r].status \in OutcomeStatus =>
            run'[r] = run[r] /\ pages'[r] = pages[r]]_vars

RecoveryPossible ==
    EnabledSources # {} /\ \A c \in Commands : ~RecoveryRefused(c)

\* A command whose collector has gone silent does not stay leased: unless an
\* authorization problem blocks recovery for good, it is finished or released.
AbandonedIsReleased ==
    \A c \in Commands :
        <>[]RecoveryPossible /\ <>[][\A a \in Attempts, l \in Leases : ~Heartbeat(c, a, l)]_vars
            => []<>(command[c].status \notin LeasedStatus)

-----------------------------------------------------------------------------
(* What the documents say and the code does not do *)

\* test_dispatch.py: "retryable work is schedulable and exhausted work is
\* terminal" - a retryable command still has an attempt left.
ExhaustedIsTerminal ==
    \A c \in Commands :
        command[c].status = "failed_retryable" => command[c].attempt < MaxAttempts

\* Contract 1.6: "The same key and request hash returns the identical stored
\* 200 response after completion" - for every receipt, whatever its status,
\* until the command starts another attempt.
CompletionReplayReturnsReceipt ==
    \A c \in Commands : \A rec \in receipts[c] :
        command[c].attempt = rec.attempt => command[c].lease = rec.lease

\* Contract 1.5: "Same page_request_hash and original lease identity: return
\* 200 with the byte-equivalent stored success response, even if later pages
\* or completion have advanced state" - repeating a committed request.
PageReplayReturnsCommit ==
    \A r \in Runs : \A i \in 1..Len(pages[r]) :
        ReplayMatches(r, i, pages[r][i])

\* Contract 1.7: "Reconciliation terminalizes the abandoned run as
\* retryable/terminal according to the existing attempt policy" - whatever
\* happened to the authorization of its source meanwhile, while some source is
\* enabled so that materialize comes to reconcile (recover_due_commands).
AbandonedRunIsTerminalized ==
    \A c \in Commands :
        (<>[](EnabledSources # {}) /\ <>[][\A a \in Attempts, l \in Leases : ~Heartbeat(c, a, l)]_vars)
            => []<>(command[c].status # "running")
=============================================================================
