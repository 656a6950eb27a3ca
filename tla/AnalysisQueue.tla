--------------------------- MODULE AnalysisQueue ---------------------------
(***************************************************************************)
(* The analysis queue: version-bound items, worker leases with expiry, the *)
(* bounded retry schedule and the capability gate in front of every lease. *)
(* Workers run one item at a time and may die, finish late or never.       *)
(*                                                                         *)
(* Times are distances to the clock: "wait" to available_at, "ttl" to      *)
(* lease_expires_at (negative once expired, as far back as a retry delay   *)
(* can reach).                                                             *)
(***************************************************************************)
EXTENDS Integers, Sequences, FiniteSets

CONSTANTS
    Items,          \* post versions
    Workers,        \* authenticated worker principals
    Requirements,   \* REQUIRED_CAPABILITIES
    LeaseDuration,  \* LEASE_DURATION in ticks
    RetryDelays,    \* RETRY_DELAYS in ticks, increasing
    MaxProofs       \* bound on stored capability proofs

\* What the model takes for granted about its parameters.
QueueAssumption ==
    /\ LeaseDuration \in Nat \ {0}
    /\ RetryDelays \in Seq(Nat) /\ RetryDelays # <<>>
    /\ MaxProofs \in Nat

VARIABLES
    item,      \* analysis_queue rows
    analyses,  \* analyses rows of each item: the leases that wrote them
    worker,    \* what each worker process holds
    proofs,    \* codex capability proofs
    granted    \* leases granted so far per item (history)

queueVars == <<item, analyses, worker, proofs, granted>>

QueueStatus == {"pending", "leased", "succeeded", "blocked_capability", "failed_retryable",
                "failed_terminal"}

\* lease_token_hash with leased_by_principal_id, written and cleared together.
Lease == [token : Nat, owner : Workers \cup {"none"}]

\* An analysis_queue row.
QueueItem ==
    [status : QueueStatus \cup {"absent"}, attempts : 0..Len(RetryDelays), wait : Nat,
     lease : Lease, ttl : Int]

\* An analyses row, known by the lease of the acknowledgement that wrote it.
Analysis == Nat

NoLease == [token |-> 0, owner |-> "none"]

\* What a worker holds: the item and the token that its lease was granted with
\* and that every later command of it carries.
Held    == [item : Items \cup {"none"}, token : Nat]
Nothing == [item |-> "none", token |-> 0]

MaxDelay == RetryDelays[Len(RetryDelays)]

AbsentItem ==
    [status |-> "absent", attempts |-> 0, wait |-> 0, lease |-> NoLease, ttl |-> 0]

-----------------------------------------------------------------------------
(* Capability gate *)

\* A stored proof: "current" stands for an approved proof of the expected
\* versions inside its window, the others for every way a proof can fail.
ProofKinds == {"current", "failed"}

\* A capability_proof_records row; the serial tells apart proofs of a kind.
Proof == [requirement : Requirements, kind : ProofKinds, serial : Nat]

\* evaluate_capabilities: exactly one proof for each requirement, and current
Approved ==
    \A q \in Requirements :
        LET candidates == {p \in proofs : p.requirement = q}
        IN  Cardinality(candidates) = 1 /\ \A p \in candidates : p.kind = "current"

-----------------------------------------------------------------------------
(* Transitions of queue.py *)

\* _require_leaseable and available_at
Leaseable(i) == item[i].status \in {"pending", "failed_retryable"} /\ item[i].wait = 0

\* _clear_lease
Cleared(i, st, wait) ==
    [item[i] EXCEPT !.status = st, !.wait = wait, !.lease = NoLease, !.ttl = 0]

\* _schedule_retry: interrupted "elapsed" ticks ago, retry after the delay of
\* the next attempt, or give up.
ScheduleRetry(i, elapsed) ==
    LET next == item[i].attempts + 1
        left == RetryDelays[next] - elapsed
    IN  IF item[i].attempts >= Len(RetryDelays)
        THEN Cleared(i, "failed_terminal", 0)
        ELSE [Cleared(i, "failed_retryable", IF left > 0 THEN left ELSE 0)
                EXCEPT !.attempts = next]

\* Mutant: any worker that ever had a lease of the item may acknowledge.
ActiveLeaseAny(w, i) == item[i].status = "leased" /\ item[i].ttl > 0

\* _require_active_lease: status, owner, token, expiry
ActiveLease(w, i) ==
    /\ item[i].status = "leased"
    /\ item[i].lease = [token |-> worker[w].token, owner |-> w]
    /\ item[i].ttl > 0

-----------------------------------------------------------------------------
QueueInit ==
    /\ item = [i \in Items |-> AbsentItem]
    /\ analyses = [i \in Items |-> <<>>]
    /\ worker = [w \in Workers |-> Nothing]
    /\ proofs = {}
    /\ granted = [i \in Items |-> 0]

\* persist_analysis_inputs: a second insert of the version does nothing.
Enqueue(i) ==
    /\ item[i].status = "absent"
    /\ item' = [item EXCEPT ![i] = [AbsentItem EXCEPT !.status = "pending"]]
    /\ UNCHANGED <<analyses, worker, proofs, granted>>

\* A proof record is stored; records are immutable.
AddProof(q, kind) ==
    /\ Cardinality(proofs) < MaxProofs
    /\ proofs' = proofs \cup {[requirement |-> q, kind |-> kind, serial |-> Cardinality(proofs)]}
    /\ UNCHANGED <<item, analyses, worker, granted>>

\* request_lease, granted
Grant(w, i) ==
    /\ Approved
    /\ worker[w] = Nothing
    /\ Leaseable(i)
    /\ granted' = [granted EXCEPT ![i] = @ + 1]
    /\ item' = [item EXCEPT
                    ![i] = [@ EXCEPT !.status = "leased", !.ttl = LeaseDuration,
                                     !.lease = [token |-> granted[i] + 1, owner |-> w]]]
    /\ worker' = [worker EXCEPT ![w] = [item |-> i, token |-> granted[i] + 1]]
    /\ UNCHANGED <<analyses, proofs>>

\* request_lease, denied: the row is blocked whatever its status was, and
\* nothing else of it is cleared.
Deny(i) ==
    /\ ~Approved
    /\ item[i].status # "absent"
    /\ item' = [item EXCEPT ![i].status = "blocked_capability"]
    /\ UNCHANGED <<analyses, worker, proofs, granted>>

\* heartbeat
Heartbeat(w) ==
    /\ worker[w] # Nothing
    /\ ActiveLease(w, worker[w].item)
    /\ item' = [item EXCEPT ![worker[w].item].ttl = LeaseDuration]
    /\ UNCHANGED <<analyses, worker, proofs, granted>>

\* The analysis that the acknowledgement of a lease writes.
AnalysisOf(lease) == lease.token

\* ack_success; the worker is done with the item.
AckSuccess(w) ==
    /\ worker[w] # Nothing
    /\ LET i == worker[w].item
       IN  /\ ActiveLease(w, i)
           /\ item' = [item EXCEPT ![i] = Cleared(i, "succeeded", 0)]
           /\ analyses' = [analyses EXCEPT ![i] = Append(@, AnalysisOf(worker[w]))]
    /\ worker' = [worker EXCEPT ![w] = Nothing]
    /\ UNCHANGED <<proofs, granted>>

\* ack_retryable_failure
AckFailure(w) ==
    /\ worker[w] # Nothing
    /\ LET i == worker[w].item
       IN  ActiveLease(w, i) /\ item' = [item EXCEPT ![i] = ScheduleRetry(i, 0)]
    /\ worker' = [worker EXCEPT ![w] = Nothing]
    /\ UNCHANGED <<analyses, proofs, granted>>

\* The worker ends without acknowledging: it died, its runner refused
\* (IsolationUnavailableError), or its acknowledgement was rejected.
Abandon(w) ==
    /\ worker[w] # Nothing
    /\ worker' = [worker EXCEPT ![w] = Nothing]
    /\ UNCHANGED <<item, analyses, proofs, granted>>

Recoverable(i) == item[i].status = "leased" /\ item[i].ttl <= 0

\* recover_expired_lease: the retry delay runs from the expiry.
Recover(i) ==
    /\ Recoverable(i)
    /\ item' = [item EXCEPT ![i] = ScheduleRetry(i, -item[i].ttl)]
    /\ UNCHANGED <<analyses, worker, proofs, granted>>

QueueTick ==
    LET moves(i) == item[i].wait > 0 \/ (item[i].status = "leased" /\ item[i].ttl > -MaxDelay)
    IN  /\ \E i \in Items : moves(i)
        /\ item' = [i \in Items |->
                    [item[i] EXCEPT
                        !.wait = IF @ > 0 THEN @ - 1 ELSE @,
                        !.ttl = IF item[i].status = "leased" /\ @ > -MaxDelay THEN @ - 1 ELSE @]]
        /\ UNCHANGED <<analyses, worker, proofs, granted>>

RecoverSome == \E i \in Items : Recover(i)

QueueNext ==
    \/ \E i \in Items : Enqueue(i) \/ Deny(i)
    \/ RecoverSome
    \/ \E w \in Workers : Heartbeat(w) \/ AckSuccess(w) \/ AckFailure(w) \/ Abandon(w)
    \/ \E w \in Workers, i \in Items : Grant(w, i)
    \/ \E q \in Requirements, kind \in ProofKinds : AddProof(q, kind)
    \/ QueueTick

QueueSpec == QueueInit /\ [][QueueNext]_queueVars

\* Time passes and expired leases are reclaimed; workers promise nothing.
QueueFairSpec == QueueSpec /\ WF_queueVars(QueueTick) /\ WF_queueVars(RecoverSome)

-----------------------------------------------------------------------------
(* Properties *)

\* Every table keeps its column types, attempts within analysis_attempt_range.
QueueTypeOK ==
    /\ item \in [Items -> QueueItem]
    /\ \A i \in Items : item[i].status = "leased" => item[i].lease # NoLease
    /\ analyses \in [Items -> Seq(Analysis)]
    /\ worker \in [Workers -> Held]
    /\ proofs \subseteq Proof
    /\ granted \in [Items -> Nat]

\* Work on an item is bounded: whatever mix of failures, expiries and dead
\* workers, it is leased at most once more than there are retry delays.
LeasesBounded == \A i \in Items : granted[i] <= Len(RetryDelays) + 1

\* A version is analysed at most once, and by the last lease granted: the late
\* output of a worker whose lease was reclaimed never gets in.
OnlyLastLeaseWrites ==
    \A i \in Items : analyses[i] = <<>> \/ analyses[i] = <<granted[i]>>

\* One bounded series of leases, at most one analysis, written by the last.
QueueSound == QueueTypeOK /\ LeasesBounded /\ OnlyLastLeaseWrites

\* A lease nobody works on any more is reclaimed, at every attempt number.
DeadLeaseReclaimed ==
    \A i \in Items :
        (item[i].status = "leased" /\ \A w \in Workers : worker[w].item # i)
            ~> item[i].status # "leased"

-----------------------------------------------------------------------------
(* What the documents say and the code does not do *)

\* queue.py on LeaseDenied: "Capability-blocked state that contains no lease
\* token" - a denied item holds no lease.
DeniedHoldsNoLease ==
    \A i \in Items : item[i].status = "blocked_capability" => item[i].lease = NoLease
=============================================================================
