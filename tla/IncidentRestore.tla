---------------------------- MODULE IncidentRestore ----------------------------
(***************************************************************************)
(* What follows an activation that has to be taken back: privacy-contain,  *)
(* privacy-purge and privacy-verify for an incident, and matrix-b-health   *)
(* with rollback-finalize for a technical failure.  They share the         *)
(* transition log of SourceActivation, under advisory locks of their own   *)
(* that exclude neither the binding script nor a migration.                *)
(***************************************************************************)
EXTENDS SourceActivation

CONSTANT MaxTargets     \* bound on the GitHub runs, artifacts and caches

ASSUME IncidentAssumption == MaxTargets \in Nat \ {0}

VARIABLES
    content,    \* what is left of the source: posts of the epoch's window or
                \* from before it, and the provider's logs
    targets,    \* GitHub objects the ledger names for the nonce
    deleted,    \* those of them that are gone
    incident,   \* the privacy commands' receipts and progress
    matrixB,    \* the Matrix-B health receipt, and the row finalize has read
    restored    \* who appended `restored`, for the properties

incVars == <<content, targets, deleted, incident, matrixB, restored>>
vars == <<actVars, incVars>>

\* The receipts of the privacy chain: how far it is, and the frozen graph.
Incident ==
    [stage : {"none", "contained", "purging", "purged", "proved", "restored"},
     graph : 0..MaxTargets]
NoIncident == [stage |-> "none", graph |-> 0]
NoHealth == [ok |-> FALSE, seen |-> 0]

Posts == content \cap {"window", "before"}

\* Collection while the source is linked; PURGE and ZERO tell the epoch's
\* window [anchor, expires) from the time between commit and anchor.
Collect ==
    /\ source.on
    /\ content' = content \cup {"logs", IF clock >= source.ptr.anchor
                                        THEN "window" ELSE "before"}
    /\ UNCHANGED <<actVars, targets, deleted, incident, matrixB, restored>>

\* The provider's logs run out of their retention.
LogsExpire ==
    /\ "logs" \in content /\ ~source.on
    /\ content' = content \ {"logs"}
    /\ UNCHANGED <<actVars, targets, deleted, incident, matrixB, restored>>

\* The ledger records a claimed run or an artifact of the nonce (TARGETS);
\* it matters once containment has frozen the graph.
NewTarget ==
    /\ targets < MaxTargets /\ incident.stage = "contained"
    /\ targets' = targets + 1
    /\ UNCHANGED <<actVars, content, deleted, incident, matrixB, restored>>

\* APPEND_DEACTIVATED and APPEND_RESTORED copy the latest row's identity and
\* do not ask for its successor.
AppendAfterLatest(state) ==
    /\ Room
    /\ log' = Append(log, Row(state, Generation, log[Latest].bound, Latest, Now,
                              Unlinked))

LogOnly == UNCHANGED <<start, intent, epochs, github, receipts, mut, acts, mig,
                       revision, clock>>

-----------------------------------------------------------------------------
(* privacy-contain.                                                         *)

\* _guard: the epoch of the nonce exists, and a transition does.
Guard(states) == epochs # {} /\ LatestState \in states

\* DISABLE and INVALIDATE.
Disable == source' = [source EXCEPT !.on = FALSE, !.ptr = Unlinked]

\* PrivacyDatabaseAdapter.contain, one transaction.
ContainDatabase ==
    /\ Guard({"active", "deactivated"})
    /\ Disable
    /\ AppendAfterLatest("deactivated")

\* privacy_contain: the receipt carries the frozen graph.
Contain ==
    /\ incident.stage \in {"none", "contained"}
    /\ ContainDatabase
    /\ incident' = [stage |-> "contained", graph |-> targets]
    /\ LogOnly /\ UNCHANGED <<content, targets, deleted, matrixB, restored>>

-----------------------------------------------------------------------------
(* privacy-purge.                                                           *)

\* frozen_graph_sha256 of what the ledger names now, against the receipt's.
SameGraph == incident.graph = targets

\* PrivacyDatabaseAdapter.purge: only runs of the epoch's window are affected.
PurgeContent ==
    /\ Guard({"deactivated", "restore_writing"})
    /\ content' = content \ {"window"}

\* privacy_purge as far as its database transaction.
PurgeDatabase ==
    /\ incident.stage = "contained" /\ SameGraph
    /\ PurgeContent
    /\ incident' = [incident EXCEPT !.stage = "purging"]
    /\ UNCHANGED <<actVars, targets, deleted, matrixB, restored>>

\* deletion_commands and execute: one object, whether it was there or not.
DeleteTarget(t) == deleted' = deleted \cup {t}

\* purge_github: one deletion at a time, the receipt after the last.
PurgeGitHub ==
    /\ incident.stage = "purging"
    /\ LET left == (1..incident.graph) \ deleted IN
       IF left = {}
       THEN /\ incident' = [incident EXCEPT !.stage = "purged"]
            /\ UNCHANGED deleted
       ELSE /\ \E t \in left : DeleteTarget(t)
            /\ UNCHANGED incident
    /\ UNCHANGED <<actVars, content, targets, matrixB, restored>>

\* A refused deletion: PRIVACY_HOLD before a receipt exists; purge is rerun.
PurgeHeld ==
    /\ incident.stage = "purging"
    /\ incident' = [incident EXCEPT !.stage = "contained"]
    /\ UNCHANGED <<actVars, content, targets, deleted, matrixB, restored>>

-----------------------------------------------------------------------------
(* privacy-verify.                                                          *)

\* PrivacyDatabaseAdapter.verify, verify_absent and the provider's verify.
DatabaseClean ==
    /\ Posts = {} /\ Inert
    /\ revision = 0 /\ LatestState = "restore_writing"
GitHubClean == 1..targets \subseteq deleted
ProviderClean == Posts = {} /\ "logs" \notin content

\* _hold_reasons, one per surface.
HoldReasons ==
    {s \in {"database", "github", "provider"} :
        ~[database |-> DatabaseClean, github |-> GitHubClean,
          provider |-> ProviderClean][s]}

\* matrix_proof: the health receipt closes the Matrix-B chain.
MatrixProof == matrixB.ok

\* privacy_verify as far as its proofs; with a reason left it writes a
\* PRIVACY_HOLD receipt and nothing changes.
VerifyReads ==
    /\ incident.stage = "purged" /\ MatrixProof /\ SameGraph
    /\ HoldReasons = {}
    /\ incident' = [incident EXCEPT !.stage = "proved"]
    /\ UNCHANGED <<actVars, content, targets, deleted, matrixB, restored>>

\* require_complete: the session holds all three proofs.
ProofsComplete == incident.stage = "proved"

\* append_restored, a transaction of its own after the proofs.
AppendRestored ==
    /\ ProofsComplete /\ Guard({"restore_writing"})
    /\ AppendAfterLatest("restored")
    /\ incident' = [incident EXCEPT !.stage = "restored"]
    /\ restored' = restored \cup {"privacy"}
    /\ LogOnly /\ UNCHANGED <<source, content, targets, deleted, matrixB>>

-----------------------------------------------------------------------------
(* The technical rollback.                                                  *)

\* rollback_database_snapshot and the checks on it.
RollbackDatabase ==
    revision = 0 /\ LatestState = "restore_writing" /\ Inert

\* Mutant: the health receipt does not ask for the binding's restoration.
MatrixBHealthNoBinding ==
    /\ ~matrixB.ok /\ RollbackDatabase
    /\ matrixB' = [matrixB EXCEPT !.ok = TRUE]
    /\ UNCHANGED <<actVars, content, targets, deleted, incident, restored>>

\* matrix_b_health: the inert database at 0010 and the chain downgrade,
\* binding restore, API, Web; the two deployments are restored outside.
MatrixBHealth ==
    /\ ~matrixB.ok /\ "restore" \in receipts /\ RollbackDatabase
    /\ matrixB' = [matrixB EXCEPT !.ok = TRUE]
    /\ UNCHANGED <<actVars, content, targets, deleted, incident, restored>>

\* rollback_finalize up to its intent: the snapshot names the latest row.
FinalizeReads ==
    /\ matrixB.ok /\ matrixB.seen = 0
    /\ revision = 0 /\ LatestState = "restore_writing"
    /\ matrixB' = [matrixB EXCEPT !.seen = Latest]
    /\ UNCHANGED <<actVars, content, targets, deleted, incident, restored>>

\* TransactionalRollbackAdapter.finalize: the CAS on the row that was read,
\* refused when another is the latest by now.
RollbackFinalize ==
    /\ matrixB.seen # 0
    /\ matrixB' = [matrixB EXCEPT !.seen = 0]
    /\ IF matrixB.seen = Latest /\ LatestState = "restore_writing"
       THEN /\ AppendAfterLatest("restored")
            /\ restored' = restored \cup {"technical"}
       ELSE UNCHANGED <<log, restored>>
    /\ LogOnly /\ UNCHANGED <<source, content, targets, deleted, incident>>

IncidentActions ==
    \/ Collect \/ LogsExpire \/ NewTarget
    \/ Contain \/ PurgeDatabase \/ PurgeGitHub \/ PurgeHeld
    \/ VerifyReads \/ AppendRestored
    \/ MatrixBHealth \/ FinalizeReads \/ RollbackFinalize

Init ==
    /\ ActInit
    /\ content = {} /\ targets = 1 /\ deleted = {}
    /\ incident = IF start = "raced" THEN [stage |-> "contained", graph |-> 1]
                  ELSE NoIncident
    /\ matrixB = NoHealth /\ restored = {}

Next == ((Actions \/ Tick) /\ UNCHANGED incVars) \/ IncidentActions

Spec == Init /\ [][Next]_vars

-----------------------------------------------------------------------------
\* Types of the shared log and of the incident's progress.
TypeOK ==
    /\ \A i \in DOMAIN log : /\ log[i].state \in States
                             /\ log[i].pred \in 0..(i - 1)
                             /\ log[i].gen \in {1, 2}
    /\ source.on => source.ptr.anchor # 0
    /\ receipts \subseteq {"evidence", "apply", "handshake", "finalize", "restore"}
    /\ Cardinality(acts) <= 1 /\ revision \in 0..4
    /\ deleted \subseteq 1..targets /\ content \subseteq {"window", "before", "logs"}
    /\ incident \in Incident
    /\ matrixB.seen \in 0..Len(log) /\ restored \subseteq {"technical", "privacy"}

\* The reservations made agree on one anchor; and a row of the log bears the time
\* of a transaction that began before that of a row committed earlier.
OneAnchor == \A e, f \in epochs : e.anchor = f.anchor
Overtaken == \E i, j \in DOMAIN log : i < j /\ log[j].at <= log[i].at

\* persist_reserve inserts a second epoch only in a log where a row was overtaken,
\* for there alone INSERT_TRANSITION may write nothing.  With one anchor, the
\* scheduler's MONITOR_DEPLOYMENT_ACTIVATION_AT is that of the epoch an enabled
\* source is linked to, although one command writes the variable, another the
\* pointer, and a retry of either may be handed another receipt.
AnchorAgrees ==
    /\ ~Overtaken => OneAnchor
    /\ source.on /\ OneAnchor => github.anchor = source.ptr.anchor

\* A binding recorded as committed is the one GitHub holds, secret included,
\* although a rerun of apply-github that finds the two variables in place
\* writes nothing and cannot read the secret back.
CommittedIsLive == LatestState = "binding_committed" => Held = Payload

\* Once restored is written, GitHub holds the binding captured before the
\* activation, although restore_writing is logged before the writes; and while
\* a binding counts as committed GitHub holds that one.
RestoredBindingBack ==
    /\ TypeOK
    /\ restored # {} => Held = Prestate
    /\ CommittedIsLive

\* Matrix B: once the protected downgrade has left 0011, the DCInside-only
\* binding can be restored (docs/manifold-release-operations.md).
MatrixBProceeds ==
    (revision < 2 /\ log # <<>> /\ LockFree /\ Held = Payload) => MayRestore
==============================================================================
