--------------------------- MODULE SourceActivation ---------------------------
(***************************************************************************)
(* Activation of the reviewed Manifold source: the append-only transition  *)
(* log, the GitHub binding it journals, the `activate` phases that reserve *)
(* a cadence anchor and link the source, and the migrations 0011 to 0013   *)
(* that prepare, deactivate and repair it.  One activation nonce.          *)
(*                                                                         *)
(* The binding script (`mut`) holds one session advisory lock over several *)
(* committed transactions with GitHub writes between them, and may die at  *)
(* any of them.  An `activate` phase is one transaction that waits for the *)
(* same lock, but its clock and its row stamp are transaction_timestamp(), *)
(* taken when it began to wait.  A migration run is one transaction that   *)
(* takes no advisory lock at all.                                          *)
(***************************************************************************)
EXTENDS Integers, Sequences, FiniteSets, TLC

CONSTANTS
    MaxRows,    \* bound on the rows of the log, by where it starts
    MaxClock,   \* bound on the clock, in half hours, by where the log starts
    Waits,      \* the activate phases that may be found waiting for the lock
    Places      \* when a transaction that waits may have begun: see Stamps

VARIABLES
    start,      \* where the log starts, fixed: see ActInit
    log,        \* source_activation_state_transitions, in commit order
    intent,     \* source_binding_change_intents row of the nonce
    epochs,     \* source_cadence_epochs: anchors, with closed_at set or not
    source,     \* the community_sources row
    github,     \* the environment's secret and variables
    receipts,   \* the receipt files the operator holds
    mut,        \* the binding script that holds the lock
    acts,       \* activate transactions waiting for the lock
    mig,        \* the migration transaction under way
    revision,   \* alembic_version
    clock       \* the database clock

actVars == <<start, log, intent, epochs, source, github, receipts, mut, acts, mig,
             revision, clock>>

None == "none"
Unlinked == [auth |-> None, budget |-> None, binding |-> 0, anchor |-> 0]
States == {"prepared", "binding_writing", "binding_committed",
           "handshake_passed", "anchor_reserved", "github_finalized",
           "active", "deactivated", "restore_writing", "restored", "failed"}
\* The two sides of a binding write: what GitHub held before and the payload.
Prestate == [secret |-> "old", ids |-> "old", scope |-> "old"]
Payload == [secret |-> "new", ids |-> "new", scope |-> "new"]
Held == [secret |-> github.secret, ids |-> github.ids, scope |-> github.scope]

-----------------------------------------------------------------------------
(* The transition log.  Rows are read in (transition_at_db, id) order,      *)
(* which need not be commit order: `at` is 6 * n + 6 for a transaction that *)
(* begins after n rows and commits at once, and one of the free places below *)
(* that for one that waits, so that no two transactions begin together and   *)
(* one may have begun before or after another that waits.                   *)

Room == Len(log) < MaxRows[start]

Now == 6 * Len(log) + 6
Taken ==
    {log[i].at : i \in DOMAIN log} \cup {mut.at, mig.at} \cup {act.at : act \in acts}
Stamps(who, n) == {6 * n + k : k \in Places[who]} \ Taken

Row(state, gen, bound, pred, at, ptr) ==
    [state |-> state, gen |-> gen, bound |-> bound, pred |-> pred, at |-> at,
     ptr |-> ptr]

\* ORDER BY transition_at_db DESC, id DESC LIMIT 1: the row's place, 0 if none.
Latest ==
    IF log = <<>> THEN 0
    ELSE CHOOSE i \in DOMAIN log : \A j \in DOMAIN log : log[j].at <= log[i].at

LatestState == IF Latest = 0 THEN None ELSE log[Latest].state

HasSuccessor(i) == \E j \in DOMAIN log : log[j].pred = i

\* INSERT_TRANSITION: nothing is written, and nothing reported, when the
\* predecessor already has a successor.
InsertTransition(state, gen, at, ptr) ==
    log' = IF HasSuccessor(Latest) THEN log
           ELSE Append(log, Row(state, gen, TRUE, Latest, at, ptr))

\* append_transition of the binding script, its own committed transaction.
AppendTransition(state, at) ==
    log' = Append(log, Row(state, intent.gen, TRUE, Latest, at, Unlinked))

-----------------------------------------------------------------------------
(* The binding script.                                                      *)

LockFree == mut.cmd = None

Idle == [cmd |-> None, pc |-> 0, anchor |-> 0, at |-> 0]

\* ensure_intent: the nonce's row is created once and must then be the same;
\* reprepare rotates its payload hash, after which no payload matches.
IntentMatches == intent.gen = 0 \/ intent.payload = 1

EnsureIntent ==
    /\ IntentMatches
    /\ intent' = IF intent.gen = 0 THEN [gen |-> 1, payload |-> 1] ELSE intent

\* _apply, _handshake, _finalize and _restore: appends and GitHub writes in their
\* order.  scope, written last, marks a payload as written; apply looks at the
\* variables first, to find its writes done already.
Program(cmd) ==
    IF cmd = "apply"
    THEN <<"binding_writing", "check", "secret", "ids", "scope", "binding_committed">>
    ELSE IF cmd = "handshake" THEN <<"handshake_passed">>
    ELSE IF cmd = "finalize" THEN <<"anchor", "github_finalized">>
    ELSE <<"deactivated", "restore_writing", "secret", "ids", "scope">>

\* The predecessor states each accepts, and where each begins.
MayApply == LatestState \in {"prepared", "binding_writing", "binding_committed"}
MayHandshake ==
    /\ LatestState \in {"binding_committed", "handshake_passed"}
    /\ "evidence" \in receipts
MayFinalize == LatestState \in {"anchor_reserved", "github_finalized"}
MayRestore ==
    \/ LatestState = "failed" /\ github.scope = Payload.scope
    \/ LatestState = "restore_writing"
May(cmd) ==
    IF cmd = "apply" THEN MayApply ELSE IF cmd = "handshake" THEN MayHandshake
    ELSE IF cmd = "finalize" THEN MayFinalize ELSE MayRestore
FirstStep(cmd) == IF cmd = "restore" /\ LatestState = "restore_writing" THEN 3 ELSE 1

\* The anchor given to finalize is one a reserve receipt reported.
Anchors(cmd) == IF cmd = "finalize" THEN {e.anchor : e \in epochs} ELSE {0}

\* mutate up to the command: lock, ensure_intent, latest_state.  The read
\* opens the transaction of the first append.
MutateBegin(cmd) ==
    /\ LockFree /\ log # <<>> /\ EnsureIntent /\ May(cmd)
    /\ \E anchor \in Anchors(cmd), at \in Stamps("mutate", Len(log)) :
          mut' = [cmd |-> cmd, pc |-> FirstStep(cmd), anchor |-> anchor, at |-> at]
    /\ UNCHANGED <<start, log, epochs, source, github, receipts, acts, mig, revision,
                   clock>>

\* What a GitHub call writes.
Written(step) ==
    IF step = "anchor" THEN mut.anchor
    ELSE IF mut.cmd = "apply" THEN Payload[step] ELSE Prestate[step]

LastStep == mut.pc = Len(Program(mut.cmd))
AlreadyWritten == github.scope = Payload.scope /\ github.ids = Payload.ids
NextStep(step) ==
    IF step = "check" /\ AlreadyWritten THEN Len(Program(mut.cmd)) ELSE mut.pc + 1

\* The append commits the transaction that the first read opened.
StillOpen(step) == IF step \in States THEN 0 ELSE mut.at

\* One committed append or one GitHub call of the command under way.  The
\* receipt file is written after the last step, or lost with the process.
MutateStep ==
    /\ ~LockFree
    /\ LET step == Program(mut.cmd)[mut.pc] IN
       /\ IF step \in States
          THEN /\ Room
               /\ AppendTransition(step, IF mut.at = 0 THEN Now ELSE mut.at)
          ELSE UNCHANGED log
       /\ github' = IF step \in {"secret", "ids", "scope", "anchor"}
                    THEN [github EXCEPT ![step] = Written(step)] ELSE github
       /\ mut' = IF LastStep THEN Idle
                 ELSE [mut EXCEPT !.pc = NextStep(step), !.at = StillOpen(step)]
       /\ receipts' \in IF LastStep THEN {receipts, receipts \cup {mut.cmd}}
                        ELSE {receipts}
    /\ UNCHANGED <<start, intent, epochs, source, acts, mig, revision, clock>>

\* The script dies or a gh call fails; its session lock goes with it.
MutateFails ==
    /\ ~LockFree
    /\ mut' = Idle
    /\ UNCHANGED <<start, log, intent, epochs, source, github, receipts, acts, mig,
                   revision, clock>>

\* The zero-provider workflow compares the live secret and variables.
HandshakeRun ==
    /\ "evidence" \notin receipts /\ Held = Payload
    /\ receipts' = receipts \cup {"evidence"}
    /\ UNCHANGED <<start, log, intent, epochs, source, github, mut, acts, mig,
                   revision, clock>>

-----------------------------------------------------------------------------
(* The activate phases.  What they read are ChainReceipt documents, which no *)
(* command of the repository writes in that form: a receipt here is the     *)
(* operator's record of a command that completed.                           *)

\* require_phase_arguments: the commands whose receipts a phase names.
PhaseArguments(phase) ==
    IF phase = "reserve" THEN {"handshake"}
    ELSE IF phase = "commit" THEN {"handshake", "finalize"} ELSE {}
Phases == {"reserve", "commit", "reprepare"}

\* chain, for every receipt of the phase.
Chain(phase) == PhaseArguments(phase) \subseteq receipts

Inert == ~source.on /\ source.ptr = Unlinked

Generation == log[Latest].gen
PreparedAt(gen) == source.prepared[gen]
Usable(gen, now) == PreparedAt(gen) <= now /\ now < PreparedAt(gen) + 4
Anchor(now) == 2 * (now \div 2) + 6

\* execute opens the transaction; database_now_locked waits when the binding
\* script holds the lock, and the transaction's time is then that of its start.
Started(phase, at) == [phase |-> phase, now |-> clock, at |-> at]

\* The operator starts a phase with the receipts it names in hand.
ActivateWait(phase) ==
    /\ ~LockFree /\ acts = {} /\ Chain(phase)
    /\ \E at \in Stamps("activate", Len(log)) : acts' = {Started(phase, at)}
    /\ UNCHANGED <<start, log, intent, epochs, source, github, receipts, mut, mig,
                   revision, clock>>

\* load_current_state parses a row that carries a binding intent.
Loaded(act) ==
    /\ LockFree /\ log # <<>> /\ log[Latest].bound
    /\ Room
    /\ acts' = acts \ {act}
    /\ UNCHANGED <<start, mut, mig, github, receipts, revision, clock>>

BindingWritten ==
    \E i \in DOMAIN log : /\ log[i].gen = Generation
                          /\ log[i].state \in {"binding_writing", "active",
                                "binding_committed", "github_finalized"}

\* persist_reserve: an anchor that is there already is kept (ON CONFLICT).
Epoch(anchor) ==
    IF \E e \in epochs : e.anchor = anchor THEN epochs
    ELSE epochs \cup {[anchor |-> anchor, closed |-> FALSE]}

\* plan_reserve.  A failed generation may be reserved again only when nothing
\* of it was written to GitHub.
MayReserve(now) ==
    /\ Inert /\ Usable(Generation, now)
    /\ LatestState = "failed" => ~BindingWritten
    /\ LatestState \in {"handshake_passed", "failed"}

\* Mutant: a reservation whose receipt was lost is taken again, without a row.
ReserveAgain(act) ==
    /\ act.phase = "reserve" /\ Loaded(act) /\ Chain("reserve")
    /\ Inert /\ Usable(Generation, act.now)
    /\ LatestState \in {"handshake_passed", "anchor_reserved", "github_finalized"}
    /\ epochs' = Epoch(Anchor(act.now))
    /\ IF LatestState = "handshake_passed"
       THEN InsertTransition("anchor_reserved", Generation, act.at,
                             [Unlinked EXCEPT !.anchor = Anchor(act.now)])
       ELSE UNCHANGED log
    /\ UNCHANGED <<intent, source>>

Reserve(act) ==
    /\ act.phase = "reserve" /\ Loaded(act) /\ Chain("reserve")
    /\ MayReserve(act.now)
    /\ epochs' = Epoch(Anchor(act.now))
    /\ InsertTransition("anchor_reserved", Generation, act.at,
                        [Unlinked EXCEPT !.anchor = Anchor(act.now)])
    /\ UNCHANGED <<intent, source>>

\* plan_commit: the cutoff is an hour before the anchor.
Accepted(now, anchor) == Usable(Generation, now) /\ now < anchor - 2

\* The authorization, budget, binding and cadence ACTIVATE_SOURCE links.
Link(anchor) ==
    [auth |-> "scoped", budget |-> "free", binding |-> Generation,
     anchor |-> anchor]

\* persist_commit: a missed cutoff is recorded, anything else activates.
PersistCommit(accepted, anchor, at) ==
    IF accepted
    THEN /\ source' = [source EXCEPT !.on = TRUE, !.ptr = Link(anchor)]
         /\ InsertTransition("active", Generation, at, Link(anchor))
    ELSE /\ InsertTransition("failed", Generation, at, Unlinked)
         /\ UNCHANGED source

\* commit, for the anchor of the reserve receipt the operator hands over.
Commit(act) ==
    /\ act.phase = "commit" /\ Loaded(act) /\ Chain("commit")
    /\ Inert /\ LatestState = "github_finalized"
    /\ \E e \in epochs :
          PersistCommit(Accepted(act.now, e.anchor), e.anchor, act.at)
    /\ UNCHANGED <<intent, epochs>>

\* plan_reprepare: what of the failed generation is left must be nothing, or
\* a restoration under way.
MayReprepare ==
    /\ Inert /\ Generation + 1 \in DOMAIN source.prepared
    /\ LatestState \in {"failed", "restore_writing"}
    /\ BindingWritten => LatestState = "restore_writing"

\* persist_reprepare: a fresh attestation, the rotated intent and a prepared
\* row of the next generation.
PersistReprepare(now, at) ==
    /\ source' = [source EXCEPT !.prepared[Generation + 1] = now]
    /\ intent' = IF intent.gen = Generation
                 THEN [gen |-> Generation + 1, payload |-> 2] ELSE intent
    /\ InsertTransition("prepared", Generation + 1, at, Unlinked)

\* reprepare; that the log ends in a failed commit stands for its receipt.
Reprepare(act) ==
    /\ act.phase = "reprepare" /\ Loaded(act) /\ MayReprepare
    /\ PersistReprepare(act.now, act.at)
    /\ UNCHANGED epochs

\* execute: one phase, whether it waited or not.  The fourth, restore, is no
\* action: it asks for a restore-github receipt and for a log whose latest row
\* is failed, and restore-github has by then appended two rows after that one.
Activate ==
    \E act \in acts \cup {Started(phase, Now) : phase \in Phases} :
        Reserve(act) \/ Commit(act) \/ Reprepare(act)

\* A waiting phase that is refused, before a row is written.
ActivateRefused ==
    /\ acts # {} /\ LockFree
    /\ acts' = {}
    /\ UNCHANGED <<start, log, intent, epochs, source, github, receipts, mut, mig,
                   revision, clock>>

-----------------------------------------------------------------------------
(* The migrations.  Revisions: 0 is 0010, 1 is 0010h, 2 to 4 are 0011 to    *)
(* 0013; 0010a to 0010h write the release ledger, not this state.           *)

MigIdle == [on |-> FALSE, at |-> 0, pred |-> 0]

\* A downgrade as far as append_deactivated_transition's read, which locks
\* nothing.  alembic runs it in one transaction: its timestamp is that of the
\* start, before the last row was committed or after.
DowngradeRead ==
    /\ ~mig.on /\ revision >= 2 /\ Latest # 0
    /\ \E at \in Stamps("before", Len(log) - 1) \cup Stamps("downgrade", Len(log)) :
          mig' = [on |-> TRUE, at |-> at, pred |-> Latest]
    /\ UNCHANGED <<start, log, intent, epochs, source, github, receipts, mut, acts,
                   revision, clock>>

\* The downgrade's receipt names nothing but the predecessor and is unique: one
\* that finds the row of an earlier downgrade writes none.
AlreadyDeactivated(pred) ==
    \E i \in DOMAIN log : /\ log[i].state = "deactivated" /\ log[i].pred = pred
                          /\ ~log[i].bound /\ log[i].at % 6 # 0

\* The rest of 0011's downgrade and the commit: epochs closed, the row of the
\* latest that was read, the source unlinked.  0012 and 0013 undo nothing.
DowngradeCommit(to) ==
    /\ mig.on /\ to < 2 /\ Room
    /\ log' = IF AlreadyDeactivated(mig.pred) THEN log
              ELSE Append(log, Row("deactivated", log[mig.pred].gen, FALSE, mig.pred,
                                   mig.at, Unlinked))
    /\ epochs' = {[e EXCEPT !.closed = TRUE] : e \in epochs}
    /\ source' = [source EXCEPT !.on = FALSE, !.ptr = Unlinked]
    /\ revision' = to /\ mig' = MigIdle
    /\ UNCHANGED <<start, intent, github, receipts, mut, acts, clock>>

\* Revisions on either side of 0011: 0012 and 0013 undo nothing, and 0010a to
\* 0010h do not touch this state.
RevisionOnly(to) ==
    /\ ~mig.on /\ \/ to \in 2..3 /\ to < revision
                  \/ {to, revision} = {0, 1}
    /\ revision' = to
    /\ UNCHANGED <<start, log, intent, epochs, source, github, receipts, mut, acts,
                   mig, clock>>

\* prepare_source: the source, the attestation and the prepared row, each
\* inserted or found equal; a source whose scope 0012 changed is not found.
PrepareSource ==
    /\ revision = 1 /\ ~mig.on
    /\ source.exists => source.scope = "base" /\ Inert
    /\ IF log = <<>>
       THEN /\ source' = [source EXCEPT !.exists = TRUE, !.prepared[1] = clock]
            /\ log' = <<Row("prepared", 1, FALSE, 0, Now, Unlinked)>>
       ELSE UNCHANGED <<log, source>>
    /\ revision' = 2
    /\ UNCHANGED <<start, intent, epochs, github, receipts, mut, acts, mig, clock>>

\* 0012: the scope marker, and the exact zeroed budget replaced.
RepairBudget ==
    /\ revision = 2 /\ ~mig.on
    /\ revision' = 3
    /\ IF source.ptr.budget \in {None, "free", "repaired"}
       THEN /\ source' = [source EXCEPT !.scope = "manifold"]
            /\ UNCHANGED log
       ELSE /\ LatestState = "active" /\ Room
            /\ log[Latest].ptr.budget = source.ptr.budget
            /\ source' = [source EXCEPT !.scope = "manifold",
                                        !.ptr.budget = "repaired"]
            /\ log' = Append(log, Row("active", Generation, log[Latest].bound,
                         Latest, Now, [log[Latest].ptr EXCEPT !.budget = "repaired"]))
    /\ UNCHANGED <<start, intent, epochs, github, receipts, mut, acts, mig, clock>>

\* 0013: the old permitted scope replaced; any other linked scope is refused.
RepairAuthorization ==
    /\ revision = 3 /\ ~mig.on
    /\ revision' = 4
    /\ IF source.ptr.auth \in {None, "repaired"}
       THEN UNCHANGED <<source, log>>
       ELSE /\ source.on /\ source.ptr.auth = "legacy"
            /\ LatestState = "active" /\ Room
            /\ log[Latest].ptr.auth = source.ptr.auth
            /\ source' = [source EXCEPT !.ptr.auth = "repaired"]
            /\ log' = Append(log, Row("active", Generation, log[Latest].bound,
                         Latest, Now, [log[Latest].ptr EXCEPT !.auth = "repaired"]))
    /\ UNCHANGED <<start, intent, epochs, github, receipts, mut, acts, mig, clock>>

-----------------------------------------------------------------------------
\* An hour passes; preparations fall on the half hour.
Tick ==
    /\ clock < MaxClock[start]
    /\ clock' = clock + 2
    /\ UNCHANGED <<start, log, intent, epochs, source, github, receipts, mut, acts,
                   mig, revision>>
Actions ==
    \/ \E cmd \in {"apply", "handshake", "finalize", "restore"} : MutateBegin(cmd)
    \/ MutateStep \/ MutateFails \/ HandshakeRun
    \/ \E phase \in Waits : ActivateWait(phase)
    \/ Activate \/ ActivateRefused
    \/ DowngradeRead \/ \E to \in 0..3 : DowngradeCommit(to) \/ RevisionOnly(to)
    \/ PrepareSource \/ RepairBudget \/ RepairAuthorization

\* Where the log starts: a database at 0010h; a binding whose handshake has passed;
\* the source the earlier release had activated, with a zeroed budget and a wider
\* permitted scope; an activation that missed its cutoff; and one that was contained
\* between the two rows of restore-github, and whose downgrade committed after them
\* with an earlier timestamp.
LegacyLink == [auth |-> "legacy", budget |-> "zeroed", binding |-> 1, anchor |-> 6]
Trail == <<"prepared", "binding_writing", "binding_committed",
           "handshake_passed", "anchor_reserved", "github_finalized",
           "failed", "deactivated", "deactivated", "restore_writing">>
LogOf(states, link) ==
    [i \in DOMAIN states |->
        [state |-> states[i], gen |-> 1, bound |-> i > 1, pred |-> i - 1,
         at |-> 6 * i,
         ptr |-> IF states[i] = "active" THEN link ELSE Unlinked]]
RacedLog ==
    LET rows == LogOf(Trail, Unlinked)
    IN Append(rows, [rows[8] EXCEPT !.bound = FALSE, !.at = 43])

StartingPoints == {"fresh", "bound", "legacy", "failed", "raced"}

ASSUME ActivationAssumption ==
    /\ MaxRows \in [StartingPoints -> Nat] /\ MaxClock \in [StartingPoints -> Nat]
    /\ Waits \subseteq Phases
    /\ Places \in [{"mutate", "activate", "downgrade", "before"} -> SUBSET (1..5)]

\* The rows each start has, and the rest of the state that goes with them.
StartLog(at) ==
    IF at = "fresh" THEN <<>>
    ELSE IF at = "bound" THEN LogOf(SubSeq(Trail, 1, 4), Unlinked)
    ELSE IF at = "legacy" THEN LogOf([SubSeq(Trail, 1, 7) EXCEPT ![7] = "active"], LegacyLink)
    ELSE IF at = "failed" THEN LogOf(SubSeq(Trail, 1, 7), Unlinked)
    ELSE RacedLog

ActInit ==
    /\ mut = Idle /\ acts = {} /\ mig = MigIdle
    /\ start \in StartingPoints
    /\ log = StartLog(start)
    /\ clock = IF start \in {"fresh", "bound"} THEN 1 ELSE IF start = "legacy" THEN 3 ELSE 5
    /\ revision = IF start = "raced" THEN 0 ELSE IF start = "fresh" THEN 1 ELSE 2
    /\ intent = IF start = "fresh" THEN [gen |-> 0, payload |-> 0]
                ELSE [gen |-> 1, payload |-> 1]
    /\ epochs = IF start \in {"fresh", "bound"} THEN {}
                ELSE {[anchor |-> 6, closed |-> start = "raced"]}
    /\ source = [exists |-> start # "fresh", on |-> start = "legacy",
                 ptr |-> IF start = "legacy" THEN LegacyLink ELSE Unlinked,
                 scope |-> "base",
                 prepared |-> [g \in {1, 2} |-> IF start = "fresh" THEN 0 ELSE g % 2]]
    /\ LET held == IF start = "fresh" THEN Prestate ELSE Payload IN
       github = [anchor |-> IF start \in {"fresh", "bound"} THEN 0 ELSE 6,
                 secret |-> held.secret, ids |-> held.ids, scope |-> held.scope]
    /\ receipts = IF start = "fresh" THEN {}
                  ELSE IF start = "bound" THEN {"evidence", "handshake"}
                  ELSE {"evidence", "handshake", "finalize"}
=============================================================================
