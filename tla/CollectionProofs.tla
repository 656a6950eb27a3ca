-------------------------- MODULE CollectionProofs --------------------------
(***************************************************************************)
(* Theorems about collection for every number of commands, sources,        *)
(* cursors, attempts and pages and for every value of the bounds.          *)
(*                                                                         *)
(* First the control plane (CollectionControl): leases, the page log, who  *)
(* may hold a checkpoint, how a run may end, what is published, and which  *)
(* receipts can be replayed.  Then the collector process composed with it  *)
(* (CollectorClient): each of its steps is a step of CollectionControl, it *)
(* never loses its place in the stream it writes, and a success means      *)
(* publication.                                                            *)
(***************************************************************************)
EXTENDS CollectorClient, SequenceTheorems, FiniteSetTheorems, WellFoundedInduction, TLAPS

\* The type invariant and the lease ledger are inductive together: the ledger
\* bounds the number of leases by the number of attempts.
Ledger == TypeOK /\ OneLeasePerAttempt

\* In the initial state every table has its type and no lease is issued.
LEMMA InitLedger == Init => Ledger
<1> SUFFICES ASSUME Init PROVE Ledger
  OBVIOUS
<1> USE ControlAssumption
<1>1. command \in [Commands -> CommandRow]
  BY DEF Init, AbsentCommand, CommandRow, CommandStatus, Attempts, NoLease, FailStatus
<1>2. run \in [Runs -> RunRow]
  BY DEF Init, NoRun, RunRow, NoLease, CursorOrNull, BudgetDecision, SkipKinds
<1>3. pages \in [Runs -> Seq(PageRow)]
  BY DEF Init
<1>4. /\ checkpoint \in [Sources -> CheckpointRow]
      /\ source \in [Sources -> [enabled : BOOLEAN, active : Nat,
                                 decisions : Seq({"approved", "expired", "revoked"})]]
      /\ published \in [Sources -> Seq(Runs)]
      /\ receipts \in [Commands -> SUBSET Receipt]
  BY DEF Init, CursorOrNull, CheckpointRow
<1>5. OneLeasePerAttempt
  BY DEF Init, OneLeasePerAttempt, AbsentCommand, NoLease, LeasedStatus
<1> QED
  BY <1>1, <1>2, <1>3, <1>4, <1>5 DEF Ledger, TypeOK

-----------------------------------------------------------------------------
(* Rows written by the operations keep their column types. *)

\* A finalized command row keeps its type and its place in the ledger.
LEMMA FinalizedRow ==
    ASSUME Ledger, NEW c \in Commands, NEW st \in CommandStatus \ {"absent", "queued"},
           command[c].status = "running", st \notin LeasedStatus
    PROVE  /\ Finalized(c, st) \in CommandRow
           /\ Finalized(c, st).status = st
           /\ Finalized(c, st).attempt = command[c].attempt
           /\ Finalized(c, st).issued = command[c].issued
           /\ Finalized(c, st).lease \in {NoLease, command[c].lease}
<1>1. command[c] \in CommandRow
  BY DEF Ledger, TypeOK
<1> DEFINE lease == IF st = "failed_retryable" THEN NoLease ELSE command[c].lease
           wait == IF st = "failed_retryable" /\ command[c].attempt < MaxAttempts
                   THEN RetryDelay ELSE command[c].wait
<1>2. /\ lease \in 0..MaxAttempts
      /\ lease \in {NoLease, command[c].lease}
  BY <1>1, ControlAssumption DEF CommandRow, NoLease
<1>3. wait \in 0..RetryDelay
  BY <1>1, ControlAssumption DEF CommandRow
<1>4. 0 \in 0..(ExecutionStale + 1)
  BY ControlAssumption
<1>5. Finalized(c, st) = [command[c] EXCEPT !.status = st, !.age = 0, !.lease = lease, !.wait = wait]
  BY DEF Finalized
<1> HIDE DEF lease, wait
<1> QED
  BY <1>1, <1>2, <1>3, <1>4, <1>5 DEF CommandRow

\* A released command row keeps its type and its place in the ledger.
LEMMA ReleasedRow ==
    ASSUME Ledger, NEW c \in Commands
    PROVE  /\ Released(c) \in CommandRow
           /\ Released(c).status \in FailStatus
           /\ Released(c).attempt = command[c].attempt
           /\ Released(c).issued = command[c].issued
           /\ Released(c).lease = NoLease
<1>1. command[c] \in CommandRow
  BY DEF Ledger, TypeOK
<1> DEFINE exhausted == command[c].attempt >= MaxAttempts
           status == IF exhausted THEN "failed_terminal" ELSE "failed_retryable"
           wait == IF exhausted THEN 0 ELSE RetryDelay
<1>2. status \in FailStatus /\ status \in CommandStatus
  BY DEF FailStatus, CommandStatus
<1>3. /\ wait \in 0..RetryDelay
      /\ NoLease \in 0..MaxAttempts
      /\ 0 \in 0..(ExecutionStale + 1)
  BY ControlAssumption DEF NoLease
<1>4. Released(c) = [command[c] EXCEPT !.status = status, !.wait = wait,
                                       !.lease = NoLease, !.age = 0]
  BY DEF Released
<1> HIDE DEF status, wait
<1> QED
  BY <1>1, <1>2, <1>3, <1>4 DEF CommandRow

\* The aggregate of run outcomes is a final command status.
LEMMA AggregateStatus ==
    ASSUME NEW sts
    PROVE  Aggregate(sts) \in {"succeeded", "partial", "skipped"} \cup FailStatus
BY DEF Aggregate, FailStatus

\* Finishing a plan keeps the run table typed.
LEMMA FinishRunsType ==
    ASSUME TypeOK, NEW plan, \A r \in DOMAIN plan : plan[r] \in OutcomeStatus
    PROVE  FinishRuns(plan) \in [Runs -> RunRow]
<1>1. ASSUME NEW r \in Runs, NEW st \in OutcomeStatus
      PROVE  [run[r] EXCEPT !.status = st] \in RunRow
  <2>1. run[r] \in RunRow
    BY DEF TypeOK
  <2> QED
    BY <2>1 DEF RunRow
<1>2. ASSUME NEW r \in Runs
      PROVE  (IF r \in DOMAIN plan THEN [run[r] EXCEPT !.status = plan[r]] ELSE run[r])
                \in RunRow
  <2>1. CASE r \in DOMAIN plan
    BY <1>1, <2>1
  <2>2. CASE r \notin DOMAIN plan
    BY <2>2 DEF TypeOK
  <2> QED
    BY <2>1, <2>2
<1> QED
  BY <1>2 DEF FinishRuns

\* Publishing a plan's winners keeps the publication log and the checkpoints typed.
LEMMA PublishType ==
    ASSUME TypeOK, NEW plan, DOMAIN plan \subseteq Runs
    PROVE  /\ Publish(plan) \in [Sources -> Seq(Runs)]
           /\ MarkCompleted(plan) \in [Sources -> CheckpointRow]
<1>1. ASSUME NEW s \in Sources, \E r \in Winners(plan) : r[3] = s
      PROVE  (CHOOSE r \in Winners(plan) : r[3] = s) \in Runs
  BY <1>1 DEF Winners
<1>2. ASSUME NEW s \in Sources, \E r \in Winners(plan) : r[3] = s
      PROVE  /\ Append(published[s], CHOOSE r \in Winners(plan) : r[3] = s) \in Seq(Runs)
             /\ <<CHOOSE r \in Winners(plan) : r[3] = s>> \in Seq(Runs)
  BY <1>1, <1>2 DEF TypeOK
<1>3. Publish(plan) \in [Sources -> Seq(Runs)]
  BY <1>2 DEF Publish, TypeOK
<1>4. ASSUME NEW s \in Sources, NEW d \in Seq(Runs)
      PROVE  [checkpoint[s] EXCEPT !.done = d]
                \in CheckpointRow
  BY DEF TypeOK, CheckpointRow
<1>5. MarkCompleted(plan) \in [Sources -> CheckpointRow]
  <2>1. \A s \in Sources : checkpoint[s] \in CheckpointRow
    BY DEF TypeOK
  <2> QED
    BY <1>2, <1>4, <2>1 DEF MarkCompleted
<1> QED
  BY <1>3, <1>5

\* Reconciling a command keeps its row in the ledger.
LEMMA ReconciledRow ==
    ASSUME Ledger, NEW c \in Commands
    PROVE  /\ Reconciled(c) \in CommandRow
           /\ Reconciled(c).attempt = command[c].attempt
           /\ Reconciled(c).issued = command[c].issued
           /\ \/ Reconciled(c) = command[c]
              \/ /\ command[c].status \in LeasedStatus
                 /\ Reconciled(c).status \in {"succeeded", "partial", "skipped"} \cup FailStatus
                 /\ Reconciled(c).lease \in {NoLease, command[c].lease}
<1>1. CASE Planned(c)
  <2>1. RecoveryStatus(c) \in {"succeeded", "partial", "skipped"} \cup FailStatus
    BY AggregateStatus DEF RecoveryStatus, FailStatus
  <2>2. command[c].status = "running"
    BY <1>1 DEF Planned
  <2> QED
    BY <1>1, <2>1, <2>2, FinalizedRow DEF Reconciled, CommandStatus, FailStatus, LeasedStatus
<1>2. CASE ~Planned(c) /\ Stale(c)
  BY <1>2, ReleasedRow DEF Reconciled, Stale, LeasedStatus, NoLease
<1>3. CASE ~Planned(c) /\ ~Stale(c)
  BY <1>3 DEF Reconciled, Ledger, TypeOK
<1> QED
  BY <1>1, <1>2, <1>3

-----------------------------------------------------------------------------
(* The ledger is inductive. *)

\* A command row that is typed and keeps lease and attempt in step.
RowOK(row) ==
    /\ row \in CommandRow
    /\ row.issued = IF row.status \in {"absent", "queued"} THEN 0 ELSE row.attempt
    /\ row.lease \in {NoLease, row.issued}
    /\ row.status \in {"absent", "queued"} => row.attempt = 1
    /\ row.status \in LeasedStatus => row.lease # NoLease

\* The tables other than collection_commands.
OtherTables ==
    /\ run \in [Runs -> RunRow]
    /\ pages \in [Runs -> Seq(PageRow)]
    /\ checkpoint \in [Sources -> CheckpointRow]
    /\ source \in [Sources -> [enabled : BOOLEAN, active : Nat,
                               decisions : Seq({"approved", "expired", "revoked"})]]
    /\ published \in [Sources -> Seq(Runs)]
    /\ receipts \in [Commands -> SUBSET Receipt]

\* The ledger, row by row.
LEMMA LedgerRows ==
    Ledger <=> /\ command \in [Commands -> CommandRow]
               /\ \A c \in Commands : RowOK(command[c])
               /\ OtherTables
BY DEF Ledger, TypeOK, OneLeasePerAttempt, RowOK, OtherTables

\* ... and in the next state.
LEMMA LedgerRowsNext ==
    ASSUME command' \in [Commands -> CommandRow],
           \A c \in Commands : RowOK(command'[c]),
           OtherTables'
    PROVE  Ledger'
BY DEF Ledger, TypeOK, OneLeasePerAttempt, RowOK, OtherTables

\* Replacing one row by a good row keeps the ledger.
LEMMA OneRow ==
    ASSUME Ledger, NEW c \in Commands, NEW row, RowOK(row),
           command' = [command EXCEPT ![c] = row], OtherTables'
    PROVE  Ledger'
<1>1. command' \in [Commands -> CommandRow] /\ \A k \in Commands : RowOK(command'[k])
  BY LedgerRows DEF RowOK
<1> QED
  BY <1>1, LedgerRowsNext

\* A freshly queued command is a good row.
LEMMA QueuedRow ==
    ASSUME NEW srcs \in SUBSET Sources
    PROVE  RowOK(Queued(srcs))
<1>1. AbsentCommand \in CommandRow
  BY ControlAssumption DEF AbsentCommand, CommandRow, CommandStatus, Attempts, NoLease
<1>2. "queued" \in CommandStatus /\ "queued" \notin LeasedStatus
  BY DEF CommandStatus, LeasedStatus
<1>3. Queued(srcs) \in CommandRow /\ Queued(srcs).status = "queued"
  BY <1>1, <1>2 DEF Queued, CommandRow
<1>4. /\ Queued(srcs).attempt = 1
      /\ Queued(srcs).issued = 0
      /\ Queued(srcs).lease = NoLease
  BY DEF Queued, AbsentCommand
<1> QED
  BY <1>2, <1>3, <1>4 DEF RowOK

\* materialize keeps the ledger.
LEMMA MaterializeLedger ==
    ASSUME Ledger, NEW due \in SUBSET Commands, Materialize(due)
    PROVE  Ledger'
<1>1. ASSUME NEW c \in Commands PROVE RowOK(Reconciled(c))
  <2>1. RowOK(command[c])
    BY LedgerRows
  <2>2. CASE Reconciled(c) = command[c]
    BY <2>1, <2>2
  <2>3. CASE Reconciled(c) # command[c]
    <3>1. /\ Reconciled(c).status \in {"succeeded", "partial", "skipped"} \cup FailStatus
          /\ command[c].status \in LeasedStatus
          /\ Reconciled(c).lease \in {NoLease, command[c].lease}
          /\ Reconciled(c) \in CommandRow
          /\ Reconciled(c).attempt = command[c].attempt
          /\ Reconciled(c).issued = command[c].issued
      BY <2>3, ReconciledRow
    <3> QED
      BY <2>1, <3>1 DEF RowOK, LeasedStatus, FailStatus
  <2> QED
    BY <2>2, <2>3
<1>2. EnabledSources \in SUBSET Sources
  BY DEF EnabledSources
<1>3. /\ command' \in [Commands -> CommandRow]
      /\ \A c \in Commands : RowOK(command'[c])
  <2>1. \A c \in Commands : command'[c] \in {Queued(EnabledSources), Reconciled(c)}
    BY DEF Materialize
  <2>2. RowOK(Queued(EnabledSources))
    BY <1>2, QueuedRow
  <2>3. \A c \in Commands : RowOK(command'[c])
    BY <1>1, <2>1, <2>2
  <2>4. command' = [c \in Commands |-> command'[c]]
    BY DEF Materialize
  <2>5. \A c \in Commands : command'[c] \in CommandRow
    BY <2>3 DEF RowOK
  <2> QED
    BY <2>3, <2>4, <2>5
<1>4. /\ DOMAIN RecoveryPlan \subseteq Runs
      /\ \A r \in DOMAIN RecoveryPlan : RecoveryPlan[r] \in OutcomeStatus
  BY DEF RecoveryPlan, RecoveryOutcome, CurrentRuns, OutcomeStatus, FailStatus
<1>5. TypeOK
  BY DEF Ledger
<1>6. OtherTables'
  BY <1>4, <1>5, FinishRunsType, PublishType DEF Materialize, OtherTables, TypeOK
<1> QED
  BY <1>3, <1>6, LedgerRowsNext

-----------------------------------------------------------------------------
(* The operations that change one command row. *)

\* Changing the status and the timers of a leased row to another leased status.
LEMMA LeasedRow ==
    ASSUME NEW row, RowOK(row), row.status \in LeasedStatus, NEW st \in LeasedStatus
    PROVE  RowOK([row EXCEPT !.status = st, !.age = 0])
<1>1. /\ st \in CommandStatus
      /\ st \notin {"absent", "queued"}
      /\ row.status \notin {"absent", "queued"}
      /\ 0 \in 0..(ExecutionStale + 1)
  BY ControlAssumption DEF LeasedStatus, CommandStatus
<1> QED
  BY <1>1 DEF RowOK, CommandRow

\* retry_collection keeps the ledger.
LEMMA RetryLedger ==
    ASSUME Ledger, NEW c \in Commands, NEW srcs \in SUBSET Sources, RetryCollection(c, srcs)
    PROVE  Ledger'
<1>1. OtherTables'
  BY LedgerRows DEF RetryCollection, OtherTables
<1> QED
  BY <1>1, QueuedRow, OneRow DEF RetryCollection

\* reserve keeps the ledger: a new attempt comes with a new lease.
LEMMA ReserveLedger ==
    ASSUME Ledger, NEW c \in Commands, Reserve(c)
    PROVE  Ledger'
<1> DEFINE row == command[c]
           next == [row EXCEPT !.status = "dispatch_reserved", !.attempt = NextAttempt(c),
                               !.issued = row.issued + 1, !.lease = row.issued + 1, !.age = 0]
<1>1. RowOK(row)
  BY LedgerRows
<1>2. command' = [command EXCEPT ![c] = next]
  BY DEF Reserve, Reserved
<1>3. NextAttempt(c) = row.issued + 1
  <2>1. row.attempt \in 1..MaxAttempts
    BY <1>1 DEF RowOK, CommandRow, Attempts
  <2> QED
    BY <1>1, <2>1 DEF RowOK, Reserve, NextAttempt
<1>4. /\ NextAttempt(c) \in Attempts
      /\ NextAttempt(c) \in 0..MaxAttempts
      /\ NextAttempt(c) # NoLease
      /\ 0 \in 0..(ExecutionStale + 1)
  <2>1. row.attempt \in 1..MaxAttempts
    BY <1>1 DEF RowOK, CommandRow, Attempts
  <2> QED
    BY <2>1, ControlAssumption DEF Reserve, NextAttempt, AttemptsLeft, Attempts, NoLease
<1>5. "dispatch_reserved" \in CommandStatus \ {"absent", "queued"}
  BY DEF CommandStatus
<1>6. RowOK(next)
  <2> HIDE DEF row
  <2>1. row \in CommandRow
    BY <1>1 DEF RowOK
  <2>2. next \in CommandRow
    BY <1>3, <1>4, <1>5, <2>1 DEF CommandRow
  <2>3. /\ next.status = "dispatch_reserved"
        /\ next.attempt = NextAttempt(c)
        /\ next.issued = NextAttempt(c)
        /\ next.lease = NextAttempt(c)
    BY <1>3, <2>1 DEF CommandRow
  <2> HIDE DEF next
  <2> QED
    BY <1>4, <1>5, <2>2, <2>3 DEF RowOK
<1>7. OtherTables'
  BY LedgerRows DEF Reserve, OtherTables
<1> QED
  BY <1>2, <1>6, <1>7, OneRow

\* confirm keeps the ledger.
LEMMA ConfirmLedger ==
    ASSUME Ledger, NEW c \in Commands, NEW a, NEW l, Confirm(c, a, l)
    PROVE  Ledger'
<1>1. RowOK(command[c])
  BY LedgerRows
<1>2. RowOK([command[c] EXCEPT !.status = "dispatched", !.age = 0])
  BY <1>1, LeasedRow DEF Confirm, LeasedStatus
<1>3. OtherTables'
  BY LedgerRows DEF Confirm, OtherTables
<1>4. command' = [command EXCEPT ![c] = [command[c] EXCEPT !.status = "dispatched", !.age = 0]]
  BY DEF Confirm, Confirmed
<1> QED
  BY <1>2, <1>3, <1>4, OneRow

\* heartbeat keeps the ledger.
LEMMA HeartbeatLedger ==
    ASSUME Ledger, NEW c \in Commands, NEW a, NEW l, Heartbeat(c, a, l)
    PROVE  Ledger'
<1>1. RowOK(command[c])
  BY LedgerRows
<1>2. RowOK([command[c] EXCEPT !.status = "running", !.age = 0])
  BY <1>1, LeasedRow DEF Heartbeat, LeasedStatus
<1>3. [command[c] EXCEPT !.age = 0] = [command[c] EXCEPT !.status = "running", !.age = 0]
  BY <1>1 DEF Heartbeat, RowOK, CommandRow
<1>4. OtherTables'
  BY LedgerRows DEF Heartbeat, OtherTables
<1>5. command' = [command EXCEPT ![c] = [command[c] EXCEPT !.age = 0]]
  BY DEF Heartbeat
<1> QED
  BY <1>2, <1>3, <1>4, <1>5, OneRow

\* A started run is a typed row.
LEMMA StartedRow ==
    ASSUME Ledger, NEW c \in Commands, NEW s \in Sources, NEW level \in BudgetLevels
    PROVE  StartedRun(c, s, level) \in RunRow
<1>1. NoRun \in RunRow
  BY ControlAssumption DEF NoRun, RunRow, NoLease, CursorOrNull, BudgetDecision, SkipKinds
<1>2. command[c].lease \in 0..MaxAttempts
  BY DEF Ledger, TypeOK, CommandRow
<1>3. source[s].active \in Nat
  BY DEF Ledger, TypeOK
<1>4. checkpoint[s].revision \in Nat /\ checkpoint[s].cursor \in CursorOrNull
  BY DEF Ledger, TypeOK, CheckpointRow
<1>5. level \in BudgetDecision
  BY ControlAssumption
<1> DEFINE skip == IF level = "hard_stop" THEN "quota" ELSE "none"
<1>6. skip \in {"none"} \cup SkipKinds
  BY DEF SkipKinds
<1>7. StartedRun(c, s, level) =
        [NoRun EXCEPT !.status = "running", !.lease = command[c].lease,
                      !.auth = source[s].active, !.budget = level,
                      !.start = checkpoint[s].revision, !.first = checkpoint[s].cursor,
                      !.final = checkpoint[s].cursor, !.skip = skip]
  BY DEF StartedRun
<1> HIDE DEF skip
<1> QED
  BY <1>1, <1>2, <1>3, <1>4, <1>5, <1>6, <1>7 DEF RunRow

\* claim keeps the ledger.
LEMMA ClaimLedger ==
    ASSUME Ledger, NEW c \in Commands, NEW a, NEW l, NEW level \in [Sources -> BudgetLevels],
           Claim(c, a, l, level)
    PROVE  Ledger'
<1>1. RowOK(command[c])
  BY LedgerRows
<1>2. RowOK([command[c] EXCEPT !.status = "running", !.age = 0])
  BY <1>1, LeasedRow DEF Claim, LeasedStatus
<1>3. command' = [command EXCEPT ![c] = [command[c] EXCEPT !.status = "running", !.age = 0]]
  BY DEF Claim
<1>4. run' \in [Runs -> RunRow]
  <2>1. \A r \in Runs : run[r] \in RunRow /\ r[3] \in Sources
    BY DEF Ledger, TypeOK, Runs
  <2>2. \A r \in Runs : StartedRun(c, r[3], level[r[3]]) \in RunRow
    BY <2>1, StartedRow
  <2> QED
    BY <2>1, <2>2 DEF Claim
<1>5. OtherTables'
  BY <1>4, LedgerRows DEF Claim, OtherTables
<1> QED
  BY <1>2, <1>3, <1>5, OneRow

-----------------------------------------------------------------------------
(* The operations that leave the command table alone. *)

\* Only the other tables change.
LEMMA SameCommands ==
    ASSUME Ledger, UNCHANGED command, OtherTables'
    PROVE  Ledger'
BY LedgerRows, LedgerRowsNext

\* A request for a page makes a typed page row.
LEMMA NewPageRow ==
    ASSUME NEW r \in Runs, NEW req \in PageRequests
    PROVE  /\ NewPage(r, req) \in PageRow
           /\ NewPage(r, req).rev = req.rev
           /\ NewPage(r, req).from = req.from
           /\ NewPage(r, req).next = req.next
           /\ ServerReason(r, req) \in TerminalReason
<1>1. /\ req.ord \in Nat /\ req.rev \in Nat
      /\ req.from \in CursorOrNull /\ req.next \in CursorOrNull
      /\ req.asked \in TerminalReason
  BY ControlAssumption DEF PageRequests
<1>2. ServerReason(r, req) \in TerminalReason
  BY <1>1 DEF ServerReason, TerminalReason
<1> QED
  BY <1>1, <1>2 DEF NewPage, PageRow

\* commit_page keeps the ledger.
LEMMA CommitPageLedger ==
    ASSUME Ledger, NEW r \in Runs, NEW l, NEW req \in PageRequests, CommitPage(r, l, req)
    PROVE  Ledger'
<1>1. r[3] \in Sources
  BY DEF Runs
<1>2. req.next \in CursorOrNull
  BY DEF PageRequests
<1>3. pages' \in [Runs -> Seq(PageRow)]
  BY NewPageRow DEF CommitPage, Ledger, TypeOK
<1>4. run' \in [Runs -> RunRow]
  <2> DEFINE sealed == ServerReason(r, req) # "none"
  <2>1. run[r] \in RunRow /\ run \in [Runs -> RunRow]
    BY DEF Ledger, TypeOK
  <2>2. run[r].count + 1 \in Nat /\ sealed \in BOOLEAN
    BY <2>1 DEF RunRow
  <2>3. run' = [run EXCEPT ![r] = [run[r] EXCEPT !.count = run[r].count + 1,
                                                 !.final = req.next, !.sealed = sealed]]
    BY DEF CommitPage, AdvanceRun
  <2> HIDE DEF sealed
  <2>4. [run[r] EXCEPT !.count = run[r].count + 1, !.final = req.next, !.sealed = sealed]
            \in RunRow
    BY <1>2, <2>1, <2>2 DEF RunRow
  <2> QED
    BY <2>1, <2>3, <2>4
<1>5. checkpoint' \in [Sources -> CheckpointRow]
  <2>1. checkpoint[r[3]].revision + 1 \in Nat
    BY <1>1 DEF Ledger, TypeOK, CheckpointRow
  <2> QED
    BY <1>1, <1>2, <2>1 DEF CommitPage, AdvanceCheckpoint, Ledger, TypeOK, CheckpointRow
<1>6. OtherTables'
  BY <1>3, <1>4, <1>5, LedgerRows DEF CommitPage, OtherTables
<1> QED
  BY <1>6, SameCommands DEF CommitPage

\* attach_skip keeps the ledger.
LEMMA AttachSkipLedger ==
    ASSUME Ledger, NEW r \in Runs, NEW l, NEW kind \in SkipKinds,
           AttachSkip(r, l, kind)
    PROVE  Ledger'
<1> DEFINE decisions == source[r[3]].decisions
           proof == IF kind = "policy" THEN Len(decisions) + 1 ELSE 0
<1>1. r[3] \in Sources
  BY DEF Runs
<1>2. decisions \in Seq({"approved", "expired", "revoked"})
  BY <1>1 DEF Ledger, TypeOK
<1>3. Len(decisions) + 1 \in Nat /\ proof \in Nat
  BY <1>2
<1>4. Append(decisions, "revoked") \in Seq({"approved", "expired", "revoked"})
  BY <1>2
<1>5. \/ source' = source
      \/ source' = [source EXCEPT
                      ![r[3]] = [enabled |-> FALSE, active |-> Len(decisions) + 1,
                                 decisions |-> Append(decisions, "revoked")]]
  BY DEF AttachSkip, RevokeSource
<1>6. run' = [run EXCEPT ![r] = [run[r] EXCEPT !.skip = kind, !.proof = proof]]
  BY DEF AttachSkip
<1> HIDE DEF decisions, proof
<1>7. source' \in [Sources -> [enabled : BOOLEAN, active : Nat,
                               decisions : Seq({"approved", "expired", "revoked"})]]
  <2> DEFINE SourceRow == [enabled : BOOLEAN, active : Nat,
                           decisions : Seq({"approved", "expired", "revoked"})]
             row == [enabled |-> FALSE, active |-> Len(decisions) + 1,
                     decisions |-> Append(decisions, "revoked")]
  <2>1. source \in [Sources -> SourceRow]
    BY DEF Ledger, TypeOK
  <2>2. row \in SourceRow
    BY <1>3, <1>4
  <2>3. source' = source \/ source' = [source EXCEPT ![r[3]] = row]
    BY <1>5
  <2> HIDE DEF row, SourceRow
  <2>4. source' \in [Sources -> SourceRow]
    BY <1>1, <2>1, <2>2, <2>3
  <2> QED
    BY <2>4 DEF SourceRow
<1>8. run' \in [Runs -> RunRow]
  <2>1. run[r] \in RunRow /\ run \in [Runs -> RunRow]
    BY DEF Ledger, TypeOK
  <2>2. [run[r] EXCEPT !.skip = kind, !.proof = proof] \in RunRow
    BY <1>3, <2>1 DEF RunRow
  <2> QED
    BY <1>6, <2>1, <2>2
<1>9. OtherTables'
  BY <1>7, <1>8, LedgerRows DEF AttachSkip, OtherTables
<1> QED
  BY <1>9, SameCommands DEF AttachSkip

\* The operators' changes to a source keep the ledger.
LEMMA OperatorLedger ==
    ASSUME Ledger, NEW s \in Sources, Operator(s)
    PROVE  Ledger'
<1> DEFINE decisions == source[s].decisions
           SourceRow == [enabled : BOOLEAN, active : Nat,
                         decisions : Seq({"approved", "expired", "revoked"})]
<1>1. source \in [Sources -> SourceRow] /\ source[s] \in SourceRow
  BY DEF Ledger, TypeOK
<1>2. source' \in [Sources -> SourceRow]
  <2>1. CASE Expire(s)
    <3>1. [decisions EXCEPT ![source[s].active] = "expired"]
              \in Seq({"approved", "expired", "revoked"})
      <4>1. decisions \in Seq({"approved", "expired", "revoked"})
        BY <1>1
      <4>2. CASE source[s].active \in 1..Len(decisions)
        BY <4>1, <4>2, ExceptSeq
      <4>3. CASE source[s].active \notin 1..Len(decisions)
        <5>1. decisions = [i \in 1..Len(decisions) |-> decisions[i]]
          BY <4>1
        <5> HIDE DEF decisions
        <5>2. [decisions EXCEPT ![source[s].active] = "expired"] = decisions
          BY <4>3, <5>1
        <5> QED
          BY <4>1, <5>2
      <4> QED
        BY <4>2, <4>3
    <3>2. source' = [source EXCEPT
                      ![s] = [source[s] EXCEPT
                        !.decisions = [decisions EXCEPT ![source[s].active] = "expired"]]]
      BY <2>1 DEF Expire
    <3> QED
      BY <1>1, <3>1, <3>2
  <2>2. CASE Disable(s)
    BY <1>1, <2>2 DEF Disable
  <2>3. CASE Activate(s)
    BY <1>1, <2>3 DEF Activate
  <2> QED
    BY <2>1, <2>2, <2>3 DEF Operator
<1>3. OtherTables'
  BY <1>2, LedgerRows DEF Operator, Expire, Disable, Activate, OtherTables
<1> QED
  BY <1>3, SameCommands DEF Operator, Expire, Disable, Activate

-----------------------------------------------------------------------------
\* complete keeps the ledger.
LEMMA CompleteLedger ==
    ASSUME Ledger, NEW c \in Commands, NEW a \in Attempts, NEW l \in Leases,
           NEW plan \in Outcomes(c), Complete(c, a, l, plan)
    PROVE  Ledger'
<1> DEFINE st == Aggregate({plan[r] : r \in DOMAIN plan})
<1>1. st \in {"succeeded", "partial", "skipped"} \cup FailStatus
  BY AggregateStatus
<1>2. st \in CommandStatus \ {"absent", "queued"} /\ st \notin LeasedStatus
  BY <1>1 DEF CommandStatus, LeasedStatus, FailStatus
<1>3. /\ command' = [command EXCEPT ![c] = Finalized(c, st)]
      /\ receipts' = [receipts EXCEPT
                        ![c] = receipts[c] \cup {[attempt |-> a, lease |-> l, status |-> st]}]
      /\ command[c].status = "running"
  BY DEF Complete
<1> HIDE DEF st
<1>4. RowOK(Finalized(c, st))
  <2>1. RowOK(command[c])
    BY LedgerRows
  <2> QED
    BY <1>2, <1>3, <2>1, FinalizedRow DEF RowOK
<1>5. TypeOK /\ DOMAIN plan \subseteq Runs /\ \A r \in DOMAIN plan : plan[r] \in OutcomeStatus
  BY DEF Ledger, CurrentRuns, Outcomes
<1>6. receipts' \in [Commands -> SUBSET Receipt]
  BY <1>2, <1>3, <1>5 DEF TypeOK, Receipt
<1>7. OtherTables'
  BY <1>5, <1>6, FinishRunsType, PublishType DEF Complete, OtherTables, TypeOK
<1> QED
  BY <1>3, <1>4, <1>7, OneRow

\* The clock keeps the ledger.
LEMMA TickLedger ==
    ASSUME Ledger, Tick
    PROVE  Ledger'
<1> DEFINE Later(c) ==
        [command[c] EXCEPT
            !.age = IF command[c].status \in LeasedStatus /\ command[c].age <= ExecutionStale
                    THEN command[c].age + 1 ELSE command[c].age,
            !.wait = IF command[c].wait > 0 THEN command[c].wait - 1 ELSE command[c].wait]
<1>1. command' = [c \in Commands |-> Later(c)]
  BY DEF Tick
<1>2. ASSUME NEW c \in Commands PROVE RowOK(Later(c))
  <2> DEFINE age == IF command[c].status \in LeasedStatus /\ command[c].age <= ExecutionStale
                    THEN command[c].age + 1 ELSE command[c].age
             wait == IF command[c].wait > 0 THEN command[c].wait - 1 ELSE command[c].wait
  <2>1. RowOK(command[c]) /\ command[c] \in CommandRow
    BY LedgerRows DEF RowOK
  <2>2. age \in 0..(ExecutionStale + 1) /\ wait \in 0..RetryDelay
    BY <2>1, ControlAssumption DEF CommandRow
  <2>3. Later(c) = [command[c] EXCEPT !.age = age, !.wait = wait]
    OBVIOUS
  <2> HIDE DEF age, wait, Later
  <2> QED
    BY <2>1, <2>2, <2>3 DEF RowOK, CommandRow
<1> HIDE DEF Later
<1>3. command' \in [Commands -> CommandRow] /\ \A c \in Commands : RowOK(command'[c])
  BY <1>1, <1>2 DEF RowOK
<1>4. OtherTables'
  BY LedgerRows DEF Tick, OtherTables
<1> QED
  BY <1>3, <1>4, LedgerRowsNext

-----------------------------------------------------------------------------
\* No step of any actor breaks the ledger.
LEMMA NextLedger ==
    ASSUME Ledger, [Next]_vars
    PROVE  Ledger'
<1>1. CASE MaterializeSome
  BY <1>1, MaterializeLedger DEF MaterializeSome
<1>2. ASSUME NEW c \in Commands, Request(c) PROVE Ledger'
  <2>1. CASE Reserve(c)
    BY <2>1, ReserveLedger
  <2>2. ASSUME NEW srcs \in SUBSET Sources, RetryCollection(c, srcs) PROVE Ledger'
    BY <2>2, RetryLedger
  <2>3. ASSUME NEW a \in Attempts, NEW l \in Leases,
               \/ Confirm(c, a, l)
               \/ Heartbeat(c, a, l)
               \/ \E level \in [Sources -> BudgetLevels] : Claim(c, a, l, level)
               \/ \E plan \in Outcomes(c) : Complete(c, a, l, plan)
        PROVE  Ledger'
    BY <2>3, ConfirmLedger, HeartbeatLedger, ClaimLedger, CompleteLedger
  <2> QED
    BY <1>2, <2>1, <2>2, <2>3 DEF Request
<1>3. ASSUME NEW r \in Runs, RunRequest(r) PROVE Ledger'
  BY <1>3, CommitPageLedger, AttachSkipLedger DEF RunRequest
<1>4. ASSUME NEW s \in Sources, Operator(s) PROVE Ledger'
  BY <1>4, OperatorLedger
<1>5. CASE Tick
  BY <1>5, TickLedger
<1>6. CASE UNCHANGED vars
  BY <1>6, LedgerRows, SameCommands DEF vars, OtherTables
<1> QED
  BY <1>1, <1>2, <1>3, <1>4, <1>5, <1>6 DEF Next

\* The ledger is an invariant of the control plane.
THEOREM LedgerInvariant == Spec => []Ledger
<1>1. Init => Ledger
  BY InitLedger
<1>2. Ledger /\ [Next]_vars => Ledger'
  BY NextLedger
<1> QED
  BY <1>1, <1>2, PTL DEF Spec

\* Every table keeps its column types, for any number of attempts.
THEOREM TypeCorrect == Spec => []TypeOK
<1>1. Ledger => TypeOK
  BY DEF Ledger
<1> QED
  BY <1>1, LedgerInvariant, PTL

\* Every attempt is opened by exactly one reservation, so a collector that
\* still holds an older lease never matches the current one.
THEOREM LeasesMatchAttempts == Spec => []OneLeasePerAttempt
<1>1. Ledger => OneLeasePerAttempt
  BY DEF Ledger
<1> QED
  BY <1>1, LedgerInvariant, PTL

-----------------------------------------------------------------------------
(* The page log.  CheckpointIsLog is inductive relative to the types: only  *)
(* commit_page extends a log, and its compare-and-swap makes the new page   *)
(* the one page at the revision the checkpoint had reached.                 *)

\* Positions of a source's log.
LEMMA CommittedMember ==
    ASSUME NEW s
    PROVE  \A p : p \in Committed(s) <=>
                    \E r \in Runs : r[3] = s /\ \E i \in 1..Len(pages[r]) : p = <<r, i>>
BY DEF Committed

\* ... and in the next state.
LEMMA CommittedMemberNext ==
    ASSUME NEW s
    PROVE  \A p : p \in Committed(s)' <=>
                    \E r \in Runs : r[3] = s /\ \E i \in 1..Len(pages'[r]) : p = <<r, i>>
BY DEF Committed

\* Every committed page has a revision.
LEMMA CommittedType ==
    ASSUME TypeOK, NEW s, NEW p \in Committed(s)
    PROVE  PageAt(p) \in PageRow /\ PageAt(p).rev \in Nat
<1>1. PICK r \in Runs, i \in Nat : i \in 1..Len(pages[r]) /\ p = <<r, i>>
  BY CommittedMember
<1>2. pages[r] \in Seq(PageRow)
  BY DEF TypeOK
<1>3. PageAt(p) \in PageRow
  BY <1>1, <1>2 DEF PageAt
<1> QED
  BY <1>3 DEF PageRow

\* A step that adds no page and moves no checkpoint keeps the log.
LEMMA LogUntouched ==
    ASSUME CheckpointIsLog, UNCHANGED pages,
           \A s \in Sources : /\ checkpoint'[s].revision = checkpoint[s].revision
                              /\ checkpoint'[s].cursor = checkpoint[s].cursor
    PROVE  CheckpointIsLog'
<1> SUFFICES ASSUME NEW s \in Sources
             PROVE  (LogGapFree(s) /\ LogUnique(s) /\ LogLinked(s) /\ LogEndsAtCheckpoint(s))'
  BY DEF CheckpointIsLog
<1>1. Committed(s)' = Committed(s) /\ \A p : PageAt(p)' = PageAt(p)
  BY DEF Committed, PageAt
<1>2. LogGapFree(s) /\ LogUnique(s) /\ LogLinked(s) /\ LogEndsAtCheckpoint(s)
  BY DEF CheckpointIsLog
<1> QED
  BY <1>1, <1>2 DEF LogGapFree, LogUnique, LogLinked, LogEndsAtCheckpoint

\* Completing runs moves no checkpoint.
LEMMA MarkCompletedKeeps ==
    ASSUME TypeOK, NEW plan, checkpoint' = MarkCompleted(plan)
    PROVE  \A s \in Sources : /\ checkpoint'[s].revision = checkpoint[s].revision
                              /\ checkpoint'[s].cursor = checkpoint[s].cursor
<1> SUFFICES ASSUME NEW s \in Sources
             PROVE  /\ checkpoint'[s].revision = checkpoint[s].revision
                    /\ checkpoint'[s].cursor = checkpoint[s].cursor
  OBVIOUS
<1>1. checkpoint[s] \in CheckpointRow
  BY DEF TypeOK
<1>2. \/ checkpoint'[s] = checkpoint[s]
      \/ \E d : checkpoint'[s] = [checkpoint[s] EXCEPT !.done = d]
  BY DEF MarkCompleted
<1> QED
  BY <1>1, <1>2 DEF CheckpointRow

\* commit_page puts exactly one page at the end of one log.
LEMMA CommitPageExtends ==
    ASSUME TypeOK, NEW r \in Runs, NEW l, NEW req \in PageRequests, CommitPage(r, l, req),
           NEW new, new = <<r, Len(pages[r]) + 1>>
    PROVE  /\ Committed(r[3])' = Committed(r[3]) \cup {new}
           /\ PageAt(new)' = NewPage(r, req)
           /\ \A s : \A p \in Committed(s) : PageAt(p)' = PageAt(p) /\ p # new
           /\ \A s : s # r[3] => Committed(s)' = Committed(s)
<1>1. pages \in [Runs -> Seq(PageRow)] /\ pages[r] \in Seq(PageRow)
  BY DEF TypeOK
<1>2. NewPage(r, req) \in PageRow
  BY NewPageRow
<1>3. /\ pages'[r] = Append(pages[r], NewPage(r, req))
      /\ \A q \in Runs : q # r => pages'[q] = pages[q]
  BY <1>1 DEF CommitPage
<1>4. /\ Len(pages'[r]) = Len(pages[r]) + 1
      /\ pages'[r][Len(pages[r]) + 1] = NewPage(r, req)
      /\ \A i \in 1..Len(pages[r]) : pages'[r][i] = pages[r][i]
      /\ Len(pages[r]) \in Nat
  BY <1>1, <1>2, <1>3
<1>5. PageAt(new)' = NewPage(r, req)
  BY <1>4 DEF PageAt
<1>6. ASSUME NEW s, NEW p \in Committed(s)
      PROVE  PageAt(p)' = PageAt(p) /\ p # new
  <2>1. PICK q \in Runs, i \in Nat : i \in 1..Len(pages[q]) /\ p = <<q, i>>
    BY CommittedMember
  <2>2. CASE q = r
    BY <1>4, <2>1, <2>2 DEF PageAt
  <2>3. CASE q # r
    BY <1>3, <2>1, <2>3 DEF PageAt
  <2> QED
    BY <2>2, <2>3
<1>7. ASSUME NEW s, s # r[3] PROVE Committed(s)' = Committed(s)
  <2>1. \A q \in Runs : q[3] = s => pages'[q] = pages[q]
    BY <1>3, <1>7
  <2>2. \A p : p \in Committed(s)' <=> p \in Committed(s)
    BY <2>1, CommittedMember, CommittedMemberNext
  <2> QED
    BY <2>2
<1>8. Committed(r[3])' = Committed(r[3]) \cup {new}
  <2>1. ASSUME NEW p \in Committed(r[3])' PROVE p \in Committed(r[3]) \cup {new}
    <3>1. PICK q \in Runs, i \in Nat :
              i \in 1..Len(pages'[q]) /\ q[3] = r[3] /\ p = <<q, i>>
      BY CommittedMemberNext
    <3>2. CASE q = r /\ i = Len(pages[r]) + 1
      BY <3>1, <3>2
    <3>3. CASE q = r /\ i # Len(pages[r]) + 1
      <4>1. i \in 1..Len(pages[r])
        BY <1>4, <3>1, <3>3
      <4> QED
        BY <3>1, <3>3, <4>1, CommittedMember
    <3>4. CASE q # r
      BY <1>3, <3>1, <3>4, CommittedMember
    <3> QED
      BY <3>2, <3>3, <3>4
  <2>2. ASSUME NEW p \in Committed(r[3]) PROVE p \in Committed(r[3])'
    <3>1. PICK q \in Runs, i \in Nat :
              i \in 1..Len(pages[q]) /\ q[3] = r[3] /\ p = <<q, i>>
      BY CommittedMember
    <3>2. i \in 1..Len(pages'[q])
      BY <1>3, <1>4, <3>1
    <3> QED
      BY <3>1, <3>2, CommittedMemberNext
  <2>3. new \in Committed(r[3])'
    <3>1. Len(pages[r]) + 1 \in 1..Len(pages'[r])
      BY <1>4
    <3> QED
      BY <3>1, CommittedMemberNext
  <2> QED
    BY <2>1, <2>2, <2>3
<1> QED
  BY <1>5, <1>6, <1>7, <1>8

\* commit_page keeps the log.
LEMMA CommitPageLog ==
    ASSUME TypeOK, CheckpointIsLog, NEW r \in Runs, NEW l, NEW req \in PageRequests,
           CommitPage(r, l, req)
    PROVE  CheckpointIsLog'
<1>0. PICK new : new = <<r, Len(pages[r]) + 1>>
  OBVIOUS
<1> DEFINE src == r[3]
           rev == checkpoint[src].revision
<1>1. src \in Sources /\ checkpoint \in [Sources -> CheckpointRow]
  BY DEF TypeOK, Runs
<1>2. rev \in Nat
  BY <1>1 DEF CheckpointRow
<1>3. /\ Committed(src)' = Committed(src) \cup {new}
      /\ PageAt(new)' = NewPage(r, req)
      /\ \A s : \A p \in Committed(s) : PageAt(p)' = PageAt(p) /\ p # new
      /\ \A s : s # src => Committed(s)' = Committed(s)
  BY <1>0, CommitPageExtends
<1>4. /\ checkpoint'[src].revision = rev + 1
      /\ checkpoint'[src].cursor = req.next
      /\ \A s \in Sources : s # src => checkpoint'[s] = checkpoint[s]
  BY <1>1 DEF CommitPage, AdvanceCheckpoint, CheckpointRow
<1>5. /\ PageAt(new)'.rev = rev
      /\ PageAt(new)'.from = checkpoint[src].cursor
      /\ PageAt(new)'.next = req.next
  BY <1>3, NewPageRow DEF CommitPage, CasMatches
<1>6. \A s : \A p \in Committed(s) : PageAt(p).rev \in Nat
  BY CommittedType
<1>7. LogGapFree(src) /\ LogUnique(src) /\ LogLinked(src) /\ LogEndsAtCheckpoint(src)
  BY <1>1 DEF CheckpointIsLog
<1> HIDE DEF src, rev
<1>8. \A p \in Committed(src) : PageAt(p).rev < rev /\ PageAt(p).rev \in Nat
  BY <1>6, <1>7 DEF LogGapFree, rev
<1>9. LogGapFree(src)'
  <2>1. \A p \in Committed(src)' : PageAt(p)'.rev < rev + 1
    BY <1>2, <1>3, <1>5, <1>8
  <2>2. ASSUME NEW n \in 0..rev PROVE \E p \in Committed(src)' : PageAt(p)'.rev = n
    <3>1. CASE n = rev
      BY <1>3, <1>5, <3>1
    <3>2. CASE n # rev
      <4>1. n \in 0..(rev - 1)
        BY <1>2, <3>2
      <4>2. PICK p \in Committed(src) : PageAt(p).rev = n
        BY <1>7, <4>1 DEF LogGapFree, rev
      <4> QED
        BY <1>3, <4>2
    <3> QED
      BY <3>1, <3>2
  <2>3. (rev + 1) - 1 = rev
    BY <1>2
  <2> QED
    BY <1>4, <2>1, <2>2, <2>3 DEF LogGapFree
<1>10. LogUnique(src)'
  <2> SUFFICES ASSUME NEW p \in Committed(src)', NEW q \in Committed(src)',
                      PageAt(p)'.rev = PageAt(q)'.rev
               PROVE  p = q
    BY DEF LogUnique
  <2>1. CASE p \in Committed(src) /\ q \in Committed(src)
    BY <1>3, <1>7, <2>1 DEF LogUnique
  <2>2. CASE p = new \/ q = new
    BY <1>2, <1>3, <1>5, <1>8, <2>2
  <2> QED
    BY <1>3, <2>1, <2>2
<1>11. LogLinked(src)'
  <2> SUFFICES ASSUME NEW p \in Committed(src)', NEW q \in Committed(src)',
                      PageAt(q)'.rev = PageAt(p)'.rev + 1
               PROVE  PageAt(q)'.from = PageAt(p)'.next
    BY DEF LogLinked
  <2>1. CASE p \in Committed(src) /\ q \in Committed(src)
    BY <1>3, <1>7, <2>1 DEF LogLinked
  <2>2. CASE p = new
    BY <1>2, <1>3, <1>5, <1>8, <2>2
  <2>3. CASE p # new /\ q = new
    <3>1. p \in Committed(src) /\ PageAt(p)' = PageAt(p)
      BY <1>3, <2>3
    <3>2. PageAt(p).rev + 1 = checkpoint[src].revision
      BY <1>5, <2>3, <3>1 DEF rev
    <3> QED
      BY <1>5, <1>7, <2>3, <3>1, <3>2 DEF LogEndsAtCheckpoint
  <2> QED
    BY <1>3, <2>1, <2>2, <2>3
<1>12. LogEndsAtCheckpoint(src)'
  <2> SUFFICES ASSUME NEW p \in Committed(src)', PageAt(p)'.rev + 1 = rev + 1
               PROVE  PageAt(p)'.next = req.next
    BY <1>4 DEF LogEndsAtCheckpoint
  <2>1. p = new
    BY <1>2, <1>3, <1>8
  <2> QED
    BY <1>5, <2>1
<1>13. ASSUME NEW s \in Sources, s # src
       PROVE  (LogGapFree(s) /\ LogUnique(s) /\ LogLinked(s) /\ LogEndsAtCheckpoint(s))'
  <2>1. /\ Committed(s)' = Committed(s)
        /\ \A p \in Committed(s) : PageAt(p)' = PageAt(p)
        /\ checkpoint'[s] = checkpoint[s]
    BY <1>3, <1>4, <1>13
  <2>2. LogGapFree(s) /\ LogUnique(s) /\ LogLinked(s) /\ LogEndsAtCheckpoint(s)
    BY DEF CheckpointIsLog
  <2> QED
    BY <2>1, <2>2 DEF LogGapFree, LogUnique, LogLinked, LogEndsAtCheckpoint
<1> QED
  BY <1>9, <1>10, <1>11, <1>12, <1>13 DEF CheckpointIsLog

\* No step of any actor breaks the page log.
LEMMA NextLog ==
    ASSUME Ledger, CheckpointIsLog, [Next]_vars
    PROVE  CheckpointIsLog'
<1>1. TypeOK
  BY DEF Ledger
<1>2. CASE MaterializeSome
  BY <1>1, <1>2, MarkCompletedKeeps, LogUntouched DEF MaterializeSome, Materialize
<1>3. ASSUME NEW c \in Commands, Request(c) PROVE CheckpointIsLog'
  <2>1. ASSUME NEW a, NEW l, NEW plan, Complete(c, a, l, plan) PROVE CheckpointIsLog'
    BY <1>1, <2>1, MarkCompletedKeeps, LogUntouched DEF Complete
  <2>2. CASE UNCHANGED <<pages, checkpoint>>
    BY <2>2, LogUntouched
  <2> QED
    BY <1>3, <2>1, <2>2 DEF Request, Reserve, RetryCollection, Confirm, Heartbeat, Claim
<1>4. ASSUME NEW r \in Runs, RunRequest(r) PROVE CheckpointIsLog'
  <2>1. ASSUME NEW l, NEW kind, AttachSkip(r, l, kind) PROVE CheckpointIsLog'
    BY <2>1, LogUntouched DEF AttachSkip
  <2> QED
    BY <1>1, <1>4, <2>1, CommitPageLog DEF RunRequest
<1>5. ASSUME NEW s \in Sources, Operator(s) PROVE CheckpointIsLog'
  BY <1>5, LogUntouched DEF Operator, Expire, Disable, Activate
<1>6. CASE Tick \/ UNCHANGED vars
  BY <1>6, LogUntouched DEF Tick, vars
<1> QED
  BY <1>2, <1>3, <1>4, <1>5, <1>6 DEF Next

\* Nothing is committed at first.
LEMMA InitLog == Init => CheckpointIsLog
<1> SUFFICES ASSUME Init PROVE CheckpointIsLog
  OBVIOUS
<1>1. \A s \in Sources : Committed(s) = {} /\ checkpoint[s].revision = 0
  BY DEF Init, Committed
<1> QED
  BY <1>1 DEF CheckpointIsLog, LogGapFree, LogUnique, LogLinked, LogEndsAtCheckpoint

\* Exactly-once page log, for any number of commands, attempts and sources:
\* no interleaving of collectors, stale leases, recovery and authorization
\* changes makes two commits consume one revision or leaves a gap.
THEOREM PageLogInvariant == Spec => []CheckpointIsLog
<1>1. Init => CheckpointIsLog
  BY InitLog
<1>2. Ledger /\ CheckpointIsLog /\ [Next]_vars => CheckpointIsLog'
  BY NextLog
<1> QED
  BY <1>1, <1>2, LedgerInvariant, PTL DEF Spec

-----------------------------------------------------------------------------
(* Runs and commands stay in step. *)

\* A run nobody claimed has no page and the columns of an empty row.
UnclaimedIsEmpty ==
    \A r \in Runs : run[r].status = "none" => run[r] = NoRun /\ pages[r] = <<>>

\* The inductive invariant behind the theorems about runs.
RunsInv == Ledger /\ UnclaimedIsEmpty /\ RunsFollowCommand

\* What a completion and a recovery have in common: runs that may finish are
\* finished, the winners are published.
Finishing(plan) ==
    /\ DOMAIN plan \subseteq Runs
    /\ \A r \in DOMAIN plan : plan[r] \in OutcomeStatus /\ MayFinish(r, plan[r])
    /\ run' = FinishRuns(plan)
    /\ checkpoint' = MarkCompleted(plan)
    /\ published' = Publish(plan)
    /\ pages' = pages

\* The parts of a run's identity.
LEMMA RunParts ==
    ASSUME NEW r \in Runs
    PROVE  /\ r[1] \in Commands /\ r[2] \in Attempts /\ r[3] \in Sources
           /\ r = <<r[1], r[2], r[3]>>
BY DEF Runs

\* The converse.
LEMMA RunOf ==
    ASSUME NEW c \in Commands, NEW a \in Attempts, NEW s \in Sources
    PROVE  <<c, a, s>> \in Runs
BY DEF Runs

\* Finishing changes the status of the planned runs and nothing else.
LEMMA FinishedRow ==
    ASSUME TypeOK, NEW plan, Finishing(plan), NEW r \in Runs
    PROVE  /\ r \notin DOMAIN plan => run'[r] = run[r]
           /\ r \in DOMAIN plan =>
                /\ run[r].status = "running"
                /\ run'[r].status = plan[r]
                /\ plan[r] \in OutcomeStatus
<1>1. run[r] \in RunRow
  BY DEF TypeOK
<1>2. run'[r] = IF r \in DOMAIN plan THEN [run[r] EXCEPT !.status = plan[r]] ELSE run[r]
  BY DEF Finishing, FinishRuns
<1>3. r \in DOMAIN plan => run[r].status = "running" /\ plan[r] \in OutcomeStatus
  BY DEF Finishing, MayFinish
<1> QED
  BY <1>1, <1>2, <1>3 DEF RunRow

\* The other columns of a finished run.
LEMMA FinishedColumns ==
    ASSUME TypeOK, NEW plan, Finishing(plan), NEW r \in DOMAIN plan
    PROVE  /\ run'[r].auth = run[r].auth
           /\ run'[r].budget = run[r].budget
           /\ run'[r].sealed = run[r].sealed
           /\ run'[r].skip = run[r].skip
           /\ run'[r].proof = run[r].proof
<1>1. r \in Runs /\ run[r] \in RunRow
  BY DEF TypeOK, Finishing
<1>2. run'[r] = [run[r] EXCEPT !.status = plan[r]]
  BY <1>1 DEF Finishing, FinishRuns
<1> QED
  BY <1>1, <1>2 DEF RunRow

\* The runs of a recovery plan are runs of planned commands that may finish.
LEMMA RecoveryFinishes ==
    ASSUME NEW due, Materialize(due)
    PROVE  /\ Finishing(RecoveryPlan)
           /\ \A r \in Runs : r \in DOMAIN RecoveryPlan <=>
                /\ r[1] \in Commands
                /\ Planned(r[1])
                /\ r \in CurrentRuns(r[1])
           /\ \A r \in DOMAIN RecoveryPlan : RecoveryPlan[r] = RecoveryOutcome(r)
<1>1. \A r : r \in DOMAIN RecoveryPlan <=>
                \E c \in Commands : Planned(c) /\ r \in CurrentRuns(c)
  BY DEF RecoveryPlan
<1>2. \A r \in DOMAIN RecoveryPlan : RecoveryPlan[r] = RecoveryOutcome(r)
  BY DEF RecoveryPlan
<1>3. \A c, r : r \in CurrentRuns(c) => r \in Runs /\ r[1] = c
  BY DEF CurrentRuns
<1>4. ASSUME NEW r \in DOMAIN RecoveryPlan
      PROVE  MayFinish(r, RecoveryOutcome(r)) /\ RecoveryOutcome(r) \in OutcomeStatus
  <2>1. PICK c \in Commands : Planned(c) /\ r \in CurrentRuns(c)
    BY <1>1
  <2>2. ~RecoveryRefused(c) /\ command[c].status = "running"
    BY <2>1 DEF Materialize, Planned
  <2>3. MayFinish(r, RecoveryOutcome(r))
    BY <2>1, <2>2 DEF RecoveryRefused
  <2> QED
    BY <2>3 DEF RecoveryOutcome, OutcomeStatus, FailStatus
<1>5. Finishing(RecoveryPlan)
  BY <1>1, <1>2, <1>3, <1>4 DEF Finishing, Materialize
<1> QED
  BY <1>1, <1>2, <1>3, <1>5

\* A completion finishes exactly the current runs of its command.
LEMMA CompletionFinishes ==
    ASSUME NEW c \in Commands, NEW a, NEW l, NEW plan \in Outcomes(c), Complete(c, a, l, plan)
    PROVE  Finishing(plan) /\ DOMAIN plan = CurrentRuns(c)
BY DEF Finishing, Complete, Outcomes, CurrentRuns

\* The current runs of a command, in the next state.
LEMMA CurrentNext ==
    ASSUME NEW c
    PROVE  \A r : r \in CurrentRuns(c)' <=>
                    /\ r \in Runs /\ r[1] = c /\ r[2] = command'[c].attempt
                    /\ run'[r].status # "none"
BY DEF CurrentRuns

\* A step that starts and ends no run and no attempt under way keeps commands
\* and runs in step.
LEMMA RunsKept ==
    ASSUME RunsInv, Ledger',
           \A r \in Runs : run'[r].status = run[r].status /\ run'[r].lease = run[r].lease,
           \A c \in Commands :
                /\ command'[c].status = "running" <=> command[c].status = "running"
                /\ command[c].status = "running" =>
                        /\ command'[c].attempt = command[c].attempt
                        /\ command'[c].lease = command[c].lease
                /\ command[c].attempt <= command'[c].attempt
    PROVE  RunsFollowCommand'
<1>1. ASSUME NEW c \in Commands, command'[c].status = "running"
      PROVE  CurrentRuns(c)' # {} /\ \A r \in CurrentRuns(c)' : run'[r].status = "running"
  <2>1. command[c].status = "running" /\ command'[c].attempt = command[c].attempt
    BY <1>1
  <2>2. CurrentRuns(c)' = CurrentRuns(c)
    BY <2>1 DEF CurrentRuns
  <2> QED
    BY <2>1, <2>2 DEF RunsInv, RunsFollowCommand, CurrentRuns
<1>2. ASSUME NEW r \in Runs, run'[r].status = "running"
      PROVE  /\ command'[r[1]].status = "running"
             /\ command'[r[1]].attempt = r[2]
             /\ command'[r[1]].lease = run'[r].lease
  BY <1>2, RunParts DEF RunsInv, RunsFollowCommand
<1>3. ASSUME NEW r \in Runs, run'[r].status # "none" PROVE r[2] <= command'[r[1]].attempt
  <2>1. r[1] \in Commands /\ r[2] \in Nat
    BY RunParts DEF Attempts
  <2>2. command[r[1]].attempt \in Nat
    BY <2>1 DEF RunsInv, Ledger, TypeOK, CommandRow, Attempts
  <2>3. command'[r[1]].attempt \in Nat
    BY <2>1 DEF Ledger, TypeOK, CommandRow, Attempts
  <2>4. r[2] <= command[r[1]].attempt /\ command[r[1]].attempt <= command'[r[1]].attempt
    BY <1>3, <2>1 DEF RunsInv, RunsFollowCommand
  <2> QED
    BY <2>1, <2>2, <2>3, <2>4
<1> QED
  BY <1>1, <1>2, <1>3 DEF RunsFollowCommand

\* In the initial state there are no runs.
LEMMA InitRuns == Init => RunsInv
<1> SUFFICES ASSUME Init PROVE RunsInv
  OBVIOUS
<1>1. Ledger
  BY InitLedger
<1>2. \A r \in Runs : run[r] = NoRun /\ pages[r] = <<>> /\ run[r].status = "none"
  BY DEF Init, NoRun
<1>3. \A c \in Commands : command[c].status # "running"
  BY DEF Init, AbsentCommand
<1> QED
  BY <1>1, <1>2, <1>3 DEF RunsInv, UnclaimedIsEmpty, RunsFollowCommand

\* Steps on command rows alone: reserve, retry_collection, confirm, heartbeat.
LEMMA CommandStepRuns ==
    ASSUME RunsInv, Ledger', NEW c \in Commands, NEW a, NEW l, NEW srcs,
           \/ Reserve(c)
           \/ RetryCollection(c, srcs)
           \/ Confirm(c, a, l)
           \/ Heartbeat(c, a, l)
    PROVE  RunsInv'
<1>1. UNCHANGED <<run, pages>>
  BY DEF Reserve, RetryCollection, Confirm, Heartbeat
<1>2. command \in [Commands -> CommandRow] /\ command[c] \in CommandRow
  BY DEF RunsInv, Ledger, TypeOK
<1>3. command[c].attempt \in Nat
  BY <1>2 DEF CommandRow, Attempts
<1>4. /\ command'[c].status = "running" <=> command[c].status = "running"
      /\ command[c].status = "running" =>
            /\ command'[c].attempt = command[c].attempt
            /\ command'[c].lease = command[c].lease
      /\ command[c].attempt <= command'[c].attempt
  <2>1. CASE Reserve(c)
    BY <1>2, <1>3, <2>1 DEF Reserve, Reserved, NextAttempt, CommandRow
  <2>2. CASE RetryCollection(c, srcs)
    <3>1. command[c].attempt = 1
      BY <2>2 DEF RetryCollection, RunsInv, Ledger, OneLeasePerAttempt
    <3>2. command'[c] = Queued(srcs)
      BY <1>2, <2>2 DEF RetryCollection
    <3>3. Queued(srcs).status = "queued" /\ Queued(srcs).attempt = 1
      BY DEF Queued, AbsentCommand
    <3> QED
      BY <2>2, <3>1, <3>2, <3>3 DEF RetryCollection
  <2>3. CASE Confirm(c, a, l)
    BY <1>2, <1>3, <2>3 DEF Confirm, Confirmed, CommandRow
  <2>4. CASE Heartbeat(c, a, l)
    BY <1>2, <1>3, <2>4 DEF Heartbeat, CommandRow
  <2> QED
    BY <2>1, <2>2, <2>3, <2>4
<1>5. \A k \in Commands : k # c => command'[k] = command[k]
  BY <1>2 DEF Reserve, RetryCollection, Confirm, Heartbeat
<1>6. \A k \in Commands : command[k].attempt \in Nat
  BY <1>2 DEF CommandRow, Attempts
<1>7. RunsFollowCommand'
  <2>1. \A k \in Commands : command[k].attempt <= command[k].attempt
    BY <1>6
  <2>2. \A k \in Commands :
                /\ command'[k].status = "running" <=> command[k].status = "running"
                /\ command[k].status = "running" =>
                        /\ command'[k].attempt = command[k].attempt
                        /\ command'[k].lease = command[k].lease
                /\ command[k].attempt <= command'[k].attempt
    BY <1>4, <1>5, <2>1
  <2> QED
    BY <1>1, <2>2, RunsKept
<1> QED
  BY <1>1, <1>7 DEF RunsInv, UnclaimedIsEmpty

\* The clock touches only ages and waits.
LEMMA TickRuns ==
    ASSUME RunsInv, Ledger', Tick
    PROVE  RunsInv'
<1>1. ASSUME NEW c \in Commands
      PROVE  /\ command'[c].status = command[c].status
             /\ command'[c].attempt = command[c].attempt
             /\ command'[c].lease = command[c].lease
             /\ command[c].attempt \in Nat
  <2>1. command[c] \in CommandRow
    BY DEF RunsInv, Ledger, TypeOK
  <2>2. \E x, y : command'[c] = [command[c] EXCEPT !.age = x, !.wait = y]
    BY DEF Tick
  <2> QED
    BY <2>1, <2>2 DEF CommandRow, Attempts
<1>2. UNCHANGED <<run, pages>>
  BY DEF Tick
<1>3. \A c \in Commands : command[c].attempt <= command'[c].attempt
  BY <1>1
<1>4. RunsFollowCommand'
  BY <1>1, <1>2, <1>3, RunsKept
<1> QED
  BY <1>2, <1>4 DEF RunsInv, UnclaimedIsEmpty

\* The columns of a run that a claim starts.
LEMMA StartedColumns ==
    ASSUME NEW c, NEW s, NEW level
    PROVE  /\ StartedRun(c, s, level).status = "running"
           /\ StartedRun(c, s, level).lease = command[c].lease
           /\ StartedRun(c, s, level).auth = source[s].active
           /\ StartedRun(c, s, level).budget = level
           /\ StartedRun(c, s, level).start = checkpoint[s].revision
           /\ StartedRun(c, s, level).first = checkpoint[s].cursor
           /\ StartedRun(c, s, level).final = checkpoint[s].cursor
           /\ StartedRun(c, s, level).count = 0
           /\ ~StartedRun(c, s, level).sealed
           /\ StartedRun(c, s, level).skip = IF level = "hard_stop" THEN "quota" ELSE "none"
           /\ StartedRun(c, s, level).proof = 0
BY DEF StartedRun, NoRun

\* The runs a claim starts.
Started(c, r) == r[1] = c /\ r[2] = command[c].attempt /\ r[3] \in EligibleSources(c)

\* A claim starts runs that did not exist and leaves every other run alone.
LEMMA ClaimRows ==
    ASSUME RunsInv, NEW c \in Commands, NEW a, NEW l, NEW level, Claim(c, a, l, level)
    PROVE  /\ \A r \in Runs :
                IF Started(c, r)
                THEN run[r].status = "none" /\ run'[r] = StartedRun(c, r[3], level[r[3]])
                ELSE run'[r] = run[r]
           /\ \E r \in Runs : Started(c, r)
           /\ command'[c].status = "running"
           /\ command'[c].attempt = command[c].attempt
           /\ command'[c].lease = command[c].lease
           /\ \A k \in Commands : k # c => command'[k] = command[k]
           /\ a = command[c].attempt
<1>1. command \in [Commands -> CommandRow] /\ command[c] \in CommandRow
  BY DEF RunsInv, Ledger, TypeOK
<1>2. a = command[c].attempt
  BY DEF Claim, CredentialsMatch
<1>3. \A r \in Runs : Started(c, r) => run[r].status = "none"
  BY DEF Claim, CurrentRuns, Started
<1>4. \A r \in Runs : run'[r] = IF Started(c, r) THEN StartedRun(c, r[3], level[r[3]]) ELSE run[r]
  BY <1>2 DEF Claim, Started
<1>5. \E r \in Runs : Started(c, r)
  <2>1. PICK s \in EligibleSources(c) : TRUE
    BY DEF Claim
  <2>2. s \in Sources /\ command[c].attempt \in Attempts
    BY <1>1, <2>1 DEF EligibleSources, CommandRow
  <2>3. <<c, command[c].attempt, s>> \in Runs
    BY <2>2, RunOf
  <2> QED
    BY <2>1, <2>3 DEF Started
<1>6. /\ command'[c].status = "running"
      /\ command'[c].attempt = command[c].attempt
      /\ command'[c].lease = command[c].lease
      /\ \A k \in Commands : k # c => command'[k] = command[k]
  BY <1>1 DEF Claim, CommandRow
<1> QED
  BY <1>2, <1>3, <1>4, <1>5, <1>6

\* claim keeps commands and runs in step.
LEMMA ClaimRuns ==
    ASSUME RunsInv, Ledger', NEW c \in Commands, NEW a, NEW l, NEW level,
           Claim(c, a, l, level)
    PROVE  RunsInv'
<1>1. /\ \A r \in Runs :
                IF Started(c, r)
                THEN run[r].status = "none" /\ run'[r] = StartedRun(c, r[3], level[r[3]])
                ELSE run'[r] = run[r]
      /\ \E r \in Runs : Started(c, r)
      /\ command'[c].status = "running"
      /\ command'[c].attempt = command[c].attempt
      /\ command'[c].lease = command[c].lease
      /\ \A k \in Commands : k # c => command'[k] = command[k]
  BY ClaimRows
<1>2. /\ command[c].status # "running"
      /\ \A r \in Runs : r[1] = c /\ r[2] = command[c].attempt => run[r].status = "none"
      /\ pages' = pages
  BY DEF Claim, CurrentRuns
<1>3. ASSUME NEW r \in Runs, Started(c, r)
      PROVE  run'[r].status = "running" /\ run'[r].lease = command[c].lease
  <2>1. run'[r] = StartedRun(c, r[3], level[r[3]])
    BY <1>1, <1>3
  <2> QED
    BY <2>1, StartedColumns
<1>4. UnclaimedIsEmpty'
  BY <1>1, <1>2, <1>3 DEF UnclaimedIsEmpty, RunsInv
<1>5. ASSUME NEW k \in Commands, command'[k].status = "running"
      PROVE  CurrentRuns(k)' # {} /\ \A r \in CurrentRuns(k)' : run'[r].status = "running"
  <2>1. CASE k = c
    BY <1>1, <1>2, <1>3, <2>1, CurrentNext DEF Started
  <2>2. CASE k # c
    <3>1. command'[k] = command[k] /\ \A r \in Runs : r[1] = k => run'[r] = run[r]
      BY <1>1, <2>2 DEF Started
    <3>2. CurrentRuns(k)' = CurrentRuns(k)
      BY <3>1 DEF CurrentRuns
    <3> QED
      BY <1>5, <3>1, <3>2 DEF RunsInv, RunsFollowCommand, CurrentRuns
  <2> QED
    BY <2>1, <2>2
<1>6. ASSUME NEW r \in Runs, run'[r].status = "running"
      PROVE  /\ command'[r[1]].status = "running"
             /\ command'[r[1]].attempt = r[2]
             /\ command'[r[1]].lease = run'[r].lease
  <2>1. CASE Started(c, r)
    BY <1>1, <1>3, <2>1 DEF Started
  <2>2. CASE ~Started(c, r)
    <3>1. run'[r] = run[r] /\ r[1] \in Commands
      BY <1>1, <2>2, RunParts
    <3>2. /\ command[r[1]].status = "running"
          /\ command[r[1]].attempt = r[2]
          /\ command[r[1]].lease = run[r].lease
      BY <1>6, <3>1 DEF RunsInv, RunsFollowCommand
    <3> QED
      BY <1>1, <1>2, <3>1, <3>2
  <2> QED
    BY <2>1, <2>2
<1>7. ASSUME NEW r \in Runs, run'[r].status # "none" PROVE r[2] <= command'[r[1]].attempt
  <2>1. r[1] \in Commands /\ command'[r[1]].attempt = command[r[1]].attempt
    BY <1>1, RunParts
  <2>2. CASE Started(c, r)
    <3>1. r[2] = command'[r[1]].attempt /\ r[2] \in Attempts
      BY <2>1, <2>2, RunParts DEF Started
    <3> QED
      BY <3>1 DEF Attempts
  <2>3. CASE ~Started(c, r)
    BY <1>1, <1>7, <2>1, <2>3 DEF RunsInv, RunsFollowCommand
  <2> QED
    BY <2>2, <2>3
<1> QED
  BY <1>4, <1>5, <1>6, <1>7 DEF RunsInv, RunsFollowCommand

\* A page commit advances one running run; nobody else is touched.
LEMMA CommitPageRows ==
    ASSUME TypeOK, NEW r \in Runs, NEW l, NEW req \in PageRequests, CommitPage(r, l, req)
    PROVE  /\ run[r].status = "running"
           /\ run'[r].status = "running"
           /\ run'[r].count = run[r].count + 1
           /\ run'[r].final = req.next
           /\ run'[r].sealed <=> ServerReason(r, req) # "none"
           /\ run'[r].lease = run[r].lease
           /\ run'[r].auth = run[r].auth
           /\ run'[r].budget = run[r].budget
           /\ run'[r].start = run[r].start
           /\ run'[r].skip = run[r].skip
           /\ run'[r].proof = run[r].proof
           /\ \A q \in Runs : q # r => run'[q] = run[q] /\ pages'[q] = pages[q]
<1>1. run \in [Runs -> RunRow] /\ run[r] \in RunRow /\ pages \in [Runs -> Seq(PageRow)]
  BY DEF TypeOK
<1> DEFINE sealed == ServerReason(r, req) # "none"
<1>2. run' = [run EXCEPT ![r] = [run[r] EXCEPT !.count = run[r].count + 1, !.final = req.next,
                                               !.sealed = sealed]]
  BY DEF CommitPage, AdvanceRun
<1>3. run[r].status = "running" /\ \A q \in Runs : q # r => pages'[q] = pages[q]
  BY <1>1 DEF CommitPage, OwnsLease
<1> HIDE DEF sealed
<1>4. /\ run'[r].status = run[r].status
      /\ run'[r].count = run[r].count + 1
      /\ run'[r].final = req.next
      /\ run'[r].sealed = sealed
      /\ run'[r].lease = run[r].lease
      /\ run'[r].auth = run[r].auth
      /\ run'[r].budget = run[r].budget
      /\ run'[r].start = run[r].start
      /\ run'[r].skip = run[r].skip
      /\ run'[r].proof = run[r].proof
      /\ \A q \in Runs : q # r => run'[q] = run[q]
  BY <1>1, <1>2 DEF RunRow
<1> QED
  BY <1>3, <1>4 DEF sealed

\* commit_page keeps commands and runs in step.
LEMMA CommitPageRuns ==
    ASSUME RunsInv, Ledger', NEW r \in Runs, NEW l, NEW req \in PageRequests,
           CommitPage(r, l, req)
    PROVE  RunsInv'
<1>1. TypeOK /\ command' = command
  BY DEF RunsInv, Ledger, CommitPage
<1>2. \A q \in Runs : run'[q].status = run[q].status /\ run'[q].lease = run[q].lease
  BY <1>1, CommitPageRows
<1>3. \A c \in Commands : command[c].attempt <= command[c].attempt
  BY <1>1 DEF TypeOK, CommandRow, Attempts
<1>4. RunsFollowCommand'
  BY <1>1, <1>2, <1>3, RunsKept
<1>5. UnclaimedIsEmpty'
  BY <1>1, CommitPageRows DEF RunsInv, UnclaimedIsEmpty
<1> QED
  BY <1>4, <1>5 DEF RunsInv

\* A skip proof is written to one running run; nobody else is touched.
LEMMA AttachSkipRows ==
    ASSUME TypeOK, NEW r \in Runs, NEW l, NEW kind, AttachSkip(r, l, kind)
    PROVE  /\ run[r].status = "running"
           /\ run'[r].status = "running"
           /\ run'[r].skip = kind
           /\ run'[r].proof = IF kind = "policy" THEN Len(source[r[3]].decisions) + 1 ELSE 0
           /\ run'[r].lease = run[r].lease
           /\ run'[r].auth = run[r].auth
           /\ run'[r].budget = run[r].budget
           /\ run'[r].start = run[r].start
           /\ run'[r].first = run[r].first
           /\ run'[r].count = run[r].count
           /\ run'[r].final = run[r].final
           /\ run'[r].sealed = run[r].sealed
           /\ \A q \in Runs : q # r => run'[q] = run[q]
           /\ pages' = pages /\ command' = command /\ checkpoint' = checkpoint
           /\ published' = published
<1>1. run \in [Runs -> RunRow] /\ run[r] \in RunRow
  BY DEF TypeOK
<1> DEFINE proof == IF kind = "policy" THEN Len(source[r[3]].decisions) + 1 ELSE 0
<1>2. run' = [run EXCEPT ![r] = [run[r] EXCEPT !.skip = kind, !.proof = proof]]
  BY DEF AttachSkip
<1>3. /\ run[r].status = "running"
      /\ pages' = pages /\ command' = command /\ checkpoint' = checkpoint
      /\ published' = published
  BY DEF AttachSkip, OwnsLease
<1> HIDE DEF proof
<1>4. /\ run'[r].status = run[r].status
      /\ run'[r].skip = kind
      /\ run'[r].proof = proof
      /\ run'[r].lease = run[r].lease
      /\ run'[r].auth = run[r].auth
      /\ run'[r].budget = run[r].budget
      /\ run'[r].start = run[r].start
      /\ run'[r].first = run[r].first
      /\ run'[r].count = run[r].count
      /\ run'[r].final = run[r].final
      /\ run'[r].sealed = run[r].sealed
      /\ \A q \in Runs : q # r => run'[q] = run[q]
  BY <1>1, <1>2 DEF RunRow
<1> QED
  BY <1>3, <1>4 DEF proof

\* attach_skip keeps commands and runs in step.
LEMMA AttachSkipRuns ==
    ASSUME RunsInv, Ledger', NEW r \in Runs, NEW l, NEW kind, AttachSkip(r, l, kind)
    PROVE  RunsInv'
<1>1. TypeOK /\ command' = command /\ pages' = pages
  BY DEF RunsInv, Ledger, AttachSkip
<1>2. \A q \in Runs : run'[q].status = run[q].status /\ run'[q].lease = run[q].lease
  BY <1>1, AttachSkipRows
<1>3. \A c \in Commands : command[c].attempt <= command[c].attempt
  BY <1>1 DEF TypeOK, CommandRow, Attempts
<1>4. RunsFollowCommand'
  BY <1>1, <1>2, <1>3, RunsKept
<1>5. UnclaimedIsEmpty'
  BY <1>1, AttachSkipRows DEF RunsInv, UnclaimedIsEmpty
<1> QED
  BY <1>4, <1>5 DEF RunsInv

\* A plan that finishes every current run of some commands, which then are no
\* longer running, keeps commands and runs in step.
LEMMA FinishingRuns ==
    ASSUME RunsInv, Ledger', NEW plan, Finishing(plan), NEW cs \in SUBSET Commands,
           \A r \in Runs : r \in DOMAIN plan <=> r[1] \in cs /\ r \in CurrentRuns(r[1]),
           \A c \in cs : command'[c].status # "running",
           \A c \in Commands \ cs :
                /\ command'[c].status = "running" <=> command[c].status = "running"
                /\ command'[c].status = "running" => command'[c] = command[c],
           \A c \in Commands : command'[c].attempt = command[c].attempt
    PROVE  RunsInv'
<1>1. TypeOK /\ pages' = pages
  BY DEF RunsInv, Ledger, Finishing
<1>2. ASSUME NEW r \in Runs
      PROVE  /\ r \in DOMAIN plan => run'[r].status \in OutcomeStatus /\ run[r].status = "running"
             /\ r \notin DOMAIN plan => run'[r] = run[r]
  BY <1>1, FinishedRow
<1>3. "none" \notin OutcomeStatus /\ "running" \notin OutcomeStatus
  BY DEF OutcomeStatus, SkipStatus, FailStatus
<1>4. UnclaimedIsEmpty'
  BY <1>1, <1>2, <1>3 DEF RunsInv, UnclaimedIsEmpty
<1>5. ASSUME NEW c \in Commands, command'[c].status = "running"
      PROVE  CurrentRuns(c)' # {} /\ \A r \in CurrentRuns(c)' : run'[r].status = "running"
  <2>1. c \notin cs /\ command'[c] = command[c]
    BY <1>5
  <2>2. \A r \in Runs : r[1] = c => run'[r] = run[r]
    BY <1>2, <2>1
  <2>3. CurrentRuns(c)' = CurrentRuns(c)
    BY <2>1, <2>2 DEF CurrentRuns
  <2> QED
    BY <1>5, <2>1, <2>2, <2>3 DEF RunsInv, RunsFollowCommand, CurrentRuns
<1>6. ASSUME NEW r \in Runs, run'[r].status = "running"
      PROVE  /\ command'[r[1]].status = "running"
             /\ command'[r[1]].attempt = r[2]
             /\ command'[r[1]].lease = run'[r].lease
  <2>1. r \notin DOMAIN plan /\ run'[r] = run[r] /\ r[1] \in Commands
    BY <1>2, <1>3, <1>6, RunParts
  <2>2. /\ command[r[1]].status = "running"
        /\ command[r[1]].attempt = r[2]
        /\ command[r[1]].lease = run[r].lease
    BY <1>6, <2>1 DEF RunsInv, RunsFollowCommand
  <2>3. r \in CurrentRuns(r[1])
    BY <1>6, <2>1, <2>2 DEF CurrentRuns
  <2>4. r[1] \notin cs
    BY <2>1, <2>3
  <2> QED
    BY <2>1, <2>2, <2>4
<1>7. ASSUME NEW r \in Runs, run'[r].status # "none" PROVE r[2] <= command'[r[1]].attempt
  <2>1. run[r].status # "none"
    BY <1>2, <1>7
  <2> QED
    BY <2>1, RunParts DEF RunsInv, RunsFollowCommand
<1> QED
  BY <1>4, <1>5, <1>6, <1>7 DEF RunsInv, RunsFollowCommand

\* complete keeps commands and runs in step.
LEMMA CompleteRuns ==
    ASSUME RunsInv, Ledger', NEW c \in Commands, NEW a, NEW l, NEW plan \in Outcomes(c),
           Complete(c, a, l, plan)
    PROVE  RunsInv'
<1>1. Finishing(plan) /\ DOMAIN plan = CurrentRuns(c)
  BY CompletionFinishes
<1>2. Ledger /\ command \in [Commands -> CommandRow]
  BY DEF RunsInv, Ledger, TypeOK
<1>3. PICK st : /\ st \in {"succeeded", "partial", "skipped"} \cup FailStatus
                /\ command' = [command EXCEPT ![c] = Finalized(c, st)]
                /\ command[c].status = "running"
  BY AggregateStatus DEF Complete
<1>4. st \in CommandStatus \ {"absent", "queued"} /\ st \notin LeasedStatus /\ st # "running"
  BY <1>3 DEF CommandStatus, LeasedStatus, FailStatus
<1>5. Finalized(c, st).status = st /\ Finalized(c, st).attempt = command[c].attempt
  BY <1>2, <1>3, <1>4, FinalizedRow
<1>6. command'[c] = Finalized(c, st) /\ \A k \in Commands : k # c => command'[k] = command[k]
  BY <1>2, <1>3
<1>7. \A r \in Runs : r \in DOMAIN plan <=> r[1] \in {c} /\ r \in CurrentRuns(r[1])
  BY <1>1 DEF CurrentRuns
<1>8. \A k \in {c} : command'[k].status # "running"
  BY <1>4, <1>5, <1>6
<1>9. \A k \in Commands : command'[k].attempt = command[k].attempt
  BY <1>5, <1>6
<1>10. \A k \in Commands \ {c} :
                /\ command'[k].status = "running" <=> command[k].status = "running"
                /\ command'[k].status = "running" => command'[k] = command[k]
  BY <1>6
<1>11. PICK cs \in SUBSET Commands : cs = {c}
  OBVIOUS
<1> QED
  BY <1>1, <1>7, <1>8, <1>9, <1>10, <1>11, FinishingRuns

\* Reconciling a running command leaves it alone or ends it with its plan.
LEMMA ReconciledStatus ==
    ASSUME RunsInv, NEW c \in Commands
    PROVE  /\ Planned(c) => Reconciled(c).status # "running"
           /\ ~Planned(c) =>
                /\ Reconciled(c).status = "running" <=> command[c].status = "running"
                /\ Reconciled(c).status = "running" => Reconciled(c) = command[c]
           /\ Reconciled(c).attempt = command[c].attempt
<1>1. Ledger
  BY DEF RunsInv
<1>2. CASE Planned(c)
  <2>1. RecoveryStatus(c) \in {"succeeded", "partial", "skipped"} \cup FailStatus
    BY AggregateStatus DEF RecoveryStatus, FailStatus
  <2>2. command[c].status = "running"
    BY <1>2 DEF Planned
  <2> QED
    BY <1>1, <1>2, <2>1, <2>2, FinalizedRow
       DEF Reconciled, CommandStatus, FailStatus, LeasedStatus
<1>3. CASE ~Planned(c) /\ Stale(c)
  <2>1. command[c].status # "running"
    BY <1>3 DEF Planned, RunsInv, RunsFollowCommand
  <2> QED
    BY <1>1, <1>3, <2>1, ReleasedRow DEF Reconciled, FailStatus
<1>4. CASE ~Planned(c) /\ ~Stale(c)
  BY <1>4 DEF Reconciled
<1> QED
  BY <1>2, <1>3, <1>4

\* materialize keeps commands and runs in step.
LEMMA MaterializeRuns ==
    ASSUME RunsInv, Ledger', NEW due \in SUBSET Commands, Materialize(due)
    PROVE  RunsInv'
<1> DEFINE cs == {c \in Commands : Planned(c)}
<1>1. /\ Finishing(RecoveryPlan)
      /\ \A r \in Runs : r \in DOMAIN RecoveryPlan <=> r[1] \in cs /\ r \in CurrentRuns(r[1])
  BY RecoveryFinishes
<1>2. \A c \in Commands : command'[c] = IF c \in due THEN Queued(EnabledSources) ELSE Reconciled(c)
  BY DEF Materialize
<1>3. ASSUME NEW c \in due
      PROVE  /\ command[c].status = "absent"
             /\ command[c].attempt = 1
             /\ command'[c].status = "queued"
             /\ command'[c].attempt = 1
             /\ c \notin cs
  <2>1. command[c].status = "absent"
    BY DEF Materialize
  <2>2. command[c].attempt = 1
    BY <2>1 DEF RunsInv, Ledger, OneLeasePerAttempt
  <2>3. Queued(EnabledSources).status = "queued" /\ Queued(EnabledSources).attempt = 1
    BY DEF Queued, AbsentCommand
  <2> QED
    BY <1>2, <2>1, <2>2, <2>3 DEF Planned
<1>4. \A c \in cs : command'[c].status # "running"
  BY <1>2, <1>3, ReconciledStatus
<1>5. \A c \in Commands : command'[c].attempt = command[c].attempt
  BY <1>2, <1>3, ReconciledStatus
<1>6. \A c \in Commands \ cs :
            /\ command'[c].status = "running" <=> command[c].status = "running"
            /\ command'[c].status = "running" => command'[c] = command[c]
  BY <1>2, <1>3, ReconciledStatus
<1>7. cs \in SUBSET Commands
  OBVIOUS
<1> HIDE DEF cs
<1> QED
  BY <1>1, <1>4, <1>5, <1>6, <1>7, FinishingRuns

-----------------------------------------------------------------------------
(* Every step, seen from the runs. *)

\* No step of any actor lets commands and runs drift apart.
LEMMA NextRuns ==
    ASSUME RunsInv, [Next]_vars
    PROVE  RunsInv'
<1>0. Ledger'
  BY NextLedger DEF RunsInv
<1>1. CASE MaterializeSome
  BY <1>0, <1>1, MaterializeRuns DEF MaterializeSome
<1>2. ASSUME NEW c \in Commands, Request(c) PROVE RunsInv'
  <2>1. CASE Reserve(c)
    BY <1>0, <2>1, CommandStepRuns
  <2>2. ASSUME NEW srcs \in SUBSET Sources, RetryCollection(c, srcs) PROVE RunsInv'
    BY <1>0, <2>2, CommandStepRuns
  <2>3. ASSUME NEW a \in Attempts, NEW l \in Leases, Confirm(c, a, l) \/ Heartbeat(c, a, l)
        PROVE  RunsInv'
    BY <1>0, <2>3, CommandStepRuns
  <2>4. ASSUME NEW a \in Attempts, NEW l \in Leases,
               \/ \E level \in [Sources -> BudgetLevels] : Claim(c, a, l, level)
               \/ \E plan \in Outcomes(c) : Complete(c, a, l, plan)
        PROVE  RunsInv'
    BY <1>0, <2>4, ClaimRuns, CompleteRuns
  <2> QED
    BY <1>2, <2>1, <2>2, <2>3, <2>4 DEF Request
<1>3. ASSUME NEW r \in Runs, RunRequest(r) PROVE RunsInv'
  BY <1>0, <1>3, CommitPageRuns, AttachSkipRuns DEF RunRequest
<1>4. ASSUME UNCHANGED <<command, run, pages>> PROVE RunsInv'
  BY <1>0, <1>4 DEF RunsInv, UnclaimedIsEmpty, RunsFollowCommand, CurrentRuns
<1>5. ASSUME NEW s \in Sources, Operator(s) PROVE RunsInv'
  BY <1>4, <1>5 DEF Operator, Expire, Disable, Activate
<1>6. CASE Tick
  BY <1>0, <1>6, TickRuns
<1>7. CASE UNCHANGED vars
  BY <1>4, <1>7 DEF vars
<1> QED
  BY <1>1, <1>2, <1>3, <1>5, <1>6, <1>7 DEF Next

\* Commands and runs in step, as an invariant.
THEOREM RunsInvariant == Spec => []RunsInv
<1>1. Init => RunsInv
  BY InitRuns
<1>2. RunsInv /\ [Next]_vars => RunsInv'
  BY NextRuns
<1> QED
  BY <1>1, <1>2, PTL DEF Spec

\* Seen from the runs a step is a claim, a page commit, a skip proof, the end
\* of some runs, or nothing.
LEMMA StepShape ==
    ASSUME RunsInv, [Next]_vars
    PROVE  \/ UNCHANGED <<run, pages, checkpoint, published>>
           \/ \E c \in Commands, a \in Attempts, l \in Leases, level \in [Sources -> BudgetLevels] :
                    Claim(c, a, l, level)
           \/ \E r \in Runs, l \in Leases, req \in PageRequests : CommitPage(r, l, req)
           \/ \E r \in Runs, l \in Leases, kind \in SkipKinds : AttachSkip(r, l, kind)
           \/ /\ source' = source
              /\ \E plan : Finishing(plan)
<1>1. CASE MaterializeSome
  BY <1>1, RecoveryFinishes DEF MaterializeSome, Materialize
<1>2. ASSUME NEW c \in Commands, NEW a \in Attempts, NEW l \in Leases, NEW plan \in Outcomes(c),
             Complete(c, a, l, plan)
      PROVE  source' = source /\ \E p : Finishing(p)
  BY <1>2, CompletionFinishes DEF Complete
<1>3. CASE \E c \in Commands : Request(c)
  BY <1>2, <1>3 DEF Request, Reserve, RetryCollection, Confirm, Heartbeat
<1>4. CASE \E r \in Runs : RunRequest(r)
  BY <1>4 DEF RunRequest
<1>5. CASE \E s \in Sources : Operator(s)
  BY <1>5 DEF Operator, Expire, Disable, Activate
<1>6. CASE Tick \/ UNCHANGED vars
  BY <1>6 DEF Tick, vars
<1> QED
  BY <1>1, <1>3, <1>4, <1>5, <1>6 DEF Next

-----------------------------------------------------------------------------
(* Runs that have ended. *)

\* No step changes a run that has ended.
LEMMA EndedStep ==
    ASSUME RunsInv, [Next]_vars, NEW r \in Runs, run[r].status \in OutcomeStatus
    PROVE  run'[r] = run[r] /\ pages'[r] = pages[r]
<1>0. TypeOK /\ run[r].status # "running" /\ run[r].status # "none"
  BY DEF RunsInv, Ledger, OutcomeStatus, SkipStatus, FailStatus
<1>1. CASE UNCHANGED <<run, pages, checkpoint, published>>
  BY <1>1
<1>2. ASSUME NEW c \in Commands, NEW a, NEW l, NEW level, Claim(c, a, l, level)
      PROVE  run'[r] = run[r] /\ pages'[r] = pages[r]
  BY <1>0, <1>2, ClaimRows DEF Claim
<1>3. ASSUME NEW q \in Runs, NEW l, NEW req \in PageRequests, CommitPage(q, l, req)
      PROVE  run'[r] = run[r] /\ pages'[r] = pages[r]
  BY <1>0, <1>3, CommitPageRows
<1>4. ASSUME NEW q \in Runs, NEW l, NEW kind, AttachSkip(q, l, kind)
      PROVE  run'[r] = run[r] /\ pages'[r] = pages[r]
  BY <1>0, <1>4, AttachSkipRows
<1>5. ASSUME NEW plan, Finishing(plan)
      PROVE  run'[r] = run[r] /\ pages'[r] = pages[r]
  BY <1>0, <1>5, FinishedRow DEF Finishing
<1> QED
  BY <1>1, <1>2, <1>3, <1>4, <1>5, StepShape

\* An ended run and its pages never change again, whoever still holds a lease
\* and however often recovery passes over it.
THEOREM EndedRunsStay == Spec => EndedRunsAreFrozen
<1>1. RunsInv /\ [Next]_vars =>
        [\A r \in Runs : run[r].status \in OutcomeStatus =>
            run'[r] = run[r] /\ pages'[r] = pages[r]]_vars
  BY EndedStep
<1> QED
  BY <1>1, RunsInvariant, PTL DEF Spec, EndedRunsAreFrozen

-----------------------------------------------------------------------------
(* The checkpoint of a running run. *)

\* A running run and the checkpoint of its source agree.
HoldsCheckpoint(r) ==
    /\ ChainVerified(r)
    /\ checkpoint[r[3]].revision = run[r].start + run[r].count
    /\ \A q \in Runs : run[q].status = "running" /\ q[3] = r[3] => q = r

RunningHold == \A r \in Runs : run[r].status = "running" => HoldsCheckpoint(r)

\* A run whose columns, pages and checkpoint a step leaves alone.
LEMMA HoldKept ==
    ASSUME NEW r \in Runs, HoldsCheckpoint(r),
           /\ run'[r].count = run[r].count /\ run'[r].final = run[r].final
           /\ run'[r].first = run[r].first /\ run'[r].start = run[r].start,
           pages'[r] = pages[r],
           checkpoint'[r[3]].revision = checkpoint[r[3]].revision,
           checkpoint'[r[3]].cursor = checkpoint[r[3]].cursor,
           \A q \in Runs : run'[q].status = "running" /\ q[3] = r[3] => q = r
    PROVE  HoldsCheckpoint(r)'
BY DEF HoldsCheckpoint, ChainVerified

\* claim: a new run starts at the checkpoint of a source nobody else runs.
LEMMA ClaimHolds ==
    ASSUME RunsInv, RunningHold, NEW c \in Commands, NEW a, NEW l, NEW level,
           Claim(c, a, l, level)
    PROVE  RunningHold'
<1>1. \A r \in Runs :
            IF Started(c, r)
            THEN run[r].status = "none" /\ run'[r] = StartedRun(c, r[3], level[r[3]])
            ELSE run'[r] = run[r]
  BY ClaimRows
<1>2. /\ pages' = pages /\ checkpoint' = checkpoint
      /\ \A s \in EligibleSources(c) : NoActiveRun(s)
  BY DEF Claim
<1>3. ASSUME NEW r \in Runs, NEW q \in Runs, run'[r].status = "running",
             run'[q].status = "running", q[3] = r[3]
      PROVE  q = r
  <2>1. CASE Started(c, r) /\ Started(c, q)
    BY <1>3, <2>1, RunParts DEF Started
  <2>2. CASE Started(c, r) /\ ~Started(c, q)
    BY <1>1, <1>2, <1>3, <2>2 DEF Started, NoActiveRun
  <2>3. CASE ~Started(c, r) /\ Started(c, q)
    BY <1>1, <1>2, <1>3, <2>3 DEF Started, NoActiveRun
  <2>4. CASE ~Started(c, r) /\ ~Started(c, q)
    BY <1>1, <1>3, <2>4 DEF RunningHold, HoldsCheckpoint
  <2> QED
    BY <2>1, <2>2, <2>3, <2>4
<1>4. ASSUME NEW r \in Runs, run'[r].status = "running" PROVE HoldsCheckpoint(r)'
  <2>1. CASE Started(c, r)
    <3>1. /\ run'[r].count = 0
          /\ run'[r].start = checkpoint[r[3]].revision
          /\ run'[r].first = checkpoint[r[3]].cursor
          /\ run'[r].final = checkpoint[r[3]].cursor
      <4>1. run'[r] = StartedRun(c, r[3], level[r[3]])
        BY <1>1, <2>1
      <4> QED
        BY <4>1, StartedColumns
    <3>2. pages'[r] = <<>>
      BY <1>1, <1>2, <2>1 DEF RunsInv, UnclaimedIsEmpty
    <3>3. checkpoint[r[3]].revision \in Nat
      BY RunParts DEF RunsInv, Ledger, TypeOK, CheckpointRow
    <3>4. ChainVerified(r)' /\ checkpoint'[r[3]].revision = run'[r].start + run'[r].count
      BY <1>2, <3>1, <3>2, <3>3 DEF ChainVerified
    <3> QED
      BY <1>3, <1>4, <3>4 DEF HoldsCheckpoint
  <2>2. CASE ~Started(c, r)
    <3>1. run'[r] = run[r] /\ HoldsCheckpoint(r)
      BY <1>1, <1>4, <2>2 DEF RunningHold
    <3> QED
      BY <1>2, <1>3, <1>4, <3>1, HoldKept
  <2> QED
    BY <2>1, <2>2
<1> QED
  BY <1>4 DEF RunningHold

\* commit_page: checkpoint and run advance together.
LEMMA CommitPageHolds ==
    ASSUME RunsInv, RunningHold, NEW r \in Runs, NEW l, NEW req \in PageRequests,
           CommitPage(r, l, req)
    PROVE  RunningHold'
<1>1. TypeOK
  BY DEF RunsInv, Ledger
<1>2. /\ run[r].status = "running"
      /\ run'[r].status = "running"
      /\ run'[r].count = run[r].count + 1
      /\ run'[r].final = req.next
      /\ run'[r].start = run[r].start
      /\ \A q \in Runs : q # r => run'[q] = run[q] /\ pages'[q] = pages[q]
  BY <1>1, CommitPageRows
<1>3. /\ r[3] \in Sources
      /\ checkpoint \in [Sources -> CheckpointRow]
      /\ checkpoint[r[3]].revision \in Nat
      /\ run[r].start \in Nat /\ run[r].count \in Nat
  BY <1>1, RunParts DEF TypeOK, CheckpointRow, RunRow
<1>4. /\ checkpoint'[r[3]].revision = checkpoint[r[3]].revision + 1
      /\ checkpoint'[r[3]].cursor = req.next
      /\ \A s \in Sources : s # r[3] => checkpoint'[s] = checkpoint[s]
  BY <1>3 DEF CommitPage, AdvanceCheckpoint, CheckpointRow
<1>5. HoldsCheckpoint(r)
  BY <1>2 DEF RunningHold
<1>6. \A q \in Runs : run'[q].status = "running" => run[q].status = "running"
  BY <1>2
<1>7. HoldsCheckpoint(r)'
  <2>1. /\ pages[r] \in Seq(PageRow) /\ NewPage(r, req) \in PageRow
        /\ pages'[r] = Append(pages[r], NewPage(r, req))
        /\ NewPage(r, req).next = req.next
    BY <1>1, NewPageRow DEF CommitPage, TypeOK, NewPage
  <2>2. /\ Len(pages'[r]) = Len(pages[r]) + 1
        /\ pages'[r] # <<>>
        /\ pages'[r][Len(pages'[r])].next = req.next
    BY <2>1
  <2>3. ChainVerified(r)'
    BY <1>2, <1>4, <1>5, <2>2 DEF HoldsCheckpoint, ChainVerified
  <2>4. checkpoint'[r[3]].revision = run'[r].start + run'[r].count
    BY <1>2, <1>3, <1>4, <1>5 DEF HoldsCheckpoint
  <2> QED
    BY <1>5, <1>6, <2>3, <2>4 DEF HoldsCheckpoint
<1>8. ASSUME NEW q \in Runs, q # r, run'[q].status = "running" PROVE HoldsCheckpoint(q)'
  <2>1. run'[q] = run[q] /\ pages'[q] = pages[q] /\ HoldsCheckpoint(q)
    BY <1>2, <1>8 DEF RunningHold
  <2>2. q[3] # r[3] /\ q[3] \in Sources
    BY <1>2, <1>5, <1>8, <2>1, RunParts DEF HoldsCheckpoint
  <2>3. checkpoint'[q[3]] = checkpoint[q[3]]
    BY <1>4, <2>2
  <2>4. \A p \in Runs : run'[p].status = "running" /\ p[3] = q[3] => p = q
    BY <1>6, <2>1 DEF HoldsCheckpoint
  <2> QED
    BY <2>1, <2>3, <2>4, HoldKept
<1> QED
  BY <1>7, <1>8 DEF RunningHold

\* No step takes a checkpoint away from its running run.
LEMMA NextHolds ==
    ASSUME RunsInv, RunningHold, [Next]_vars
    PROVE  RunningHold'
<1>0. TypeOK
  BY DEF RunsInv, Ledger
<1>1. CASE UNCHANGED <<run, pages, checkpoint, published>>
  BY <1>1 DEF RunningHold, HoldsCheckpoint, ChainVerified
<1>2. ASSUME NEW r \in Runs, NEW l, NEW kind, AttachSkip(r, l, kind) PROVE RunningHold'
  <2>1. \A q \in Runs :
            /\ run'[q].status = run[q].status /\ run'[q].count = run[q].count
            /\ run'[q].final = run[q].final /\ run'[q].first = run[q].first
            /\ run'[q].start = run[q].start
    BY <1>0, <1>2, AttachSkipRows
  <2>2. pages' = pages /\ checkpoint' = checkpoint
    BY <1>2 DEF AttachSkip
  <2>3. ASSUME NEW q \in Runs, run'[q].status = "running" PROVE HoldsCheckpoint(q)'
    <3>1. HoldsCheckpoint(q)
      BY <2>1, <2>3 DEF RunningHold
    <3>2. \A p \in Runs : run'[p].status = "running" /\ p[3] = q[3] => p = q
      BY <2>1, <3>1 DEF HoldsCheckpoint
    <3> QED
      BY <2>1, <2>2, <3>1, <3>2, HoldKept
  <2> QED
    BY <2>3 DEF RunningHold
<1>3. ASSUME NEW plan, Finishing(plan) PROVE RunningHold'
  <2>1. \A q \in Runs : run'[q].status = "running" => run'[q] = run[q]
    BY <1>0, <1>3, FinishedRow DEF OutcomeStatus, SkipStatus, FailStatus
  <2>2. /\ pages' = pages
        /\ \A s \in Sources : /\ checkpoint'[s].revision = checkpoint[s].revision
                              /\ checkpoint'[s].cursor = checkpoint[s].cursor
    BY <1>0, <1>3, MarkCompletedKeeps DEF Finishing
  <2>3. ASSUME NEW q \in Runs, run'[q].status = "running" PROVE HoldsCheckpoint(q)'
    <3>1. HoldsCheckpoint(q) /\ run'[q] = run[q] /\ q[3] \in Sources
      BY <2>1, <2>3, RunParts DEF RunningHold
    <3>2. \A p \in Runs : run'[p].status = "running" /\ p[3] = q[3] => p = q
      BY <2>1, <3>1 DEF HoldsCheckpoint
    <3> QED
      BY <2>2, <3>1, <3>2, HoldKept
  <2> QED
    BY <2>3 DEF RunningHold
<1> QED
  BY <1>1, <1>2, <1>3, ClaimHolds, CommitPageHolds, StepShape

\* A running run has the checkpoint of its source to itself, under its
\* command's lease: neither completion nor recovery meets a chain mismatch.
THEOREM CheckpointHeld == Spec => []ActiveRunOwnsCheckpoint
<1>1. Init => RunningHold
  BY DEF Init, NoRun, RunningHold
<1>2. RunsInv /\ RunningHold /\ [Next]_vars => RunningHold'
  BY NextHolds
<1>3. RunsInv /\ RunningHold => ActiveRunOwnsCheckpoint
  BY DEF RunsInv, RunningHold, HoldsCheckpoint, ActiveRunOwnsCheckpoint
<1> QED
  BY <1>1, <1>2, <1>3, RunsInvariant, PTL DEF Spec

-----------------------------------------------------------------------------
(* Settled sources. *)

\* A non-empty set of attempts has a latest one.
LEMMA LatestExists ==
    ASSUME NEW n \in Nat, NEW S \in SUBSET (1..n), S # {}
    PROVE  \E m \in S : \A k \in S : k <= m
<1> DEFINE R == OpToRel(<, Nat)
           T == {n - k : k \in S}
<1>1. \A x, y \in Nat : x < y => <<x, y>> \in R
  BY DEF OpToRel
<1>2. IsWellFoundedOn(R, Nat)
  BY NatLessThanWellFounded
<1>3. \A k \in S : k \in Nat /\ k <= n /\ n - k \in Nat /\ n - k \in T
  OBVIOUS
<1>4. T \subseteq Nat /\ T # {}
  BY <1>3
<1> HIDE DEF R
<1>5. PICK x \in T : \A y \in T : ~(<<y, x>> \in R)
  <2> HIDE DEF T
  <2> QED
    BY <1>2, <1>4, WFMin
<1>6. PICK m \in S : x = n - m
  OBVIOUS
<1>7. ASSUME NEW k \in S PROVE k <= m
  <2>1. n - k \in Nat /\ x \in Nat /\ ~(n - k < x)
    BY <1>1, <1>3, <1>4, <1>5
  <2> QED
    BY <1>3, <1>6, <2>1
<1> QED
  BY <1>7

\* LatestStatus is the status of a run, and no later attempt has one.
LEMMA LatestRun ==
    ASSUME NEW c, NEW s, NEW a \in Attempts, run[<<c, a, s>>].status # "none"
    PROVE  \E m \in Attempts :
                /\ a <= m
                /\ run[<<c, m, s>>].status # "none"
                /\ LatestStatus(c, s) = run[<<c, m, s>>].status
<1> DEFINE tried == {x \in Attempts : run[<<c, x, s>>].status # "none"}
           latest == CHOOSE x \in tried : \A y \in tried : y <= x
<1>1. \E m \in tried : \A k \in tried : k <= m
  <2>1. tried \in SUBSET (1..MaxAttempts) /\ tried # {} /\ MaxAttempts \in Nat
    BY ControlAssumption DEF Attempts
  <2> HIDE DEF tried
  <2> QED
    BY <2>1, LatestExists
<1>2. latest \in tried /\ \A y \in tried : y <= latest
  <2> HIDE DEF tried
  <2> QED
    BY <1>1
<1>3. LatestStatus(c, s) = run[<<c, latest, s>>].status
  BY DEF LatestStatus
<1> HIDE DEF latest
<1> QED
  BY <1>2, <1>3

\* A claim repeats no settled source.
LEMMA ClaimSettled ==
    ASSUME RunsInv, SettledSourceNotRepeated, NEW c \in Commands, NEW a, NEW l, NEW level,
           Claim(c, a, l, level)
    PROVE  SettledSourceNotRepeated'
<1> SUFFICES ASSUME NEW k \in Commands, NEW s \in Sources, NEW x \in Attempts, NEW y \in Attempts,
                    x < y, run'[<<k, y, s>>].status # "none"
             PROVE  run'[<<k, x, s>>].status \in {"none", "failed_retryable"}
  BY DEF SettledSourceNotRepeated
<1>1. \A r \in Runs : ~Started(c, r) => run'[r] = run[r]
  BY ClaimRows
<1>2. <<k, x, s>> \in Runs /\ <<k, y, s>> \in Runs
  BY RunOf
<1>3. x \in Nat /\ y \in Nat /\ command[c].attempt \in Nat
  BY DEF Attempts, RunsInv, Ledger, TypeOK, CommandRow
<1>4. CASE Started(c, <<k, x, s>>)
  <2>1. k = c /\ x = command[c].attempt /\ ~Started(c, <<k, y, s>>)
    BY <1>3, <1>4 DEF Started
  <2>2. run[<<k, y, s>>].status # "none"
    BY <1>1, <1>2, <2>1
  <2>3. y <= command[c].attempt
    BY <1>2, <2>1, <2>2 DEF RunsInv, RunsFollowCommand
  <2> QED
    BY <1>3, <2>1, <2>3
<1>5. CASE ~Started(c, <<k, x, s>>) /\ ~Started(c, <<k, y, s>>)
  BY <1>1, <1>2, <1>5 DEF SettledSourceNotRepeated
<1>6. CASE ~Started(c, <<k, x, s>>) /\ Started(c, <<k, y, s>>)
  <2>1. k = c /\ s \in EligibleSources(c) /\ run'[<<k, x, s>>] = run[<<k, x, s>>]
    BY <1>1, <1>2, <1>6 DEF Started
  <2>2. LatestStatus(k, s) \in {"none", "failed_retryable"}
    BY <2>1 DEF EligibleSources
  <2>3. CASE run[<<k, x, s>>].status = "none"
    BY <2>1, <2>3
  <2>4. CASE run[<<k, x, s>>].status # "none"
    <3>1. PICK m \in Attempts : /\ x <= m
                               /\ run[<<k, m, s>>].status # "none"
                               /\ LatestStatus(k, s) = run[<<k, m, s>>].status
      BY <2>4, LatestRun
    <3>2. CASE m = x
      BY <2>1, <2>2, <3>1, <3>2
    <3>3. CASE m # x
      <4>1. x < m
        BY <1>3, <3>1, <3>3 DEF Attempts
      <4> QED
        BY <2>1, <3>1, <4>1 DEF SettledSourceNotRepeated
    <3> QED
      BY <3>2, <3>3
  <2> QED
    BY <2>3, <2>4
<1> QED
  BY <1>4, <1>5, <1>6

\* No step collects a settled source again.
LEMMA NextSettled ==
    ASSUME RunsInv, SettledSourceNotRepeated, [Next]_vars
    PROVE  SettledSourceNotRepeated'
<1>0. TypeOK
  BY DEF RunsInv, Ledger
<1>1. ASSUME \A r \in Runs :
                \/ run'[r].status = run[r].status
                \/ run[r].status = "running" /\ run'[r].status # "none"
      PROVE  SettledSourceNotRepeated'
  <2> SUFFICES ASSUME NEW c \in Commands, NEW s \in Sources,
                      NEW a \in Attempts, NEW b \in Attempts,
                      a < b, run'[<<c, b, s>>].status # "none"
               PROVE  run'[<<c, a, s>>].status \in {"none", "failed_retryable"}
    BY DEF SettledSourceNotRepeated
  <2>1. <<c, a, s>> \in Runs /\ <<c, b, s>> \in Runs
    BY RunOf
  <2>2. run[<<c, b, s>>].status # "none"
    BY <1>1, <2>1
  <2>3. run[<<c, a, s>>].status \in {"none", "failed_retryable"}
    BY <2>2 DEF SettledSourceNotRepeated
  <2> QED
    BY <1>1, <2>1, <2>3
<1>2. CASE UNCHANGED <<run, pages, checkpoint, published>>
  BY <1>1, <1>2
<1>3. ASSUME NEW r \in Runs, NEW l, NEW req \in PageRequests, CommitPage(r, l, req)
      PROVE  SettledSourceNotRepeated'
  BY <1>0, <1>1, <1>3, CommitPageRows
<1>4. ASSUME NEW r \in Runs, NEW l, NEW kind, AttachSkip(r, l, kind)
      PROVE  SettledSourceNotRepeated'
  BY <1>0, <1>1, <1>4, AttachSkipRows
<1>5. ASSUME NEW plan, Finishing(plan) PROVE SettledSourceNotRepeated'
  BY <1>0, <1>1, <1>5, FinishedRow DEF OutcomeStatus, SkipStatus, FailStatus
<1> QED
  BY <1>2, <1>3, <1>4, <1>5, ClaimSettled, StepShape

\* Within a command no later attempt collects a source that succeeded, was
\* skipped or failed for good: retry eligibility reads the latest run only,
\* and that is enough.
THEOREM SettledOnce == Spec => []SettledSourceNotRepeated
<1>1. Init => SettledSourceNotRepeated
  <2>1. ASSUME Init, NEW r \in Runs PROVE run[r].status = "none"
    BY <2>1 DEF Init, NoRun
  <2> QED
    BY <2>1, RunOf DEF SettledSourceNotRepeated
<1>2. RunsInv /\ SettledSourceNotRepeated /\ [Next]_vars => SettledSourceNotRepeated'
  BY NextSettled
<1> QED
  BY <1>1, <1>2, RunsInvariant, PTL DEF Spec

-----------------------------------------------------------------------------
(* Outcomes. *)

\* The authorization decisions of a source only grow, and a step makes active
\* the decision that was, the one just added, or none.
DecisionsGrow(s) ==
    /\ Len(source[s].decisions) <= Len(source'[s].decisions)
    /\ source'[s].active \in {source[s].active, 0, Len(source'[s].decisions)}

\* The skip proofs: a quota proof stands on a hard stop, a policy proof is a
\* decision newer than the one the run was claimed on, and the source never
\* goes back behind it.
ProofStands(r) ==
    /\ run[r].auth <= Len(source[r[3]].decisions)
    /\ run[r].skip = "quota" => run[r].budget = "hard_stop"
    /\ run[r].skip = "policy" =>
            /\ run[r].auth < run[r].proof
            /\ run[r].proof <= Len(source[r[3]].decisions)
            /\ source[r[3]].active = 0 \/ run[r].proof <= source[r[3]].active

\* OutcomeFollowsPages with what makes it inductive.
OutcomeInv ==
    /\ OutcomeFollowsPages
    /\ \A s \in Sources : source[s].active <= Len(source[s].decisions)
    /\ \A r \in Runs : ProofStands(r)

\* A decision list keeps its length when one of its windows ends.
LEMMA ExpireLength ==
    ASSUME TypeOK, NEW s \in Sources, Expire(s)
    PROVE  /\ Len(source'[s].decisions) = Len(source[s].decisions)
           /\ source'[s].active = source[s].active
           /\ \A t \in Sources : t # s => source'[t] = source[t]
<1> DEFINE decisions == source[s].decisions
           later == [decisions EXCEPT ![source[s].active] = "expired"]
<1>1. decisions \in Seq({"approved", "expired", "revoked"})
  BY DEF TypeOK
<1>2. Len(later) = Len(decisions)
  <2> HIDE DEF decisions
  <2>1. CASE source[s].active \in 1..Len(decisions)
    BY <1>1, <2>1, ExceptSeq
  <2>2. CASE source[s].active \notin 1..Len(decisions)
    <3>1. decisions = [i \in 1..Len(decisions) |-> decisions[i]]
      BY <1>1
    <3>2. later = decisions
      BY <2>2, <3>1
    <3> QED
      BY <3>2
  <2> QED
    BY <2>1, <2>2
<1>3. source' = [source EXCEPT ![s] = [source[s] EXCEPT !.decisions = later]]
  BY DEF Expire
<1> HIDE DEF later
<1>4. /\ source'[s].decisions = later
      /\ source'[s].active = source[s].active
      /\ \A t \in Sources : t # s => source'[t] = source[t]
  BY <1>3 DEF TypeOK
<1> QED
  BY <1>2, <1>4

\* What an operator does to the decisions of a source.
LEMMA OperatorDecisions ==
    ASSUME TypeOK, NEW s \in Sources, Operator(s)
    PROVE  \A t \in Sources : DecisionsGrow(t)
<1>0. \A t \in Sources : Len(source[t].decisions) \in Nat
  BY DEF TypeOK
<1>1. \A t \in Sources : source'[t] = source[t] => DecisionsGrow(t)
  BY <1>0 DEF DecisionsGrow
<1>2. (\A t \in Sources : t # s => source'[t] = source[t]) /\ DecisionsGrow(s)
  <2>1. CASE Expire(s)
    BY <1>0, <2>1, ExpireLength DEF DecisionsGrow
  <2>2. CASE Disable(s)
    BY <1>0, <2>2 DEF Disable, DecisionsGrow, TypeOK
  <2>3. CASE Activate(s)
    <3>1. /\ source'[s].decisions = Append(source[s].decisions, "approved")
          /\ source'[s].active = Len(source[s].decisions) + 1
          /\ \A t \in Sources : t # s => source'[t] = source[t]
      BY <2>3 DEF Activate, TypeOK
    <3>2. source[s].decisions \in Seq({"approved", "expired", "revoked"})
      BY DEF TypeOK
    <3>3. Len(source'[s].decisions) = Len(source[s].decisions) + 1
      BY <3>1, <3>2
    <3> QED
      BY <1>0, <3>1, <3>3 DEF DecisionsGrow
  <2> QED
    BY <2>1, <2>2, <2>3 DEF Operator
<1> QED
  BY <1>1, <1>2

\* A policy proof appends its revocation.
LEMMA SkipDecisions ==
    ASSUME TypeOK, NEW r \in Runs, NEW l, NEW kind \in SkipKinds, AttachSkip(r, l, kind)
    PROVE  /\ \A t \in Sources : DecisionsGrow(t)
           /\ kind = "policy" =>
                /\ Len(source'[r[3]].decisions) = Len(source[r[3]].decisions) + 1
                /\ source'[r[3]].active = Len(source[r[3]].decisions) + 1
<1>0. r[3] \in Sources /\ \A t \in Sources : Len(source[t].decisions) \in Nat
  BY RunParts DEF TypeOK
<1>1. \A t \in Sources : source'[t] = source[t] => DecisionsGrow(t)
  BY <1>0 DEF DecisionsGrow
<1>2. CASE kind = "quota"
  BY <1>1, <1>2 DEF AttachSkip
<1>3. CASE kind = "policy"
  <2>1. /\ source'[r[3]].decisions = Append(source[r[3]].decisions, "revoked")
        /\ source'[r[3]].active = Len(source[r[3]].decisions) + 1
        /\ \A t \in Sources : t # r[3] => source'[t] = source[t]
    BY <1>0, <1>3 DEF AttachSkip, RevokeSource, TypeOK
  <2>2. source[r[3]].decisions \in Seq({"approved", "expired", "revoked"})
    BY <1>0 DEF TypeOK
  <2>3. Len(source'[r[3]].decisions) = Len(source[r[3]].decisions) + 1
    BY <2>1, <2>2
  <2> QED
    BY <1>0, <1>1, <2>1, <2>3 DEF DecisionsGrow
<1> QED
  BY <1>2, <1>3 DEF SkipKinds

\* No step takes a decision away.
LEMMA NextDecisions ==
    ASSUME TypeOK, [Next]_vars
    PROVE  \A s \in Sources : DecisionsGrow(s)
<1>1. source' = source => \A s \in Sources : DecisionsGrow(s)
  BY DEF DecisionsGrow, TypeOK
<1>2. CASE MaterializeSome
  BY <1>1, <1>2 DEF MaterializeSome, Materialize
<1>3. CASE \E c \in Commands : Request(c)
  <2>1. \A c, a, l, level, plan : Claim(c, a, l, level) \/ Complete(c, a, l, plan) => source' = source
    BY DEF Claim, Complete
  <2>2. source' = source
    BY <1>3, <2>1 DEF Request, Reserve, RetryCollection, Confirm, Heartbeat
  <2> QED
    BY <1>1, <2>2
<1>4. CASE \E r \in Runs : RunRequest(r)
  BY <1>1, <1>4, SkipDecisions DEF RunRequest, CommitPage
<1>5. CASE \E s \in Sources : Operator(s)
  BY <1>5, OperatorDecisions
<1>6. CASE Tick \/ UNCHANGED vars
  BY <1>1, <1>6 DEF Tick, vars
<1> QED
  BY <1>2, <1>3, <1>4, <1>5, <1>6 DEF Next

\* A proof stands for good once the run keeps its columns.
LEMMA ProofKept ==
    ASSUME TypeOK, TypeOK', NEW r \in Runs, ProofStands(r), DecisionsGrow(r[3]),
           run'[r].auth = run[r].auth, run'[r].skip = run[r].skip,
           run'[r].budget = run[r].budget, run'[r].proof = run[r].proof
    PROVE  ProofStands(r)'
<1>1. r[3] \in Sources /\ run[r].auth \in Nat /\ run[r].proof \in Nat
  BY RunParts DEF TypeOK, RunRow
<1>2. Len(source[r[3]].decisions) \in Nat /\ source[r[3]].active \in Nat
  BY <1>1 DEF TypeOK
<1>3. Len(source'[r[3]].decisions) \in Nat /\ source'[r[3]].active \in Nat
  BY <1>1 DEF TypeOK
<1>4. run'[r].auth <= Len(source'[r[3]].decisions)
  BY <1>1, <1>2, <1>3 DEF ProofStands, DecisionsGrow
<1>5. run'[r].skip = "quota" => run'[r].budget = "hard_stop"
  BY DEF ProofStands
<1>6. ASSUME run[r].skip = "policy"
      PROVE  /\ run'[r].auth < run'[r].proof
             /\ run'[r].proof <= Len(source'[r[3]].decisions)
             /\ source'[r[3]].active = 0 \/ run'[r].proof <= source'[r[3]].active
  <2>1. /\ run[r].auth < run[r].proof
        /\ run[r].proof <= Len(source[r[3]].decisions)
        /\ source[r[3]].active = 0 \/ run[r].proof <= source[r[3]].active
    BY <1>6 DEF ProofStands
  <2>2. /\ Len(source[r[3]].decisions) <= Len(source'[r[3]].decisions)
        /\ source'[r[3]].active \in {source[r[3]].active, 0, Len(source'[r[3]].decisions)}
    BY DEF DecisionsGrow
  <2> DEFINE n == Len(source[r[3]].decisions)
             m == Len(source'[r[3]].decisions)
             p == run[r].proof
  <2>3. p \in Nat /\ n \in Nat /\ m \in Nat /\ p <= n /\ n <= m
    BY <1>1, <1>2, <1>3, <2>1, <2>2
  <2> HIDE DEF n, m, p
  <2>4. p <= m
    BY <2>3
  <2>5. source'[r[3]].active = 0 \/ p <= source'[r[3]].active
    BY <2>1, <2>2, <2>4 DEF m, p
  <2> QED
    BY <2>1, <2>4, <2>5 DEF m, p
<1> QED
  BY <1>4, <1>5, <1>6 DEF ProofStands

\* A run keeps both halves of OutcomeFollowsPages when its columns stay.
RunFollowsPages(r) ==
    /\ run[r].sealed => run[r].status \in {"running", "succeeded"}
    /\ run[r].skip # "none" => pages[r] = <<>>

\* claim: a new run has no pages, and its proof, if any, is a hard stop.
LEMMA ClaimOutcome ==
    ASSUME RunsInv, TypeOK', OutcomeInv, NEW c \in Commands, NEW a, NEW l, NEW level,
           Claim(c, a, l, level), NEW r \in Runs
    PROVE  RunFollowsPages(r)' /\ ProofStands(r)'
<1>1. IF Started(c, r)
      THEN run[r].status = "none" /\ run'[r] = StartedRun(c, r[3], level[r[3]])
      ELSE run'[r] = run[r]
  BY ClaimRows
<1>2. /\ pages' = pages /\ source' = source
      /\ TypeOK /\ r[3] \in Sources
  BY RunParts DEF Claim, RunsInv, Ledger
<1>3. CASE Started(c, r)
  <2>1. /\ run'[r].status = "running"
        /\ run'[r].auth = source[r[3]].active
        /\ run'[r].budget = level[r[3]]
        /\ run'[r].skip = IF level[r[3]] = "hard_stop" THEN "quota" ELSE "none"
    BY <1>1, <1>3, StartedColumns
  <2>2. pages'[r] = <<>>
    BY <1>1, <1>2, <1>3 DEF RunsInv, UnclaimedIsEmpty
  <2>3. source'[r[3]].active <= Len(source'[r[3]].decisions)
    BY <1>2 DEF OutcomeInv
  <2> QED
    BY <1>2, <2>1, <2>2, <2>3 DEF RunFollowsPages, ProofStands
<1>4. CASE ~Started(c, r)
  BY <1>1, <1>2, <1>4
     DEF OutcomeInv, OutcomeFollowsPages, SealedEndsInSuccess, SkipProofMeansNoPages,
         RunFollowsPages, ProofStands
<1> QED
  BY <1>3, <1>4

\* commit_page: a run with a skip proof commits no page.
LEMMA CommitPageOutcome ==
    ASSUME RunsInv, TypeOK', OutcomeInv, NEW q \in Runs, NEW l, NEW req \in PageRequests,
           CommitPage(q, l, req), NEW r \in Runs
    PROVE  RunFollowsPages(r)' /\ ProofStands(r)'
<1>1. TypeOK /\ source' = source /\ r[3] \in Sources
  BY RunParts DEF RunsInv, Ledger, CommitPage
<1>2. DecisionsGrow(r[3]) /\ ProofStands(r) /\ ProofStands(q)
  BY <1>1 DEF DecisionsGrow, TypeOK, OutcomeInv
<1>3. ProofStands(r)'
  <2>1. run'[r].auth = run[r].auth /\ run'[r].skip = run[r].skip
        /\ run'[r].budget = run[r].budget /\ run'[r].proof = run[r].proof
    BY <1>1, CommitPageRows
  <2> QED
    BY <1>1, <1>2, <2>1, ProofKept
<1>4. run[q].skip = "none"
  <2>1. run[q].skip \in {"none", "policy", "quota"} /\ run[q].count \in Nat
    BY <1>1 DEF TypeOK, RunRow, SkipKinds
  <2>2. run[q].skip # "quota"
    <3>1. run[q].skip = "quota" => Cap(q) = 0
      BY <1>2 DEF ProofStands, Cap, ReviewedCap
    <3> QED
      BY <2>1, <3>1 DEF CommitPage, StreamOpen
  <2>3. run[q].skip # "policy"
    <3>1. /\ source[q[3]].active = run[q].auth /\ source[q[3]].active # 0
          /\ run[q].auth \in Nat /\ run[q].proof \in Nat
      BY <1>1 DEF CommitPage, RunAuthorized, Authorized, TypeOK, RunRow
    <3> QED
      BY <1>2, <3>1 DEF ProofStands
  <2> QED
    BY <2>1, <2>2, <2>3
<1>5. RunFollowsPages(r)'
  <2>1. CASE r = q
    BY <1>1, <1>4, <2>1, CommitPageRows DEF RunFollowsPages
  <2>2. CASE r # q
    <3>1. run'[r] = run[r] /\ pages'[r] = pages[r]
      BY <1>1, <2>2, CommitPageRows
    <3> QED
      BY <3>1 DEF OutcomeInv, OutcomeFollowsPages, SealedEndsInSuccess, SkipProofMeansNoPages,
                  RunFollowsPages
  <2> QED
    BY <2>1, <2>2
<1> QED
  BY <1>3, <1>5

\* attach_skip: the proof is newer than the decision of the claim.
LEMMA AttachSkipOutcome ==
    ASSUME RunsInv, TypeOK', OutcomeInv, NEW q \in Runs, NEW l, NEW kind \in SkipKinds,
           AttachSkip(q, l, kind), NEW r \in Runs
    PROVE  RunFollowsPages(r)' /\ ProofStands(r)'
<1>1. TypeOK /\ r[3] \in Sources /\ q[3] \in Sources /\ pages' = pages
  BY RunParts DEF RunsInv, Ledger, AttachSkip
<1>2. /\ DecisionsGrow(r[3]) /\ ProofStands(r)
      /\ kind = "policy" =>
                /\ Len(source'[q[3]].decisions) = Len(source[q[3]].decisions) + 1
                /\ source'[q[3]].active = Len(source[q[3]].decisions) + 1
  BY <1>1, SkipDecisions DEF OutcomeInv
<1>3. CASE r # q
  <2>1. run'[r] = run[r]
    BY <1>1, <1>3, AttachSkipRows
  <2>2. ProofStands(r)'
    BY <1>1, <1>2, <2>1, ProofKept
  <2> QED
    BY <1>1, <2>1, <2>2
       DEF OutcomeInv, OutcomeFollowsPages, SealedEndsInSuccess, SkipProofMeansNoPages,
           RunFollowsPages
<1>4. CASE r = q
  <2>1. /\ run'[r].status = "running" /\ run'[r].skip = kind
        /\ run'[r].proof = IF kind = "policy" THEN Len(source[r[3]].decisions) + 1 ELSE 0
        /\ run'[r].auth = run[r].auth /\ run'[r].budget = run[r].budget
    BY <1>1, <1>4, AttachSkipRows
  <2>2. pages[r] = <<>> /\ (kind = "quota" => run[r].budget = "hard_stop")
    BY <1>4 DEF AttachSkip, LiveZeroCommit, QuotaProvable
  <2>3. RunFollowsPages(r)'
    BY <1>1, <2>1, <2>2 DEF RunFollowsPages
  <2>4. CASE kind = "quota"
    <3>1. source' = source
      BY <2>4 DEF AttachSkip
    <3> QED
      BY <1>2, <2>1, <2>2, <2>3, <2>4, <3>1 DEF ProofStands
  <2>5. CASE kind = "policy"
    <3> DEFINE n == Len(source[r[3]].decisions)
    <3>1. n \in Nat /\ run[r].auth \in Nat /\ run[r].auth <= n
      <4>1. n \in Nat
        BY <1>1 DEF TypeOK
      <4>2. run[r].auth \in Nat
        BY <1>1 DEF TypeOK, RunRow
      <4> QED
        BY <1>2, <4>1, <4>2 DEF ProofStands
    <3>2. /\ Len(source'[r[3]].decisions) = n + 1
          /\ source'[r[3]].active = n + 1
          /\ run'[r].proof = n + 1
          /\ run'[r].skip = "policy"
          /\ run'[r].auth = run[r].auth
      BY <1>2, <1>4, <2>1, <2>5
    <3> HIDE DEF n
    <3> QED
      BY <2>3, <3>1, <3>2 DEF ProofStands
  <2> QED
    BY <2>4, <2>5 DEF SkipKinds
<1> QED
  BY <1>3, <1>4

\* Finishing: only an unsealed run ends other than in success.
LEMMA FinishingOutcome ==
    ASSUME RunsInv, TypeOK', OutcomeInv, source' = source, NEW plan, Finishing(plan), NEW r \in Runs
    PROVE  RunFollowsPages(r)' /\ ProofStands(r)'
<1>1. TypeOK /\ pages' = pages
  BY DEF RunsInv, Ledger, Finishing
<1>2. /\ run[r].sealed => run[r].status \in {"running", "succeeded"}
      /\ run[r].skip # "none" => pages[r] = <<>>
      /\ ProofStands(r)
  BY DEF OutcomeInv, OutcomeFollowsPages, SealedEndsInSuccess, SkipProofMeansNoPages
<1>3. CASE r \notin DOMAIN plan
  BY <1>1, <1>2, <1>3, FinishedRow DEF RunFollowsPages, ProofStands
<1>4. CASE r \in DOMAIN plan
  <2>0. /\ run'[r].auth = run[r].auth
        /\ run'[r].budget = run[r].budget
        /\ run'[r].sealed = run[r].sealed
        /\ run'[r].skip = run[r].skip
        /\ run'[r].proof = run[r].proof
    BY <1>1, <1>4, FinishedColumns, Zenon
  <2>1. run'[r].status = plan[r] /\ plan[r] \in OutcomeStatus
    BY <1>1, <1>4, FinishedRow
  <2>2. run[r].sealed => plan[r] = "succeeded"
    BY <1>4, <2>1 DEF Finishing, MayFinish, SkipProved, FailureProved, OutcomeStatus
  <2> QED
    BY <1>1, <1>2, <2>0, <2>1, <2>2 DEF RunFollowsPages, ProofStands
<1> QED
  BY <1>3, <1>4

\* No step breaks the outcomes.
LEMMA NextOutcome ==
    ASSUME RunsInv, OutcomeInv, [Next]_vars
    PROVE  OutcomeInv'
<1>1. TypeOK /\ TypeOK'
  BY NextLedger DEF RunsInv, Ledger
<1>2. \A s \in Sources : DecisionsGrow(s)
  BY <1>1, NextDecisions
<1>3. ASSUME NEW s \in Sources PROVE source'[s].active <= Len(source'[s].decisions)
  <2> DEFINE n == Len(source[s].decisions)
             m == Len(source'[s].decisions)
             act == source[s].active
  <2>1. n \in Nat /\ act \in Nat /\ act <= n
    BY <1>1 DEF TypeOK, OutcomeInv
  <2>2. m \in Nat
    BY <1>1 DEF TypeOK
  <2>3. n <= m /\ source'[s].active \in {act, 0, m}
    BY <1>2 DEF DecisionsGrow
  <2> HIDE DEF n, m, act
  <2>4. source'[s].active <= m
    BY <2>1, <2>2, <2>3
  <2> QED
    BY <2>4 DEF m
<1>4. ASSUME NEW r \in Runs PROVE RunFollowsPages(r)' /\ ProofStands(r)'
  <2>1. CASE UNCHANGED <<run, pages, checkpoint, published>>
    <3>1. ProofStands(r) /\ DecisionsGrow(r[3])
      BY <1>2, RunParts DEF OutcomeInv
    <3>2. ProofStands(r)'
      BY <1>1, <2>1, <3>1, ProofKept
    <3> QED
      BY <2>1, <3>2
         DEF OutcomeInv, OutcomeFollowsPages, SealedEndsInSuccess, SkipProofMeansNoPages,
             RunFollowsPages
  <2> QED
    BY <1>1, <2>1, ClaimOutcome, CommitPageOutcome, AttachSkipOutcome, FinishingOutcome, StepShape
<1>5. OutcomeFollowsPages'
  BY <1>4 DEF OutcomeFollowsPages, SealedEndsInSuccess, SkipProofMeansNoPages, RunFollowsPages
<1> QED
  BY <1>3, <1>4, <1>5 DEF OutcomeInv

\* No run has an outcome at first.
LEMMA InitOutcome == Init => OutcomeInv
<1> SUFFICES ASSUME Init PROVE OutcomeInv
  OBVIOUS
<1>1. \A r \in Runs : /\ ~run[r].sealed /\ run[r].skip = "none"
                      /\ run[r].auth = 0 /\ r[3] \in Sources
  BY RunParts DEF Init, NoRun
<1>2. \A s \in Sources : source[s].active = 1 /\ Len(source[s].decisions) = 1
  BY DEF Init
<1>3. OutcomeFollowsPages
  BY <1>1 DEF OutcomeFollowsPages, SealedEndsInSuccess, SkipProofMeansNoPages
<1>4. \A r \in Runs : ProofStands(r)
  BY <1>1, <1>2 DEF ProofStands
<1> QED
  BY <1>2, <1>3, <1>4 DEF OutcomeInv

\* How a run ends agrees with what it committed: sealed pages end in success,
\* whoever finishes the run, and no page slips in after a skip proof.
THEOREM OutcomesFollowPages == Spec => []OutcomeFollowsPages
<1>1. Init => OutcomeInv
  BY InitOutcome
<1>2. RunsInv /\ OutcomeInv /\ [Next]_vars => OutcomeInv'
  BY NextOutcome
<1>3. OutcomeInv => OutcomeFollowsPages
  BY DEF OutcomeInv
<1> QED
  BY <1>1, <1>2, <1>3, RunsInvariant, PTL DEF Spec

-----------------------------------------------------------------------------
(* Publications. *)

\* Where a run occurs in a publication sequence.
Occurs(log, r) == {i \in 1..Len(log) : log[i] = r}

\* A run that occurs zero times does not occur.
LEMMA OccursNowhere ==
    ASSUME NEW log \in Seq(Runs), NEW r, Cardinality(Occurs(log, r)) = 0
    PROVE  Occurs(log, r) = {}
<1>1. Len(log) \in Int /\ 1 \in Int
  OBVIOUS
<1>2. IsFiniteSet(1..Len(log))
  BY <1>1, FS_Interval
<1>3. IsFiniteSet(Occurs(log, r))
  BY <1>2, FS_Subset DEF Occurs
<1> QED
  BY <1>3, FS_EmptySet

\* Appending adds one occurrence, of the run appended.
LEMMA OccursAppend ==
    ASSUME NEW log \in Seq(Runs), NEW w \in Runs, NEW r
    PROVE  Occurs(Append(log, w), r) =
                IF w = r THEN Occurs(log, r) \cup {Len(log) + 1} ELSE Occurs(log, r)
<1>1. /\ Len(Append(log, w)) = Len(log) + 1
      /\ Len(log) \in Nat
      /\ Append(log, w)[Len(log) + 1] = w
      /\ \A i \in 1..Len(log) : Append(log, w)[i] = log[i]
  OBVIOUS
<1> DEFINE longer == Append(log, w)
<1> HIDE DEF longer
<1>2. \A i : i \in 1..(Len(log) + 1) <=> i \in 1..Len(log) \/ i = Len(log) + 1
  BY <1>1
<1>3. \A i : i \in Occurs(longer, r) <=>
            i \in Occurs(log, r) \/ (i = Len(log) + 1 /\ w = r)
  BY <1>1, <1>2 DEF Occurs, longer
<1>4. Occurs(longer, r) = IF w = r THEN Occurs(log, r) \cup {Len(log) + 1} ELSE Occurs(log, r)
  BY <1>3
<1> QED
  BY <1>4 DEF longer

\* The two halves of PublishedExactlyOnce.
PublishedOnce(r) ==
    Cardinality(Occurs(published[r[3]], r)) = IF run[r].status = "succeeded" THEN 1 ELSE 0

DoneIsLast(s) ==
    checkpoint[s].done = IF published[s] = <<>> THEN <<>>
                         ELSE <<published[s][Len(published[s])]>>

\* Published exactly once, run by run and source by source.
LEMMA PublishedParts ==
    PublishedExactlyOnce <=> /\ \A r \in Runs : PublishedOnce(r)
                             /\ \A s \in Sources : DoneIsLast(s)
BY DEF PublishedExactlyOnce, PublishedOnce, DoneIsLast, Occurs

\* Only one run of a source can win, and it is the one published.
LEMMA OneWinner ==
    ASSUME RunsInv, RunningHold, NEW plan, Finishing(plan), NEW w \in Winners(plan)
    PROVE  /\ w \in Runs /\ w[3] \in Sources
           /\ run[w].status = "running" /\ run'[w].status = "succeeded"
           /\ \A r \in Winners(plan) : r[3] = w[3] => r = w
           /\ published'[w[3]] = Append(published[w[3]], w)
           /\ checkpoint'[w[3]].done = <<w>>
<1>1. TypeOK /\ w \in DOMAIN plan /\ plan[w] = "succeeded"
  BY DEF Winners, RunsInv, Ledger
<1>2. \A r \in Winners(plan) : r \in Runs /\ run[r].status = "running"
  BY DEF Winners, Finishing, MayFinish
<1>3. w \in Runs /\ w[3] \in Sources /\ run[w].status = "running"
  BY <1>2, RunParts
<1>4. \A r \in Winners(plan) : r[3] = w[3] => r = w
  BY <1>2, <1>3 DEF RunningHold, HoldsCheckpoint
<1>5. run'[w].status = "succeeded"
  BY <1>1, <1>3, FinishedRow
<1>6. (CHOOSE r \in Winners(plan) : r[3] = w[3]) = w
  BY <1>4
<1>7. published'[w[3]] = Append(published[w[3]], w)
  BY <1>3, <1>6 DEF Finishing, Publish
<1>8. checkpoint'[w[3]] = [checkpoint[w[3]] EXCEPT !.done = <<w>>]
  BY <1>3, <1>6 DEF Finishing, MarkCompleted
<1>9. checkpoint[w[3]] \in CheckpointRow
  BY <1>1, <1>3 DEF TypeOK
<1> QED
  BY <1>3, <1>4, <1>5, <1>7, <1>8, <1>9 DEF CheckpointRow

\* Finishing publishes each winner once and nobody else.
LEMMA FinishingPublishes ==
    ASSUME RunsInv, RunningHold, PublishedExactlyOnce, NEW plan, Finishing(plan)
    PROVE  PublishedExactlyOnce'
<1>0. TypeOK
  BY DEF RunsInv, Ledger
<1>1. ASSUME NEW s \in Sources, \A w \in Winners(plan) : w[3] # s
      PROVE  published'[s] = published[s] /\ checkpoint'[s] = checkpoint[s]
  BY <1>1 DEF Finishing, Publish, MarkCompleted
<1>2. ASSUME NEW r \in Runs, r \notin Winners(plan)
      PROVE  run'[r].status = "succeeded" <=> run[r].status = "succeeded"
  <2>1. CASE r \in DOMAIN plan
    <3>1. run'[r].status = plan[r] /\ run[r].status = "running" /\ plan[r] # "succeeded"
      BY <1>0, <1>2, <2>1, FinishedRow DEF Winners
    <3> QED
      BY <3>1
  <2>2. CASE r \notin DOMAIN plan
    BY <1>0, <2>2, FinishedRow
  <2> QED
    BY <2>1, <2>2
<1>3. ASSUME NEW r \in Runs PROVE PublishedOnce(r)'
  <2>1. PublishedOnce(r) /\ r[3] \in Sources /\ published[r[3]] \in Seq(Runs)
    BY <1>0, PublishedParts, RunParts DEF TypeOK
  <2>2. CASE \A w \in Winners(plan) : w[3] # r[3]
    BY <1>1, <1>2, <2>1, <2>2 DEF PublishedOnce
  <2>3. ASSUME NEW w \in Winners(plan), w[3] = r[3] PROVE PublishedOnce(r)'
    <3>1. /\ w \in Runs
          /\ run[w].status = "running" /\ run'[w].status = "succeeded"
          /\ \A q \in Winners(plan) : q[3] = w[3] => q = w
          /\ published'[r[3]] = Append(published[r[3]], w)
      BY <2>3, OneWinner
    <3>2. CASE r = w
      <4>1. Occurs(published[r[3]], r) = {}
        BY <2>1, <3>1, <3>2, OccursNowhere DEF PublishedOnce
      <4>2. Occurs(published'[r[3]], r) = {Len(published[r[3]]) + 1}
        BY <2>1, <3>1, <3>2, <4>1, OccursAppend
      <4>3. Cardinality(Occurs(published'[r[3]], r)) = 1
        BY <4>2, FS_Singleton
      <4> QED
        BY <3>1, <3>2, <4>3 DEF PublishedOnce, Occurs
    <3>3. CASE r # w
      <4>1. Occurs(published'[r[3]], r) = Occurs(published[r[3]], r)
        BY <2>1, <3>1, <3>3, OccursAppend
      <4>2. r \notin Winners(plan)
        BY <2>3, <3>1, <3>3
      <4> QED
        BY <1>2, <2>1, <4>1, <4>2 DEF PublishedOnce, Occurs
    <3> QED
      BY <3>2, <3>3
  <2> QED
    BY <2>2, <2>3
<1>4. ASSUME NEW s \in Sources PROVE DoneIsLast(s)'
  <2>1. DoneIsLast(s) /\ published[s] \in Seq(Runs)
    BY <1>0, PublishedParts DEF TypeOK
  <2>2. CASE \A w \in Winners(plan) : w[3] # s
    BY <1>1, <2>1, <2>2 DEF DoneIsLast
  <2>3. ASSUME NEW w \in Winners(plan), w[3] = s PROVE DoneIsLast(s)'
    <3>1. /\ w \in Runs
          /\ published'[s] = Append(published[s], w)
          /\ checkpoint'[s].done = <<w>>
      BY <2>3, OneWinner
    <3>2. published'[s] # <<>> /\ published'[s][Len(published'[s])] = w
      BY <2>1, <3>1
    <3> QED
      BY <3>1, <3>2 DEF DoneIsLast
  <2> QED
    BY <2>2, <2>3
<1> QED
  BY <1>3, <1>4 DEF PublishedExactlyOnce, PublishedOnce, DoneIsLast, Occurs

\* No step publishes a run twice or loses a publication.
LEMMA NextPublished ==
    ASSUME RunsInv, RunningHold, PublishedExactlyOnce, [Next]_vars
    PROVE  PublishedExactlyOnce'
<1>0. TypeOK
  BY DEF RunsInv, Ledger
<1>1. ASSUME published' = published,
             \A r \in Runs : run'[r].status = "succeeded" <=> run[r].status = "succeeded",
             \A s \in Sources : checkpoint'[s].done = checkpoint[s].done
      PROVE  PublishedExactlyOnce'
  BY <1>1 DEF PublishedExactlyOnce
<1>2. CASE UNCHANGED <<run, pages, checkpoint, published>>
  BY <1>1, <1>2
<1>3. ASSUME NEW c \in Commands, NEW a, NEW l, NEW level, Claim(c, a, l, level)
      PROVE  PublishedExactlyOnce'
  <2>1. published' = published /\ checkpoint' = checkpoint
    BY <1>3 DEF Claim
  <2>2. ASSUME NEW r \in Runs
        PROVE  run'[r].status = "succeeded" <=> run[r].status = "succeeded"
    <3>1. IF Started(c, r)
          THEN run[r].status = "none" /\ run'[r] = StartedRun(c, r[3], level[r[3]])
          ELSE run'[r] = run[r]
      BY <1>3, ClaimRows
    <3>2. StartedRun(c, r[3], level[r[3]]).status = "running"
      BY StartedColumns
    <3> QED
      BY <3>1, <3>2
  <2> QED
    BY <1>1, <2>1, <2>2
<1>4. ASSUME NEW r \in Runs, NEW l, NEW req \in PageRequests, CommitPage(r, l, req)
      PROVE  PublishedExactlyOnce'
  <2>1. published' = published
    BY <1>4 DEF CommitPage
  <2>2. \A q \in Runs : run'[q].status = "succeeded" <=> run[q].status = "succeeded"
    BY <1>0, <1>4, CommitPageRows
  <2>3. \A s \in Sources : checkpoint'[s].done = checkpoint[s].done
    BY <1>0, <1>4 DEF CommitPage, AdvanceCheckpoint, TypeOK, CheckpointRow
  <2> QED
    BY <1>1, <2>1, <2>2, <2>3
<1>5. ASSUME NEW r \in Runs, NEW l, NEW kind, AttachSkip(r, l, kind)
      PROVE  PublishedExactlyOnce'
  BY <1>0, <1>1, <1>5, AttachSkipRows
<1> QED
  BY <1>2, <1>3, <1>4, <1>5, FinishingPublishes, StepShape

\* Every successful run is published exactly once for its source, whoever
\* finished it, nothing else is, and the checkpoint names the last one.
THEOREM PublishedOnceEach == Spec => []PublishedExactlyOnce
<1>1. Init => RunningHold /\ PublishedExactlyOnce
  <2> SUFFICES ASSUME Init PROVE RunningHold /\ PublishedExactlyOnce
    OBVIOUS
  <2>1. RunningHold
    BY DEF Init, NoRun, RunningHold
  <2>2. \A s \in Sources : published[s] = <<>> /\ checkpoint[s].done = <<>>
    BY DEF Init
  <2>3. \A r \in Runs : run[r].status = "none" /\ Occurs(published[r[3]], r) = {}
    BY <2>2, RunParts DEF Init, NoRun, Occurs
  <2> QED
    BY <2>1, <2>2, <2>3, FS_EmptySet, PublishedParts DEF PublishedOnce, DoneIsLast
<1>2. /\ RunsInv /\ RunningHold /\ PublishedExactlyOnce /\ [Next]_vars
         => RunningHold' /\ PublishedExactlyOnce'
  BY NextHolds, NextPublished
<1> QED
  BY <1>1, <1>2, RunsInvariant, PTL DEF Spec

-----------------------------------------------------------------------------
(* Receipts. *)

FinalStatus == {"succeeded", "partial", "skipped"} \cup FailStatus

\* A command as its receipt left it.
StillThere(c, rec) ==
    /\ command[c].attempt = rec.attempt
    /\ command[c].lease = rec.lease
    /\ command[c].status = rec.status

\* SettledReceiptReplays with the statuses a receipt can have.
ReceiptInv ==
    \A c \in Commands : \A rec \in receipts[c] :
        /\ rec.status \in FinalStatus
        /\ rec.status # "failed_retryable" => StillThere(c, rec)

\* A settled command is out of reach of every operation.
LEMMA SettledStays ==
    ASSUME RunsInv, [Next]_vars, NEW c \in Commands,
           command[c].status \in FinalStatus \ {"failed_retryable"}
    PROVE  /\ command'[c].attempt = command[c].attempt
           /\ command'[c].lease = command[c].lease
           /\ command'[c].status = command[c].status
           /\ receipts'[c] = receipts[c]
<1> DEFINE Same == /\ command'[c].attempt = command[c].attempt
                   /\ command'[c].lease = command[c].lease
                   /\ command'[c].status = command[c].status
                   /\ receipts'[c] = receipts[c]
<1>0. /\ command[c].status \notin LeasedStatus
      /\ command[c].status \notin {"absent", "queued", "failed_retryable"}
  BY DEF FinalStatus, LeasedStatus, FailStatus
<1>1. /\ command \in [Commands -> CommandRow] /\ receipts \in [Commands -> SUBSET Receipt]
      /\ command[c] \in CommandRow
  BY DEF RunsInv, Ledger, TypeOK
<1>2. CASE MaterializeSome
  <2>1. PICK due \in SUBSET Commands : Materialize(due)
    BY <1>2 DEF MaterializeSome
  <2>2. c \notin due /\ receipts' = receipts
    BY <1>0, <2>1 DEF Materialize
  <2>3. command'[c] = Reconciled(c)
    BY <2>1, <2>2 DEF Materialize
  <2>4. Reconciled(c) = command[c]
    BY <1>0, ReconciledRow DEF RunsInv
  <2> QED
    BY <2>2, <2>3, <2>4
<1>3. ASSUME NEW k \in Commands, Request(k) PROVE Same
  <2>1. k # c
    <3>1. \A a, l, level, plan :
            Confirm(k, a, l) \/ Heartbeat(k, a, l) \/ Claim(k, a, l, level)
                \/ Complete(k, a, l, plan) => command[k].status \in LeasedStatus
      BY DEF Confirm, Heartbeat, Claim, Complete, LeasedStatus
    <3>2. \A srcs : RetryCollection(k, srcs) => command[k].status = "absent"
      BY DEF RetryCollection
    <3>3. Reserve(k) => command[k].status \in {"queued", "failed_retryable"}
      BY DEF Reserve
    <3> QED
      BY <1>0, <1>3, <3>1, <3>2, <3>3 DEF Request
  <2>2. ASSUME NEW a, NEW l, NEW level, Claim(k, a, l, level) PROVE Same
    BY <1>1, <2>1, <2>2 DEF Claim
  <2>3. ASSUME NEW a, NEW l, NEW plan, Complete(k, a, l, plan) PROVE Same
    BY <1>1, <2>1, <2>3 DEF Complete
  <2>4. ASSUME NEW srcs, RetryCollection(k, srcs) PROVE Same
    BY <1>1, <2>1, <2>4 DEF RetryCollection
  <2>5. CASE Reserve(k)
    BY <1>1, <2>1, <2>5 DEF Reserve
  <2>6. ASSUME NEW a, NEW l, Confirm(k, a, l) \/ Heartbeat(k, a, l) PROVE Same
    BY <1>1, <2>1, <2>6 DEF Confirm, Heartbeat
  <2> HIDE DEF Same
  <2> QED
    BY <1>3, <2>2, <2>3, <2>4, <2>5, <2>6 DEF Request
<1>4. CASE Tick
  <2>1. receipts' = receipts /\ \E x, y : command'[c] = [command[c] EXCEPT !.age = x, !.wait = y]
    BY <1>4 DEF Tick
  <2> QED
    BY <1>1, <2>1 DEF CommandRow
<1>5. CASE UNCHANGED <<command, receipts>>
  BY <1>5
<1>6. CASE \E r \in Runs : RunRequest(r)
  <2>1. UNCHANGED <<command, receipts>>
    BY <1>6 DEF RunRequest, CommitPage, AttachSkip
  <2> QED
    BY <1>5, <2>1
<1>7. CASE \E s \in Sources : Operator(s)
  BY <1>5, <1>7 DEF Operator, Expire, Disable, Activate
<1> QED
  BY <1>2, <1>3, <1>4, <1>5, <1>6, <1>7 DEF Next, vars

\* Receipts are only written by complete.
LEMMA ReceiptStep ==
    ASSUME RunsInv, [Next]_vars, NEW c \in Commands, receipts'[c] # receipts[c]
    PROVE  /\ command[c].status = "running"
           /\ \E st \in FinalStatus :
                /\ receipts'[c] = receipts[c] \cup {[attempt |-> command[c].attempt,
                                                     lease |-> command[c].lease,
                                                     status |-> st]}
                /\ command'[c] = Finalized(c, st)
<1>1. /\ command \in [Commands -> CommandRow] /\ receipts \in [Commands -> SUBSET Receipt]
  BY DEF RunsInv, Ledger, TypeOK
<1>2. receipts' # receipts
  OBVIOUS
<1>3. PICK k \in Commands, a \in Attempts, l \in Leases :
            \E plan \in Outcomes(k) : Complete(k, a, l, plan)
  <2>1. ASSUME NEW k \in Commands, Request(k)
        PROVE  \E a \in Attempts, l \in Leases : \E plan \in Outcomes(k) :
                    Complete(k, a, l, plan)
    <3>1. \A a, l, level : ~Claim(k, a, l, level)
      BY <1>2 DEF Claim
    <3> QED
      BY <1>2, <2>1, <3>1 DEF Request, Reserve, RetryCollection, Confirm, Heartbeat
  <2>2. ~MaterializeSome /\ ~Tick /\ ~UNCHANGED vars
    BY <1>2 DEF MaterializeSome, Materialize, Tick, vars
  <2>3. \A r \in Runs : ~RunRequest(r)
    BY <1>2 DEF RunRequest, CommitPage, AttachSkip
  <2>4. \A s \in Sources : ~Operator(s)
    BY <1>2 DEF Operator, Expire, Disable, Activate
  <2> QED
    BY <2>1, <2>2, <2>3, <2>4 DEF Next
<1>0. PICK plan \in Outcomes(k) : Complete(k, a, l, plan)
  BY <1>3
<1> DEFINE st == Aggregate({plan[r] : r \in DOMAIN plan})
<1>4. st \in FinalStatus
  BY AggregateStatus DEF FinalStatus
<1>5. /\ command[k].attempt = a /\ command[k].lease = l /\ command[k].status = "running"
      /\ command' = [command EXCEPT ![k] = Finalized(k, st)]
      /\ receipts' = [receipts EXCEPT
                        ![k] = receipts[k] \cup {[attempt |-> a, lease |-> l, status |-> st]}]
  BY <1>0 DEF Complete, CredentialsMatch
<1> HIDE DEF st
<1>6. k = c
  BY <1>1, <1>5
<1> QED
  BY <1>1, <1>4, <1>5, <1>6

\* No step takes back what a settled receipt says.
LEMMA NextReceipts ==
    ASSUME RunsInv, ReceiptInv, [Next]_vars
    PROVE  ReceiptInv'
<1> SUFFICES ASSUME NEW c \in Commands, NEW rec \in receipts'[c]
             PROVE  /\ rec.status \in FinalStatus
                    /\ rec.status # "failed_retryable" => StillThere(c, rec)'
  BY DEF ReceiptInv
<1>1. ASSUME rec \in receipts[c], rec.status # "failed_retryable"
      PROVE  rec.status \in FinalStatus /\ StillThere(c, rec)'
  <2>1. rec.status \in FinalStatus /\ StillThere(c, rec)
    BY <1>1 DEF ReceiptInv
  <2>2. command[c].status \in FinalStatus \ {"failed_retryable"}
    BY <1>1, <2>1 DEF StillThere
  <2> QED
    BY <2>1, <2>2, SettledStays DEF StillThere
<1>2. ASSUME rec \in receipts[c], rec.status = "failed_retryable"
      PROVE  rec.status \in FinalStatus
  BY <1>2 DEF FinalStatus, FailStatus
<1>3. ASSUME rec \notin receipts[c]
      PROVE  /\ rec.status \in FinalStatus
             /\ rec.status # "failed_retryable" => StillThere(c, rec)'
  <2>1. receipts'[c] # receipts[c]
    BY <1>3
  <2>2. PICK st \in FinalStatus :
            /\ receipts'[c] = receipts[c] \cup {[attempt |-> command[c].attempt,
                                                 lease |-> command[c].lease, status |-> st]}
            /\ command'[c] = Finalized(c, st)
            /\ command[c].status = "running"
    BY <2>1, ReceiptStep
  <2>3. /\ rec.attempt = command[c].attempt
        /\ rec.lease = command[c].lease
        /\ rec.status = st
    BY <1>3, <2>2
  <2>4. /\ Ledger
        /\ st \in CommandStatus \ {"absent", "queued"}
        /\ st \notin LeasedStatus
        /\ command[c] \in CommandRow
    BY DEF RunsInv, Ledger, TypeOK, FinalStatus, FailStatus, CommandStatus, LeasedStatus
  <2>5. Finalized(c, st).status = st /\ Finalized(c, st).attempt = command[c].attempt
    BY <2>2, <2>4, FinalizedRow
  <2>6. st # "failed_retryable" => Finalized(c, st).lease = command[c].lease
    BY <2>4 DEF Finalized, CommandRow
  <2> QED
    BY <2>2, <2>3, <2>5, <2>6 DEF StillThere
<1> QED
  BY <1>1, <1>2, <1>3

\* A completion that settled its command can be replayed for ever: no
\* reservation, recovery or other request ever moves the command on.
THEOREM ReceiptsReplay == Spec => []SettledReceiptReplays
<1>1. Init => ReceiptInv
  BY DEF Init, ReceiptInv
<1>2. RunsInv /\ ReceiptInv /\ [Next]_vars => ReceiptInv'
  BY NextReceipts
<1>3. ReceiptInv => SettledReceiptReplays
  BY DEF ReceiptInv, StillThere, SettledReceiptReplays
<1> QED
  BY <1>1, <1>2, <1>3, RunsInvariant, PTL DEF Spec

-----------------------------------------------------------------------------
(* What a collector relies on: seals, and leases whose work is done. *)

\* A run is sealed by the reason of its last page, after which the checkpoint
\* stands as long as it runs; and a hard stop has its quota proof.
SealIsLast(r) ==
    /\ run[r].sealed <=> pages[r] # <<>> /\ pages[r][Len(pages[r])].reason # "none"
    /\ run[r].budget = "hard_stop" => run[r].skip = "quota"
    /\ run[r].status = "running" /\ pages[r] # <<>> =>
            checkpoint[r[3]].revision = pages[r][Len(pages[r])].rev + 1

SealInv == \A r \in Runs : SealIsLast(r)

\* A lease under which a completion was recorded is never live again.
LeaseSpent ==
    \A c \in Commands : \A rec \in receipts[c] :
        /\ rec.lease <= command[c].issued
        /\ command[c].lease = rec.lease => command[c].status \notin LeasedStatus

\* commit_page seals by the reason it stores.
LEMMA CommitPageSeals ==
    ASSUME RunsInv, RunningHold, SealInv, NEW r \in Runs, NEW l, NEW req \in PageRequests,
           CommitPage(r, l, req)
    PROVE  SealInv'
<1>1. TypeOK
  BY DEF RunsInv, Ledger
<1>2. /\ run[r].status = "running" /\ run'[r].status = "running"
      /\ run'[r].sealed <=> ServerReason(r, req) # "none"
      /\ run'[r].budget = run[r].budget /\ run'[r].skip = run[r].skip
      /\ \A q \in Runs : q # r => run'[q] = run[q] /\ pages'[q] = pages[q]
  BY <1>1, CommitPageRows
<1>3. /\ r[3] \in Sources
      /\ checkpoint \in [Sources -> CheckpointRow]
      /\ req.rev = checkpoint[r[3]].revision
  BY <1>1, RunParts DEF TypeOK, CommitPage, CasMatches
<1>4. /\ checkpoint'[r[3]].revision = req.rev + 1
      /\ \A s \in Sources : s # r[3] => checkpoint'[s] = checkpoint[s]
  BY <1>3 DEF CommitPage, AdvanceCheckpoint, CheckpointRow
<1>5. SealIsLast(r)'
  <2>1. /\ pages[r] \in Seq(PageRow) /\ NewPage(r, req) \in PageRow
        /\ pages'[r] = Append(pages[r], NewPage(r, req))
        /\ NewPage(r, req).rev = req.rev
        /\ NewPage(r, req).reason = ServerReason(r, req)
    BY <1>1, NewPageRow DEF CommitPage, TypeOK, NewPage
  <2>2. /\ pages'[r] # <<>>
        /\ pages'[r][Len(pages'[r])] = NewPage(r, req)
    BY <2>1
  <2>3. SealIsLast(r)
    BY DEF SealInv
  <2> QED
    BY <1>2, <1>4, <2>1, <2>2, <2>3 DEF SealIsLast
<1>6. ASSUME NEW q \in Runs, q # r PROVE SealIsLast(q)'
  <2>1. run'[q] = run[q] /\ pages'[q] = pages[q] /\ SealIsLast(q) /\ q[3] \in Sources
    BY <1>2, <1>6, RunParts DEF SealInv
  <2>2. run[q].status = "running" => q[3] # r[3]
    BY <1>2, <1>6 DEF RunningHold, HoldsCheckpoint
  <2> QED
    BY <1>4, <2>1, <2>2 DEF SealIsLast
<1> QED
  BY <1>5, <1>6 DEF SealInv

\* No step parts a run from its seal.
LEMMA NextSeals ==
    ASSUME RunsInv, RunningHold, SealInv, [Next]_vars
    PROVE  SealInv'
<1>0. TypeOK
  BY DEF RunsInv, Ledger
<1>1. CASE UNCHANGED <<run, pages, checkpoint, published>>
  BY <1>1 DEF SealInv, SealIsLast
<1>2. ASSUME NEW c \in Commands, NEW a, NEW l, NEW level, Claim(c, a, l, level)
      PROVE  SealInv'
  <2>1. pages' = pages /\ checkpoint' = checkpoint
    BY <1>2 DEF Claim
  <2>2. ASSUME NEW r \in Runs PROVE SealIsLast(r)'
    <3>1. IF Started(c, r)
          THEN run[r].status = "none" /\ run'[r] = StartedRun(c, r[3], level[r[3]])
          ELSE run'[r] = run[r]
      BY <1>2, ClaimRows
    <3>2. CASE Started(c, r)
      <4>1. pages[r] = <<>>
        BY <3>1, <3>2 DEF RunsInv, UnclaimedIsEmpty
      <4>2. /\ ~run'[r].sealed
            /\ run'[r].budget = level[r[3]]
            /\ run'[r].skip = IF level[r[3]] = "hard_stop" THEN "quota" ELSE "none"
        BY <3>1, <3>2, StartedColumns
      <4> QED
        BY <2>1, <4>1, <4>2 DEF SealIsLast
    <3>3. CASE ~Started(c, r)
      BY <2>1, <3>1, <3>3 DEF SealInv, SealIsLast
    <3> QED
      BY <3>2, <3>3
  <2> QED
    BY <2>2 DEF SealInv
<1>3. ASSUME NEW r \in Runs, NEW l, NEW kind, AttachSkip(r, l, kind) PROVE SealInv'
  <2>1. run[r].skip = "none"
    BY <1>3 DEF AttachSkip, LiveZeroCommit
  <2>2. run[r].budget # "hard_stop"
    BY <2>1 DEF SealInv, SealIsLast
  <2>3. /\ run'[r].status = run[r].status /\ run'[r].sealed = run[r].sealed
        /\ run'[r].budget = run[r].budget
        /\ \A q \in Runs : q # r => run'[q] = run[q]
        /\ pages' = pages /\ checkpoint' = checkpoint
    BY <1>0, <1>3, AttachSkipRows
  <2> QED
    BY <2>2, <2>3 DEF SealInv, SealIsLast
<1>4. ASSUME NEW plan, Finishing(plan) PROVE SealInv'
  <2>1. /\ pages' = pages
        /\ \A s \in Sources : checkpoint'[s].revision = checkpoint[s].revision
    BY <1>0, <1>4, MarkCompletedKeeps DEF Finishing
  <2>2. ASSUME NEW r \in Runs PROVE SealIsLast(r)'
    <3>1. /\ run'[r].sealed = run[r].sealed /\ run'[r].budget = run[r].budget
          /\ run'[r].skip = run[r].skip
          /\ run'[r].status = "running" => run[r].status = "running"
      BY <1>0, <1>4, FinishedRow, FinishedColumns
    <3>2. SealIsLast(r) /\ r[3] \in Sources
      BY RunParts DEF SealInv
    <3> QED
      BY <2>1, <3>1, <3>2 DEF SealIsLast
  <2> QED
    BY <2>2 DEF SealInv
<1> QED
  BY <1>1, <1>2, <1>3, <1>4, CommitPageSeals, StepShape

\* A command's lease is kept while it is live, cleared, or newly issued.
LEMMA LeaseStep ==
    ASSUME RunsInv, [Next]_vars, NEW c \in Commands
    PROVE  /\ command[c].issued <= command'[c].issued
           /\ \/ command'[c].lease = NoLease
              \/ /\ command'[c].lease = command[c].lease
                 /\ command'[c].status \in LeasedStatus => command[c].status \in LeasedStatus
              \/ command'[c].lease > command[c].issued
<1> DEFINE Kept(row) ==
        /\ command[c].issued <= row.issued
        /\ \/ row.lease = NoLease
           \/ /\ row.lease = command[c].lease
              /\ row.status \in LeasedStatus => command[c].status \in LeasedStatus
           \/ row.lease > command[c].issued
<1>0. /\ command \in [Commands -> CommandRow] /\ command[c] \in CommandRow
      /\ command[c].issued \in Nat /\ command[c].lease \in Nat
      /\ OneLeasePerAttempt
  BY ControlAssumption DEF RunsInv, Ledger, TypeOK, CommandRow
<1>1. Kept(command[c])
  BY <1>0
<1>2. CASE MaterializeSome
  <2>1. PICK due \in SUBSET Commands : Materialize(due)
    BY <1>2 DEF MaterializeSome
  <2>2. CASE c \in due
    <3>1. command'[c] = Queued(EnabledSources) /\ command[c].issued = 0
      BY <1>0, <2>1, <2>2 DEF Materialize, OneLeasePerAttempt
    <3> QED
      BY <3>1 DEF Queued, AbsentCommand
  <2>3. CASE c \notin due
    <3>1. command'[c] = Reconciled(c)
      BY <2>1, <2>3 DEF Materialize
    <3>2. Kept(Finalized(c, RecoveryStatus(c)))
      <4>1. Planned(c) => command[c].status \in LeasedStatus
        BY DEF Planned, LeasedStatus
      <4>2. RecoveryStatus(c) \notin LeasedStatus
        BY AggregateStatus DEF RecoveryStatus, LeasedStatus, FailStatus
      <4> DEFINE st == RecoveryStatus(c)
      <4> HIDE DEF st
      <4>3. /\ Finalized(c, st).status = st
            /\ Finalized(c, st).issued = command[c].issued
            /\ Finalized(c, st).lease \in {NoLease, command[c].lease}
        BY <1>0 DEF Finalized, CommandRow
      <4> QED
        BY <1>0, <4>2, <4>3 DEF st
    <3>3. Kept(Released(c))
      BY <1>0 DEF Released, CommandRow
    <3> QED
      BY <1>1, <3>1, <3>2, <3>3 DEF Reconciled
  <2> QED
    BY <2>2, <2>3
<1>3. ASSUME NEW k \in Commands, Request(k) PROVE Kept(command'[c])
  <2>1. CASE Reserve(k)
    <3>1. command' = [command EXCEPT ![k] = Reserved(k)]
      BY <2>1 DEF Reserve
    <3>2. Kept(Reserved(c))
      BY <1>0 DEF Reserved, CommandRow
    <3> QED
      BY <1>0, <1>1, <3>1, <3>2
  <2>2. ASSUME NEW srcs \in SUBSET Sources, RetryCollection(k, srcs) PROVE Kept(command'[c])
    <3>1. /\ command' = [command EXCEPT ![k] = Queued(srcs)]
          /\ command[k].issued = 0
      BY <1>0, <2>2 DEF RetryCollection, OneLeasePerAttempt
    <3> QED
      BY <1>0, <1>1, <3>1 DEF Queued, AbsentCommand
  <2>3. ASSUME NEW a \in Attempts, NEW l \in Leases, Confirm(k, a, l) PROVE Kept(command'[c])
    BY <1>0, <1>1, <2>3 DEF Confirm, Confirmed, CommandRow, LeasedStatus
  <2>4. ASSUME NEW a \in Attempts, NEW l \in Leases, Heartbeat(k, a, l) PROVE Kept(command'[c])
    BY <1>0, <1>1, <2>4 DEF Heartbeat, CommandRow
  <2>5. ASSUME NEW a \in Attempts, NEW l \in Leases, NEW level, Claim(k, a, l, level)
        PROVE  Kept(command'[c])
    BY <1>0, <1>1, <2>5 DEF Claim, CommandRow, LeasedStatus
  <2>6. ASSUME NEW a \in Attempts, NEW l \in Leases, NEW plan, Complete(k, a, l, plan)
        PROVE  Kept(command'[c])
    <3> DEFINE st == Aggregate({plan[r] : r \in DOMAIN plan})
    <3>1. st \notin LeasedStatus
      BY AggregateStatus DEF LeasedStatus, FailStatus
    <3>2. command' = [command EXCEPT ![k] = Finalized(k, st)]
      BY <2>6 DEF Complete
    <3> HIDE DEF st
    <3>3. /\ Finalized(c, st).status = st
          /\ Finalized(c, st).issued = command[c].issued
          /\ Finalized(c, st).lease \in {NoLease, command[c].lease}
      BY <1>0 DEF Finalized, CommandRow
    <3>4. Kept(Finalized(c, st))
      BY <1>0, <3>1, <3>3
    <3> QED
      BY <1>0, <1>1, <3>2, <3>4
  <2> QED
    BY <1>3, <2>1, <2>2, <2>3, <2>4, <2>5, <2>6 DEF Request
<1>4. CASE Tick
  <2>1. PICK age, wait : command'[c] = [command[c] EXCEPT !.age = age, !.wait = wait]
    BY <1>0, <1>4 DEF Tick
  <2> QED
    BY <1>0, <2>1 DEF CommandRow
<1>5. CASE command' = command
  BY <1>1, <1>5
<1>6. CASE \E r \in Runs : RunRequest(r)
  BY <1>5, <1>6 DEF RunRequest, CommitPage, AttachSkip
<1>7. CASE \E s \in Sources : Operator(s)
  BY <1>5, <1>7 DEF Operator, Expire, Disable, Activate
<1> QED
  BY <1>2, <1>3, <1>4, <1>5, <1>6, <1>7 DEF Next, vars

\* No step revives a lease whose completion is recorded.
LEMMA NextSpent ==
    ASSUME RunsInv, LeaseSpent, [Next]_vars
    PROVE  LeaseSpent'
<1> SUFFICES ASSUME NEW c \in Commands, NEW rec \in receipts'[c]
             PROVE  /\ rec.lease <= command'[c].issued
                    /\ command'[c].lease = rec.lease => command'[c].status \notin LeasedStatus
  BY DEF LeaseSpent
<1>0. /\ Ledger /\ command[c] \in CommandRow /\ receipts[c] \in SUBSET Receipt
      /\ command[c].issued \in Nat /\ command[c].lease \in Nat
      /\ command[c].lease \in {NoLease, command[c].issued}
  BY ControlAssumption DEF RunsInv, Ledger, TypeOK, CommandRow, OneLeasePerAttempt
<1>1. CASE rec \in receipts[c]
  <2>1. rec.lease \in Nat \ {0} /\ rec.lease <= command[c].issued
    BY <1>0, <1>1, ControlAssumption DEF Receipt, Leases, LeaseSpent
  <2>2. command[c].lease = rec.lease => command[c].status \notin LeasedStatus
    BY <1>1 DEF LeaseSpent
  <2>3. command'[c] \in CommandRow /\ command'[c].issued \in Nat /\ command'[c].lease \in Nat
    BY NextLedger, ControlAssumption DEF RunsInv, Ledger, TypeOK, CommandRow
  <2> QED
    BY <1>0, <2>1, <2>2, <2>3, LeaseStep DEF NoLease
<1>2. CASE rec \notin receipts[c]
  <2>1. receipts'[c] # receipts[c]
    BY <1>2
  <2>2. PICK st \in FinalStatus :
            /\ receipts'[c] = receipts[c] \cup {[attempt |-> command[c].attempt,
                                                 lease |-> command[c].lease, status |-> st]}
            /\ command'[c] = Finalized(c, st)
    BY <2>1, ReceiptStep
  <2>3. rec.lease = command[c].lease
    BY <1>2, <2>2
  <2>4. command'[c].status = st /\ command'[c].issued = command[c].issued
    BY <1>0, <2>2 DEF Finalized, CommandRow
  <2>5. st \notin LeasedStatus
    BY DEF FinalStatus, FailStatus, LeasedStatus
  <2> QED
    BY <1>0, <2>3, <2>4, <2>5 DEF NoLease
<1> QED
  BY <1>1, <1>2

-----------------------------------------------------------------------------
(* Everything together. *)

\* What the control plane guarantees to whoever calls it.
ControlInv ==
    RunsInv /\ CheckpointIsLog /\ RunningHold /\ OutcomeInv /\ SealInv /\ LeaseSpent

\* It holds of the empty tables.
LEMMA InitControl == Init => ControlInv
<1> SUFFICES ASSUME Init PROVE ControlInv
  OBVIOUS
<1>1. RunsInv /\ CheckpointIsLog /\ OutcomeInv
  BY InitRuns, InitLog, InitOutcome
<1>2. RunningHold /\ SealInv
  BY DEF Init, NoRun, RunningHold, SealInv, SealIsLast
<1>3. LeaseSpent
  BY DEF Init, LeaseSpent
<1> QED
  BY <1>1, <1>2, <1>3 DEF ControlInv

\* Every step keeps it.
LEMMA NextControl ==
    ASSUME ControlInv, [Next]_vars
    PROVE  ControlInv'
<1>1. RunsInv' /\ CheckpointIsLog'
  BY NextRuns, NextLog DEF ControlInv, RunsInv
<1>2. RunningHold' /\ OutcomeInv'
  BY NextHolds, NextOutcome DEF ControlInv
<1>3. SealInv' /\ LeaseSpent'
  BY NextSeals, NextSpent DEF ControlInv
<1> QED
  BY <1>1, <1>2, <1>3 DEF ControlInv

\* A sealed run stands at its last page, and a lease whose completion was
\* recorded is never live again: a late repetition of any call finds the
\* outcome it was answered with, never a second stream or a second completion.
THEOREM ControlInvariant == Spec => []ControlInv
<1> QED
  BY InitControl, NextControl, PTL DEF Spec

-----------------------------------------------------------------------------
(***************************************************************************)
(*                          The collector process                          *)
(***************************************************************************)
(* The inductive invariant *)

Steps ==
    {"idle", "materialize", "reserve", "confirm", "claim", "load", "beat", "fetch",
     "commit", "skip", "complete"}

\* The steps of one source run.
Working == {"load", "beat", "fetch", "commit", "skip"}

ClientRow ==
    [pc : Steps, result : {"none", "success", "failure"}, todo : Seq(Commands), attempt : Nat,
     at : 1..Len(SourceOrder), tries : {0, 1},
     pos : [rev : Nat, cursor : CursorOrNull, ord : Nat],
     page : [kind : {"none"} \cup Answers, next : CursorOrNull],
     outcomes : Seq(OutcomeStatus), made : Seq(Runs)]

\* The local variables of the process have their types, and it works on a
\* command from the reservation on.
ClientType ==
    /\ client \in ClientRow
    /\ client.pc \notin {"idle", "materialize"} => client.todo # <<>>

\* The run of the i-th source.
RunAt(i) == <<Cmd, client.attempt, SourceOrder[i]>>

\* The command runs under the lease of the process, and its runs are exactly
\* the sources of the invocation.
HoldsAll ==
    /\ command[Cmd].status = "running"
    /\ CredentialsMatch(Cmd, client.attempt, Lease)
    /\ {r[3] : r \in CurrentRuns(Cmd)} = Expected

\* The outcomes kept so far are ones the server accepts.
SourcesDone ==
    \A i \in 1..Len(client.outcomes) : MayFinish(RunAt(i), client.outcomes[i])

\* Nothing is committed for the sources that have not begun.
SourcesAhead ==
    \A i \in 1..Len(SourceOrder) :
        i > client.at \/ (i = client.at /\ client.pc = "load") => pages[RunAt(i)] = <<>>

\* The stream takes another page.
Open(r) == ~run[r].sealed /\ run[r].count < Cap(r)

\* The stream after a page of this kind: sealed by the last page or at the cap.
SealedBy(r, kind) ==
    /\ run[r].count <= Cap(r)
    /\ run[r].sealed <=> kind = "last" \/ run[r].count = Cap(r)

PageKinds == {"page", "last", "pause"}

\* The commit that is sent is still to be applied ...
CommitAhead == client.pos = ServerPos(Me) /\ Open(Me)

\* ... or was, and its answer was lost.
CommitBehind ==
    /\ client.tries = 1
    /\ ServerPos(Me) = AfterCommit.pos
    /\ SealedBy(Me, client.page.kind)

\* Where the process stands in the stream of its current source.
StreamInStep ==
    /\ client.pc = "load" => client.page.kind = "none"
    /\ client.pc = "beat" =>
        /\ client.pos = ServerPos(Me)
        /\ IF client.page.kind = "none" THEN Open(Me) ELSE SealedBy(Me, client.page.kind)
    /\ client.pc = "fetch" => client.pos = ServerPos(Me) /\ Open(Me)
    /\ client.pc = "commit" =>
        /\ client.page.kind \in PageKinds
        /\ CommitAhead \/ CommitBehind
    /\ client.pc = "skip" =>
        /\ client.page.kind \in SkipKinds
        /\ ~run[Me].sealed
        /\ pages[Me] = <<>>

\* Before the claim nothing is kept, and a claim whose answer was lost has
\* committed nothing.
ClaimInv ==
    client.pc \in {"reserve", "confirm", "claim"} =>
        /\ client.at = 1 /\ client.outcomes = <<>> /\ client.page.kind = "none"
        /\ client.pc = "claim" /\ command[Cmd].status = "running" =>
                \A r \in CurrentRuns(Cmd) : pages[r] = <<>>

\* While it collects, the process holds every run of its command.
CollectInv ==
    client.pc \in Working =>
        /\ HoldsAll
        /\ Len(client.outcomes) = client.at - 1
        /\ SourcesDone
        /\ SourcesAhead
        /\ StreamInStep

LastPublished(s) == published[s][Len(published[s])]

\* A completion that was applied and whose answer was lost.
Completed ==
    /\ client.pc = "complete"
    /\ client.tries = 1
    /\ command[Cmd].status # "running"
    /\ \A w \in Winners(Plan) :
        /\ published[w[3]] # <<>>
        /\ LastPublished(w[3]) = w
        /\ run[w].status = "succeeded"

CompleteInv ==
    client.pc = "complete" =>
        /\ Len(client.outcomes) = Len(SourceOrder)
        /\ (HoldsAll /\ SourcesDone) \/ Completed

\* The publications the process has been told of are the last ones of their
\* sources, but for those of a completion whose answer was lost.
MadeInv ==
    /\ client.pc \in {"idle", "materialize"} => client.made = <<>>
    /\ \A i \in 1..Len(client.made) :
        LET s == client.made[i][3]
        IN  /\ run[client.made[i]].status = "succeeded"
            /\ published[s] # <<>>
            /\ LastPublished(s)[3] = s
            /\ \/ LastPublished(s) \in Range(client.made)
               \/ Completed /\ LastPublished(s) \in Winners(Plan)

ClientInv == ClientType /\ ClaimInv /\ CollectInv /\ CompleteInv /\ MadeInv

-----------------------------------------------------------------------------
(* The process and its runs *)

\* The sources of the invocation.
LEMMA SourceAt ==
    /\ Len(SourceOrder) \in Nat \ {0}
    /\ \A i \in 1..Len(SourceOrder) : SourceOrder[i] \in Sources /\ SourceOrder[i] \in Expected
    /\ \A s \in Expected : \E i \in 1..Len(SourceOrder) : SourceOrder[i] = s
BY ClientAssumption DEF Expected, Range

\* A leased command's credentials are of the types the server expects.
LEMMA LeasedCredentials ==
    ASSUME Ledger, NEW c \in Commands, NEW a, NEW l, command[c].status \in LeasedStatus,
           CredentialsMatch(c, a, l)
    PROVE  a \in Attempts /\ l \in Leases
<1>1. command[c] \in CommandRow
  BY DEF Ledger, TypeOK
<1>2. /\ command[c].lease # NoLease
      /\ command[c].attempt \in Attempts /\ command[c].lease \in 0..MaxAttempts
  BY <1>1 DEF Ledger, OneLeasePerAttempt, CommandRow
<1> QED
  BY <1>2, ControlAssumption DEF CredentialsMatch, Leases, NoLease

\* A process that works has a command.
LEMMA CmdType ==
    ASSUME ClientType, client.pc \notin {"idle", "materialize"}
    PROVE  Cmd \in Commands /\ client.todo \in Seq(Commands) /\ client.todo # <<>>
BY DEF ClientType, ClientRow, Cmd

\* The runs it holds.
LEMMA HeldRuns ==
    ASSUME ControlInv, Cmd \in Commands, HoldsAll
    PROVE  /\ client.attempt \in Attempts /\ Lease \in Leases
           /\ CurrentRuns(Cmd) = {<<Cmd, client.attempt, s>> : s \in Expected}
           /\ \A i \in 1..Len(SourceOrder) :
                /\ RunAt(i) \in Runs /\ RunAt(i) \in CurrentRuns(Cmd)
                /\ RunAt(i)[3] = SourceOrder[i]
                /\ run[RunAt(i)].status = "running"
                /\ HoldsCheckpoint(RunAt(i))
                /\ ChainVerified(RunAt(i))
<1>1. /\ Ledger /\ RunsFollowCommand /\ RunningHold
      /\ command[Cmd].status \in LeasedStatus
  BY DEF ControlInv, RunsInv, HoldsAll, LeasedStatus
<1>2. client.attempt \in Attempts /\ Lease \in Leases
  BY <1>1, LeasedCredentials DEF HoldsAll
<1>3. \A r \in CurrentRuns(Cmd) : r \in Runs /\ r = <<Cmd, client.attempt, r[3]>>
  BY RunParts DEF CurrentRuns, HoldsAll, CredentialsMatch
<1>4. \A s \in Expected : <<Cmd, client.attempt, s>> \in CurrentRuns(Cmd)
  <2> SUFFICES ASSUME NEW s \in Expected PROVE <<Cmd, client.attempt, s>> \in CurrentRuns(Cmd)
    OBVIOUS
  <2>1. PICK r \in CurrentRuns(Cmd) : r[3] = s
    BY DEF HoldsAll
  <2> QED
    BY <1>3, <2>1
<1>5. \A r \in CurrentRuns(Cmd) : r[3] \in Expected
  BY DEF HoldsAll
<1>6. CurrentRuns(Cmd) = {<<Cmd, client.attempt, s>> : s \in Expected}
  BY <1>3, <1>4, <1>5
<1>7. ASSUME NEW i \in 1..Len(SourceOrder)
      PROVE  /\ RunAt(i) \in Runs /\ RunAt(i) \in CurrentRuns(Cmd)
             /\ RunAt(i)[3] = SourceOrder[i]
             /\ run[RunAt(i)].status = "running"
             /\ HoldsCheckpoint(RunAt(i))
             /\ ChainVerified(RunAt(i))
  <2>1. SourceOrder[i] \in Expected
    BY SourceAt
  <2>2. RunAt(i) \in CurrentRuns(Cmd) /\ RunAt(i)[3] = SourceOrder[i]
    BY <1>4, <2>1 DEF RunAt
  <2>3. RunAt(i) \in Runs
    BY <1>3, <2>2
  <2>4. run[RunAt(i)].status = "running"
    BY <1>1, <2>2 DEF RunsFollowCommand, HoldsAll
  <2> QED
    BY <1>1, <2>2, <2>3, <2>4 DEF RunningHold, HoldsCheckpoint
<1> QED
  BY <1>2, <1>6, <1>7

\* The current source is one of them.
LEMMA MeIsAt ==
    ASSUME ClientType
    PROVE  Me = RunAt(client.at) /\ client.at \in 1..Len(SourceOrder)
BY DEF Me, RunAt, ClientType, ClientRow

\* The plan of a process that has every outcome.
LEMMA PlanAt ==
    ASSUME ClientType, Len(client.outcomes) = Len(SourceOrder)
    PROVE  /\ DOMAIN Plan = {<<Cmd, client.attempt, s>> : s \in Expected}
           /\ \A i \in 1..Len(SourceOrder) : Plan[RunAt(i)] = client.outcomes[i]
           /\ \A r \in DOMAIN Plan : /\ Plan[r] \in OutcomeStatus
                                     /\ \E i \in 1..Len(SourceOrder) : r = RunAt(i)
<1>1. DOMAIN Plan = {<<Cmd, client.attempt, s>> : s \in Expected}
  BY DEF Plan
<1>2. ASSUME NEW i \in 1..Len(SourceOrder) PROVE Plan[RunAt(i)] = client.outcomes[i]
  <2>1. RunAt(i) \in DOMAIN Plan /\ RunAt(i)[3] = SourceOrder[i]
    BY <1>1, SourceAt DEF RunAt
  <2>2. (CHOOSE j \in 1..Len(SourceOrder) : SourceOrder[j] = SourceOrder[i]) = i
    BY ClientAssumption
  <2> QED
    BY <1>1, <2>1, <2>2 DEF Plan
<1>3. ASSUME NEW r \in DOMAIN Plan
      PROVE  Plan[r] \in OutcomeStatus /\ \E i \in 1..Len(SourceOrder) : r = RunAt(i)
  <2>1. PICK i \in 1..Len(SourceOrder) : r = RunAt(i)
    BY <1>1, <1>3, SourceAt DEF RunAt
  <2>2. client.outcomes \in Seq(OutcomeStatus) /\ i \in 1..Len(client.outcomes)
    BY DEF ClientType, ClientRow
  <2>3. client.outcomes[i] \in OutcomeStatus
    BY <2>2
  <2> QED
    BY <1>2, <2>1, <2>3
<1> QED
  BY <1>1, <1>2, <1>3

-----------------------------------------------------------------------------
(* When a run may end *)

\* Pages granted: at least one unless the budget is a hard stop.
LEMMA CapRange ==
    ASSUME TypeOK, NEW r \in Runs
    PROVE  /\ Cap(r) \in Nat /\ Cap(r) <= PageCap
           /\ run[r].budget # "hard_stop" => Cap(r) > 0
<1>1. run[r] \in RunRow
  BY DEF TypeOK
<1>2. run[r].budget \in {"allow", "soft_limit", "hard_stop"}
  BY <1>1 DEF RunRow, BudgetDecision
<1>3. PageCap \in Nat \ {0}
  BY ControlAssumption
<1>4. /\ PageCap \div 2 \in Nat
      /\ PageCap \div 2 <= PageCap
  BY <1>3
<1> QED
  BY <1>2, <1>3, <1>4 DEF Cap, ReviewedCap

\* A held run that is sealed may succeed.
LEMMA SealedMaySucceed ==
    ASSUME ControlInv, NEW r \in Runs, run[r].status = "running", run[r].sealed
    PROVE  MayFinish(r, "succeeded")
<1>1. ChainVerified(r) /\ SealIsLast(r)
  BY DEF ControlInv, RunningHold, HoldsCheckpoint, SealInv
<1> QED
  BY <1>1 DEF SealIsLast, MayFinish, SuccessProved, SkipStatus, FailStatus

\* One that is not may fail.
LEMMA OpenMayFail ==
    ASSUME ControlInv, NEW r \in Runs, run[r].status = "running", ~run[r].sealed,
           NEW st \in FailStatus
    PROVE  MayFinish(r, st)
<1>1. ChainVerified(r)
  BY DEF ControlInv, RunningHold, HoldsCheckpoint
<1> QED
  BY <1>1 DEF MayFinish, FailureProved, SkipStatus, FailStatus

\* One without pages may be skipped with the status of its proof.
LEMMA ProvedMaySkip ==
    ASSUME ControlInv, NEW r \in Runs, run[r].status = "running", ~run[r].sealed,
           pages[r] = <<>>, NEW st \in SkipStatus,
           run[r].skip = IF st = "skipped_policy" THEN "policy" ELSE "quota"
    PROVE  MayFinish(r, st)
<1>1. ChainVerified(r)
  BY DEF ControlInv, RunningHold, HoldsCheckpoint
<1> QED
  BY <1>1 DEF MayFinish, SkipProved, SkipStatus, FailStatus

\* A run without pages is not sealed and has counted none.
LEMMA NoPagesOpen ==
    ASSUME ControlInv, NEW r \in Runs, run[r].status = "running", pages[r] = <<>>
    PROVE  run[r].count = 0 /\ ~run[r].sealed
<1>1. ChainVerified(r) /\ SealIsLast(r)
  BY DEF ControlInv, RunningHold, HoldsCheckpoint, SealInv
<1> QED
  BY <1>1 DEF ChainVerified, SealIsLast

\* What a run may end as depends on its row, its pages and its checkpoint.
LEMMA MayFinishKept ==
    ASSUME NEW r, NEW st, MayFinish(r, st), run'[r] = run[r], pages'[r] = pages[r],
           checkpoint'[r[3]] = checkpoint[r[3]]
    PROVE  MayFinish(r, st)'
BY DEF MayFinish, ChainVerified, SuccessProved, SkipProved, FailureProved

-----------------------------------------------------------------------------
(* Every step of the process is a step of the control plane. *)

\* The request built for a page is one the server can be sent.
LEMMA RequestType ==
    ASSUME ControlInv, ClientType, Me \in Runs, NEW l, CommitPage(Me, l, PageRequest)
    PROVE  PageRequest \in PageRequests
<1>1. /\ client.page.next \in CursorOrNull
      /\ client.pos.rev \in Nat /\ client.pos.ord \in Nat
      /\ client.pos.cursor \in CursorOrNull
  BY DEF ClientType, ClientRow
<1>2. TypeOK /\ run[Me] \in RunRow /\ Me[3] \in Sources
  BY RunParts DEF ControlInv, RunsInv, Ledger, TypeOK
<1>3. /\ client.pos.rev = checkpoint[Me[3]].revision
      /\ client.pos.ord = run[Me].count
      /\ run[Me].count < Cap(Me)
      /\ checkpoint[Me[3]].revision < MaxRevision
  BY DEF CommitPage, CasMatches, StreamOpen, PageRequest
<1>4. client.pos.ord \in 0..(PageCap - 1) /\ client.pos.rev \in 0..MaxRevision
  BY <1>1, <1>2, <1>3, CapRange, ControlAssumption
<1> DEFINE asked == PageRequest.asked
<1>5. asked \in TerminalReason
  BY DEF PageRequest, TerminalReason
<1>6. PageRequest = [ord |-> client.pos.ord, rev |-> client.pos.rev,
                     from |-> client.pos.cursor, next |-> client.page.next, asked |-> asked]
  BY DEF PageRequest
<1> HIDE DEF asked
<1> QED
  BY <1>1, <1>4, <1>5, <1>6 DEF PageRequests

\* The server's side of each call, as a step of the control plane.
LEMMA ClaimIsControl ==
    ASSUME ControlInv, Cmd \in Commands, NEW level \in [Sources -> BudgetLevels],
           ClaimStep(level)
    PROVE  [Next]_vars
<1>1. CASE Claim(Cmd, client.attempt, Lease, level)
  <2>1. client.attempt \in Attempts /\ Lease \in Leases
    BY <1>1, LeasedCredentials DEF Claim, ControlInv, RunsInv, LeasedStatus
  <2>2. Request(Cmd)
    BY <1>1, <2>1 DEF Request
  <2> QED
    BY <2>2 DEF Next
<1>2. CASE UNCHANGED vars
  BY <1>2
<1> QED
  BY <1>1, <1>2 DEF ClaimStep

\* commit_page
LEMMA CommitIsControl ==
    ASSUME ControlInv, ClientType, Me \in Runs, CommitStep
    PROVE  \/ UNCHANGED vars
           \/ /\ Lease \in Leases /\ PageRequest \in PageRequests
              /\ CommitPage(Me, Lease, PageRequest)
              /\ Next
<1>1. CASE CommitPage(Me, Lease, PageRequest)
  <2>1. PageRequest \in PageRequests
    BY <1>1, RequestType
  <2>2. Lease \in Leases
    <3>1. /\ command[Me[1]] \in CommandRow
          /\ command[Me[1]].status = "running" /\ command[Me[1]].lease = Lease
          /\ Me[1] \in Commands
      BY <1>1, RunParts DEF CommitPage, OwnsLease, ControlInv, RunsInv, Ledger, TypeOK
    <3>2. CredentialsMatch(Me[1], command[Me[1]].attempt, Lease)
      BY <3>1 DEF CredentialsMatch
    <3> QED
      BY <3>1, <3>2, LeasedCredentials DEF ControlInv, RunsInv, LeasedStatus
  <2>3. RunRequest(Me)
    BY <1>1, <2>1, <2>2 DEF RunRequest
  <2> QED
    BY <1>1, <2>1, <2>2, <2>3 DEF Next
<1>2. CASE UNCHANGED vars
  BY <1>2
<1> QED
  BY <1>1, <1>2 DEF CommitStep

\* attach_skip_decision
LEMMA SkipIsControl ==
    ASSUME ControlInv, Me \in Runs, client.page.kind \in SkipKinds, SkipStep
    PROVE  [Next]_vars
<1>1. CASE AttachSkip(Me, Lease, client.page.kind)
  <2>1. /\ Me[1] \in Commands
        /\ command[Me[1]].status = "running" /\ command[Me[1]].lease = Lease
    BY <1>1, RunParts DEF AttachSkip, OwnsLease
  <2>2. CredentialsMatch(Me[1], command[Me[1]].attempt, Lease)
    BY <2>1 DEF CredentialsMatch
  <2>3. Lease \in Leases
    BY <2>1, <2>2, LeasedCredentials DEF ControlInv, RunsInv, LeasedStatus
  <2>4. RunRequest(Me)
    BY <1>1, <2>3 DEF RunRequest
  <2> QED
    BY <2>4 DEF Next
<1>2. CASE UNCHANGED vars
  BY <1>2
<1> QED
  BY <1>1, <1>2 DEF SkipStep

\* complete
LEMMA CompleteIsControl ==
    ASSUME ControlInv, ClientType, CompleteInv, client.pc = "complete", CompleteStep
    PROVE  \/ UNCHANGED vars
           \/ /\ Complete(Cmd, client.attempt, Lease, Plan)
              /\ HoldsAll /\ SourcesDone /\ Plan \in Outcomes(Cmd)
              /\ Next
<1>1. CASE Complete(Cmd, client.attempt, Lease, Plan)
  <2>1. Cmd \in Commands
    BY CmdType
  <2>2. HoldsAll /\ SourcesDone /\ Len(client.outcomes) = Len(SourceOrder)
    BY <1>1 DEF CompleteInv, Completed, Complete
  <2>3. client.attempt \in Attempts /\ Lease \in Leases
    BY <2>1, <2>2, HeldRuns
  <2>4. Plan \in Outcomes(Cmd)
    <3>1. DOMAIN Plan = CurrentRuns(Cmd) /\ \A r \in DOMAIN Plan : Plan[r] \in OutcomeStatus
      BY <2>1, <2>2, HeldRuns, PlanAt
    <3>2. Plan = [r \in DOMAIN Plan |-> Plan[r]]
      BY DEF Plan
    <3> QED
      BY <3>1, <3>2 DEF Outcomes
  <2>5. Request(Cmd)
    BY <1>1, <2>3, <2>4 DEF Request
  <2> QED
    BY <1>1, <2>1, <2>2, <2>4, <2>5 DEF Next
<1>2. CASE UNCHANGED vars
  BY <1>2
<1> QED
  BY <1>1, <1>2 DEF CompleteStep

\* Whatever the process, its transport or its environment does.
LEMMA StepIsControl ==
    ASSUME ControlInv, ClientInv, [ClientNext]_allVars
    PROVE  [Next]_vars
<1>1. ClientType /\ CompleteInv /\ CollectInv
  BY DEF ClientInv
<1>2. ASSUME client.pc \in Working PROVE Me \in Runs /\ Cmd \in Commands
  <2>1. Cmd \in Commands /\ HoldsAll
    BY <1>1, <1>2, CmdType DEF CollectInv, Working
  <2> QED
    BY <1>1, <2>1, HeldRuns, MeIsAt
<1>3. CASE StartWorkflow \/ Crash \/ Fetch \/ UNCHANGED allVars
  BY <1>3 DEF StartWorkflow, Crash, Fetch, allVars, vars
<1>4. CASE CallMaterialize
  BY <1>4 DEF CallMaterialize, CallAny, Refused, MaterializeSome, Next
<1>5. CASE CallReserve
  <2>1. Cmd \in Commands
    BY <1>1, <1>5, CmdType DEF CallReserve
  <2> QED
    BY <1>5, <2>1 DEF CallReserve, Call, CallAny, Refused, Request, Next
<1>6. CASE CallConfirm
  <2>1. Cmd \in Commands
    BY <1>1, <1>6, CmdType DEF CallConfirm
  <2>2. ASSUME Confirm(Cmd, client.attempt, Lease) PROVE Next
    <3>1. client.attempt \in Attempts /\ Lease \in Leases
      BY <2>1, <2>2, LeasedCredentials DEF Confirm, ControlInv, RunsInv, LeasedStatus
    <3>2. Request(Cmd)
      BY <2>2, <3>1 DEF Request
    <3> QED
      BY <2>1, <3>2 DEF Next
  <2> QED
    BY <1>6, <2>2 DEF CallConfirm, Call, CallAny, Refused
<1>7. CASE CallClaim
  <2>1. Cmd \in Commands
    BY <1>1, <1>7, CmdType DEF CallClaim
  <2> QED
    BY <1>7, <2>1, ClaimIsControl DEF CallClaim, Call, CallAny, Refused
<1>8. CASE LoadCheckpoint
  BY <1>8 DEF LoadCheckpoint, CheckpointStep, Call, CallAny, Refused
<1>9. CASE CallHeartbeat
  <2>1. Cmd \in Commands
    BY <1>1, <1>9, CmdType DEF CallHeartbeat
  <2>2. ASSUME Heartbeat(Cmd, client.attempt, Lease) PROVE Next
    <3>1. client.attempt \in Attempts /\ Lease \in Leases
      BY <2>1, <2>2, LeasedCredentials DEF Heartbeat, ControlInv, RunsInv, LeasedStatus
    <3>2. Request(Cmd)
      BY <2>2, <3>1 DEF Request
    <3> QED
      BY <2>1, <3>2 DEF Next
  <2> QED
    BY <1>9, <2>2 DEF CallHeartbeat, Call, CallAny, Refused
<1>10. CASE CallCommit
  <2>1. Me \in Runs
    BY <1>2, <1>10 DEF CallCommit, Working
  <2> QED
    BY <1>1, <1>10, <2>1, CommitIsControl DEF CallCommit, Call, CallAny, Refused
<1>11. CASE CallSkip
  <2>1. Me \in Runs /\ client.page.kind \in SkipKinds
    BY <1>1, <1>2, <1>11 DEF CallSkip, Working, CollectInv, StreamInStep
  <2> QED
    BY <1>11, <2>1, SkipIsControl DEF CallSkip, Call, CallAny, Refused
<1>12. CASE CallComplete
  BY <1>1, <1>12, CompleteIsControl DEF CallComplete, Call, CallAny, Refused
<1>13. CASE Clock
  BY <1>13 DEF Clock, Next
<1>14. CASE Others
  BY <1>14 DEF Others, Request, Next
<1> QED
  BY <1>3, <1>4, <1>5, <1>6, <1>7, <1>8, <1>9, <1>10, <1>11, <1>12, <1>13, <1>14
     DEF ClientNext, ClientStep

-----------------------------------------------------------------------------
(* Steps that leave the runs alone *)

\* Nothing a process relies on changes.
Quiet ==
    /\ UNCHANGED <<run, pages, checkpoint, published>>
    /\ \A c \in Commands :
        /\ command'[c].status = "running" <=> command[c].status = "running"
        /\ command[c].status = "running" =>
            command'[c].attempt = command[c].attempt /\ command'[c].lease = command[c].lease

\* Time, authorizations, retries, reservations, confirmations and heartbeats.
LEMMA QuietSteps ==
    ASSUME TypeOK,
           \/ UNCHANGED vars
           \/ Tick
           \/ \E s \in Sources : Operator(s)
           \/ \E c \in Commands : \/ \E srcs \in SUBSET Sources : RetryCollection(c, srcs)
                                  \/ Reserve(c)
                                  \/ \E a, l : Confirm(c, a, l) \/ Heartbeat(c, a, l)
    PROVE  Quiet
<1>0. command \in [Commands -> CommandRow] /\ \A c \in Commands : command[c] \in CommandRow
  BY DEF TypeOK
<1>1. CASE UNCHANGED vars
  BY <1>1 DEF vars, Quiet
<1>2. CASE Tick
  <2>1. ASSUME NEW c \in Commands
        PROVE  /\ command'[c].status = command[c].status
               /\ command'[c].attempt = command[c].attempt
               /\ command'[c].lease = command[c].lease
    <3>1. PICK age, wait : command'[c] = [command[c] EXCEPT !.age = age, !.wait = wait]
      BY <1>2 DEF Tick
    <3> QED
      BY <1>0, <3>1 DEF CommandRow
  <2> QED
    BY <1>2, <2>1 DEF Tick, Quiet
<1>3. ASSUME NEW s \in Sources, Operator(s) PROVE Quiet
  BY <1>3 DEF Operator, Expire, Disable, Activate, Quiet
<1>4. ASSUME NEW c \in Commands, NEW srcs \in SUBSET Sources, RetryCollection(c, srcs)
      PROVE  Quiet
  BY <1>0, <1>4 DEF RetryCollection, Queued, AbsentCommand, Quiet
<1>5. ASSUME NEW c \in Commands, Reserve(c) PROVE Quiet
  <2>1. Reserved(c).status = "dispatch_reserved"
    BY <1>0 DEF Reserved, CommandRow
  <2> QED
    BY <1>0, <1>5, <2>1 DEF Reserve, Quiet
<1>6. ASSUME NEW c \in Commands, NEW a, NEW l, Confirm(c, a, l) PROVE Quiet
  <2>1. Confirmed(c).status = "dispatched"
    BY <1>0 DEF Confirmed, CommandRow
  <2> QED
    BY <1>0, <1>6, <2>1 DEF Confirm, Quiet
<1>7. ASSUME NEW c \in Commands, NEW a, NEW l, Heartbeat(c, a, l) PROVE Quiet
  BY <1>0, <1>7 DEF Heartbeat, Quiet, CommandRow
<1> QED
  BY <1>1, <1>2, <1>3, <1>4, <1>5, <1>6, <1>7

\* The process is where it was, or about to repeat its call.
Waits == client' = client \/ client' = [client EXCEPT !.tries = 1]

\* What it keeps then.
LEMMA WaitsKeeps ==
    ASSUME ClientType, Waits
    PROVE  /\ ClientType'
           /\ client'.pc = client.pc /\ client'.result = client.result
           /\ client'.todo = client.todo /\ client'.attempt = client.attempt
           /\ client'.at = client.at /\ client'.pos = client.pos
           /\ client'.page = client.page /\ client'.outcomes = client.outcomes
           /\ client'.made = client.made
           /\ client.tries = 1 => client'.tries = 1
           /\ Cmd' = Cmd /\ Lease' = Lease /\ Me' = Me /\ Plan' = Plan
           /\ AfterCommit.pos' = AfterCommit.pos
           /\ \A i : RunAt(i)' = RunAt(i)
<1>1. /\ client' \in ClientRow
      /\ client'.pc = client.pc /\ client'.result = client.result
      /\ client'.todo = client.todo /\ client'.attempt = client.attempt
      /\ client'.at = client.at /\ client'.pos = client.pos
      /\ client'.page = client.page /\ client'.outcomes = client.outcomes
      /\ client'.made = client.made
      /\ client.tries = 1 => client'.tries = 1
  BY DEF ClientType, ClientRow, Waits
<1>2. Cmd' = Cmd /\ Lease' = Lease /\ Me' = Me /\ \A i : RunAt(i)' = RunAt(i)
  BY <1>1 DEF Cmd, Lease, Me, RunAt
<1>3. Plan' = Plan
  BY <1>1, <1>2 DEF Plan
<1>4. AfterCommit.pos' = AfterCommit.pos
  BY <1>1 DEF AfterCommit, ClientType, ClientRow
<1> QED
  BY <1>1, <1>2, <1>3, <1>4 DEF ClientType

\* The runs of a running command are the same after a quiet step.
LEMMA QuietRuns ==
    ASSUME Quiet, NEW c \in Commands, command'[c].status = "running"
    PROVE  CurrentRuns(c)' = CurrentRuns(c) /\ command[c].status = "running"
BY DEF Quiet, CurrentRuns

\* A quiet step leaves a waiting process in step.
LEMMA QuietKeeps ==
    ASSUME ClientInv, Quiet, Waits
    PROVE  ClientInv'
<1>1. ClientType /\ ClaimInv /\ CollectInv /\ CompleteInv /\ MadeInv
  BY DEF ClientInv
<1>2. ClientType'
  BY <1>1, WaitsKeeps
<1>3. run' = run /\ pages' = pages /\ checkpoint' = checkpoint /\ published' = published
  BY DEF Quiet
<1>4. ASSUME client.pc \notin {"idle", "materialize"}
      PROVE  /\ Cmd \in Commands
             /\ command'[Cmd].status = "running" <=> command[Cmd].status = "running"
             /\ HoldsAll => HoldsAll'
  <2>1. Cmd \in Commands
    BY <1>1, <1>4, CmdType
  <2>2. command'[Cmd].status = "running" <=> command[Cmd].status = "running"
    BY <2>1 DEF Quiet
  <2>3. ASSUME HoldsAll PROVE HoldsAll'
    <3>1. CurrentRuns(Cmd)' = CurrentRuns(Cmd)
      BY <2>1, <2>2, <2>3, <1>1, QuietRuns, WaitsKeeps DEF HoldsAll
    <3> QED
      BY <1>1, <2>1, <2>2, <2>3, <3>1, WaitsKeeps DEF HoldsAll, CredentialsMatch, Quiet
  <2> QED
    BY <2>1, <2>2, <2>3
<1>5. ClaimInv'
  <2> SUFFICES ASSUME client.pc \in {"reserve", "confirm", "claim"}
               PROVE  /\ client.at = 1 /\ client.outcomes = <<>> /\ client.page.kind = "none"
                      /\ client.pc = "claim" /\ command'[Cmd].status = "running" =>
                            \A r \in CurrentRuns(Cmd)' : pages[r] = <<>>
    BY <1>1, <1>3, WaitsKeeps DEF ClaimInv
  <2>1. command'[Cmd].status = "running" => CurrentRuns(Cmd)' = CurrentRuns(Cmd)
    BY <1>1, <1>4, QuietRuns, WaitsKeeps
  <2> QED
    BY <1>1, <1>4, <2>1 DEF ClaimInv
<1>6. SourcesDone => SourcesDone'
  BY <1>1, <1>3, WaitsKeeps
     DEF SourcesDone, MayFinish, ChainVerified, SuccessProved, SkipProved, FailureProved
<1>7. SourcesAhead => SourcesAhead'
  BY <1>1, <1>3, WaitsKeeps DEF SourcesAhead
<1>8. StreamInStep => StreamInStep'
  <2>1. /\ Me' = Me /\ ServerPos(Me)' = ServerPos(Me)
        /\ Open(Me)' <=> Open(Me)
        /\ SealedBy(Me, client.page.kind)' <=> SealedBy(Me, client.page.kind)
    BY <1>1, <1>3, WaitsKeeps DEF ServerPos, Open, SealedBy, Cap
  <2> QED
    BY <1>1, <1>3, <2>1, WaitsKeeps DEF StreamInStep, CommitAhead, CommitBehind
<1>9. CollectInv'
  BY <1>1, <1>4, <1>6, <1>7, <1>8, WaitsKeeps DEF CollectInv, Working
<1>10. Completed => Completed'
  BY <1>1, <1>3, <1>4, WaitsKeeps DEF Completed, LastPublished, Winners
<1>11. CompleteInv'
  BY <1>1, <1>4, <1>6, <1>10, WaitsKeeps DEF CompleteInv
<1>12. MadeInv'
  BY <1>1, <1>3, <1>10, WaitsKeeps DEF MadeInv, LastPublished, Winners
<1> QED
  BY <1>2, <1>5, <1>9, <1>11, <1>12 DEF ClientInv

-----------------------------------------------------------------------------
(* Processes that begin and end *)

Results == {"none", "success", "failure"}

\* A process that has ended, or has only just started, has nothing to keep.
LEMMA EndedKeeps ==
    ASSUME NEW result \in Results,
           client' = Ended(result) \/ client' = [Ended(result) EXCEPT !.pc = "materialize"]
    PROVE  ClientInv'
<1>1. Ended(result) \in ClientRow
  BY SourceAt DEF Ended, ClientRow, Steps, Results, NoPage, CursorOrNull
<1>2. [Ended(result) EXCEPT !.pc = "materialize"] \in ClientRow
  BY <1>1 DEF ClientRow, Steps
<1>3. /\ client' \in ClientRow /\ client'.made = <<>>
      /\ client'.pc \in {"idle", "materialize"}
  BY <1>1, <1>2 DEF Ended
<1> QED
  BY <1>3 DEF ClientInv, ClientType, ClaimInv, CollectInv, CompleteInv, MadeInv, Working

\* Publications that are all the last ones of their sources in the tables.
Told(made, runs, logs) ==
    \A i \in 1..Len(made) :
        LET log == logs[made[i][3]]
        IN  /\ runs[made[i]].status = "succeeded"
            /\ log # <<>> /\ log[Len(log)][3] = made[i][3] /\ log[Len(log)] \in Range(made)

\* The process when it takes up the commands of todo.
BegunRow(todo, made) ==
    [Ended("none") EXCEPT !.pc = "reserve", !.todo = todo, !.made = made]

\* Its row.
LEMMA BegunFields ==
    ASSUME NEW todo \in Seq(Commands), NEW made \in Seq(Runs)
    PROVE  /\ BegunRow(todo, made) \in ClientRow
           /\ BegunRow(todo, made).pc = "reserve" /\ BegunRow(todo, made).todo = todo
           /\ BegunRow(todo, made).made = made /\ BegunRow(todo, made).at = 1
           /\ BegunRow(todo, made).outcomes = <<>> /\ BegunRow(todo, made).page.kind = "none"
<1>1. /\ Ended("none") \in ClientRow
      /\ Ended("none").at = 1 /\ Ended("none").outcomes = <<>>
      /\ Ended("none").page.kind = "none"
  BY SourceAt DEF Ended, ClientRow, Steps, NoPage, CursorOrNull
<1> QED
  BY <1>1 DEF BegunRow, ClientRow, Steps

\* The row of a process started for one command.
LEMMA StartedFields ==
    ASSUME NEW c \in Commands, NEW row,
           row = [Ended("none") EXCEPT !.pc = "reserve", !.todo = <<c>>]
    PROVE  /\ row \in ClientRow
           /\ row.pc = "reserve" /\ row.todo = <<c>> /\ row.made = <<>>
           /\ row.at = 1 /\ row.outcomes = <<>> /\ row.page.kind = "none"
<1>1. /\ Ended("none") \in ClientRow /\ Ended("none").made = <<>>
      /\ Ended("none").at = 1 /\ Ended("none").outcomes = <<>>
      /\ Ended("none").page.kind = "none"
  BY SourceAt DEF Ended, ClientRow, Steps, NoPage, CursorOrNull
<1>2. <<c>> \in Seq(Commands)
  OBVIOUS
<1> QED
  BY <1>1, <1>2 DEF ClientRow, Steps

\* A process about to take up a command, told of these publications.
LEMMA BegunKeeps ==
    ASSUME NEW row \in ClientRow, row.pc = "reserve", row.todo # <<>>,
           row.at = 1, row.outcomes = <<>>, row.page.kind = "none",
           client' = row \/ client' = [row EXCEPT !.tries = 0],
           Told(row.made, run', published')
    PROVE  ClientInv'
<1>1. /\ client' \in ClientRow
      /\ client'.pc = "reserve" /\ client'.todo # <<>> /\ client'.made = row.made
      /\ client'.at = 1 /\ client'.outcomes = <<>> /\ client'.page.kind = "none"
  <2>1. CASE client' = row
    BY <2>1
  <2>2. CASE client' = [row EXCEPT !.tries = 0]
    BY <2>2 DEF ClientRow
  <2> QED
    BY <2>1, <2>2
<1>2. MadeInv'
  BY <1>1 DEF MadeInv, LastPublished, Told
<1> QED
  BY <1>1, <1>2 DEF ClientInv, ClientType, ClaimInv, CollectInv, CompleteInv, Working

\* The process dies or repeats its call, after a quiet step.
LEMMA AgainKeeps ==
    ASSUME ClientInv, Quiet, client' = Again
    PROVE  ClientInv'
<1>1. CASE client' = Dead
  BY <1>1, EndedKeeps DEF Dead, Results
<1>2. CASE client' = [client EXCEPT !.tries = 1]
  BY <1>2, QuietKeeps DEF Waits
<1> QED
  BY <1>1, <1>2 DEF Again

\* A refusal ends the process.
LEMMA RefusedKeeps ==
    ASSUME client' = Dead
    PROVE  ClientInv'
BY EndedKeeps DEF Dead, Results

-----------------------------------------------------------------------------
(* The run under way *)

\* A step that touches no run but the current one.
OwnStep ==
    /\ ControlInv' /\ published' = published
    /\ command'[Cmd].status = command[Cmd].status
    /\ command'[Cmd].attempt = command[Cmd].attempt
    /\ command'[Cmd].lease = command[Cmd].lease
    /\ Me \in Runs
    /\ run[Me].status = "running" /\ run'[Me].status = "running"
    /\ \A q \in Runs : q # Me => run'[q] = run[q] /\ pages'[q] = pages[q]
    /\ \A s \in Sources : s # Me[3] => checkpoint'[s] = checkpoint[s]

\* Where the process was, and the step it takes: the same command and attempt.
Collecting ==
    /\ ControlInv /\ ClientInv /\ client.pc \in Working
    /\ client' \in ClientRow
    /\ client'.todo = client.todo /\ client'.attempt = client.attempt
    /\ client'.made = client.made

\* The process still holds its runs, and the other ones are as they were.
LEMMA OthersKept ==
    ASSUME Collecting, OwnStep
    PROVE  /\ ClientType' /\ HoldsAll'
           /\ Cmd' = Cmd
           /\ \A i : RunAt(i)' = RunAt(i)
           /\ \A i \in 1..Len(SourceOrder) : i # client.at =>
                /\ pages'[RunAt(i)] = pages[RunAt(i)]
                /\ \A st : MayFinish(RunAt(i), st) => MayFinish(RunAt(i), st)'
<1>1. ClientType /\ Cmd \in Commands /\ client.todo # <<>> /\ HoldsAll
  BY CmdType DEF Collecting, ClientInv, CollectInv, Working
<1>2. ClientType'
  BY <1>1 DEF Collecting, ClientType
<1>3. Cmd' = Cmd /\ Lease' = Lease /\ \A i : RunAt(i)' = RunAt(i)
  BY DEF Cmd, Lease, RunAt, Collecting
<1>4. \A r \in Runs : run'[r].status # "none" <=> run[r].status # "none"
  BY DEF OwnStep
<1>5. CurrentRuns(Cmd)' = CurrentRuns(Cmd)
  BY <1>3, <1>4 DEF CurrentRuns, OwnStep
<1>6. HoldsAll'
  BY <1>1, <1>3, <1>5 DEF HoldsAll, CredentialsMatch, OwnStep, Collecting
<1>7. ASSUME NEW i \in 1..Len(SourceOrder), i # client.at
      PROVE  /\ pages'[RunAt(i)] = pages[RunAt(i)]
             /\ \A st : MayFinish(RunAt(i), st) => MayFinish(RunAt(i), st)'
  <2>1. /\ RunAt(i) \in Runs /\ RunAt(i)[3] = SourceOrder[i]
        /\ Me[3] = SourceOrder[client.at] /\ client.at \in 1..Len(SourceOrder)
    BY <1>1, HeldRuns, MeIsAt DEF Collecting
  <2>2. RunAt(i)[3] # Me[3] /\ RunAt(i)[3] \in Sources
    BY <1>7, <2>1, ClientAssumption, SourceAt
  <2>3. /\ run'[RunAt(i)] = run[RunAt(i)] /\ pages'[RunAt(i)] = pages[RunAt(i)]
        /\ checkpoint'[RunAt(i)[3]] = checkpoint[RunAt(i)[3]]
    BY <2>1, <2>2 DEF OwnStep
  <2> QED
    BY <1>3, <2>3, MayFinishKept
<1> QED
  BY <1>2, <1>3, <1>6, <1>7

\* The publications known to the process stay the last ones.
LEMMA MadeKept ==
    ASSUME ClientInv, client' \in ClientRow, client'.made = client.made,
           client.pc \notin {"idle", "materialize", "complete"},
           client'.pc \notin {"idle", "materialize"},
           ControlInv, [Next]_vars, published' = published
    PROVE  MadeInv'
<1> SUFFICES ASSUME NEW i \in 1..Len(client.made)
             PROVE  LET s == client.made[i][3]
                    IN  /\ run'[client.made[i]].status = "succeeded"
                        /\ published[s] # <<>>
                        /\ LastPublished(s)[3] = s
                        /\ LastPublished(s) \in Range(client.made)
  BY DEF MadeInv, LastPublished
<1>1. /\ run[client.made[i]].status = "succeeded"
      /\ published[client.made[i][3]] # <<>>
      /\ LastPublished(client.made[i][3]) \in Range(client.made)
      /\ LastPublished(client.made[i][3])[3] = client.made[i][3]
      /\ client.made[i] \in Runs
  BY DEF ClientInv, MadeInv, Completed, ClientType, ClientRow
<1>2. run'[client.made[i]] = run[client.made[i]]
  BY <1>1, EndedStep DEF OutcomeStatus, ControlInv
<1> QED
  BY <1>1, <1>2

\* On with the same source.
LEMMA GoesOn ==
    ASSUME Collecting, OwnStep, [Next]_vars, client.pc # "load" \/ client'.pc = "beat",
           client'.pc \in Working \ {"load"},
           client'.at = client.at, client'.outcomes = client.outcomes,
           StreamInStep'
    PROVE  ClientInv'
<1>1. CollectInv /\ ClientType /\ client.at \in 1..Len(SourceOrder)
  BY MeIsAt DEF Collecting, ClientInv
<1>2. /\ Len(client.outcomes) = client.at - 1 /\ SourcesDone /\ SourcesAhead
  BY <1>1 DEF CollectInv, Collecting
<1>3. SourcesDone'
  <2> SUFFICES ASSUME NEW i \in 1..Len(client.outcomes)
               PROVE  MayFinish(RunAt(i), client.outcomes[i])'
    BY DEF SourcesDone
  <2>1. i \in 1..Len(SourceOrder) /\ i # client.at
    BY <1>1, <1>2, SourceAt
  <2>2. MayFinish(RunAt(i), client.outcomes[i])
    BY <1>2 DEF SourcesDone
  <2> QED
    BY <2>1, <2>2, OthersKept
<1>4. SourcesAhead'
  <2> SUFFICES ASSUME NEW i \in 1..Len(SourceOrder), i > client.at
               PROVE  pages'[RunAt(i)] = <<>>
    BY OthersKept DEF SourcesAhead
  <2>1. i # client.at
    BY <1>1
  <2> QED
    BY <1>2, <2>1, OthersKept DEF SourcesAhead
<1>5. CollectInv'
  BY <1>2, <1>3, <1>4, OthersKept DEF CollectInv
<1>6. MadeInv'
  BY MadeKept DEF Collecting, OwnStep, Working
<1> QED
  BY <1>5, <1>6, OthersKept DEF ClientInv, ClaimInv, CompleteInv, Working

\* The process after collect_run returned.
LEMMA OutcomeRow ==
    ASSUME ClientType, client.pc \in Working, NEW st \in OutcomeStatus,
           client' = Outcome(st) \/ client' = [Outcome(st) EXCEPT !.tries = 0]
    PROVE  /\ client' \in ClientRow
           /\ client'.todo = client.todo /\ client'.attempt = client.attempt
           /\ client'.made = client.made
           /\ client'.outcomes = Append(client.outcomes, st)
           /\ client'.at = IF client.at = Len(SourceOrder) THEN 1 ELSE client.at + 1
           /\ client'.pc = IF client.at = Len(SourceOrder) THEN "complete" ELSE "load"
           /\ client'.page.kind = "none"
<1> DEFINE at == IF client.at = Len(SourceOrder) THEN 1 ELSE client.at + 1
           pc == IF client.at = Len(SourceOrder) THEN "complete" ELSE "load"
           outcomes == Append(client.outcomes, st)
<1>1. /\ client \in ClientRow
      /\ at \in 1..Len(SourceOrder) /\ pc \in Steps
      /\ outcomes \in Seq(OutcomeStatus)
      /\ NoPage \in [kind : {"none"} \cup Answers, next : CursorOrNull]
  BY SourceAt DEF ClientType, ClientRow, Steps, NoPage, CursorOrNull
<1>2. Outcome(st) = [client EXCEPT !.outcomes = outcomes, !.at = at, !.pc = pc, !.page = NoPage]
  BY DEF Outcome
<1> DEFINE row == Outcome(st)
<1> HIDE DEF at, pc, outcomes
<1>3. /\ row \in ClientRow
      /\ row.todo = client.todo /\ row.attempt = client.attempt
      /\ row.made = client.made /\ row.page = NoPage
      /\ row.outcomes = outcomes /\ row.at = at /\ row.pc = pc
  <2> DEFINE PosRow == [rev : Nat, cursor : CursorOrNull, ord : Nat]
             PageOf == [kind : {"none"} \cup Answers, next : CursorOrNull]
  <2>1. /\ client \in [pc : Steps, result : {"none", "success", "failure"},
                       todo : Seq(Commands), attempt : Nat,
                       at : 1..Len(SourceOrder), tries : {0, 1}, pos : PosRow, page : PageOf,
                       outcomes : Seq(OutcomeStatus), made : Seq(Runs)]
        /\ NoPage \in PageOf
    BY <1>1 DEF ClientRow
  <2> HIDE DEF PosRow, PageOf
  <2>2. row \in [pc : Steps, result : {"none", "success", "failure"},
                 todo : Seq(Commands), attempt : Nat,
                 at : 1..Len(SourceOrder), tries : {0, 1}, pos : PosRow, page : PageOf,
                 outcomes : Seq(OutcomeStatus), made : Seq(Runs)]
    BY <1>1, <1>2, <2>1
  <2>3. /\ row.todo = client.todo /\ row.attempt = client.attempt
        /\ row.made = client.made /\ row.page = NoPage
        /\ row.outcomes = outcomes /\ row.at = at /\ row.pc = pc
    BY <1>2, <2>1
  <2> QED
    BY <2>2, <2>3 DEF ClientRow, PosRow, PageOf
<1> HIDE DEF row
<1>4. /\ client' \in ClientRow
      /\ client'.todo = row.todo /\ client'.attempt = row.attempt
      /\ client'.made = row.made /\ client'.page = row.page
      /\ client'.outcomes = row.outcomes /\ client'.at = row.at /\ client'.pc = row.pc
  BY <1>3 DEF ClientRow, row
<1> QED
  BY <1>3, <1>4 DEF at, pc, outcomes, NoPage

\* The source is finished with an outcome the server accepts.
LEMMA FinishesSource ==
    ASSUME ControlInv, ClientInv, client.pc \in Working, OwnStep, [Next]_vars,
           NEW st \in OutcomeStatus, NEW r, r = Me, MayFinish(r, st)',
           client' = Outcome(st) \/ client' = [Outcome(st) EXCEPT !.tries = 0]
    PROVE  ClientInv'
<1>1. /\ CollectInv /\ ClientType /\ client.at \in 1..Len(SourceOrder)
      /\ Me = RunAt(client.at)
  BY MeIsAt DEF ClientInv
<1>2. /\ Len(client.outcomes) = client.at - 1 /\ SourcesDone /\ SourcesAhead
      /\ client.outcomes \in Seq(OutcomeStatus)
  BY <1>1 DEF CollectInv, ClientType, ClientRow
<1>3. /\ client' \in ClientRow
      /\ client'.todo = client.todo /\ client'.attempt = client.attempt
      /\ client'.made = client.made
      /\ client'.outcomes = Append(client.outcomes, st)
      /\ client'.at = IF client.at = Len(SourceOrder) THEN 1 ELSE client.at + 1
      /\ client'.pc = IF client.at = Len(SourceOrder) THEN "complete" ELSE "load"
      /\ client'.page.kind = "none"
  BY <1>1, OutcomeRow
<1>4. Collecting
  BY <1>3 DEF Collecting
<1>5. /\ Len(client'.outcomes) = client.at
      /\ client'.outcomes[client.at] = st
      /\ \A i \in 1..(client.at - 1) : client'.outcomes[i] = client.outcomes[i]
  BY <1>1, <1>2, <1>3
<1>6. SourcesDone'
  <2> SUFFICES ASSUME NEW i \in 1..client.at
               PROVE  MayFinish(RunAt(i), client.outcomes[i])'
    BY <1>5 DEF SourcesDone
  <2>1. RunAt(i)' = RunAt(i) /\ i \in 1..Len(SourceOrder)
    BY <1>1, <1>4, OthersKept
  <2>2. CASE i = client.at
    BY <1>1, <1>5, <2>1, <2>2
  <2>3. CASE i # client.at
    <3>1. i \in 1..(client.at - 1)
      BY <1>1, <2>3, SourceAt
    <3>2. MayFinish(RunAt(i), client.outcomes[i])
      BY <1>2, <3>1 DEF SourcesDone
    <3> QED
      BY <1>4, <1>5, <2>1, <2>3, <3>1, <3>2, OthersKept
  <2> QED
    BY <2>2, <2>3
<1>7. MadeInv'
  <2>1. client'.pc \notin {"idle", "materialize"}
    BY <1>3
  <2> QED
    BY <1>3, <2>1, MadeKept DEF OwnStep, Working
<1>8. CASE client.at = Len(SourceOrder)
  <2>1. client'.pc = "complete" /\ Len(client'.outcomes) = Len(SourceOrder)
    BY <1>3, <1>5, <1>8
  <2>2. CompleteInv'
    BY <1>4, <1>6, <2>1, OthersKept DEF CompleteInv
  <2> QED
    BY <1>4, <1>7, <2>1, <2>2, OthersKept DEF ClientInv, ClaimInv, CollectInv, Working
<1>9. CASE client.at # Len(SourceOrder)
  <2>1. client'.pc = "load" /\ client'.at = client.at + 1
    BY <1>3, <1>9
  <2>2. SourcesAhead'
    <3> SUFFICES ASSUME NEW i \in 1..Len(SourceOrder), i > client.at
                 PROVE  pages'[RunAt(i)] = <<>>
      BY <1>1, <1>4, <2>1, OthersKept DEF SourcesAhead
    <3>1. i # client.at
      BY <1>1
    <3> QED
      BY <1>2, <1>4, <3>1, OthersKept DEF SourcesAhead
  <2>3. Len(client'.outcomes) = client'.at - 1
    BY <1>1, <1>5, <2>1
  <2>4. CollectInv'
    BY <1>3, <1>4, <1>6, <2>1, <2>2, <2>3, OthersKept DEF CollectInv, StreamInStep
  <2> QED
    BY <1>4, <1>7, <2>1, <2>4, OthersKept DEF ClientInv, ClaimInv, CompleteInv, Working
<1> QED
  BY <1>8, <1>9

-----------------------------------------------------------------------------
(* One source run, step by step *)

\* What a step of the source run starts from.
LEMMA AtWork ==
    ASSUME ControlInv, ClientInv, client.pc \in Working
    PROVE  /\ ClientType /\ Cmd \in Commands /\ HoldsAll /\ StreamInStep
           /\ Me \in Runs /\ run[Me].status = "running" /\ ChainVerified(Me) /\ HoldsCheckpoint(Me)
           /\ SealIsLast(Me)
           /\ Cap(Me) \in Nat /\ run[Me].count \in Nat
           /\ run[Me].budget # "hard_stop" => Cap(Me) > 0
           /\ client.pc = "load" => pages[Me] = <<>>
<1>1. ClientType /\ Cmd \in Commands /\ HoldsAll /\ StreamInStep /\ SourcesAhead
  BY CmdType DEF ClientInv, CollectInv, Working
<1>2. client.at \in 1..Len(SourceOrder) /\ Me = RunAt(client.at)
  BY <1>1, MeIsAt
<1>3. Me \in Runs /\ run[Me].status = "running" /\ ChainVerified(Me) /\ HoldsCheckpoint(Me)
  BY <1>1, <1>2, HeldRuns
<1>4. TypeOK /\ run[Me] \in RunRow
  BY <1>3 DEF ControlInv, RunsInv, Ledger, TypeOK
<1>5. SealIsLast(Me)
  BY <1>3 DEF ControlInv, SealInv
<1> QED
  BY <1>1, <1>2, <1>3, <1>4, <1>5, CapRange DEF SourcesAhead, RunRow

\* A step that leaves every run and the commands' leases alone.
LEMMA QuietIsOwn ==
    ASSUME ControlInv, ControlInv', ClientInv, client.pc \in Working, Quiet
    PROVE  OwnStep
BY AtWork DEF OwnStep, Quiet, HoldsAll

\* The checkpoint is read: a hard stop ends the source, any other run begins.
LEMMA LoadKeeps ==
    ASSUME ControlInv, ControlInv', ClientInv, LoadCheckpoint
    PROVE  ClientInv'
<1>1. client.pc = "load" /\ client.pc \in Working
  BY DEF LoadCheckpoint, Working
<1>2. /\ ClientType /\ Me \in Runs /\ run[Me].status = "running" /\ SealIsLast(Me)
      /\ pages[Me] = <<>> /\ run[Me].count = 0 /\ ~run[Me].sealed
      /\ Cap(Me) \in Nat /\ run[Me].budget # "hard_stop" => Cap(Me) > 0
  BY <1>1, AtWork, NoPagesOpen
<1>3. CASE run[Me].budget = "hard_stop"
  <2>1. client' = Outcome("skipped_quota") /\ UNCHANGED vars
    BY <1>3 DEF LoadCheckpoint
  <2>2. "skipped_quota" \in SkipStatus /\ "skipped_quota" \in OutcomeStatus
    BY DEF SkipStatus, OutcomeStatus
  <2>3. MayFinish(Me, "skipped_quota")
    BY <1>2, <1>3, <2>2, ProvedMaySkip DEF SealIsLast
  <2>4. ASSUME NEW r, r = Me PROVE MayFinish(r, "skipped_quota")'
    BY <2>1, <2>3, <2>4, MayFinishKept DEF vars
  <2> QED
    BY <1>1, <1>2, <2>1, <2>2, <2>4, FinishesSource, QuietIsOwn, QuietSteps
       DEF ControlInv, RunsInv, Ledger
<1>4. CASE run[Me].budget # "hard_stop"
  <2>1. run[Me].count # Cap(Me)
    BY <1>2, <1>4
  <2>2. \/ /\ UNCHANGED vars
           /\ client' = [[client EXCEPT !.pc = "beat", !.pos = ServerPos(Me)] EXCEPT !.tries = 0]
        \/ UNCHANGED vars /\ client' = Again
        \/ client' = Dead
    BY <1>4, <2>1 DEF LoadCheckpoint, CheckpointStep, Call, CallAny, Refused
  <2>3. ServerPos(Me) \in [rev : Nat, cursor : CursorOrNull, ord : Nat]
    BY <1>2, RunParts
       DEF ServerPos, ControlInv, RunsInv, Ledger, TypeOK, CheckpointRow, RunRow
  <2>4. ASSUME UNCHANGED vars, client' = Again PROVE ClientInv'
    BY <2>4, AgainKeeps, QuietSteps DEF ControlInv, RunsInv, Ledger
  <2>5. ASSUME UNCHANGED vars, NEW pos, pos = ServerPos(Me),
               client' = [[client EXCEPT !.pc = "beat", !.pos = pos] EXCEPT !.tries = 0]
        PROVE  ClientInv'
    <3>0. Quiet
      BY <2>5, QuietSteps DEF ControlInv, RunsInv, Ledger
    <3>1. /\ client' \in ClientRow /\ client'.pc = "beat" /\ client'.pos = pos
          /\ client'.todo = client.todo /\ client'.attempt = client.attempt
          /\ client'.made = client.made /\ client'.at = client.at
          /\ client'.outcomes = client.outcomes /\ client'.page = client.page
      BY <1>2, <2>3, <2>5 DEF ClientType, ClientRow, Steps
    <3>2. Me' = Me
      BY <3>1 DEF Me, Cmd
    <3>3. ServerPos(Me)' = ServerPos(Me) /\ (Open(Me)' <=> Open(Me))
      BY <2>5, <3>2 DEF ServerPos, Open, Cap, vars
    <3>4. Open(Me) /\ client.page.kind = "none"
      BY <1>1, <1>2, <1>4, AtWork DEF Open, StreamInStep
    <3>5. StreamInStep'
      BY <2>5, <3>1, <3>3, <3>4 DEF StreamInStep
    <3> QED
      BY <1>1, <1>2, <2>5, <3>0, <3>1, <3>5, GoesOn, QuietIsOwn DEF Collecting, Working
  <2> QED
    BY <2>2, <2>4, <2>5, RefusedKeeps
<1> QED
  BY <1>3, <1>4

\* The heartbeat before a fetch, or after a page that may have been the last.
LEMMA HeartbeatKeeps ==
    ASSUME ControlInv, ControlInv', ClientInv, [Next]_vars, CallHeartbeat
    PROVE  ClientInv'
<1>1. client.pc = "beat" /\ client.pc \in Working
  BY DEF CallHeartbeat, Working
<1>2. /\ ClientType /\ Cmd \in Commands /\ Me \in Runs /\ run[Me].status = "running"
      /\ Cap(Me) \in Nat /\ run[Me].count \in Nat
      /\ client.pos = ServerPos(Me)
      /\ IF client.page.kind = "none" THEN Open(Me) ELSE SealedBy(Me, client.page.kind)
  BY <1>1, AtWork DEF StreamInStep
<1>3. \/ UNCHANGED vars
      \/ Heartbeat(Cmd, client.attempt, Lease)
  BY DEF CallHeartbeat, Call, CallAny, Refused
<1>4. Quiet
  BY <1>2, <1>3, QuietSteps DEF ControlInv, RunsInv, Ledger
<1>5. OwnStep
  BY <1>1, <1>4, QuietIsOwn
<1>6. \/ client' = [AfterPage EXCEPT !.tries = 0]
      \/ client' = Again
      \/ client' = Dead
  BY DEF CallHeartbeat, Call, CallAny, Refused
<1>7. ASSUME client' = [[client EXCEPT !.pc = "fetch"] EXCEPT !.tries = 0], Open(Me)
      PROVE  ClientInv'
  <2>1. /\ client' \in ClientRow /\ client'.pc = "fetch" /\ client'.pos = client.pos
        /\ client'.todo = client.todo /\ client'.attempt = client.attempt
        /\ client'.made = client.made /\ client'.at = client.at
        /\ client'.outcomes = client.outcomes
    BY <1>2, <1>7 DEF ClientType, ClientRow, Steps
  <2>2. Me' = Me
    BY <2>1 DEF Me, Cmd
  <2>3. ServerPos(Me)' = ServerPos(Me) /\ (Open(Me)' <=> Open(Me))
    BY <1>4, <2>2 DEF ServerPos, Open, Cap, Quiet
  <2>4. StreamInStep'
    BY <1>2, <1>7, <2>1, <2>3 DEF StreamInStep
  <2> QED
    BY <1>1, <1>5, <2>1, <2>4, GoesOn DEF Collecting, Working
<1>8. ASSUME NEW st \in OutcomeStatus, MayFinish(Me, st),
             client' = [Outcome(st) EXCEPT !.tries = 0]
      PROVE  ClientInv'
  <2>1. ASSUME NEW r, r = Me PROVE MayFinish(r, st)'
    BY <1>4, <1>8, <2>1, MayFinishKept DEF Quiet
  <2> QED
    BY <1>1, <1>5, <1>8, <2>1, FinishesSource
<1>9. CASE client' = [AfterPage EXCEPT !.tries = 0]
  <2>1. CASE client.page.kind = "none"
    BY <1>2, <1>7, <1>9, <2>1 DEF AfterPage
  <2>2. ASSUME client.page.kind # "none", client.pos.ord = Cap(Me) \/ client.page.kind = "last"
        PROVE  ClientInv'
    <3>1. run[Me].sealed
      BY <1>2, <2>2 DEF ServerPos, SealedBy
    <3>2. MayFinish(Me, "succeeded") /\ "succeeded" \in OutcomeStatus
      BY <1>2, <3>1, SealedMaySucceed DEF OutcomeStatus
    <3> QED
      BY <1>8, <1>9, <2>2, <3>2 DEF AfterPage
  <2>3. ASSUME client.page.kind # "none", client.pos.ord # Cap(Me), client.page.kind # "last"
        PROVE  ClientInv'
    <3>1. ~run[Me].sealed /\ Open(Me)
      BY <1>2, <2>3 DEF ServerPos, SealedBy, Open
    <3>2. MayFinish(Me, "failed_retryable") /\ "failed_retryable" \in OutcomeStatus
      BY <1>2, <3>1, OpenMayFail DEF OutcomeStatus, FailStatus
    <3> QED
      BY <1>7, <1>8, <1>9, <2>3, <3>1, <3>2 DEF AfterPage
  <2> QED
    BY <2>1, <2>2, <2>3
<1> QED
  BY <1>4, <1>6, <1>9, AgainKeeps, RefusedKeeps

\* A fetch: a page to commit, a skip to prove, or the outcome of the failure.
LEMMA FetchKeeps ==
    ASSUME ControlInv, ControlInv', ClientInv, Fetch
    PROVE  ClientInv'
<1>1. client.pc = "fetch" /\ client.pc \in Working /\ UNCHANGED vars
  BY DEF Fetch, Working
<1>2. /\ ClientType /\ Me \in Runs /\ run[Me].status = "running" /\ ChainVerified(Me)
      /\ client.pos = ServerPos(Me) /\ Open(Me)
  BY <1>1, AtWork DEF StreamInStep
<1>3. Quiet
  BY <1>1, QuietSteps DEF ControlInv, RunsInv, Ledger
<1>4. OwnStep
  BY <1>1, <1>3, QuietIsOwn
<1>5. CASE client' = Dead
  BY <1>5, RefusedKeeps
<1>6. ASSUME NEW kind \in Answers, NEW next \in CursorOrNull, NEW pc \in {"commit", "skip"},
             client' = [client EXCEPT !.pc = pc, !.page = [kind |-> kind, next |-> next]],
             IF pc = "commit" THEN kind \in PageKinds
             ELSE kind \in SkipKinds /\ client.pos.ord = 0
      PROVE  ClientInv'
  <2>1. /\ client' \in ClientRow /\ client'.pc = pc /\ client'.pos = client.pos
        /\ client'.todo = client.todo /\ client'.attempt = client.attempt
        /\ client'.made = client.made /\ client'.at = client.at
        /\ client'.outcomes = client.outcomes /\ client'.page.kind = kind
    BY <1>2, <1>6 DEF ClientType, ClientRow, Steps
  <2>2. Me' = Me
    BY <2>1 DEF Me, Cmd
  <2>3. /\ ServerPos(Me)' = ServerPos(Me) /\ (Open(Me)' <=> Open(Me))
        /\ run'[Me].sealed = run[Me].sealed /\ pages'[Me] = pages[Me]
    BY <1>3, <2>2 DEF ServerPos, Open, Cap, Quiet
  <2>4. pc = "skip" => pages[Me] = <<>> /\ ~run[Me].sealed
    <3>1. ~run[Me].sealed
      BY <1>2 DEF Open
    <3>2. pc = "skip" => Len(pages[Me]) = 0
      BY <1>2, <1>6 DEF ServerPos, ChainVerified
    <3>3. pages[Me] \in Seq(PageRow)
      BY <1>2 DEF ControlInv, RunsInv, Ledger, TypeOK
    <3> QED
      BY <3>1, <3>2, <3>3
  <2>5. StreamInStep'
    BY <1>2, <1>6, <2>1, <2>2, <2>3, <2>4 DEF StreamInStep, CommitAhead
  <2> QED
    BY <1>1, <1>4, <2>1, <2>5, GoesOn DEF Collecting, Working
<1>7. ASSUME NEW kind \in Answers, client' = Outcome(FailureStatus(kind))
      PROVE  ClientInv'
  <2>1. FailureStatus(kind) \in FailStatus /\ FailureStatus(kind) \in OutcomeStatus
    BY DEF FailureStatus, FailStatus, OutcomeStatus
  <2>2. MayFinish(Me, FailureStatus(kind))
    BY <1>2, <2>1, OpenMayFail DEF Open
  <2>3. ASSUME NEW r, r = Me PROVE MayFinish(r, FailureStatus(kind))'
    BY <1>3, <2>2, <2>3, MayFinishKept DEF Quiet, FailureStatus
  <2> QED
    BY <1>1, <1>4, <1>7, <2>1, <2>3, FinishesSource
<1> QED
  BY <1>5, <1>6, <1>7 DEF Fetch, PageKinds, SkipKinds, CursorOrNull

\* The position after a commit.
LEMMA AfterCommitRow ==
    ASSUME ClientType
    PROVE  /\ AfterCommit.pos = [rev |-> client.pos.rev + 1, cursor |-> client.page.next,
                                 ord |-> client.pos.ord + 1]
           /\ AfterCommit.pos \in [rev : Nat, cursor : CursorOrNull, ord : Nat]
           /\ AfterCommit = [client EXCEPT !.pc = "beat", !.pos = AfterCommit.pos]
<1> DEFINE pos == [rev |-> client.pos.rev + 1, cursor |-> client.page.next,
                   ord |-> client.pos.ord + 1]
<1>1. pos \in [rev : Nat, cursor : CursorOrNull, ord : Nat] /\ client \in ClientRow
  BY DEF ClientType, ClientRow
<1>2. AfterCommit = [client EXCEPT !.pc = "beat", !.pos = pos]
  BY DEF AfterCommit
<1> HIDE DEF pos
<1>3. AfterCommit.pos = pos
  BY <1>1, <1>2 DEF ClientRow
<1> QED
  BY <1>1, <1>2, <1>3 DEF pos

\* A commit that is applied moves the server to the position after it, and
\* seals the run by the page's kind or at the cap.
LEMMA CommitEffect ==
    ASSUME ControlInv, ControlInv', ClientInv, client.pc = "commit",
           PageRequest \in PageRequests, CommitPage(Me, Lease, PageRequest),
           NEW r, r = Me, NEW kind, kind = client.page.kind
    PROVE  /\ OwnStep
           /\ ServerPos(r)' = AfterCommit.pos
           /\ SealedBy(r, kind)'
<1>1. /\ ClientType /\ r \in Runs /\ run[r].status = "running" /\ kind \in PageKinds
      /\ Cap(r) \in Nat /\ run[r].count \in Nat
  BY AtWork DEF StreamInStep, Working
<1>2. TypeOK /\ r[3] \in Sources /\ checkpoint \in [Sources -> CheckpointRow]
  BY <1>1, RunParts DEF ControlInv, RunsInv, Ledger, TypeOK
<1>3. /\ run'[r].status = "running"
      /\ run'[r].count = run[r].count + 1
      /\ run'[r].sealed <=> ServerReason(r, PageRequest) # "none"
      /\ run'[r].budget = run[r].budget
      /\ \A q \in Runs : q # r => run'[q] = run[q] /\ pages'[q] = pages[q]
  BY <1>1, <1>2, CommitPageRows
<1>4. /\ run[r].count < Cap(r)
      /\ client.pos.rev = checkpoint[r[3]].revision /\ client.pos.ord = run[r].count
      /\ checkpoint' = AdvanceCheckpoint(r, PageRequest)
      /\ PageRequest.next = client.page.next
      /\ command' = command /\ published' = published
  BY DEF CommitPage, StreamOpen, CasMatches, PageRequest
<1>5. /\ checkpoint'[r[3]].revision = client.pos.rev + 1
      /\ checkpoint'[r[3]].cursor = client.page.next
      /\ \A s \in Sources : s # r[3] => checkpoint'[s] = checkpoint[s]
  BY <1>2, <1>4 DEF AdvanceCheckpoint, CheckpointRow
<1>6. OwnStep
  BY <1>1, <1>3, <1>4, <1>5 DEF OwnStep
<1>7. ServerPos(r)' = AfterCommit.pos
  BY <1>1, <1>3, <1>4, <1>5, AfterCommitRow DEF ServerPos
<1>8. ServerReason(r, PageRequest) # "none" <=> kind = "last" \/ run[r].count + 1 = Cap(r)
  BY <1>1, <1>4 DEF ServerReason, PageRequest, PageKinds
<1>9. Cap(r)' = Cap(r)
  BY <1>3 DEF Cap
<1>10. SealedBy(r, kind)'
  BY <1>1, <1>3, <1>4, <1>8, <1>9 DEF SealedBy
<1> QED
  BY <1>6, <1>7, <1>10

\* A replay is only ever of the commit whose answer was lost.
LEMMA ReplayIsBehind ==
    ASSUME ControlInv, ClientInv, client.pc = "commit", SameKey(Me, PageRequest) # {}
    PROVE  CommitBehind
<1>1. ClientType /\ Me \in Runs /\ (CommitAhead \/ CommitBehind)
  BY AtWork DEF StreamInStep, Working
<1>2. SUFFICES ASSUME client.pos = ServerPos(Me) PROVE FALSE
  BY <1>1 DEF CommitAhead
<1>3. PICK i \in 1..Len(pages[Me]) : PageKey(pages[Me][i]) = PageKey(PageRequest)
  BY DEF SameKey
<1>4. pages[Me][i].rev = checkpoint[Me[3]].revision
  BY <1>2, <1>3 DEF PageKey, PageRequest, ServerPos
<1>5. Me[3] \in Sources /\ LogGapFree(Me[3]) /\ checkpoint[Me[3]].revision \in Nat
  BY <1>1, RunParts DEF ControlInv, RunsInv, Ledger, TypeOK, CheckpointRow, CheckpointIsLog
<1>6. <<Me, i>> \in Committed(Me[3]) /\ PageAt(<<Me, i>>) = pages[Me][i]
  BY <1>1, <1>3, <1>5, CommittedMember DEF PageAt
<1>7. pages[Me][i].rev < checkpoint[Me[3]].revision
  BY <1>5, <1>6 DEF LogGapFree
<1> QED
  BY <1>4, <1>5, <1>7

\* commit_page: whether it is applied, repeated, lost or refused, the process
\* stays in step with the stream.
LEMMA CommitKeeps ==
    ASSUME ControlInv, ControlInv', ClientInv, [Next]_vars, CallCommit
    PROVE  ClientInv'
<1>1. client.pc = "commit" /\ client.pc \in Working
  BY DEF CallCommit, Working
<1>2. /\ ClientType /\ Me \in Runs /\ run[Me].status = "running"
      /\ client.page.kind \in PageKinds /\ (CommitAhead \/ CommitBehind)
      /\ Cap(Me) \in Nat /\ run[Me].count \in Nat
  BY <1>1, AtWork DEF StreamInStep
<1>3. ASSUME UNCHANGED vars PROVE Quiet /\ OwnStep
  BY <1>1, <1>3, QuietSteps, QuietIsOwn DEF ControlInv, RunsInv, Ledger
<1>4. ASSUME OwnStep, NEW r, r = Me, NEW pos \in [rev : Nat, cursor : CursorOrNull, ord : Nat],
             NEW page \in [kind : {"none"} \cup Answers, next : CursorOrNull],
             pos = ServerPos(r)',
             IF page.kind = "none" THEN Open(r)' ELSE SealedBy(r, page.kind)',
             /\ client' \in ClientRow /\ client'.pc = "beat" /\ client'.pos = pos
             /\ client'.todo = client.todo /\ client'.attempt = client.attempt
             /\ client'.made = client.made /\ client'.at = client.at
             /\ client'.outcomes = client.outcomes /\ client'.page = page
      PROVE  ClientInv'
  <2>1. Me' = r
    BY <1>4 DEF Me, Cmd
  <2>2. StreamInStep'
    BY <1>4, <2>1 DEF StreamInStep
  <2> QED
    BY <1>1, <1>4, <2>2, GoesOn DEF Collecting, Working
<1>5. ASSUME OwnStep, client' = [AfterCommit EXCEPT !.tries = 0], NEW r, r = Me,
             ServerPos(r)' = AfterCommit.pos, NEW page, page = client.page, SealedBy(r, page.kind)'
      PROVE  ClientInv'
  <2> DEFINE pos == AfterCommit.pos
  <2>1. /\ pos \in [rev : Nat, cursor : CursorOrNull, ord : Nat]
        /\ client' = [[client EXCEPT !.pc = "beat", !.pos = pos] EXCEPT !.tries = 0]
        /\ page.kind # "none"
    BY <1>2, <1>5, AfterCommitRow DEF PageKinds
  <2> HIDE DEF pos
  <2>2. /\ client' \in ClientRow /\ client'.pc = "beat" /\ client'.pos = pos
        /\ client'.todo = client.todo /\ client'.attempt = client.attempt
        /\ client'.made = client.made /\ client'.at = client.at
        /\ client'.outcomes = client.outcomes /\ client'.page = page
        /\ page \in [kind : {"none"} \cup Answers, next : CursorOrNull]
    BY <1>2, <1>5, <2>1 DEF ClientType, ClientRow, Steps
  <2>3. pos = ServerPos(r)'
    BY <1>5 DEF pos
  <2> QED
    BY <1>4, <1>5, <2>1, <2>2, <2>3
<1>6. ASSUME CommitPage(Me, Lease, PageRequest)
      PROVE  /\ OwnStep
             /\ \A r, kind : r = Me /\ kind = client.page.kind =>
                    ServerPos(r)' = AfterCommit.pos /\ SealedBy(r, kind)'
  <2>1. PageRequest \in PageRequests
    BY <1>2, <1>6, RequestType
  <2> QED
    BY <1>1, <1>6, <2>1, CommitEffect
<1>7. CASE CommitStep /\ client' = [AfterCommit EXCEPT !.tries = 0]
  <2>1. CASE CommitPage(Me, Lease, PageRequest)
    BY <1>5, <1>6, <1>7, <2>1
  <2>2. CASE UNCHANGED vars /\ SameKey(Me, PageRequest) # {}
    <3>1. CommitBehind
      BY <1>1, <2>2, ReplayIsBehind
    <3>2. \A r, kind : r = Me /\ kind = client.page.kind =>
                    ServerPos(r)' = AfterCommit.pos /\ SealedBy(r, kind)'
      BY <2>2, <3>1 DEF CommitBehind, vars, ServerPos, SealedBy, Cap
    <3> QED
      BY <1>3, <1>5, <1>7, <2>2, <3>2
  <2> QED
    BY <1>7, <2>1, <2>2 DEF CommitStep
<1>8. CASE CommitStep /\ client' = Again
  <2>1. CASE CommitPage(Me, Lease, PageRequest) /\ client' = [client EXCEPT !.tries = 1]
    <3>1. Waits /\ client'.tries = 1
      BY <1>2, <2>1 DEF Waits, ClientType, ClientRow
    <3>2. /\ client' \in ClientRow /\ client'.pc = "commit" /\ Me' = Me
          /\ client'.todo = client.todo /\ client'.attempt = client.attempt
          /\ client'.made = client.made /\ client'.at = client.at
          /\ client'.outcomes = client.outcomes /\ client'.page = client.page
          /\ AfterCommit.pos' = AfterCommit.pos
      BY <1>1, <1>2, <3>1, WaitsKeeps DEF ClientType
    <3>3. CommitBehind'
      BY <1>6, <2>1, <3>1, <3>2 DEF CommitBehind
    <3>4. StreamInStep'
      BY <1>2, <3>2, <3>3 DEF StreamInStep
    <3> QED
      BY <1>1, <1>6, <2>1, <3>2, <3>4, GoesOn DEF Collecting, Working
  <2>2. CASE UNCHANGED vars
    BY <1>3, <1>8, <2>2, AgainKeeps
  <2>3. CASE client' = Dead
    BY <2>3, RefusedKeeps
  <2> QED
    BY <1>8, <2>1, <2>2, <2>3 DEF CommitStep, Again
<1>9. CASE UNCHANGED vars /\ client' = Again
  BY <1>3, <1>9, AgainKeeps
<1>10. CASE UNCHANGED vars /\ client' = AfterConflict
  <2>1. CASE client' = Dead
    BY <2>1, RefusedKeeps
  <2>2. ASSUME StreamOpen(Me), NEW pos, pos = ServerPos(Me),
               client' = [client EXCEPT !.pc = "beat", !.pos = pos, !.page = NoPage]
        PROVE  ClientInv'
    <3>1. pos \in [rev : Nat, cursor : CursorOrNull, ord : Nat]
      BY <1>2, <2>2, RunParts
         DEF ServerPos, ControlInv, RunsInv, Ledger, TypeOK, CheckpointRow, RunRow
    <3>2. /\ NoPage.kind = "none"
          /\ NoPage \in [kind : {"none"} \cup Answers, next : CursorOrNull]
      BY DEF NoPage, CursorOrNull
    <3>3. /\ client' \in ClientRow /\ client'.pc = "beat" /\ client'.pos = pos
          /\ client'.todo = client.todo /\ client'.attempt = client.attempt
          /\ client'.made = client.made /\ client'.at = client.at
          /\ client'.outcomes = client.outcomes /\ client'.page = NoPage
      BY <1>2, <2>2, <3>1, <3>2 DEF ClientType, ClientRow, Steps
    <3>4. \A r : r = Me => pos = ServerPos(r)' /\ Open(r)'
      BY <1>10, <2>2 DEF StreamOpen, Open, ServerPos, Cap, vars
    <3> QED
      BY <1>3, <1>4, <1>10, <3>1, <3>2, <3>3, <3>4
  <2> QED
    BY <1>10, <2>1, <2>2 DEF AfterConflict
<1> QED
  BY <1>7, <1>8, <1>9, <1>10 DEF CallCommit, Call, CallAny, Refused

\* attach_skip_decision: a proof that is attached or repeated ends the source.
LEMMA SkipKeeps ==
    ASSUME ControlInv, ControlInv', ClientInv, [Next]_vars, CallSkip
    PROVE  ClientInv'
<1> DEFINE st == IF client.page.kind = "policy" THEN "skipped_policy" ELSE "skipped_quota"
<1>1. client.pc = "skip" /\ client.pc \in Working
  BY DEF CallSkip, Working
<1>2. /\ ClientType /\ Me \in Runs /\ run[Me].status = "running"
      /\ client.page.kind \in SkipKinds /\ ~run[Me].sealed /\ pages[Me] = <<>>
      /\ Cmd \in Commands
  BY <1>1, AtWork DEF StreamInStep
<1>3. st \in OutcomeStatus /\ st \in SkipStatus
      /\ client.page.kind = IF st = "skipped_policy" THEN "policy" ELSE "quota"
  BY <1>2 DEF OutcomeStatus, SkipStatus, SkipKinds
<1> HIDE DEF st
<1>4. ASSUME UNCHANGED vars PROVE Quiet /\ OwnStep
  BY <1>1, <1>4, QuietSteps, QuietIsOwn DEF ControlInv, RunsInv, Ledger
<1>5. ASSUME SkipStep
      PROVE  /\ OwnStep
             /\ \A r, kind : r = Me /\ kind = client.page.kind =>
                    /\ run'[r].skip = kind /\ ~run'[r].sealed /\ pages'[r] = <<>>
                    /\ run'[r].status = "running"
  <2>1. CASE AttachSkip(Me, Lease, client.page.kind)
    BY <1>2, <2>1, AttachSkipRows DEF OwnStep, ControlInv, RunsInv, Ledger
  <2>2. CASE UNCHANGED vars /\ run[Me].skip = client.page.kind
    BY <1>2, <1>4, <2>2 DEF vars
  <2> QED
    BY <1>5, <2>1, <2>2 DEF SkipStep
<1>6. CASE SkipStep /\ client' = [Outcome(st) EXCEPT !.tries = 0]
  <2>1. ASSUME NEW r, r = Me, NEW s, s = st PROVE MayFinish(r, s)'
    <3>1. /\ r \in Runs /\ run'[r].status = "running" /\ ~run'[r].sealed /\ pages'[r] = <<>>
          /\ run'[r].skip = IF s = "skipped_policy" THEN "policy" ELSE "quota"
          /\ s \in SkipStatus
      BY <1>2, <1>3, <1>5, <1>6, <2>1
    <3>2. ChainVerified(r)'
      BY <3>1 DEF ControlInv, RunningHold, HoldsCheckpoint
    <3> QED
      BY <3>1, <3>2 DEF MayFinish, SkipProved, SkipStatus, FailStatus
  <2> QED
    BY <1>1, <1>3, <1>5, <1>6, <2>1, FinishesSource
<1>7. CASE SkipStep /\ client' = Again
  <2>1. CASE client' = Dead
    BY <2>1, RefusedKeeps
  <2>2. CASE client' = [client EXCEPT !.tries = 1]
    <3>1. Waits
      BY <2>2 DEF Waits
    <3>2. /\ client' \in ClientRow /\ client'.pc = "skip" /\ Me' = Me
          /\ client'.todo = client.todo /\ client'.attempt = client.attempt
          /\ client'.made = client.made /\ client'.at = client.at
          /\ client'.outcomes = client.outcomes /\ client'.page = client.page
      BY <1>1, <1>2, <3>1, WaitsKeeps DEF ClientType
    <3>3. StreamInStep'
      BY <1>2, <1>5, <1>7, <3>2 DEF StreamInStep
    <3> QED
      BY <1>1, <1>5, <1>7, <3>2, <3>3, GoesOn DEF Collecting, Working
  <2> QED
    BY <1>7, <2>1, <2>2 DEF Again
<1>8. CASE UNCHANGED vars /\ client' = Again
  BY <1>4, <1>8, AgainKeeps
<1>9. CASE client' = Dead
  BY <1>9, RefusedKeeps
<1> QED
  BY <1>6, <1>7, <1>8, <1>9 DEF CallSkip, Call, CallAny, Refused, st

-----------------------------------------------------------------------------
(* Taking up a command *)

\* A step on the way to the claim.
LEMMA NearsClaim ==
    ASSUME ControlInv, ClientInv, [Next]_vars, Quiet, client.pc \in {"reserve", "confirm"},
           client' \in ClientRow, client'.pc \in {"confirm", "claim"},
           client'.todo = client.todo, client'.made = client.made,
           client'.at = client.at, client'.outcomes = client.outcomes,
           client'.page = client.page,
           client'.pc = "claim" => command'[Cmd].status # "running"
    PROVE  ClientInv'
<1>1. ClientType /\ ClaimInv
  BY DEF ClientInv
<1>2. /\ Cmd' = Cmd /\ client.todo # <<>>
      /\ client.at = 1 /\ client.outcomes = <<>> /\ client.page.kind = "none"
  BY <1>1 DEF ClientType, ClaimInv, Cmd
<1>3. ClientType' /\ ClaimInv'
  BY <1>2 DEF ClientType, ClaimInv
<1>4. MadeInv'
  BY MadeKept DEF Quiet
<1> QED
  BY <1>3, <1>4 DEF ClientInv, CollectInv, CompleteInv, Working

\* reserve: the process takes the attempt the server opened.
LEMMA ReserveKeeps ==
    ASSUME ControlInv, ControlInv', ClientInv, [Next]_vars, CallReserve
    PROVE  ClientInv'
<1>1. client.pc = "reserve" /\ ClientType /\ Cmd \in Commands
  BY CmdType DEF CallReserve, ClientInv
<1>2. Quiet
  BY <1>1, QuietSteps DEF CallReserve, Call, CallAny, Refused, ControlInv, RunsInv, Ledger
<1>3. ASSUME NEW attempt, attempt = command'[Cmd].attempt,
             client' = [[client EXCEPT !.pc = "confirm", !.attempt = attempt] EXCEPT !.tries = 0]
      PROVE  ClientInv'
  <2>1. command'[Cmd] \in CommandRow
    BY <1>1 DEF ControlInv, RunsInv, Ledger, TypeOK
  <2>2. attempt \in Nat
    BY <1>3, <2>1, ControlAssumption DEF CommandRow, Attempts
  <2>3. /\ client' \in ClientRow /\ client'.pc = "confirm"
        /\ client'.todo = client.todo /\ client'.made = client.made
        /\ client'.at = client.at /\ client'.outcomes = client.outcomes
        /\ client'.page = client.page
    BY <1>1, <1>3, <2>2 DEF ClientType, ClientRow, Steps
  <2> QED
    BY <1>1, <1>2, <2>3, NearsClaim
<1>4. \/ \E attempt : /\ attempt = command'[Cmd].attempt
                      /\ client' = [[client EXCEPT !.pc = "confirm", !.attempt = attempt]
                                        EXCEPT !.tries = 0]
      \/ client' = Again
      \/ client' = Dead
  BY DEF CallReserve, Call, CallAny, Refused
<1> QED
  BY <1>2, <1>3, <1>4, AgainKeeps, RefusedKeeps

\* confirm: the command is dispatched, so it does not run yet.
LEMMA ConfirmKeeps ==
    ASSUME ControlInv, ClientInv, [Next]_vars, CallConfirm
    PROVE  ClientInv'
<1>1. client.pc = "confirm" /\ ClientType /\ Cmd \in Commands
  BY CmdType DEF CallConfirm, ClientInv
<1>2. Quiet
  BY <1>1, QuietSteps DEF CallConfirm, Call, CallAny, Refused, ControlInv, RunsInv, Ledger
<1>3. ASSUME Confirm(Cmd, client.attempt, Lease),
             client' = [[client EXCEPT !.pc = "claim"] EXCEPT !.tries = 0]
      PROVE  ClientInv'
  <2>1. command'[Cmd].status # "running"
    BY <1>1, <1>2, <1>3 DEF Confirm, Quiet
  <2>2. /\ client' \in ClientRow /\ client'.pc = "claim"
        /\ client'.todo = client.todo /\ client'.made = client.made
        /\ client'.at = client.at /\ client'.outcomes = client.outcomes
        /\ client'.page = client.page
    BY <1>1, <1>3 DEF ClientType, ClientRow, Steps
  <2> QED
    BY <1>1, <1>2, <2>1, <2>2, NearsClaim
<1>4. \/ /\ Confirm(Cmd, client.attempt, Lease)
         /\ client' = [[client EXCEPT !.pc = "claim"] EXCEPT !.tries = 0]
      \/ client' = Again
      \/ client' = Dead
  BY DEF CallConfirm, Call, CallAny, Refused
<1> QED
  BY <1>2, <1>3, <1>4, AgainKeeps, RefusedKeeps

\* A claim that is granted, or granted again, finds every run without a page.
LEMMA ClaimFresh ==
    ASSUME ControlInv, ClientInv, client.pc = "claim", NEW level \in [Sources -> BudgetLevels],
           ClaimStep(level), NEW c, c = Cmd
    PROVE  /\ command'[c].status = "running"
           /\ command'[c].attempt = client.attempt /\ command'[c].lease = Lease
           /\ \A r \in CurrentRuns(c)' : pages'[r] = <<>>
           /\ published' = published
<1>1. c \in Commands /\ ClaimInv /\ RunsInv
  BY CmdType DEF ClientInv, ControlInv
<1>2. CASE Claim(Cmd, client.attempt, Lease, level)
  <2>1. /\ command'[c].status = "running"
        /\ command'[c].attempt = command[c].attempt /\ command'[c].lease = command[c].lease
    BY <1>1, <1>2, ClaimRows
  <2>2. /\ command[c].attempt = client.attempt /\ command[c].lease = Lease
        /\ CurrentRuns(c) = {} /\ pages' = pages /\ published' = published
    BY <1>2 DEF Claim, CredentialsMatch
  <2>3. ASSUME NEW r \in CurrentRuns(c)' PROVE pages'[r] = <<>>
    <3>1. r \in Runs /\ r[1] = c /\ r[2] = command[c].attempt
      BY <2>1, CurrentNext
    <3>2. run[r].status = "none"
      BY <2>2, <3>1 DEF CurrentRuns
    <3> QED
      BY <1>1, <2>2, <3>1, <3>2 DEF RunsInv, UnclaimedIsEmpty
  <2> QED
    BY <2>1, <2>2, <2>3
<1>3. CASE /\ command[Cmd].status = "running"
           /\ CredentialsMatch(Cmd, client.attempt, Lease)
           /\ UNCHANGED vars
  <2>1. CurrentRuns(c)' = CurrentRuns(c)
    BY <1>3 DEF CurrentRuns, vars
  <2> QED
    BY <1>1, <1>3, <2>1 DEF vars, CredentialsMatch, ClaimInv
<1> QED
  BY <1>2, <1>3 DEF ClaimStep

\* claim: with every source claimed the process begins to collect.
LEMMA ClaimKeeps ==
    ASSUME ControlInv, ControlInv', ClientInv, [Next]_vars, CallClaim
    PROVE  ClientInv'
<1>1. /\ client.pc = "claim" /\ ClientType /\ Cmd \in Commands /\ client.todo # <<>>
      /\ client.at = 1 /\ client.outcomes = <<>> /\ client.page.kind = "none"
  BY CmdType DEF CallClaim, ClientInv, ClaimInv
<1>2. PICK c \in {Cmd}, level \in [Sources -> BudgetLevels] :
        \/ Call(ClaimStep(level), Claimed(CurrentRuns(c)'))
        \/ Refused(ClaimStep(level), Dead)
  BY DEF CallClaim
<1>3. CASE UNCHANGED vars /\ client' = Again
  BY <1>3, AgainKeeps, QuietSteps DEF ControlInv, RunsInv, Ledger
<1>4. CASE client' = Dead
  BY <1>4, RefusedKeeps
<1>5. ASSUME ClaimStep(level), client' = [client EXCEPT !.tries = 1]
      PROVE  ClientInv'
  <2>1. /\ client' \in ClientRow /\ client'.pc = "claim"
        /\ client'.todo = client.todo /\ client'.made = client.made
        /\ client'.at = client.at /\ client'.outcomes = client.outcomes
        /\ client'.page = client.page
    BY <1>1, <1>5 DEF ClientType, ClientRow
  <2>2. published' = published /\ \A r \in CurrentRuns(c)' : pages'[r] = <<>>
    BY <1>1, <1>5, ClaimFresh
  <2>3. Cmd' = c
    BY <2>1 DEF Cmd
  <2>4. ClientType' /\ ClaimInv'
    BY <1>1, <2>1, <2>2, <2>3 DEF ClientType, ClaimInv
  <2>5. MadeInv'
    BY <1>1, <2>1, <2>2, MadeKept
  <2> QED
    BY <2>1, <2>4, <2>5 DEF ClientInv, CollectInv, CompleteInv, Working
<1>6. ASSUME ClaimStep(level), client' = [[client EXCEPT !.pc = "load"] EXCEPT !.tries = 0],
             {r[3] : r \in CurrentRuns(c)'} = Expected
      PROVE  ClientInv'
  <2>1. /\ client' \in ClientRow /\ client'.pc = "load"
        /\ client'.todo = client.todo /\ client'.made = client.made
        /\ client'.at = 1 /\ client'.outcomes = <<>> /\ client'.page.kind = "none"
        /\ client'.attempt = client.attempt
    BY <1>1, <1>6 DEF ClientType, ClientRow, Steps
  <2>2. /\ command'[c].status = "running"
        /\ command'[c].attempt = client.attempt /\ command'[c].lease = Lease
        /\ \A r \in CurrentRuns(c)' : pages'[r] = <<>>
        /\ published' = published
    BY <1>1, <1>6, ClaimFresh
  <2>3. Cmd' = c /\ Lease' = Lease
    BY <1>6, <2>1 DEF Cmd, Lease
  <2>4. ClientType' /\ HoldsAll'
    BY <1>1, <1>6, <2>1, <2>2, <2>3 DEF ClientType, HoldsAll, CredentialsMatch
  <2>5. ASSUME NEW i \in 1..Len(SourceOrder) PROVE pages'[RunAt(i)'] = <<>>
    <3>1. PICK r \in CurrentRuns(c)' : r[3] = SourceOrder[i]
      BY <1>6, SourceAt
    <3>2. r \in Runs /\ r[1] = c /\ r[2] = client.attempt
      BY <2>2, <3>1, CurrentNext
    <3>3. r = RunAt(i)'
      BY <2>1, <2>3, <3>1, <3>2, RunParts DEF RunAt
    <3> QED
      BY <2>2, <3>3
  <2>6. SourcesAhead' /\ SourcesDone' /\ Len(client'.outcomes) = client'.at - 1
    BY <2>1, <2>5 DEF SourcesAhead, SourcesDone
  <2>7. CollectInv'
    BY <2>1, <2>4, <2>6 DEF CollectInv, StreamInStep
  <2>8. MadeInv'
    BY <1>1, <2>1, <2>2, MadeKept
  <2> QED
    BY <2>1, <2>4, <2>7, <2>8 DEF ClientInv, ClaimInv, CompleteInv, Working
<1>7. ASSUME ClaimStep(level), client' = [Claimed(CurrentRuns(c)') EXCEPT !.tries = 0]
      PROVE  ClientInv'
  <2>1. CASE {r[3] : r \in CurrentRuns(c)'} # Expected
    <3>1. client' = Dead
      BY <1>7, <2>1 DEF Claimed, Dead, Ended
    <3> QED
      BY <3>1, RefusedKeeps
  <2>2. CASE {r[3] : r \in CurrentRuns(c)'} = Expected
    BY <1>6, <1>7, <2>2 DEF Claimed
  <2> QED
    BY <2>1, <2>2
<1> QED
  BY <1>2, <1>3, <1>4, <1>5, <1>7 DEF Call, CallAny, Refused, Again

-----------------------------------------------------------------------------
(* Between two commands *)

\* A sequence of all elements of a finite set.
LEMMA SequencesOf ==
    ASSUME NEW T, NEW S \in SUBSET T, IsFiniteSet(S), NEW seq \in SetToSeqs(S)
    PROVE  seq \in Seq(T)
<1>1. Cardinality(S) \in Nat
  BY FS_CardinalityType
<1>2. seq \in [1..Cardinality(S) -> S]
  BY DEF SetToSeqs
<1> QED
  BY <1>1, <1>2

\* The next command is begun, or the process ends.
LEMMA NextKeeps ==
    ASSUME NEW todo \in Seq(Commands), NEW made \in Seq(Runs),
           client' = NextCommand(todo, made) \/ client' = [NextCommand(todo, made) EXCEPT !.tries = 0],
           Told(made, run', published')
    PROVE  ClientInv'
<1>1. CASE todo = <<>>
  <2> DEFINE result == IF Covers(made) THEN "success" ELSE "failure"
  <2>1. result \in Results
    BY DEF Results
  <2>2. client' = Ended(result) \/ client' = [Ended(result) EXCEPT !.tries = 0]
    BY <1>1 DEF NextCommand
  <2> HIDE DEF result
  <2>3. client' = Ended(result)
    BY <2>2 DEF Ended
  <2> QED
    BY <2>1, <2>3, EndedKeeps
<1>2. CASE todo # <<>>
  <2>1. PICK row : row = NextCommand(todo, made)
    OBVIOUS
  <2>2. row = BegunRow(todo, made)
    BY <1>2, <2>1 DEF NextCommand, BegunRow
  <2>3. client' = row \/ client' = [row EXCEPT !.tries = 0]
    BY <2>1
  <2>4. /\ row \in ClientRow
        /\ row.pc = "reserve" /\ row.todo = todo /\ row.made = made
        /\ row.at = 1 /\ row.outcomes = <<>> /\ row.page.kind = "none"
    BY <2>2, BegunFields
  <2>5. Told(row.made, run', published') /\ row.todo # <<>>
    BY <1>2, <2>4
  <2> QED
    BY <2>3, <2>4, <2>5, BegunKeeps
<1> QED
  BY <1>1, <1>2

\* materialize: the process begins with the first due command.
LEMMA MaterializeKeeps ==
    ASSUME ControlInv, ClientInv, CallMaterialize
    PROVE  ClientInv'
<1>1. client.pc = "materialize" /\ client.made = <<>> /\ ClientType
  BY DEF CallMaterialize, ClientInv, MadeInv
<1>2. ASSUME NEW todo \in DueCommands', client' = [NextCommand(todo, <<>>) EXCEPT !.tries = 0]
      PROVE  ClientInv'
  <2>1. PICK due \in SUBSET Commands : todo \in SetToSeqs(due)
    BY DEF DueCommands
  <2>2. IsFiniteSet(due)
    BY ClientAssumption, FS_Subset
  <2>3. todo \in Seq(Commands)
    BY <2>1, <2>2, SequencesOf
  <2>4. \A made : made = <<>> =>
            /\ made \in Seq(Runs) /\ Told(made, run', published')
            /\ client' = [NextCommand(todo, made) EXCEPT !.tries = 0]
    BY <1>2 DEF Told
  <2>5. PICK made : made = <<>>
    OBVIOUS
  <2> QED
    BY <2>3, <2>4, <2>5, NextKeeps
<1>3. ASSUME client' = [client EXCEPT !.tries = 1] PROVE ClientInv'
  <2>1. client' \in ClientRow /\ client'.pc = "materialize" /\ client'.made = <<>>
    BY <1>1, <1>3 DEF ClientType, ClientRow
  <2> QED
    BY <2>1 DEF ClientInv, ClientType, ClaimInv, CollectInv, CompleteInv, MadeInv, Working
<1>4. CASE client' = Dead
  BY <1>4, RefusedKeeps
<1> QED
  BY <1>2, <1>3, <1>4 DEF CallMaterialize, CallAny, Refused, Again

\* A workflow run starts, with or without a command of its own.
LEMMA StartKeeps ==
    ASSUME StartWorkflow
    PROVE  ClientInv'
<1>1. CASE client' = [Ended("none") EXCEPT !.pc = "materialize"]
  BY <1>1, EndedKeeps DEF Results
<1>2. ASSUME NEW c \in Commands,
             client' = [Ended("none") EXCEPT !.pc = "reserve", !.todo = <<c>>]
      PROVE  ClientInv'
  <2>1. <<c>> \in Seq(Commands) /\ <<c>> # <<>>
    OBVIOUS
  <2>2. /\ client' \in ClientRow
        /\ client'.pc = "reserve" /\ client'.todo = <<c>> /\ client'.made = <<>>
        /\ client'.at = 1 /\ client'.outcomes = <<>> /\ client'.page.kind = "none"
    BY <1>2, StartedFields
  <2>3. Told(client'.made, run', published')
    BY <2>2 DEF Told
  <2> QED
    BY <2>1, <2>2, <2>3, BegunKeeps
<1> QED
  BY <1>1, <1>2 DEF StartWorkflow

-----------------------------------------------------------------------------
(* Completing a command *)

\* A finite set as a sequence has all its elements.
LEMMA SequenceOfAll ==
    ASSUME NEW S, IsFiniteSet(S)
    PROVE  SetToSeq(S) \in Seq(S) /\ Range(SetToSeq(S)) = S
<1> DEFINE n == Cardinality(S)
<1>1. n \in Nat /\ ExistsBijection(1..n, S)
  BY FS_CardinalityType
<1>2. \E f \in [1..n -> S] : IsInjective(f)
  BY <1>1 DEF ExistsBijection, Bijection, Injection
<1>3. SetToSeq(S) \in Injection(1..n, S)
  BY <1>2 DEF SetToSeq, Injection
<1>4. IsFiniteSet(1..n) /\ Cardinality(1..n) = n
  BY <1>1, FS_Interval
<1>5. SetToSeq(S) \in Surjection(1..n, S)
  BY <1>3, <1>4, FS_Injection
<1> HIDE DEF n
<1>6. SetToSeq(S) \in [1..n -> S] /\ \A x \in S : \E i \in 1..n : SetToSeq(S)[i] = x
  BY <1>5 DEF Surjection
<1>7. SetToSeq(S) \in Seq(S)
  BY <1>1, <1>6
<1>8. Range(SetToSeq(S)) = S
  BY <1>6 DEF Range
<1> QED
  BY <1>7, <1>8

\* The runs of a plan are finitely many.
LEMMA PlanFinite == IsFiniteSet(DOMAIN Plan) /\ IsFiniteSet(Winners(Plan))
<1> DEFINE n == Len(SourceOrder)
           f == [i \in 1..n |-> RunAt(i)]
<1>1. n \in Nat /\ IsFiniteSet(1..n)
  BY SourceAt, FS_Interval
<1>2. DOMAIN Plan = {<<Cmd, client.attempt, s>> : s \in Expected}
  BY DEF Plan
<1>3. ASSUME NEW i \in 1..n PROVE f[i] \in DOMAIN Plan
  BY <1>2, SourceAt DEF RunAt
<1>4. ASSUME NEW r \in DOMAIN Plan PROVE \E i \in 1..n : f[i] = r
  BY <1>2, SourceAt DEF RunAt
<1>5. f \in Surjection(1..n, DOMAIN Plan)
  BY <1>3, <1>4 DEF Surjection
<1>6. IsFiniteSet(DOMAIN Plan)
  BY <1>1, <1>5, FS_Surjection
<1>7. Winners(Plan) \in SUBSET DOMAIN Plan
  BY DEF Winners
<1> QED
  BY <1>6, <1>7, FS_Subset

\* What a completion leaves, applied now or earlier: the winners are the last
\* publications of their sources, and nothing else the process knew of has
\* been overtaken.
LEMMA CompleteEffect ==
    ASSUME ControlInv, ClientInv, [Next]_vars, client.pc = "complete", CompleteStep,
           NEW c, c = Cmd, NEW W, W = Winners(Plan)
    PROVE  /\ W \subseteq Runs /\ command'[c].status # "running"
           /\ \A w \in W : LET log == published'[w[3]]
                           IN  run'[w].status = "succeeded" /\ log # <<>> /\ log[Len(log)] = w
           /\ \A i \in 1..Len(client.made) :
                LET log == published'[client.made[i][3]]
                IN  /\ run'[client.made[i]].status = "succeeded"
                    /\ log # <<>> /\ log[Len(log)][3] = client.made[i][3]
                    /\ log[Len(log)] \in Range(client.made) \cup W
<1>1. /\ ClientType /\ CompleteInv /\ MadeInv /\ c \in Commands
      /\ RunsInv /\ RunningHold /\ TypeOK /\ LeaseSpent
      /\ client.made \in Seq(Runs)
      /\ Len(client.outcomes) = Len(SourceOrder)
  BY CmdType DEF ClientInv, ControlInv, RunsInv, Ledger, CompleteInv, ClientType, ClientRow
<1>2. CASE UNCHANGED vars /\ ~Complete(Cmd, client.attempt, Lease, Plan)
  <2>1. /\ CredentialsMatch(c, client.attempt, Lease)
        /\ \E rec \in receipts[c] : rec.lease = Lease
    BY <1>2 DEF CompleteStep
  <2>2. ~HoldsAll
    <3>1. SUFFICES ASSUME HoldsAll PROVE FALSE
      OBVIOUS
    <3>2. command[c].status \in LeasedStatus
      BY <3>1 DEF HoldsAll, LeasedStatus
    <3> QED
      BY <1>1, <2>1, <3>2 DEF LeaseSpent, CredentialsMatch
  <2>3. Completed
    BY <1>1, <2>2 DEF CompleteInv
  <2>4. W \subseteq Runs
    <3>1. command[c] \in CommandRow
      BY <1>1 DEF TypeOK
    <3>2. client.attempt \in Attempts
      BY <2>1, <3>1 DEF CredentialsMatch, CommandRow
    <3>3. \A i \in 1..Len(SourceOrder) : RunAt(i) \in Runs
      BY <1>1, <3>2, SourceAt, RunOf DEF RunAt
    <3> QED
      BY <1>1, <3>3, PlanAt DEF Winners
  <2> QED
    BY <1>1, <1>2, <2>3, <2>4 DEF vars, Completed, MadeInv, LastPublished
<1>3. CASE Complete(Cmd, client.attempt, Lease, Plan)
  <2>0. ~UNCHANGED vars
    <3>1. SUFFICES ASSUME receipts' = receipts PROVE FALSE
      BY DEF vars
    <3>2. PICK rec : rec.lease = Lease /\ receipts' = [receipts EXCEPT ![c] = receipts[c] \cup {rec}]
      BY <1>3 DEF Complete
    <3>3. rec \in receipts[c]
      BY <1>1, <3>1, <3>2 DEF TypeOK
    <3> QED
      BY <1>3, <3>2, <3>3 DEF Complete
  <2>1. Plan \in Outcomes(c) /\ command[c].status = "running"
    BY <1>1, <1>3, <2>0, CompleteIsControl DEF Complete
  <2>2. Finishing(Plan)
    BY <1>1, <1>3, <2>1, CompletionFinishes
  <2>3. command'[c].status # "running"
    <3> DEFINE st == Aggregate({Plan[r] : r \in DOMAIN Plan})
    <3>1. command' = [command EXCEPT ![c] = Finalized(c, st)]
      BY <1>3 DEF Complete
    <3>2. /\ st \in CommandStatus \ {"absent", "queued"} /\ st \notin LeasedStatus
          /\ st # "running"
      BY AggregateStatus DEF CommandStatus, LeasedStatus, FailStatus
    <3> HIDE DEF st
    <3>3. Finalized(c, st).status = st
      BY <1>1, <2>1, <3>2, FinalizedRow DEF RunsInv
    <3> QED
      BY <1>1, <3>1, <3>2, <3>3 DEF TypeOK
  <2>4. ASSUME NEW w \in W
        PROVE  /\ w \in Runs /\ run'[w].status = "succeeded"
               /\ published'[w[3]] # <<>> /\ published'[w[3]][Len(published'[w[3]])] = w
    <3>1. /\ w \in Runs /\ w[3] \in Sources /\ run'[w].status = "succeeded"
          /\ published'[w[3]] = Append(published[w[3]], w)
      BY <1>1, <2>2, OneWinner
    <3>2. published[w[3]] \in Seq(Runs)
      BY <1>1, <3>1 DEF TypeOK
    <3> QED
      BY <3>1, <3>2
  <2>5. ASSUME NEW i \in 1..Len(client.made), NEW m, m = client.made[i]
        PROVE  /\ run'[m].status = "succeeded"
               /\ published'[m[3]] # <<>>
               /\ published'[m[3]][Len(published'[m[3]])][3] = m[3]
               /\ published'[m[3]][Len(published'[m[3]])] \in Range(client.made) \cup W
    <3>1. /\ m \in Runs /\ run[m].status = "succeeded" /\ published[m[3]] # <<>>
          /\ published[m[3]][Len(published[m[3]])] \in Range(client.made)
          /\ published[m[3]][Len(published[m[3]])][3] = m[3]
      BY <1>1, <2>1, <2>5 DEF MadeInv, LastPublished, Completed
    <3>2. run'[m].status = "succeeded" /\ m[3] \in Sources
      BY <1>1, <3>1, EndedStep, RunParts DEF OutcomeStatus
    <3>3. CASE \E w \in W : w[3] = m[3]
      BY <2>4, <3>2, <3>3
    <3>4. CASE ~\E w \in W : w[3] = m[3]
      <4>1. published'[m[3]] = published[m[3]]
        BY <2>2, <3>2, <3>4 DEF Finishing, Publish
      <4> QED
        BY <3>1, <3>2, <4>1
    <3> QED
      BY <3>3, <3>4
  <2> QED
    BY <2>3, <2>4, <2>5
<1> QED
  BY <1>2, <1>3 DEF CompleteStep

\* The elements of a sequence are its range.
LEMMA InRange ==
    ASSUME NEW S, NEW seq \in Seq(S)
    PROVE  /\ \A i \in 1..Len(seq) : seq[i] \in Range(seq)
           /\ \A x \in Range(seq) : \E i \in 1..Len(seq) : seq[i] = x
BY DEF Range

\* The publications it knows of with those of the completion.
LEMMA CompleteTold ==
    ASSUME ControlInv, ClientInv, [Next]_vars, client.pc = "complete", CompleteStep,
           NEW made, made = client.made \o SetToSeq(Winners(Plan))
    PROVE  /\ made \in Seq(Runs)
           /\ Range(made) = Range(client.made) \cup Winners(Plan)
           /\ Told(made, run', published')
<1> DEFINE W == Winners(Plan)
           told == SetToSeq(W)
<1>1. client.made \in Seq(Runs)
  BY DEF ClientInv, ClientType, ClientRow
<1>2. told \in Seq(W) /\ Range(told) = W
  BY PlanFinite, SequenceOfAll
<1>3. /\ W \subseteq Runs
      /\ \A w \in W : LET log == published'[w[3]]
                      IN  run'[w].status = "succeeded" /\ log # <<>> /\ log[Len(log)] = w
      /\ \A i \in 1..Len(client.made) :
           LET log == published'[client.made[i][3]]
           IN  /\ run'[client.made[i]].status = "succeeded"
               /\ log # <<>> /\ log[Len(log)][3] = client.made[i][3]
               /\ log[Len(log)] \in Range(client.made) \cup W
  BY CompleteEffect
<1>4. made = client.made \o told
  OBVIOUS
<1> HIDE DEF told, W
<1>5. told \in Seq(Runs)
  BY <1>2, <1>3
<1>6. made \in Seq(Runs)
  BY <1>1, <1>4, <1>5
<1>7. Range(made) = Range(client.made) \cup W
  BY <1>1, <1>2, <1>4, <1>5, RangeConcatenation
<1>8. ASSUME NEW i \in 1..Len(made)
      PROVE  LET log == published'[made[i][3]]
             IN  /\ run'[made[i]].status = "succeeded"
                 /\ log # <<>> /\ log[Len(log)][3] = made[i][3] /\ log[Len(log)] \in Range(made)
  <2>1. made[i] \in Range(made)
    BY <1>6, InRange
  <2>2. CASE made[i] \in W
    BY <1>3, <1>7, <2>1, <2>2
  <2>3. CASE made[i] \in Range(client.made)
    <3>1. PICK j \in 1..Len(client.made) : made[i] = client.made[j]
      BY <1>1, <2>3, InRange
    <3> QED
      BY <1>3, <1>7, <3>1
  <2> QED
    BY <1>7, <2>1, <2>2, <2>3
<1> QED
  BY <1>6, <1>7, <1>8 DEF Told, W

\* complete: the publications are added to those the process knows of, and
\* the next command is taken up.
LEMMA CompleteKeeps ==
    ASSUME ControlInv, ControlInv', ClientInv, [Next]_vars, CallComplete
    PROVE  ClientInv'
<1>1. /\ client.pc = "complete" /\ ClientType /\ CompleteInv
      /\ client.todo \in Seq(Commands) /\ client.todo # <<>> /\ client.made \in Seq(Runs)
      /\ Cmd \in Commands
  BY CmdType DEF CallComplete, ClientInv, ClientType, ClientRow
<1> DEFINE W == Winners(Plan)
<1>2. ASSUME CompleteStep
      PROVE  /\ W \subseteq Runs
             /\ \A w \in W : LET log == published'[w[3]]
                             IN  run'[w].status = "succeeded" /\ log # <<>> /\ log[Len(log)] = w
             /\ \A i \in 1..Len(client.made) :
                  LET log == published'[client.made[i][3]]
                  IN  /\ run'[client.made[i]].status = "succeeded"
                      /\ log # <<>> /\ log[Len(log)][3] = client.made[i][3]
                      /\ log[Len(log)] \in Range(client.made) \cup W
  BY <1>1, <1>2, CompleteEffect
<1>3. ASSUME CompleteStep, NEW c, c = Cmd PROVE command'[c].status # "running"
  BY <1>1, <1>3, CompleteEffect
<1>4. ASSUME CompleteStep, NEW made, made = client.made \o SetToSeq(W),
             client' = [NextCommand(Tail(client.todo), made) EXCEPT !.tries = 0]
      PROVE  ClientInv'
  <2>1. made \in Seq(Runs) /\ Told(made, run', published')
    BY <1>1, <1>4, CompleteTold
  <2>2. Tail(client.todo) \in Seq(Commands)
    BY <1>1
  <2> QED
    BY <1>4, <2>1, <2>2, NextKeeps
<1>5. ASSUME CompleteStep, client' = [client EXCEPT !.tries = 1]
      PROVE  ClientInv'
  <2>1. Waits /\ client'.tries = 1
    BY <1>1, <1>5 DEF Waits, ClientType, ClientRow
  <2>2. /\ ClientType' /\ client'.pc = "complete" /\ client'.made = client.made
        /\ client'.outcomes = client.outcomes /\ Cmd' = Cmd /\ Plan' = Plan
    BY <1>1, <2>1, WaitsKeeps
  <2>3. Winners(Plan)' = W
    BY <2>2 DEF Winners
  <2> HIDE DEF W
  <2>4. Completed'
    BY <1>2, <1>3, <1>5, <2>1, <2>2, <2>3 DEF Completed, LastPublished
  <2>5. CompleteInv'
    BY <1>1, <2>2, <2>4 DEF CompleteInv
  <2>6. MadeInv'
    BY <1>2, <1>5, <2>2, <2>3, <2>4 DEF MadeInv, LastPublished
  <2> QED
    BY <2>2, <2>5, <2>6 DEF ClientInv, ClaimInv, CollectInv, Working
<1>6. CASE UNCHANGED vars /\ client' = Again
  BY <1>6, AgainKeeps, QuietSteps DEF ControlInv, RunsInv, Ledger
<1>7. CASE client' = Dead
  BY <1>7, RefusedKeeps
<1> QED
  BY <1>4, <1>5, <1>6, <1>7 DEF CallComplete, Call, CallAny, Refused, Again

-----------------------------------------------------------------------------
(* Theorems *)

\* The invariant is inductive.
LEMMA NextClient ==
    ASSUME ControlInv, ControlInv', ClientInv, [ClientNext]_allVars, [Next]_vars
    PROVE  ClientInv'
<1>1. CASE StartWorkflow
  BY <1>1, StartKeeps
<1>2. CASE Crash
  BY <1>2, RefusedKeeps DEF Crash
<1>3. CASE Clock \/ Others \/ UNCHANGED allVars
  BY <1>3, QuietKeeps, QuietSteps
     DEF Clock, Others, allVars, vars, Waits, ControlInv, RunsInv, Ledger
<1>4. CASE ClientStep
  BY <1>4, MaterializeKeeps, ReserveKeeps, ConfirmKeeps, ClaimKeeps, LoadKeeps,
     HeartbeatKeeps, FetchKeeps, CommitKeeps, SkipKeeps, CompleteKeeps DEF ClientStep
<1> QED
  BY <1>1, <1>2, <1>3, <1>4 DEF ClientNext

\* It holds initially.
LEMMA InitClient ==
    ASSUME ClientInit
    PROVE  ControlInv /\ ClientInv
<1>1. ControlInv
  BY InitControl DEF ClientInit
<1>2. Ended("none") \in ClientRow /\ Ended("none").pc = "idle" /\ Ended("none").made = <<>>
  BY SourceAt DEF Ended, ClientRow, Steps, NoPage, CursorOrNull
<1> QED
  BY <1>1, <1>2
     DEF ClientInit, ClientInv, ClientType, ClaimInv, CollectInv, CompleteInv, MadeInv, Working

\* One step of the composed system, seen from both sides.
LEMMA ClientStepKeeps ==
    ASSUME ControlInv, ClientInv, [ClientNext]_allVars
    PROVE  [Next]_vars /\ ControlInv' /\ ClientInv'
<1>1. [Next]_vars
  BY StepIsControl
<1>2. ControlInv'
  BY <1>1, NextControl
<1> QED
  BY <1>1, <1>2, NextClient

\* What the process and the control plane keep together.
THEOREM ClientInvariant == ClientSpec => [](ControlInv /\ ClientInv)
<1>1. ClientInit => ControlInv /\ ClientInv
  BY InitClient
<1>2. ControlInv /\ ClientInv /\ [ClientNext]_allVars => (ControlInv /\ ClientInv)'
  BY ClientStepKeeps
<1> QED
  BY <1>1, <1>2, PTL DEF ClientSpec

\* The collector and its transport use the control plane as its specification
\* allows: every run of the composed system is a run of CollectionControl, so
\* whatever is proved of the control plane holds of it too.
THEOREM ClientImplementsControl == ClientSpec => Spec
<1>1. ClientInit => Init
  BY DEF ClientInit
<1>2. ControlInv /\ ClientInv /\ [ClientNext]_allVars => [Next]_vars
  BY ClientStepKeeps
<1> QED
  BY <1>1, <1>2, ClientInvariant, PTL DEF ClientSpec, Spec

\* The invariant says what ClientInStep says.
LEMMA ClientIsInStep ==
    ASSUME ControlInv, ClientInv
    PROVE  ClientInStep
<1>1. PositionInStep
  <2> SUFFICES ASSUME client.pc \in {"beat", "fetch", "commit"}
               PROVE  \/ client.pos = ServerPos(Me)
                      \/ /\ client.pc = "commit" /\ client.tries = 1
                         /\ ServerPos(Me) = AfterCommit.pos
    BY DEF PositionInStep
  <2>1. StreamInStep
    BY DEF ClientInv, CollectInv, Working
  <2> QED
    BY <2>1 DEF StreamInStep, CommitAhead, CommitBehind
<1>2. OutcomesAccepted
  <2> SUFFICES ASSUME client.pc = "complete", Holding, NEW r \in DOMAIN Plan
               PROVE  MayFinish(r, Plan[r])
    BY DEF OutcomesAccepted
  <2>1. /\ ClientType /\ Len(client.outcomes) = Len(SourceOrder) /\ SourcesDone
    BY DEF ClientInv, CompleteInv, Completed, Holding
  <2>2. PICK i \in 1..Len(SourceOrder) : r = RunAt(i)
    BY <2>1, PlanAt
  <2> QED
    BY <2>1, <2>2, PlanAt DEF SourcesDone
<1> QED
  BY <1>1, <1>2 DEF ClientInStep

\* Whatever calls were lost and repeated, and however often processes died, the
\* collector never loses its place in the stream it writes and never reports
\* an outcome the server's chain verification refuses.
THEOREM ClientStaysInStep == ClientSpec => []ClientInStep
<1>1. ControlInv /\ ClientInv => ClientInStep
  BY ClientIsInStep
<1> QED
  BY <1>1, ClientInvariant, PTL

Fails(row) == "result" \in DOMAIN row /\ row.result # "success"

\* No step of a process but the last answer of a completion makes a success.
LEMMA FailsKept ==
    ASSUME NEW row, Fails(row)
    PROVE  /\ \A x : /\ Fails([row EXCEPT !.tries = x])
                     /\ Fails([row EXCEPT !.pc = x])
           /\ \A x, y : /\ Fails([row EXCEPT !.pc = x, !.attempt = y])
                        /\ Fails([row EXCEPT !.pc = x, !.pos = y])
                        /\ Fails([row EXCEPT !.pc = x, !.page = y])
           /\ \A x, y, z : Fails([row EXCEPT !.pc = x, !.pos = y, !.page = z])
           /\ \A x, y, z, u : Fails([row EXCEPT !.outcomes = x, !.at = y, !.pc = z, !.page = u])
BY DEF Fails

\* Only an answered completion makes a success.
LEMMA OnlyCompletionSucceeds ==
    ASSUME ClientType, [ClientNext]_allVars,
           client'.result = "success", client.result # "success"
    PROVE  /\ CallComplete /\ CompleteStep
           /\ \E made : /\ made = client.made \o SetToSeq(Winners(Plan))
                        /\ Covers(made)
<1>1. Fails(client) /\ Fails(Dead)
  BY DEF ClientType, ClientRow, Fails, Dead, Ended
<1>2. ASSUME NEW row, Fails(row) PROVE client' # row /\ client' # [row EXCEPT !.tries = 0]
  <2>1. Fails([row EXCEPT !.tries = 0])
    BY <1>2, FailsKept
  <2> QED
    BY <1>2, <2>1 DEF Fails
<1>3. client' # client /\ client' # Dead /\ client' # Again
  <2>1. Fails(Again)
    BY <1>1, FailsKept DEF Again
  <2> QED
    BY <1>1, <1>2, <2>1
<1>4. ASSUME NEW todo, NEW made, ~Covers(made)
      PROVE  Fails(NextCommand(todo, made))
  BY <1>4 DEF NextCommand, Ended, Fails
<1>5. \A st : Fails(Outcome(st))
  BY <1>1, FailsKept DEF Outcome
<1>6. ~StartWorkflow
  <2>1. Fails([Ended("none") EXCEPT !.pc = "materialize"])
    BY DEF Ended, Fails
  <2>2. ASSUME NEW c PROVE Fails([Ended("none") EXCEPT !.pc = "reserve", !.todo = <<c>>])
    BY DEF Ended, Fails
  <2> QED
    BY <1>2, <2>1, <2>2 DEF StartWorkflow
<1>7. ~Crash /\ ~Clock /\ ~Others /\ ~UNCHANGED allVars
  BY <1>3 DEF Crash, Clock, Others, allVars
<1>8. ~CallMaterialize
  <2>1. ~Covers(<<>>)
    BY SourceAt DEF Covers
  <2> QED
    BY <1>2, <1>3, <1>4, <2>1 DEF CallMaterialize, CallAny, Refused
<1>10. ~CallReserve /\ ~CallConfirm
  <2>1. /\ \A x : Fails([client EXCEPT !.pc = "confirm", !.attempt = x])
        /\ Fails([client EXCEPT !.pc = "claim"])
    BY <1>1, FailsKept
  <2> QED
    BY <1>2, <1>3, <2>1 DEF CallReserve, CallConfirm, Call, CallAny, Refused
<1>11. ~CallClaim
  <2>1. \A runs : Fails(Claimed(runs))
    BY <1>1, FailsKept DEF Claimed
  <2> QED
    BY <1>2, <1>3, <2>1 DEF CallClaim, Call, CallAny, Refused
<1>12. ~LoadCheckpoint
  <2>1. \A x : Fails([client EXCEPT !.pc = "beat", !.pos = x])
    BY <1>1, FailsKept
  <2> DEFINE row == IF run[Me].count = Cap(Me) THEN Outcome("succeeded")
                    ELSE [client EXCEPT !.pc = "beat", !.pos = ServerPos(Me)]
  <2>2. Fails(row)
    BY <1>5, <2>1
  <2> HIDE DEF row
  <2>3. LoadCheckpoint => \/ client' = Outcome("skipped_quota")
                          \/ Call(CheckpointStep, row) \/ Refused(CheckpointStep, Dead)
    BY DEF LoadCheckpoint, row
  <2>4. ~Call(CheckpointStep, row) /\ ~Refused(CheckpointStep, Dead)
    BY <1>2, <1>3, <2>2 DEF Call, CallAny, Refused
  <2> QED
    BY <1>2, <1>5, <2>3, <2>4
<1>13. ~CallHeartbeat
  <2>1. Fails(AfterPage)
    BY <1>1, <1>5, FailsKept DEF AfterPage
  <2> QED
    BY <1>2, <1>3, <2>1 DEF CallHeartbeat, Call, CallAny, Refused
<1>14. ~Fetch
  <2>1. \A x, y : Fails([client EXCEPT !.pc = x, !.page = y])
    BY <1>1, FailsKept
  <2> QED
    BY <1>2, <1>3, <1>5, <2>1 DEF Fetch
<1>15. ~CallCommit
  <2>1. Fails(AfterCommit) /\ Fails(AfterConflict)
    BY <1>1, FailsKept DEF AfterCommit, AfterConflict
  <2> QED
    BY <1>2, <1>3, <2>1 DEF CallCommit, Call, CallAny, Refused
<1>16. ~CallSkip
  BY <1>2, <1>3, <1>5 DEF CallSkip, Call, CallAny, Refused
<1>17. CallComplete
  BY <1>6, <1>7, <1>8, <1>10, <1>11, <1>12, <1>13, <1>14, <1>15, <1>16 DEF ClientNext, ClientStep
<1> QED
  BY <1>2, <1>3, <1>4, <1>17 DEF CallComplete, Call, CallAny, Refused

\* A success reported to the cadence recorder means publication: whatever was
\* lost, repeated or recovered on the way, the last publication of every source
\* of the schedule is a run this process collected, and that run succeeded.
THEOREM SuccessPublished == ClientSpec => SuccessMeansPublished
<1> DEFINE Success ==
        client'.result = "success" /\ client.result # "success" =>
            \A s \in Expected :
                /\ published'[s] # <<>>
                /\ LET r == published'[s][Len(published'[s])]
                   IN  /\ r[3] = s /\ run'[r].status = "succeeded"
                       /\ r \in Range(client.made) \cup DOMAIN Plan
<1>1. ASSUME ControlInv, ClientInv, [ClientNext]_allVars PROVE Success
  <2> SUFFICES ASSUME client'.result = "success", client.result # "success", NEW s \in Expected
               PROVE  /\ published'[s] # <<>>
                      /\ LET r == published'[s][Len(published'[s])]
                         IN  /\ r[3] = s /\ run'[r].status = "succeeded"
                             /\ r \in Range(client.made) \cup DOMAIN Plan
    OBVIOUS
  <2>1. CallComplete /\ CompleteStep
    BY <1>1, OnlyCompletionSucceeds DEF ClientInv
  <2>2. PICK made : made = client.made \o SetToSeq(Winners(Plan)) /\ Covers(made)
    BY <1>1, OnlyCompletionSucceeds DEF ClientInv
  <2>3. [Next]_vars
    BY <1>1, StepIsControl
  <2>4. /\ made \in Seq(Runs) /\ Told(made, run', published')
        /\ Range(made) = Range(client.made) \cup Winners(Plan)
    BY <1>1, <2>1, <2>2, <2>3, CompleteTold DEF CallComplete
  <2>5. PICK i \in 1..Len(made) : made[i][3] = s
    BY <2>2 DEF Covers
  <2> DEFINE r == published'[s][Len(published'[s])]
  <2>6. published'[s] # <<>> /\ r[3] = s /\ r \in Range(made)
    BY <2>4, <2>5 DEF Told
  <2>7. PICK j \in 1..Len(made) : made[j] = r
    BY <2>4, <2>6 DEF Range
  <2>8. run'[r].status = "succeeded"
    BY <2>4, <2>7 DEF Told
  <2> QED
    BY <2>4, <2>6, <2>8 DEF Winners
<1>2. ClientSpec => [][Success]_allVars
  <2>1. ControlInv /\ ClientInv /\ [ClientNext]_allVars => [Success]_allVars
    BY <1>1
  <2> QED
    BY <2>1, ClientInvariant, PTL DEF ClientSpec
<1> QED
  BY <1>2 DEF SuccessMeansPublished

=============================================================================
