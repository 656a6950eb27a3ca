--------------------------- MODULE ReleaseLedger ---------------------------
(* The durable release ledger: the tables the 0010 migration bootstraps, the *)
(* receipt chain 0010a installs, the rebinds 0010b..0010h, the dispatch      *)
(* reservations, their claim and completion by GitHub runs of migrate.yml,   *)
(* and the operator's run selection and receipt verification.                *)
(*                                                                           *)
(* Hashes, bodies and OIDC claims are abstracted to identity: a receipt is   *)
(* the triple <<command, activation nonce, dispatch>>, a run presents its    *)
(* own identity.  Attempt numbers are only copied by the server and are left *)
(* out.  What 0011 does to the source tables is SourceActivation's.          *)
(*                                                                           *)
(* A run of migrate.yml checks out the reviewed commit it was dispatched for  *)
(* and goes on only if that commit's one alembic head is ExpectedHead.  This  *)
(* repository's head is 0013, so a run for this very commit is turned away:   *)
(* what the other runs do is about commits reviewed while 0011 was the head.  *)
EXTENDS Naturals, Sequences, FiniteSets

CONSTANTS
    Starts,         \* revisions a reviewed deployment begins at
    Checkouts,      \* the alembic heads of each commit a run may check out
    MaxMoves,       \* bound: review roots minted and manual alembic runs from there on
    MaxDispatches,  \* bound: dispatch reservations ever made
    MaxRuns,        \* bound: workflow runs ever dispatched on a reservation
    Slots,          \* runs and alembic processes alive at one time
    Window          \* bound: a reservation is made under one of the last roots

VARIABLES
    db,        \* the committed database
    moves,     \* roots minted and manual alembic runs so far; numbers fresh nonces
    lastRun,   \* the last GitHub run id given to a reserved run
    runs,      \* slot -> the workflow run or operator's alembic process in it
    seen,      \* dispatch -> runs GitHub lists under the reservation's title
    verified   \* [d, run] pairs select-run and verify-receipt accepted

ledgerVars == <<db, moves, lastRun, runs, seen, verified>>

----------------------------------------------------------------------------
(* The revision ladder and the receipts. *)

Ladder == <<"0009", "0010", "0010a", "0010b", "0010c", "0010d", "0010e",
            "0010f", "0010g", "0010h", "0011">>
Level(r) == CHOOSE i \in DOMAIN Ladder : Ladder[i] = r
Corrections == {Ladder[i] : i \in 3 .. 10}

Id(row) == <<row.cmd, row.nonce, row.d>>
Ids(chain) == {Id(row) : row \in chain}
Receipt(cmd, n, d, pred) == [cmd |-> cmd, nonce |-> n, d |-> d, pred |-> pred]
RootRow(n) == Receipt("review-root", n, 0, <<>>)
NoSpendRow(n) == Receipt("no-spend-preflight", n, 0, <<"review-root", n, 0>>)
NoSpendId(n) == <<"no-spend-preflight", n, 0>>

ASSUME LedgerAssumption ==
    /\ Starts \subseteq {Ladder[i] : i \in DOMAIN Ladder}
    /\ MaxMoves \in Nat /\ MaxDispatches \in Nat /\ MaxRuns \in Nat /\ Window \in Nat
    /\ Slots \subseteq Nat

\* The ledger boundary the workflow reads with to_regclass.
LedgerExists(b) == Level(b.rev) >= Level("0010")
ChainExists(b) == Level(b.rev) >= Level("0010a")

\* A reservation of the 0010 bootstrap carries dispatch 0 and names the revision;
\* a generic one (operation and revision NULL) carries its own number.
Reservation(d, n, pred, title) ==
    [d |-> d, nonce |-> n, pred |-> pred, title |-> title, run |-> 0]
ReserveId(v) ==
    <<IF v.d = 0 THEN "migration-reservation" ELSE "dispatch-reserve", v.nonce, v.d>>
Operation(d, run, cmd, rev) == [d |-> d, run |-> run, cmd |-> cmd, rev |-> rev]

----------------------------------------------------------------------------
(* Migrations: what each guard reads, and what its statements leave. *)

\* The reservations as 0010a reshapes their table: bound to a chain row of their
\* nonce, claimed by no run (0) or by one, and no run claims two.
ReservationTable(resv) ==
    \A v \in resv :
        /\ v.d \in 0 .. MaxDispatches /\ v.run \in 0 .. MaxRuns + 1
        /\ v.pred[2] = v.nonce
        /\ v.run # 0 => \A w \in resv : w.run = v.run => w = v

Empty == [rev |-> "0009", roots |-> {}, spend |-> {}, chain |-> {},
          resv |-> {}, ops |-> {}]

\* The roots in the order of created_at_db, which "at" counts.
Newest(b) == CHOOSE r \in b.roots : \A q \in b.roots : q.at <= r.at
Later(b) == IF b.roots = {} THEN 1 ELSE Newest(b).at + 1
Stored(root, at) == [nonce |-> root.nonce, plan |-> root.plan, ident |-> root.ident, at |-> at]
AppendRoot(b, root) ==
    [b EXCEPT !.roots = @ \cup {Stored(root, Later(b))}, !.spend = @ \cup {root.nonce}]

\* 0010: the receipts travel in the environment; without them the ledger stays empty.
Bootstrap(b, root) ==
    [AppendRoot(b, root) EXCEPT
        !.resv = {[Reservation(0, root.nonce, NoSpendId(root.nonce),
                               <<"upgrade", "0010">>) EXCEPT !.run = MaxRuns + 1]},
        !.ops = {Operation(0, MaxRuns + 1, "migrate-0010-bootstrap", "0010")}]
Upgrade0010(b, root) ==
    LET made == [b EXCEPT !.rev = "0010"]
    IN  IF root.nonce = 0 THEN made ELSE Bootstrap(made, root)
\* It refuses a manifold source as well; such a run ends as any that stops (Stop).
MayDowngrade0010(b) == \A v \in b.resv : v.title = <<"upgrade", "0010">>
Downgrade0010(b) == Empty

\* The prior root is the newest; 0010a compares identity, the rebinds the plan as well.
SameIdentity(b, root) == b.roots # {} /\ Newest(b).ident = root.ident
SamePlan(b, root) == SameIdentity(b, root) /\ Newest(b).plan = root.plan

\* The chain table is filled from the four tables 0010 made.
\* Mutant: the no-spend receipts are not carried over.
FromLedgerNoSpend(b) ==
    {RootRow(r.nonce) : r \in b.roots}
        \cup {Receipt("migration-reservation", v.nonce, v.d, v.pred) : v \in b.resv}
        \cup {Receipt(x[1].cmd, x[2].nonce, x[1].d, ReserveId(x[2])) :
                  x \in {y \in b.ops \X b.resv : y[1].d = y[2].d}}
FromLedger(b) ==
    {RootRow(r.nonce) : r \in b.roots}
        \cup {NoSpendRow(n) : n \in b.spend}
        \cup {Receipt("migration-reservation", v.nonce, v.d, v.pred) : v \in b.resv}
        \cup {Receipt(x[1].cmd, x[2].nonce, x[1].d, ReserveId(x[2])) :
                  x \in {y \in b.ops \X b.resv : y[1].d = y[2].d}}
MayUpgrade0010a(b, root) == ~ChainExists(b) /\ SameIdentity(b, root)
Upgrade0010a(b, root) ==
    LET grown == AppendRoot(b, root)
    IN  [grown EXCEPT
            !.rev = "0010a",
            !.chain = FromLedger(grown)
                \cup {Receipt("0010a", root.nonce, 0, NoSpendId(root.nonce))}]

BootstrapCommands ==
    {"review-root", "no-spend-preflight", "migration-reservation", "migrate-0010-bootstrap"}
\* The correction's nonce, read once before the guard; 0 when no row names it.
NoncesOf(b, cmd) == {row.nonce : row \in {x \in b.chain : x.cmd = cmd}}
NonceOf(b, cmd) == IF NoncesOf(b, cmd) = {} THEN 0
                   ELSE CHOOSE n \in NoncesOf(b, cmd) : TRUE
DropRoot(b, n) ==
    [b EXCEPT !.roots = {r \in @ : r.nonce # n}, !.spend = @ \ {n}]
\* The guard counts commands; the DDL itself refuses a row whose operation is NULL.
MayDowngrade0010a(b) ==
    \A row \in b.chain : row.cmd \in BootstrapCommands \cup {"0010a"}
OldSchemaHolds(b) == \A v \in b.resv : v.d = 0
Downgrade0010a(b, n) == [DropRoot(b, n) EXCEPT !.rev = "0010", !.chain = {}]

MayRebind(b, root) == ChainExists(b) /\ SamePlan(b, root)
Rebind(b, cmd, root) ==
    [AppendRoot(b, root) EXCEPT
        !.rev = cmd,
        !.chain = @ \cup {RootRow(root.nonce), NoSpendRow(root.nonce),
                          Receipt(cmd, root.nonce, 0, NoSpendId(root.nonce))}]
Unused(b, cmd) ==
    /\ Cardinality(NoncesOf(b, cmd)) <= 1
    /\ \A row \in b.chain : row.nonce = NonceOf(b, cmd)
          => row.cmd \in {"review-root", "no-spend-preflight", cmd}
\* ON DELETE RESTRICT: a reservation holds its predecessor's chain row.
\* Mutant: the chain is installed without its foreign keys.
UnreferencedNoKey(b, n) == TRUE
Unreferenced(b, n) == \A v \in b.resv : v.pred[2] # n
Unbind(b, n, to) ==
    [DropRoot(b, n) EXCEPT !.rev = to, !.chain = {row \in @ : row.nonce # n}]

Upgrade0010b(b, root) == Rebind(b, "0010b", root)
Downgrade0010b(b, n) == Unbind(b, n, "0010a")
Upgrade0010c(b, root) == Rebind(b, "0010c", root)
Downgrade0010c(b, n) == Unbind(b, n, "0010b")
Upgrade0010d(b, root) == Rebind(b, "0010d", root)
Downgrade0010d(b, n) == Unbind(b, n, "0010c")
Upgrade0010e(b, root) == Rebind(b, "0010e", root)
Downgrade0010e(b, n) == Unbind(b, n, "0010d")
Upgrade0010f(b, root) == Rebind(b, "0010f", root)
Downgrade0010f(b, n) == Unbind(b, n, "0010e")
Upgrade0010g(b, root) == Rebind(b, "0010g", root)
Downgrade0010g(b, n) == Unbind(b, n, "0010f")
Upgrade0010h(b, root) == Rebind(b, "0010h", root)
Downgrade0010h(b, n) == Unbind(b, n, "0010g")
Upgrade0011(b) == [b EXCEPT !.rev = "0011"]
Downgrade0011(b) == [b EXCEPT !.rev = "0010h"]

Upgraded(b, to, root) ==
    CASE to = "0010"  -> Upgrade0010(b, root)
      [] to = "0010a" -> Upgrade0010a(b, root)
      [] to = "0010b" -> Upgrade0010b(b, root)
      [] to = "0010c" -> Upgrade0010c(b, root)
      [] to = "0010d" -> Upgrade0010d(b, root)
      [] to = "0010e" -> Upgrade0010e(b, root)
      [] to = "0010f" -> Upgrade0010f(b, root)
      [] to = "0010g" -> Upgrade0010g(b, root)
      [] to = "0010h" -> Upgrade0010h(b, root)
      [] to = "0011"  -> Upgrade0011(b)
\* A correction wants a root and a no-spend receipt bound to it in its environment.
LoadInputs(root) == root.nonce # 0
MayUpgrade(b, to, root) ==
    CASE to \in {"0010", "0011"} -> TRUE
      [] to = "0010a" -> LoadInputs(root) /\ MayUpgrade0010a(b, root)
      [] OTHER -> LoadInputs(root) /\ MayRebind(b, root)

\* One downgrade step, from the revision the database is at.
Downgraded(b, n) ==
    CASE b.rev = "0010"  -> Downgrade0010(b)
      [] b.rev = "0010a" -> Downgrade0010a(b, n)
      [] b.rev = "0010b" -> Downgrade0010b(b, n)
      [] b.rev = "0010c" -> Downgrade0010c(b, n)
      [] b.rev = "0010d" -> Downgrade0010d(b, n)
      [] b.rev = "0010e" -> Downgrade0010e(b, n)
      [] b.rev = "0010f" -> Downgrade0010f(b, n)
      [] b.rev = "0010g" -> Downgrade0010g(b, n)
      [] b.rev = "0010h" -> Downgrade0010h(b, n)
      [] b.rev = "0011"  -> Downgrade0011(b)
MayDowngrade(b) ==
    CASE b.rev = "0010"  -> MayDowngrade0010(b)
      [] b.rev = "0010a" -> MayDowngrade0010a(b)
      [] b.rev = "0011"  -> TRUE
      [] OTHER -> Unused(b, b.rev)
Deletable(b, n) ==
    CASE b.rev \in {"0010", "0011"} -> TRUE
      [] b.rev = "0010a" -> OldSchemaHolds(b)
      [] OTHER -> Unreferenced(b, n)

\* alembic runs every step of the path in one transaction; 0011 -> 0010g takes two.
TwoSteps(b, to) == Level(b.rev) > Level(to) + 1
Path(b, op, to, root, n) ==
    IF op = "upgrade" THEN Upgraded(b, to, root)
    ELSE IF TwoSteps(b, to) THEN Downgraded(Downgraded(b, n), n)
    ELSE Downgraded(b, n)
GuardsPass(b, op, to, root) ==
    IF op = "upgrade"
    THEN Level(b.rev) = Level(to) - 1 /\ MayUpgrade(b, to, root)
    ELSE MayDowngrade(b) /\ (TwoSteps(b, to) => MayDowngrade(Downgraded(b, 0)))
ConstraintsHold(b, op, to, n) ==
    op = "downgrade" =>
        Deletable(b, n) /\ (TwoSteps(b, to) => Deletable(Downgraded(b, n), n))

----------------------------------------------------------------------------
(* The operator's dispatch reservations and workflow dispatches. *)

Titles == {<<"upgrade", "0011">>, <<"downgrade", "0010g">>,
           <<"downgrade", "0010h">>, <<"other", "none">>}
NoRun == [op |-> "none", to |-> "none", d |-> 0, id |-> 0, pc |-> "idle", from |-> "0009", n |-> 0,
         root |-> [nonce |-> 0, plan |-> 1, ident |-> 1]]
Free(s) == runs[s].pc \in {"idle", "refused"}
\* Of two free slots only the first is used.
NextSlot(s) == Free(s) /\ \A t \in Slots : t < s => ~Free(t)
\* Reservations are numbered as they are made.
FreshDispatch(d) ==
    /\ \A v \in db.resv : v.d # d
    /\ \A e \in 1 .. (d - 1) : \E v \in db.resv : v.d = e

\* reserve_dispatch checks that the predecessor is a receipt of the same root, no more.
Reservable(n, pred) ==
    /\ ChainExists(db)
    /\ pred \in db.chain
    /\ pred.nonce = n
ReserveDispatch(n, pred, title, d) ==
    /\ FreshDispatch(d)
    /\ Reservable(n, pred)
    /\ \E r \in db.roots : r.nonce = n /\ Cardinality({q \in db.roots : q.at > r.at}) < Window
    /\ db' = [db EXCEPT
           !.resv = @ \cup {Reservation(d, n, Id(pred), title)},
           !.chain = @ \cup {Receipt("dispatch-reserve", n, d, Id(pred))}]
    /\ UNCHANGED <<moves, lastRun, runs, seen, verified>>

\* validate-current: the one revision each reviewed tuple may start from.
StartingRevision(op, to) ==
    IF op = "upgrade" THEN Ladder[Level(to) - 1] ELSE "0011"
\* Bootstrap tuples carry a root and no reservation, the others the reverse.
ReviewedBootstrap(op, to) == op = "upgrade" /\ to \in Corrections \cup {"0010"}
ReviewedPostLedger(title) == title \in Titles \ {<<"other", "none">>}
LedgerBoundary(op, to) ==
    CASE to = "0010"  -> ~LedgerExists(db)
      [] to = "0010a" -> LedgerExists(db) /\ ~ChainExists(db)
      [] OTHER -> LedgerExists(db) /\ ChainExists(db)
\* validate-heads: the one head the workflow accepts.
ExpectedHead == "0011"
\* The run's own checks before it claims anything: the reviewed tuple, the heads of
\* its checkout, the revision the database is at and the tables it has.
ReviewedTuple(op, to) == ReviewedBootstrap(op, to) \/ ReviewedPostLedger(<<op, to>>)
Admitted(op, to, heads) ==
    /\ ReviewedTuple(op, to)
    /\ heads = {ExpectedHead}
    /\ db.rev = StartingRevision(op, to)
    /\ LedgerBoundary(op, to)

DispatchBootstrap(s, to, root) ==
    /\ NextSlot(s)
    /\ \E heads \in Checkouts : Admitted("upgrade", to, heads)
    /\ moves < MaxMoves
    /\ moves' = moves + 1
    /\ runs' = [runs EXCEPT ![s] = [NoRun EXCEPT
                  !.op = "upgrade", !.to = to, !.pc = "ready", !.root = root]]
    /\ UNCHANGED <<db, lastRun, seen, verified>>

\* The same reservation may be dispatched again: GitHub then lists two runs, also
\* when the second is turned away by its own checks.
DispatchWorkflow(s, v) ==
    /\ NextSlot(s)
    /\ v \in db.resv /\ v.d > 0
    /\ lastRun < MaxRuns
    /\ lastRun' = lastRun + 1
    /\ seen' = [seen EXCEPT ![v.d] = @ \cup {lastRun + 1}]
    /\ \E heads \in Checkouts :
          IF v.title[1] = "other" \/ Admitted(v.title[1], v.title[2], heads)
          THEN runs' = [runs EXCEPT ![s] = [NoRun EXCEPT
                          !.op = v.title[1], !.to = v.title[2], !.d = v.d,
                          !.id = lastRun + 1, !.pc = "dispatched"]]
          ELSE UNCHANGED runs
    /\ UNCHANGED <<db, moves, verified>>

\* alembic run by hand outside the workflow, one step down or 0010 without receipts.
OperatorDowngrade(s) ==
    /\ NextSlot(s)
    /\ moves < MaxMoves
    /\ moves' = moves + 1
    /\ db.rev # "0009"
    /\ runs' = [runs EXCEPT ![s] = [NoRun EXCEPT
                  !.op = "downgrade", !.to = Ladder[Level(db.rev) - 1], !.pc = "ready"]]
    /\ UNCHANGED <<db, lastRun, seen, verified>>
OperatorUpgrade(s) ==
    /\ NextSlot(s)
    /\ moves < MaxMoves
    /\ moves' = moves + 1
    /\ db.rev = "0009"
    /\ runs' = [runs EXCEPT ![s] = [NoRun EXCEPT
                  !.op = "upgrade", !.to = "0010", !.pc = "ready"]]
    /\ UNCHANGED <<db, lastRun, seen, verified>>

----------------------------------------------------------------------------
(* A workflow run. *)

\* The job is over, in success or on hold: what it did is in the database.
Ended(s) == runs' = [runs EXCEPT ![s] = NoRun]

\* The OIDC token names the run and the workflow that presents it.
Authenticated(v, s) == v.d = runs[s].d /\ v.title = <<runs[s].op, runs[s].to>>

\* One UPDATE claims an unclaimed reservation; (repository, run) is unique.
Claimable(v, s) ==
    /\ Authenticated(v, s)
    /\ v.run = 0
    /\ \A w \in db.resv : w.run # runs[s].id
Claimed(b, v, run) ==
    [b EXCEPT
        !.resv = (@ \ {v}) \cup {[v EXCEPT !.run = run]},
        !.chain = @ \cup {Receipt("workflow-dispatch-claim", v.nonce, v.d, ReserveId(v))}]
Claim(s) ==
    /\ runs[s].pc = "dispatched"
    /\ \/ \E v \in db.resv :
            /\ Claimable(v, s)
            /\ db' = Claimed(db, v, runs[s].id)
            /\ runs' = [runs EXCEPT ![s].pc =
                           IF ReviewedPostLedger(v.title) THEN "ready" ELSE "applied"]
       \/ /\ \A v \in db.resv : ~Claimable(v, s)
          /\ Ended(s)
          /\ UNCHANGED db
    /\ UNCHANGED <<moves, lastRun, seen, verified>>

\* alembic has exited; what its transaction read is forgotten.
Applied(s) ==
    runs' = [runs EXCEPT ![s] = [@ EXCEPT !.pc = "applied", !.from = NoRun.from,
                                          !.n = 0, !.root = NoRun.root]]

\* alembic reads the revision and every guard of the path; nothing to do is success.
\* A run without receipts in its environment cannot pass a rebind on the way.
NothingToDo(s) ==
    IF runs[s].op = "upgrade" THEN Level(db.rev) >= Level(runs[s].to)
    ELSE Level(db.rev) <= Level(runs[s].to)
\* The correction a downgrade removes.
Corrected(s) == IF db.rev = "0011" THEN "0010h" ELSE db.rev
\* An operator goes one step by hand, and not on from where another run has led.
ShortPath(s) == runs[s].op = "downgrade" => Level(Corrected(s)) <= Level(runs[s].to) + 1
Begin(s) ==
    /\ runs[s].pc = "ready"
    /\ \/ NothingToDo(s) /\ Applied(s)
       \/ /\ ~NothingToDo(s)
          /\ IF ShortPath(s) /\ GuardsPass(db, runs[s].op, runs[s].to, runs[s].root)
             THEN runs' = [runs EXCEPT ![s].from = db.rev, ![s].pc = "begun",
                             ![s].n = NonceOf(db, Corrected(s))]
             ELSE Ended(s)
    /\ UNCHANGED <<db, moves, lastRun, seen, verified>>

\* The statements run after the guards; the version row is the only mutual exclusion.
\* A dropped table waits for the open transactions that have read it.
LocksFree(s) ==
    \A t \in Slots \ {s} :
        runs[t].pc = "begun" =>
            /\ (runs[s].op = "downgrade" /\ db.rev = "0010") => runs[t].op # "upgrade"
            /\ (runs[s].op = "downgrade" /\ db.rev = "0010a") => runs[t].op # "downgrade"
CommitMigration(s) ==
    /\ runs[s].pc = "begun"
    /\ LocksFree(s)
    /\ IF db.rev = runs[s].from /\ ConstraintsHold(db, runs[s].op, runs[s].to, runs[s].n)
       THEN /\ db' = Path(db, runs[s].op, runs[s].to, runs[s].root, runs[s].n)
            /\ Applied(s)
       ELSE Ended(s) /\ UNCHANGED db
    /\ UNCHANGED <<moves, lastRun, seen, verified>>

\* validate-result; a run without a reservation ends here.
CheckResult(s) ==
    /\ runs[s].pc = "applied"
    /\ IF runs[s].d = 0 \/ (runs[s].op # "other" /\ db.rev # runs[s].to)
       THEN Ended(s) ELSE runs' = [runs EXCEPT ![s].pc = "checked"]
    /\ UNCHANGED <<db, moves, lastRun, seen, verified>>

\* The command migrate.yml sends, and the commands the server accepts from it.
Command(s) ==
    CASE runs[s].op = "upgrade"   -> "migrate-0011"
      [] runs[s].op = "downgrade" ->
            IF runs[s].to = "0010g" THEN "migrate-0011-to-0010g" ELSE "migrate-0011-to-0010h"
      [] OTHER -> "other"
AllowedCommands == {"migrate-0011", "migrate-0011-to-0010g", "other"}
Completable(v, s) == Authenticated(v, s) /\ v.run = runs[s].id
Completed(b, v, s) ==
    [b EXCEPT
        !.ops = @ \cup {Operation(v.d, runs[s].id, Command(s), b.rev)},
        !.chain = @ \cup {Receipt(Command(s), v.nonce, v.d, ReserveId(v))}]
\* The server appends one receipt to a reservation; a job asks for it once.
MayComplete(v, s) ==
    /\ Command(s) \in AllowedCommands
    /\ Completable(v, s)
    /\ \A o \in db.ops : o.d # v.d
Complete(s) ==
    /\ runs[s].pc = "checked"
    /\ \/ \E v \in db.resv : MayComplete(v, s) /\ db' = Completed(db, v, s) /\ Ended(s)
       \/ /\ \A v \in db.resv : ~MayComplete(v, s)
          /\ runs' = [runs EXCEPT ![s] = [NoRun EXCEPT !.pc = "refused"]]
          /\ UNCHANGED db
    /\ UNCHANGED <<moves, lastRun, seen, verified>>

\* A cancelled job, a lost response: the job ends, an open transaction rolls back.
Stop(s) ==
    /\ ~Free(s)
    /\ Ended(s)
    /\ UNCHANGED <<db, moves, lastRun, seen, verified>>

----------------------------------------------------------------------------
(* The operator selects the claimed run by title, then verifies its receipt. *)

Candidates(v) == seen[v.d]
ClaimedRun(v) == v.run # 0
Selected(v) == ClaimedRun(v) /\ Candidates(v) = {v.run}
ReceiptMatches(o, v) == o.d = v.d /\ o.run = v.run
VerifyReceipt(v) ==
    /\ v \in db.resv /\ v.d > 0
    /\ Selected(v)
    /\ \E o \in db.ops : ReceiptMatches(o, v)
    /\ verified' = verified \cup {[d |-> v.d, run |-> v.run]}
    /\ verified' # verified
    /\ UNCHANGED <<db, moves, lastRun, runs, seen>>

----------------------------------------------------------------------------
\* A deployment reached without incident: one root per revision, plan and identity 1.
Deployed ==
    LET at[i \in DOMAIN Ladder] ==
            IF i = 1 THEN Empty
            ELSE Upgraded(at[i - 1], Ladder[i], [nonce |-> i - 1, plan |-> 1, ident |-> 1])
    IN  [r \in Starts |-> at[Level(r)]]
\* A minted nonce is fresh; a later root may differ from the first in plan or identity.
RootsToMint ==
    {[nonce |-> Len(Ladder) + moves, plan |-> x[1], ident |-> x[2]] :
        x \in CASE db.rev = "0009" -> {<<1, 1>>}
               [] db.rev = "0010" -> {<<1, 1>>, <<2, 1>>, <<1, 2>>}
               [] OTHER -> {<<1, 1>>, <<2, 1>>}}

\* Any receipt of a root serves; the operator holds those after the no-spend receipt.
Predecessors ==
    {row \in db.chain : row.cmd \notin {"review-root", "no-spend-preflight"}}

LedgerInit ==
    /\ \E r \in Starts : db = Deployed[r]
    /\ moves = 0
    /\ lastRun = 0
    /\ runs = [s \in Slots |-> NoRun]
    /\ seen = [d \in 1 .. MaxDispatches |-> {}]
    /\ verified = {}

LedgerNext ==
    \/ \E row \in Predecessors, t \in Titles, d \in 1 .. MaxDispatches :
          ReserveDispatch(row.nonce, row, t, d)
    \/ \E v \in db.resv : VerifyReceipt(v)
    \/ \E s \in Slots :
        \/ \E i \in 2 .. 10, root \in RootsToMint : DispatchBootstrap(s, Ladder[i], root)
        \/ \E v \in db.resv : DispatchWorkflow(s, v)
        \/ OperatorDowngrade(s)
        \/ OperatorUpgrade(s)
        \/ Claim(s)
        \/ Begin(s)
        \/ CommitMigration(s)
        \/ CheckResult(s)
        \/ Complete(s)
        \/ Stop(s)

LedgerSpec == LedgerInit /\ [][LedgerNext]_ledgerVars

----------------------------------------------------------------------------
LedgerTypeOK ==
    /\ db.rev \in {Ladder[i] : i \in DOMAIN Ladder}
    /\ db.spend \subseteq 1 .. Len(Ladder) + MaxMoves
    /\ \A row \in db.chain : row.nonce \in 1 .. Len(Ladder) + MaxMoves /\ row.d \in 0 .. MaxDispatches
    /\ ReservationTable(db.resv)
    /\ lastRun \in 0 .. MaxRuns
    /\ \A s \in Slots : runs[s].pc \in {"idle", "ready", "dispatched", "begun", "applied",
                                        "checked", "refused"}

(* The chain and the tables it was built from stay one ledger through every   *)
(* upgrade, downgrade and re-upgrade and every interleaving of them with      *)
(* reservations: each receipt's predecessor is in the chain under the same    *)
(* root, the roots and no-spend receipts of the tables are those of the chain,*)
(* and every reservation, claim and terminal receipt has its row.             *)
TablesMatchChain ==
    ChainExists(db) =>
        /\ \A row \in db.chain : row.cmd # "review-root" =>
              row.pred \in Ids(db.chain) /\ row.pred[2] = row.nonce
        /\ {row.nonce : row \in {x \in db.chain : x.cmd = "review-root"}}
              = {r.nonce : r \in db.roots}
        /\ {row.nonce : row \in {x \in db.chain : x.cmd = "no-spend-preflight"}} = db.spend
        /\ \A v \in db.resv :
              /\ ReserveId(v) \in Ids(db.chain) /\ v.pred \in Ids(db.chain)
              /\ v.d > 0 => (v.run # 0
                    <=> <<"workflow-dispatch-claim", v.nonce, v.d>> \in Ids(db.chain))
        /\ \A o \in db.ops : \E row \in db.chain : row.cmd = o.cmd /\ row.d = o.d

(* What an operator or a run recorded under a reservation is never removed:   *)
(* a downgrade deletes only a rebind nobody reserved under, although its count *)
(* of dependants is read before the rows are deleted.                         *)
OperationsStep ==
    /\ \A row \in db.chain : row.d > 0 => row \in db'.chain
    /\ {v.d : v \in db.resv} \ {0} \subseteq {v.d : v \in db'.resv}
OperationsKept == [][OperationsStep]_ledgerVars

(* A terminal receipt names the run that holds the reservation's claim, there *)
(* is one per reservation, and what the operator verified stays that run.     *)
ReceiptNamesClaimant ==
    /\ \A o \in db.ops : \E v \in db.resv : ReceiptMatches(o, v)
    /\ \A o, p \in db.ops : o.d = p.d => o = p
    /\ \A x \in verified : \E o \in db.ops : o.d = x.d /\ o.run = x.run

(* The ledger is one account of what happened: its tables match its chain,    *)
(* and its receipts the runs that claimed them.                               *)
LedgerAgrees == LedgerTypeOK /\ TablesMatchChain /\ ReceiptNamesClaimant
=============================================================================
