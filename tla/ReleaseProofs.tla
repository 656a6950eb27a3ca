---------------------------- MODULE ReleaseProofs ----------------------------
(***************************************************************************)
(* The two halves of the release, for every value of their constants.      *)
(*                                                                         *)
(* The release ledger is one account for every number of roots, migrations, *)
(* reservations, runs and concurrent processes: its tables match its chain, *)
(* its receipts name the runs that claimed them, and no downgrade removes   *)
(* what an operator or a run recorded.  LedgerSound is what the tables and  *)
(* the chain owe each other at every revision, also where no chain exists   *)
(* and the next upgrade builds it from the tables.  A process that has begun *)
(* knows the database only as it was (Begun): its root is unused as long as *)
(* it is not committed, and no other downgrade passes 0010a while one has   *)
(* read its correction there.                                              *)
(*                                                                         *)
(* The activation keeps the source, the GitHub binding and the cadence      *)
(* anchor in step for every length of the log, every number of restarts,    *)
(* waiting transactions and failed GitHub calls.  BindingSound is what      *)
(* GitHub holds at each state of the log and each step of the script that   *)
(* writes it, AnchorsSound where the anchors in use come from, and Rotated  *)
(* what a second generation has left behind.                               *)
(***************************************************************************)
EXTENDS IncidentRestore, ReleaseLedger, FiniteSetTheorems, WellFoundedInduction, TLAPS

Revisions == {Ladder[i] : i \in DOMAIN Ladder}

IsDatabase(b) ==
    b = [rev |-> b.rev, roots |-> b.roots, spend |-> b.spend, chain |-> b.chain,
         resv |-> b.resv, ops |-> b.ops]

IsReservation(v) ==
    v = [d |-> v.d, nonce |-> v.nonce, pred |-> v.pred, title |-> v.title, run |-> v.run]

\* The nonces a database has seen.
Used(b) == b.spend \cup {row.nonce : row \in b.chain} \cup {v.nonce : v \in b.resv}

\* A reservation of the bootstrap rests on the no-spend receipt of its root.
Bootstrapped(v, b) == v.pred = NoSpendId(v.nonce) /\ v.nonce \in b.spend /\ v.run # 0

ReservationsSound(b) ==
    /\ ReservationTable(b.resv)
    /\ \A v \in b.resv : IsReservation(v) /\ (v.d = 0 => Bootstrapped(v, b))
    /\ \A v, w \in b.resv : v.d = w.d => v = w

TerminalCommands == AllowedCommands \cup {"migrate-0010-bootstrap"}
OperationsSound(b) ==
    /\ \A o \in b.ops : /\ o.run # 0 /\ o.cmd \in TerminalCommands
                        /\ \E v \in b.resv : ReceiptMatches(o, v)
    /\ \A o, p \in b.ops : o.d = p.d => o = p

\* Before the chain: nothing but the bootstrap.
Unchained(b) ==
    /\ b.chain = {}
    /\ \A v \in b.resv : v.d = 0
    /\ b.rev = "0009" => b = Empty

RootsOf(chain) == {row.nonce : row \in {x \in chain : x.cmd = "review-root"}}
SpendOf(chain) == {row.nonce : row \in {x \in chain : x.cmd = "no-spend-preflight"}}

Linked(chain) ==
    \A row \in chain : row.cmd # "review-root" =>
        row.pred \in Ids(chain) /\ row.pred[2] = row.nonce

Chained(b) ==
    /\ Linked(b.chain) /\ RootsOf(b.chain) = b.spend /\ SpendOf(b.chain) = b.spend
    /\ \A v \in b.resv :
          /\ ReserveId(v) \in Ids(b.chain) /\ v.pred \in Ids(b.chain)
          /\ v.d > 0 => (v.run # 0
                <=> <<"workflow-dispatch-claim", v.nonce, v.d>> \in Ids(b.chain))
    /\ \A row \in b.chain :
          /\ row.d \in 0 .. MaxDispatches
          /\ row.d > 0 => \E v \in b.resv : v.d = row.d /\ v.nonce = row.nonce
          /\ row.cmd = "0010a" => \A v \in b.resv : v.d = 0 => v.nonce # row.nonce
    /\ \A o \in b.ops : \E v \in b.resv, row \in b.chain :
          v.d = o.d /\ row.d = o.d /\ row.cmd = o.cmd /\ row.nonce = v.nonce

LedgerSound(b) ==
    /\ IsDatabase(b) /\ b.rev \in Revisions
    /\ {r.nonce : r \in b.roots} = b.spend
    /\ ReservationsSound(b) /\ OperationsSound(b)
    /\ IF ChainExists(b) THEN Chained(b) ELSE Unchained(b)

\* The slots' processes: what a run carries, its pc and the nonce of its root.
IsRun(p) ==
    /\ p = [op |-> p.op, to |-> p.to, d |-> p.d, id |-> p.id, pc |-> p.pc,
            from |-> p.from, n |-> p.n, root |-> p.root]
    /\ p.d \in 0 .. MaxDispatches /\ p.id \in 0 .. MaxRuns /\ p.root.nonce \in Nat
    /\ p.pc \in {"idle", "ready", "dispatched", "begun", "applied", "checked", "refused"}

\* A process that has begun works on the database as it was then.
Begun(p, b) ==
    /\ p.op = "upgrade" =>
          /\ Level(p.from) = Level(p.to) - 1
          /\ p.to \notin {"0010", "0011"} => p.root.nonce # 0
    /\ p.op = "downgrade" =>
          /\ Level(p.from) > Level(p.to)
          /\ Level(p.from) > Level(p.to) + 1 => p.from = "0011" /\ p.to = "0010g"
          /\ p.from = "0010a" =>
                ChainExists(b) /\ \A v \in b.resv : v.d = 0 => v.nonce # p.n

ProcessSound(p, b, m) ==
    /\ p.pc \in {"ready", "begun"} => p.op \in {"upgrade", "downgrade"} /\ p.to \in Revisions
    /\ p.d # 0 => p.id # 0
    /\ p.pc \in {"dispatched", "checked"} => p.d # 0
    /\ p.root.nonce # 0 => p.root.nonce < Len(Ladder) + m /\ p.root.nonce \notin Used(b)
    /\ p.pc = "begun" => Begun(p, b)

RunsSound ==
    /\ runs = [s \in Slots |-> runs[s]]
    /\ \A s \in Slots : IsRun(runs[s]) /\ ProcessSound(runs[s], db, moves)
    /\ \A s, t \in Slots :
          runs[s].root.nonce = runs[t].root.nonce /\ runs[s].root.nonce # 0 => s = t

LedgerInv ==
    /\ LedgerSound(db) /\ Used(db) \subseteq 1 .. (Len(Ladder) + moves - 1)
    /\ moves \in 0 .. MaxMoves /\ lastRun \in 0 .. MaxRuns
    /\ RunsSound
    /\ \A x \in verified : x.d > 0 /\ \E o \in db.ops : o.d = x.d /\ o.run = x.run

-----------------------------------------------------------------------------
(* The ladder and the database's fields *)

\* The migration chain written out: eleven revisions and their levels.
LEMMA LadderFacts ==
    /\ Len(Ladder) = 11 /\ DOMAIN Ladder = 1 .. 11
    /\ Revisions = {"0009", "0010", "0010a", "0010b", "0010c", "0010d", "0010e", "0010f",
                    "0010g", "0010h", "0011"}
    /\ Level("0009") = 1 /\ Level("0010") = 2 /\ Level("0010a") = 3 /\ Level("0010b") = 4
    /\ Level("0010c") = 5 /\ Level("0010d") = 6 /\ Level("0010e") = 7 /\ Level("0010f") = 8
    /\ Level("0010g") = 9 /\ Level("0010h") = 10 /\ Level("0011") = 11
<1>1. DOMAIN Ladder = 1 .. 11 /\ Len(Ladder) = 11  BY DEF Ladder
<1>2. /\ Ladder[1] = "0009" /\ Ladder[2] = "0010" /\ Ladder[3] = "0010a" /\ Ladder[4] = "0010b"
      /\ Ladder[5] = "0010c" /\ Ladder[6] = "0010d" /\ Ladder[7] = "0010e" /\ Ladder[8] = "0010f"
      /\ Ladder[9] = "0010g" /\ Ladder[10] = "0010h" /\ Ladder[11] = "0011"
  BY DEF Ladder
<1>3. \A i, j \in 1 .. 11 : Ladder[i] = Ladder[j] => i = j
  <2> SUFFICES ASSUME NEW i \in 1 .. 11, NEW j \in 1 .. 11, Ladder[i] = Ladder[j] PROVE i = j
    OBVIOUS
  <2>1. \A k \in 1 .. 11 : k = 1 \/ k = 2 \/ k = 3 \/ k = 4 \/ k = 5 \/ k = 6 \/ k = 7 \/ k = 8
                           \/ k = 9 \/ k = 10 \/ k = 11
    OBVIOUS
  <2> QED  BY <1>2, <2>1
<1>4. \A i \in 1 .. 11 : Level(Ladder[i]) = i
  <2> SUFFICES ASSUME NEW i \in 1 .. 11 PROVE Level(Ladder[i]) = i  OBVIOUS
  <2>1. \E j \in DOMAIN Ladder : Ladder[j] = Ladder[i]  BY <1>1
  <2>2. Level(Ladder[i]) \in DOMAIN Ladder /\ Ladder[Level(Ladder[i])] = Ladder[i]
    BY <2>1, Zenon DEF Level
  <2> QED  BY <1>1, <1>3, <2>2
<1>5. Revisions = {"0009", "0010", "0010a", "0010b", "0010c", "0010d", "0010e", "0010f",
                   "0010g", "0010h", "0011"}
  <2>1. \A k \in 1 .. 11 : k = 1 \/ k = 2 \/ k = 3 \/ k = 4 \/ k = 5 \/ k = 6 \/ k = 7 \/ k = 8
                           \/ k = 9 \/ k = 10 \/ k = 11
    OBVIOUS
  <2> QED  BY <1>1, <1>2, <2>1 DEF Revisions
<1>6. /\ 1 \in 1 .. 11 /\ 2 \in 1 .. 11 /\ 3 \in 1 .. 11 /\ 4 \in 1 .. 11 /\ 5 \in 1 .. 11
      /\ 6 \in 1 .. 11 /\ 7 \in 1 .. 11 /\ 8 \in 1 .. 11 /\ 9 \in 1 .. 11 /\ 10 \in 1 .. 11
      /\ 11 \in 1 .. 11
  OBVIOUS
<1> QED  BY <1>1, <1>2, <1>4, <1>5, <1>6

\* A revision's level is its place in the chain.
LEMMA LevelOf ==
    \A i \in 1 .. 11 : Level(Ladder[i]) = i
<1>1. \A k \in 1 .. 11 : k = 1 \/ k = 2 \/ k = 3 \/ k = 4 \/ k = 5 \/ k = 6 \/ k = 7 \/ k = 8
                         \/ k = 9 \/ k = 10 \/ k = 11
  OBVIOUS
<1>2. /\ Ladder[1] = "0009" /\ Ladder[2] = "0010" /\ Ladder[3] = "0010a" /\ Ladder[4] = "0010b"
      /\ Ladder[5] = "0010c" /\ Ladder[6] = "0010d" /\ Ladder[7] = "0010e" /\ Ladder[8] = "0010f"
      /\ Ladder[9] = "0010g" /\ Ladder[10] = "0010h" /\ Ladder[11] = "0011"
  BY DEF Ladder
<1> QED  BY <1>1, <1>2, LadderFacts

\* Which revisions have the ledger's tables and its chain.
LEMMA BoundaryFacts ==
    ASSUME NEW b, b.rev \in Revisions
    PROVE  /\ ChainExists(b) <=> b.rev \notin {"0009", "0010"}
           /\ Level(b.rev) \in 1 .. 11
           /\ \A r \in Revisions : Level(r) = Level(b.rev) => r = b.rev
  BY LadderFacts DEF ChainExists

-----------------------------------------------------------------------------
(* The migrations *)

\* What a migration may not take away, and the nonces it may bring.
Kept(b, c) ==
    /\ \A row \in b.chain : row.d > 0 => row \in c.chain
    /\ \A v \in b.resv : v.d > 0 => v \in c.resv
    /\ \A o \in b.ops : o.d > 0 => o \in c.ops

Migrated(b, c, nonces) ==
    /\ LedgerSound(c) /\ Used(c) \subseteq Used(b) \cup nonces /\ Kept(b, c)
    /\ ChainExists(b) => c.resv = b.resv

\* The fields of a receipt row and the identity it is stored under.
LEMMA ReceiptFacts ==
    \A cmd, n, d, pred :
        LET row == Receipt(cmd, n, d, pred)
        IN  /\ row.cmd = cmd /\ row.nonce = n /\ row.d = d /\ row.pred = pred
            /\ Id(row) = <<cmd, n, d>>
  BY DEF Receipt, Id

\* The identities of a chain are those of its rows.
LEMMA IdsFacts ==
    /\ \A chain : \A row \in chain : Id(row) \in Ids(chain)
    /\ \A chain : \A x \in Ids(chain) : \E row \in chain : x = Id(row)
  BY DEF Ids

\* Rows added to a chain add their identities.
LEMMA IdsOfUnion ==
    ASSUME NEW chain, NEW more
    PROVE  Ids(chain \cup more) = Ids(chain) \cup Ids(more)
  BY DEF Ids

\* A record with the six tables is a database.
LEMMA DatabaseFields ==
    ASSUME NEW c, NEW rev, NEW roots, NEW spend, NEW chain, NEW resv, NEW ops,
           c = [rev |-> rev, roots |-> roots, spend |-> spend, chain |-> chain,
                resv |-> resv, ops |-> ops]
    PROVE  /\ c.rev = rev /\ c.roots = roots /\ c.spend = spend /\ c.chain = chain
           /\ c.resv = resv /\ c.ops = ops /\ IsDatabase(c)
  BY DEF IsDatabase

\* A root is appended with its no-spend receipt.
LEMMA AppendFacts ==
    ASSUME NEW b, IsDatabase(b), {r.nonce : r \in b.roots} = b.spend, NEW root,
           NEW c, c = AppendRoot(b, root)
    PROVE  /\ IsDatabase(c) /\ c.rev = b.rev /\ c.chain = b.chain /\ c.resv = b.resv
           /\ c.ops = b.ops /\ c.spend = b.spend \cup {root.nonce}
           /\ {r.nonce : r \in c.roots} = c.spend
<1> DEFINE new == Stored(root, Later(b))
           roots == b.roots \cup {new}
           spend == b.spend \cup {root.nonce}
<1>1. c = [rev |-> b.rev, roots |-> roots, spend |-> spend, chain |-> b.chain,
           resv |-> b.resv, ops |-> b.ops]
  BY DEF AppendRoot, IsDatabase
<1>2. new.nonce = root.nonce  BY DEF Stored
<1>3. {r.nonce : r \in roots} = spend
  <2> HIDE DEF new
  <2>1. {r.nonce : r \in roots} = {r.nonce : r \in b.roots} \cup {new.nonce}  OBVIOUS
  <2> QED  BY <1>2, <2>1
<1> HIDE DEF roots, spend, new
<1>4. /\ c.rev = b.rev /\ c.roots = roots /\ c.spend = spend /\ c.chain = b.chain
      /\ c.resv = b.resv /\ c.ops = b.ops
  BY <1>1
<1>5. IsDatabase(c)  BY <1>1, <1>4 DEF IsDatabase
<1> QED  BY <1>3, <1>4, <1>5 DEF spend

\* A root is deleted with its no-spend receipt.
LEMMA DropFacts ==
    ASSUME NEW b, IsDatabase(b), {r.nonce : r \in b.roots} = b.spend, NEW n,
           NEW c, c = DropRoot(b, n)
    PROVE  /\ IsDatabase(c) /\ c.rev = b.rev /\ c.chain = b.chain /\ c.resv = b.resv
           /\ c.ops = b.ops /\ c.spend = b.spend \ {n}
           /\ {r.nonce : r \in c.roots} = c.spend
<1> DEFINE roots == {r \in b.roots : r.nonce # n}
           spend == b.spend \ {n}
<1>1. c = [rev |-> b.rev, roots |-> roots, spend |-> spend, chain |-> b.chain,
           resv |-> b.resv, ops |-> b.ops]
  BY DEF DropRoot, IsDatabase
<1>3. {r.nonce : r \in roots} = spend  OBVIOUS
<1> HIDE DEF roots, spend
<1>4. /\ c.rev = b.rev /\ c.roots = roots /\ c.spend = spend /\ c.chain = b.chain
      /\ c.resv = b.resv /\ c.ops = b.ops
  BY <1>1
<1>5. IsDatabase(c)  BY <1>1, <1>4 DEF IsDatabase
<1> QED  BY <1>3, <1>4, <1>5 DEF spend

\* Rebinding a root: three rows more.
LEMMA RebindFacts ==
    ASSUME NEW b, LedgerSound(b), ChainExists(b), NEW root, root.nonce \in Nat \ {0},
           NEW cmd \in Revisions \ {"0009", "0010", "0010a"},
           NEW c, c = Rebind(b, cmd, root)
    PROVE  Migrated(b, c, {root.nonce}) /\ c.rev = cmd
<1> DEFINE n == root.nonce
           more == {RootRow(n), NoSpendRow(n), Receipt(cmd, n, 0, NoSpendId(n))}
           a == AppendRoot(b, root)
<1>0. IsDatabase(b) /\ {r.nonce : r \in b.roots} = b.spend /\ Chained(b)
  BY DEF LedgerSound
<1>1. /\ IsDatabase(a) /\ a.rev = b.rev /\ a.chain = b.chain /\ a.resv = b.resv
      /\ a.ops = b.ops /\ a.spend = b.spend \cup {n}
      /\ {r.nonce : r \in a.roots} = a.spend
  BY <1>0, AppendFacts
<1>2. c = [rev |-> cmd, roots |-> a.roots, spend |-> a.spend, chain |-> b.chain \cup more,
           resv |-> b.resv, ops |-> b.ops]
  <2> HIDE DEF more, a
  <2>1. c = [a EXCEPT !.rev = cmd, !.chain = b.chain \cup more]
    BY <1>1 DEF Rebind, a, more
  <2> QED  BY <1>1, <2>1 DEF IsDatabase
<1>3. /\ c.rev = cmd /\ c.roots = a.roots /\ c.spend = b.spend \cup {n}
      /\ c.chain = b.chain \cup more /\ c.resv = b.resv /\ c.ops = b.ops
      /\ {r.nonce : r \in c.roots} = c.spend /\ IsDatabase(c)
  <2> HIDE DEF more, a
  <2>1. /\ c.rev = cmd /\ c.roots = a.roots /\ c.spend = a.spend /\ c.chain = b.chain \cup more
        /\ c.resv = b.resv /\ c.ops = b.ops
    BY <1>2
  <2> QED  BY <1>1, <1>2, <2>1 DEF IsDatabase
<1>4. /\ \A row \in more : /\ row.nonce = n /\ row.d = 0 /\ row.cmd # "0010a"
                           /\ row.cmd # "workflow-dispatch-claim"
      /\ \A row \in more : row.cmd # "review-root" => row.pred \in Ids(c.chain) /\ row.pred[2] = n
      /\ RootsOf(more) = {n} /\ SpendOf(more) = {n}
  <2>1. /\ RootRow(n).cmd = "review-root" /\ RootRow(n).nonce = n /\ RootRow(n).d = 0
        /\ Id(RootRow(n)) = <<"review-root", n, 0>>
        /\ NoSpendRow(n).cmd = "no-spend-preflight" /\ NoSpendRow(n).nonce = n
        /\ NoSpendRow(n).d = 0 /\ NoSpendRow(n).pred = <<"review-root", n, 0>>
        /\ Id(NoSpendRow(n)) = NoSpendId(n)
    BY ReceiptFacts DEF RootRow, NoSpendRow, NoSpendId
  <2>2. PICK x : x = Receipt(cmd, n, 0, NoSpendId(n))  OBVIOUS
  <2>3. x.cmd = cmd /\ x.nonce = n /\ x.d = 0 /\ x.pred = NoSpendId(n)
    BY <2>2, ReceiptFacts
  <2>4. more = {RootRow(n), NoSpendRow(n), x}  BY <2>2
  <2>5. cmd \notin {"0010a", "workflow-dispatch-claim", "review-root", "no-spend-preflight"}
    BY LadderFacts
  <2>6. <<"review-root", n, 0>> \in Ids(c.chain) /\ NoSpendId(n) \in Ids(c.chain)
    <3> HIDE DEF more
    <3>1. RootRow(n) \in c.chain /\ NoSpendRow(n) \in c.chain  BY <1>3, <2>4
    <3> QED  BY <2>1, <3>1, IdsFacts
  <2>7. NoSpendId(n)[2] = n /\ <<"review-root", n, 0>>[2] = n  BY DEF NoSpendId
  <2> HIDE DEF more
  <2>8. RootsOf(more) = {n} /\ SpendOf(more) = {n}
    BY <2>1, <2>3, <2>4, <2>5 DEF RootsOf, SpendOf
  <2> QED  BY <2>1, <2>3, <2>4, <2>5, <2>6, <2>7, <2>8
<1> HIDE DEF more, a
<1>15. /\ Ids(b.chain) \subseteq Ids(c.chain)
       /\ \A x \in Ids(c.chain) : x \in Ids(b.chain) \/ \E row \in more : x = Id(row)
  <2>1. Ids(c.chain) = Ids(b.chain) \cup Ids(more)  BY <1>3, IdsOfUnion
  <2> QED  BY <2>1, IdsFacts
<1>5. Linked(c.chain)
  <2> SUFFICES ASSUME NEW row \in c.chain, row.cmd # "review-root"
               PROVE  row.pred \in Ids(c.chain) /\ row.pred[2] = row.nonce
    BY DEF Linked
  <2>1. CASE row \in b.chain  BY <1>0, <1>15, <2>1 DEF Chained, Linked
  <2>2. CASE row \in more  BY <1>4, <2>2
  <2> QED  BY <1>3, <2>1, <2>2
<1>6. RootsOf(c.chain) = c.spend /\ SpendOf(c.chain) = c.spend
  <2>1. /\ RootsOf(b.chain \cup more) = RootsOf(b.chain) \cup RootsOf(more)
        /\ SpendOf(b.chain \cup more) = SpendOf(b.chain) \cup SpendOf(more)
    BY DEF RootsOf, SpendOf
  <2> QED  BY <1>0, <1>3, <1>4, <2>1 DEF Chained
<1>7. ASSUME NEW v \in b.resv
      PROVE  /\ ReserveId(v) \in Ids(c.chain) /\ v.pred \in Ids(c.chain)
             /\ v.d > 0 => (v.run # 0
                   <=> <<"workflow-dispatch-claim", v.nonce, v.d>> \in Ids(c.chain))
  <2>1. <<"workflow-dispatch-claim", v.nonce, v.d>> \in Ids(c.chain)
            <=> <<"workflow-dispatch-claim", v.nonce, v.d>> \in Ids(b.chain)
    <3>1. \A row \in more : Id(row) # <<"workflow-dispatch-claim", v.nonce, v.d>>
      BY <1>4 DEF Id
    <3> QED  BY <1>15, <3>1
  <2>2. ReserveId(v) \in Ids(b.chain) /\ v.pred \in Ids(b.chain)  BY <1>0 DEF Chained
  <2>3. v.d > 0 => (v.run # 0
            <=> <<"workflow-dispatch-claim", v.nonce, v.d>> \in Ids(b.chain))
    BY <1>0 DEF Chained
  <2> QED  BY <1>15, <2>1, <2>2, <2>3
<1>8. \A row \in c.chain :
          /\ row.d \in 0 .. MaxDispatches
          /\ row.d > 0 => \E v \in c.resv : v.d = row.d /\ v.nonce = row.nonce
          /\ row.cmd = "0010a" => \A v \in c.resv : v.d = 0 => v.nonce # row.nonce
  <2> SUFFICES ASSUME NEW row \in c.chain
               PROVE  /\ row.d \in 0 .. MaxDispatches
                      /\ row.d > 0 => \E v \in b.resv : v.d = row.d /\ v.nonce = row.nonce
                      /\ row.cmd = "0010a" => \A v \in b.resv : v.d = 0 => v.nonce # row.nonce
    BY <1>3
  <2>1. CASE row \in b.chain  BY <1>0, <2>1 DEF Chained
  <2>2. CASE row \in more  BY <1>4, <2>2, LedgerAssumption DEF LedgerAssumption
  <2>3. row \in b.chain \/ row \in more  BY <1>3
  <2> QED  BY <2>1, <2>2, <2>3
<1>16. \A o \in c.ops : \E v \in c.resv, row \in c.chain :
          v.d = o.d /\ row.d = o.d /\ row.cmd = o.cmd /\ row.nonce = v.nonce
  <2>1. \A o \in b.ops : \E v \in b.resv, row \in b.chain :
            v.d = o.d /\ row.d = o.d /\ row.cmd = o.cmd /\ row.nonce = v.nonce
    BY <1>0 DEF Chained
  <2>2. c.ops = b.ops /\ c.resv = b.resv /\ b.chain \subseteq c.chain  BY <1>3
  <2> QED  BY <2>1, <2>2
<1>9. Chained(c)
  <2>1. c.resv = b.resv  BY <1>3
  <2> QED  BY <1>5, <1>6, <1>7, <1>8, <1>16, <2>1 DEF Chained
<1>10. ReservationsSound(c) /\ OperationsSound(c)
  BY <1>3 DEF LedgerSound, ReservationsSound, OperationsSound, Bootstrapped, ReservationTable
<1>11. ChainExists(c) /\ c.rev \in Revisions
  BY <1>3, BoundaryFacts
<1>12. LedgerSound(c)  BY <1>3, <1>9, <1>10, <1>11 DEF LedgerSound
<1>13. Used(c) \subseteq Used(b) \cup {n}  BY <1>3, <1>4 DEF Used
<1>14. Kept(b, c)  BY <1>3 DEF Kept
<1> QED  BY <1>3, <1>12, <1>13, <1>14 DEF Migrated

\* Undoing a rebind: the rows of its nonce go, and no reservation rests on them.
LEMMA UnbindFacts ==
    ASSUME NEW b, LedgerSound(b), ChainExists(b), NEW n, Unreferenced(b, n),
           NEW to \in Revisions \ {"0009", "0010"}, NEW c, c = Unbind(b, n, to)
    PROVE  Migrated(b, c, {}) /\ c.rev = to
<1> DEFINE a == DropRoot(b, n)
           chain == {row \in b.chain : row.nonce # n}
<1>0. IsDatabase(b) /\ {r.nonce : r \in b.roots} = b.spend /\ Chained(b)
  BY DEF LedgerSound
<1>1. /\ IsDatabase(a) /\ a.rev = b.rev /\ a.chain = b.chain /\ a.resv = b.resv
      /\ a.ops = b.ops /\ a.spend = b.spend \ {n}
      /\ {r.nonce : r \in a.roots} = a.spend
  BY <1>0, DropFacts
<1>2. c = [rev |-> to, roots |-> a.roots, spend |-> a.spend, chain |-> chain,
           resv |-> b.resv, ops |-> b.ops]
  <2>1. {row \in a.chain : row.nonce # n} = chain  BY <1>1
  <2>2. c = [a EXCEPT !.rev = to, !.chain = {row \in a.chain : row.nonce # n}]
    BY DEF Unbind
  <2> HIDE DEF chain, a
  <2> QED  BY <1>1, <2>1, <2>2 DEF IsDatabase
<1> HIDE DEF a
<1>3. /\ c.rev = to /\ c.roots = a.roots /\ c.spend = b.spend \ {n}
      /\ c.chain = chain /\ c.resv = b.resv /\ c.ops = b.ops
      /\ {r.nonce : r \in c.roots} = c.spend /\ IsDatabase(c)
  <2> HIDE DEF chain
  <2>1. /\ c.rev = to /\ c.roots = a.roots /\ c.spend = a.spend /\ c.chain = chain
        /\ c.resv = b.resv /\ c.ops = b.ops
    BY <1>2
  <2> QED  BY <1>1, <1>2, <2>1 DEF IsDatabase
<1>4. \A x \in Ids(b.chain) : x[2] # n => x \in Ids(c.chain)
  <2> SUFFICES ASSUME NEW x \in Ids(b.chain), x[2] # n PROVE x \in Ids(c.chain)  OBVIOUS
  <2>1. PICK row \in b.chain : x = Id(row)  BY IdsFacts
  <2>2. x[2] = row.nonce  BY <2>1 DEF Id
  <2>3. row \in c.chain  BY <1>3, <2>2
  <2> QED  BY <2>1, <2>3, IdsFacts
<1>5. Ids(c.chain) \subseteq Ids(b.chain)
  <2>1. c.chain \subseteq b.chain  BY <1>3
  <2> QED  BY <2>1 DEF Ids
<1>6. \A v \in b.resv : v.nonce # n /\ v.pred[2] = v.nonce
  BY DEF Unreferenced, LedgerSound, ReservationsSound, ReservationTable
<1>7. Linked(c.chain)
  <2> SUFFICES ASSUME NEW row \in c.chain, row.cmd # "review-root"
               PROVE  row.pred \in Ids(c.chain) /\ row.pred[2] = row.nonce
    BY DEF Linked
  <2>1. row \in b.chain /\ row.nonce # n  BY <1>3
  <2>2. row.pred \in Ids(b.chain) /\ row.pred[2] = row.nonce
    BY <1>0, <2>1 DEF Chained, Linked
  <2> QED  BY <1>4, <2>1, <2>2
<1>8. RootsOf(c.chain) = c.spend /\ SpendOf(c.chain) = c.spend
  <2>1. RootsOf(chain) = RootsOf(b.chain) \ {n} /\ SpendOf(chain) = SpendOf(b.chain) \ {n}
    BY DEF RootsOf, SpendOf
  <2> HIDE DEF chain
  <2> QED  BY <1>0, <1>3, <2>1 DEF Chained
<1>9. ASSUME NEW v \in b.resv
      PROVE  /\ ReserveId(v) \in Ids(c.chain) /\ v.pred \in Ids(c.chain)
             /\ v.d > 0 => (v.run # 0
                   <=> <<"workflow-dispatch-claim", v.nonce, v.d>> \in Ids(c.chain))
  <2>1. /\ ReserveId(v) \in Ids(b.chain) /\ v.pred \in Ids(b.chain)
        /\ v.d > 0 => (v.run # 0
              <=> <<"workflow-dispatch-claim", v.nonce, v.d>> \in Ids(b.chain))
    BY <1>0 DEF Chained
  <2>2. ReserveId(v)[2] = v.nonce /\ <<"workflow-dispatch-claim", v.nonce, v.d>>[2] = v.nonce
    BY DEF ReserveId
  <2>3. v.nonce # n /\ v.pred[2] # n  BY <1>6
  <2>4. ReserveId(v) \in Ids(c.chain) /\ v.pred \in Ids(c.chain)
    BY <1>4, <2>1, <2>2, <2>3
  <2>5. <<"workflow-dispatch-claim", v.nonce, v.d>> \in Ids(b.chain)
           <=> <<"workflow-dispatch-claim", v.nonce, v.d>> \in Ids(c.chain)
    BY <1>4, <1>5, <2>2, <2>3
  <2> QED  BY <2>1, <2>4, <2>5
<1>10. ASSUME NEW row \in c.chain
       PROVE  /\ row.d \in 0 .. MaxDispatches
              /\ row.d > 0 => \E v \in b.resv : v.d = row.d /\ v.nonce = row.nonce
              /\ row.cmd = "0010a" => \A v \in b.resv : v.d = 0 => v.nonce # row.nonce
  <2>1. row \in b.chain  BY <1>3
  <2> QED  BY <1>0, <2>1 DEF Chained
<1>11. ASSUME NEW o \in b.ops
       PROVE  \E v \in b.resv, row \in c.chain :
                  v.d = o.d /\ row.d = o.d /\ row.cmd = o.cmd /\ row.nonce = v.nonce
  <2>1. PICK v \in b.resv, row \in b.chain :
                 v.d = o.d /\ row.d = o.d /\ row.cmd = o.cmd /\ row.nonce = v.nonce
    BY <1>0 DEF Chained
  <2>2. row \in c.chain  BY <1>3, <1>6, <2>1
  <2> QED  BY <2>1, <2>2
<1>12. Chained(c)
  <2>1. c.resv = b.resv /\ c.ops = b.ops  BY <1>3
  <2> QED  BY <1>7, <1>8, <1>9, <1>10, <1>11, <2>1 DEF Chained
<1>13. ReservationsSound(c) /\ OperationsSound(c)
  <2>1. c.resv = b.resv /\ c.ops = b.ops /\ c.spend = b.spend \ {n}  BY <1>3
  <2> QED  BY <1>6, <2>1 DEF LedgerSound, ReservationsSound, OperationsSound, Bootstrapped
<1>14. ChainExists(c) /\ c.rev \in Revisions  BY <1>3, BoundaryFacts
<1>15. LedgerSound(c)  BY <1>3, <1>12, <1>13, <1>14 DEF LedgerSound
<1>16. Used(c) \subseteq Used(b)  BY <1>3 DEF Used
<1>17. ASSUME NEW row \in b.chain, row.d > 0 PROVE row \in c.chain
  <2>1. \E v \in b.resv : v.nonce = row.nonce  BY <1>0, <1>17 DEF Chained
  <2> QED  BY <1>3, <1>6, <2>1
<1>18. Kept(b, c)  BY <1>3, <1>17 DEF Kept
<1> QED  BY <1>3, <1>15, <1>16, <1>18 DEF Migrated

\* 0011 and back changes the revision alone.
LEMMA RevFacts ==
    ASSUME NEW b, LedgerSound(b), ChainExists(b),
           NEW to \in Revisions \ {"0009", "0010"}, NEW c, c = [b EXCEPT !.rev = to]
    PROVE  Migrated(b, c, {}) /\ c.rev = to
<1>1. /\ IsDatabase(c) /\ c.rev = to /\ c.roots = b.roots /\ c.spend = b.spend
      /\ c.chain = b.chain /\ c.resv = b.resv /\ c.ops = b.ops
  <2>1. IsDatabase(b)  BY DEF LedgerSound
  <2>2. c = [rev |-> to, roots |-> b.roots, spend |-> b.spend, chain |-> b.chain,
             resv |-> b.resv, ops |-> b.ops]
    BY <2>1 DEF IsDatabase
  <2>3. /\ c.rev = to /\ c.roots = b.roots /\ c.spend = b.spend
        /\ c.chain = b.chain /\ c.resv = b.resv /\ c.ops = b.ops
    BY <2>2
  <2> QED  BY <2>2, <2>3 DEF IsDatabase
<1>2. ChainExists(c)  BY <1>1, BoundaryFacts
<1>3. Chained(c)  BY <1>1 DEF LedgerSound, Chained
<1>4. ReservationsSound(c) /\ OperationsSound(c)
  BY <1>1 DEF LedgerSound, ReservationsSound, OperationsSound, Bootstrapped
<1>5. LedgerSound(c)  BY <1>1, <1>2, <1>3, <1>4 DEF LedgerSound
<1>6. Used(c) = Used(b) /\ Kept(b, c)  BY <1>1 DEF Used, Kept
<1> QED  BY <1>1, <1>5, <1>6 DEF Migrated

\* The chain is dropped where only the bootstrap and its correction are in it.
LEMMA DropChainFacts ==
    ASSUME NEW b, LedgerSound(b), ChainExists(b), OldSchemaHolds(b), NEW n,
           \A v \in b.resv : v.d = 0 => v.nonce # n, NEW c, c = Downgrade0010a(b, n)
    PROVE  Migrated(b, c, {}) /\ c.rev = "0010"
<1> DEFINE a == DropRoot(b, n)
<1>0. IsDatabase(b) /\ {r.nonce : r \in b.roots} = b.spend /\ Chained(b)
  BY DEF LedgerSound
<1>1. /\ IsDatabase(a) /\ a.rev = b.rev /\ a.chain = b.chain /\ a.resv = b.resv
      /\ a.ops = b.ops /\ a.spend = b.spend \ {n}
      /\ {r.nonce : r \in a.roots} = a.spend
  BY <1>0, DropFacts
<1>2. c = [a EXCEPT !.rev = "0010", !.chain = {}]  BY DEF Downgrade0010a
<1> HIDE DEF a
<1>3. c = [rev |-> "0010", roots |-> a.roots, spend |-> a.spend, chain |-> {},
           resv |-> b.resv, ops |-> b.ops]
  BY <1>1, <1>2 DEF IsDatabase
<1>4. /\ c.rev = "0010" /\ c.roots = a.roots /\ c.spend = b.spend \ {n}
      /\ c.chain = {} /\ c.resv = b.resv /\ c.ops = b.ops
      /\ {r.nonce : r \in c.roots} = c.spend /\ IsDatabase(c)
  <2>1. /\ c.rev = "0010" /\ c.roots = a.roots /\ c.spend = a.spend
        /\ c.chain = {} /\ c.resv = b.resv /\ c.ops = b.ops
    BY <1>3
  <2> QED  BY <1>1, <1>3, <2>1 DEF IsDatabase
<1>5. \A v \in b.resv : v.d = 0 /\ v.nonce # n  BY DEF OldSchemaHolds
<1>6. ReservationsSound(c) /\ OperationsSound(c)
  BY <1>4, <1>5 DEF LedgerSound, ReservationsSound, OperationsSound, Bootstrapped
<1>7. c.rev \in Revisions /\ ~ChainExists(c)  BY <1>4, LadderFacts, BoundaryFacts
<1>8. Unchained(c)
  <2>1. c.rev # "0009"  BY <1>4
  <2> QED  BY <1>4, <1>5, <2>1 DEF Unchained
<1>9. LedgerSound(c)  BY <1>4, <1>6, <1>7, <1>8 DEF LedgerSound
<1>10. Used(c) \subseteq Used(b)  BY <1>4 DEF Used
<1>11. \A row \in b.chain : ~(row.d > 0)
  <2> SUFFICES ASSUME NEW row \in b.chain, row.d > 0 PROVE FALSE  OBVIOUS
  <2>1. PICK v \in b.resv : v.d = row.d  BY <1>0 DEF Chained
  <2>2. v.d = 0  BY <1>5
  <2> QED  BY <2>1, <2>2
<1>12. Kept(b, c)  BY <1>4, <1>11 DEF Kept
<1> QED  BY <1>4, <1>9, <1>10, <1>12 DEF Migrated

\* Without the tables there is nothing to keep.
LEMMA EmptyFacts ==
    /\ LedgerSound(Empty) /\ Used(Empty) = {} /\ Empty.rev = "0009"
    /\ \A b : b.rev = "0009" /\ LedgerSound(b) => b = Empty
<1>1. /\ Empty.rev = "0009" /\ Empty.roots = {} /\ Empty.spend = {} /\ Empty.chain = {}
      /\ Empty.resv = {} /\ Empty.ops = {} /\ IsDatabase(Empty)
  BY DEF Empty, IsDatabase
<1>2. Empty.rev \in Revisions /\ ~ChainExists(Empty)  BY <1>1, LadderFacts, BoundaryFacts
<1>3. Unchained(Empty)  BY <1>1 DEF Unchained
<1>4. ReservationsSound(Empty) /\ OperationsSound(Empty)
  BY <1>1 DEF ReservationsSound, OperationsSound, ReservationTable
<1>5. LedgerSound(Empty)
  <2>1. {r.nonce : r \in Empty.roots} = Empty.spend  BY <1>1
  <2> QED  BY <1>1, <1>2, <1>3, <1>4, <2>1 DEF LedgerSound
<1>6. Used(Empty) = {}  BY <1>1 DEF Used
<1>7. ASSUME NEW b, b.rev = "0009", LedgerSound(b) PROVE b = Empty
  <2>1. ~ChainExists(b)  BY <1>7, BoundaryFacts DEF LedgerSound
  <2> QED  BY <1>7, <2>1 DEF LedgerSound, Unchained
<1> QED  BY <1>1, <1>5, <1>6, <1>7

\* The downgrade to nothing leaves an empty, sound database.
LEMMA DropTablesFacts ==
    ASSUME NEW b, LedgerSound(b), b.rev = "0010"
    PROVE  Migrated(b, Empty, {})
<1>1. ~ChainExists(b)  BY BoundaryFacts DEF LedgerSound
<1>2. b.chain = {} /\ \A v \in b.resv : v.d = 0  BY <1>1 DEF LedgerSound, Unchained
<1>3. \A o \in b.ops : o.d = 0
  BY <1>2 DEF LedgerSound, OperationsSound, ReceiptMatches
<1>4. Kept(b, Empty)  BY <1>2, <1>3 DEF Kept
<1> QED  BY <1>1, <1>4, EmptyFacts DEF Migrated

\* The tables are made, empty or with the receipts of the bootstrap.
LEMMA BootstrapFacts ==
    ASSUME NEW b, LedgerSound(b), b.rev = "0009", NEW root, root.nonce \in Nat,
           NEW c, c = Upgrade0010(b, root)
    PROVE  Migrated(b, c, {root.nonce} \ {0}) /\ c.rev = "0010"
<1> DEFINE n == root.nonce
<1>1. b = Empty  BY EmptyFacts
<1>2. PICK m : m = [rev |-> "0010", roots |-> {}, spend |-> {}, chain |-> {},
                    resv |-> {}, ops |-> {}]
  OBVIOUS
<1>3. [b EXCEPT !.rev = "0010"] = m
  <2>1. [Empty EXCEPT !.rev = "0010"] = [rev |-> "0010", roots |-> {}, spend |-> {},
                                         chain |-> {}, resv |-> {}, ops |-> {}]
    BY DEF Empty
  <2> QED  BY <1>1, <1>2, <2>1
<1>4. c = IF n = 0 THEN m ELSE Bootstrap(m, root)  BY <1>3 DEF Upgrade0010
<1>5. /\ m.rev = "0010" /\ m.roots = {} /\ m.spend = {} /\ m.chain = {}
      /\ m.resv = {} /\ m.ops = {} /\ IsDatabase(m)
  BY <1>2 DEF IsDatabase
<1>6. Kept(b, c) /\ ~ChainExists(b)
  BY <1>1, EmptyFacts, BoundaryFacts DEF Kept, Empty, LedgerSound
<1>7. CASE n = 0
  <2>1. c = m  BY <1>4, <1>7
  <2>2. c.rev \in Revisions /\ ~ChainExists(c)  BY <2>1, <1>5, LadderFacts, BoundaryFacts
  <2>3. Unchained(c)
    <3>1. c.rev # "0009"  BY <2>1, <1>5
    <3> QED  BY <2>1, <1>5, <3>1 DEF Unchained
  <2>4. ReservationsSound(c) /\ OperationsSound(c)
    BY <2>1, <1>5 DEF ReservationsSound, OperationsSound, ReservationTable
  <2>5. {r.nonce : r \in c.roots} = c.spend  BY <2>1, <1>5
  <2>6. LedgerSound(c)  BY <2>1, <1>5, <2>2, <2>3, <2>4, <2>5 DEF LedgerSound
  <2>7. Used(c) = {}  BY <2>1, <1>5 DEF Used
  <2> QED  BY <2>1, <1>5, <1>6, <2>6, <2>7 DEF Migrated
<1>8. CASE n # 0
  <2>1. PICK v : v = [d |-> 0, nonce |-> n, pred |-> NoSpendId(n), title |-> <<"upgrade", "0010">>,
                      run |-> MaxRuns + 1]
    OBVIOUS
  <2>2. PICK o : o = [d |-> 0, run |-> MaxRuns + 1, cmd |-> "migrate-0010-bootstrap",
                      rev |-> "0010"]
    OBVIOUS
  <2>3. [Reservation(0, n, NoSpendId(n), <<"upgrade", "0010">>) EXCEPT !.run = MaxRuns + 1] = v
    BY <2>1 DEF Reservation
  <2>4. Operation(0, MaxRuns + 1, "migrate-0010-bootstrap", "0010") = o  BY <2>2 DEF Operation
  <2> DEFINE a == AppendRoot(m, root)
  <2>6. {r.nonce : r \in m.roots} = m.spend  BY <1>5
  <2>7. /\ IsDatabase(a) /\ a.rev = "0010" /\ a.chain = {} /\ a.spend = {n}
        /\ {r.nonce : r \in a.roots} = a.spend
    <3>0. IsDatabase(m)  BY <1>5
    <3>1. /\ IsDatabase(a) /\ a.rev = m.rev /\ a.chain = m.chain
          /\ a.spend = m.spend \cup {n} /\ {r.nonce : r \in a.roots} = a.spend
      BY <2>6, <3>0, AppendFacts
    <3>2. m.spend \cup {n} = {n}  BY <1>5
    <3> QED  BY <1>5, <3>1, <3>2
  <2>8. c = [a EXCEPT !.resv = {v}, !.ops = {o}]
    BY <1>4, <1>8, <2>3, <2>4 DEF Bootstrap
  <2> HIDE DEF a
  <2>9. c = [rev |-> "0010", roots |-> a.roots, spend |-> {n}, chain |-> {}, resv |-> {v},
             ops |-> {o}]
    BY <2>7, <2>8 DEF IsDatabase
  <2>10. /\ c.rev = "0010" /\ c.roots = a.roots /\ c.spend = {n} /\ c.chain = {}
         /\ c.resv = {v} /\ c.ops = {o}
    BY <2>9
  <2>11. IsDatabase(c)  BY <2>9, <2>10 DEF IsDatabase
  <2>12. c.rev \in Revisions /\ ~ChainExists(c)  BY <2>10, LadderFacts, BoundaryFacts
  <2>13. /\ v.d = 0 /\ v.nonce = n /\ v.pred = NoSpendId(n) /\ v.run = MaxRuns + 1
         /\ IsReservation(v)
    BY <2>1 DEF IsReservation
  <2>14. o.d = 0 /\ o.run = MaxRuns + 1 /\ o.cmd = "migrate-0010-bootstrap"  BY <2>2
  <2>15. MaxRuns \in Nat /\ MaxDispatches \in Nat  BY LedgerAssumption DEF LedgerAssumption
  <2>16. Unchained(c)
    <3>1. c.rev # "0009"  BY <2>10
    <3> QED  BY <2>10, <2>13, <3>1 DEF Unchained
  <2>17. ReservationsSound(c)
    <3>1. v.pred[2] = n  BY <2>13 DEF NoSpendId
    <3>2. ReservationTable({v})  BY <2>13, <2>15, <3>1 DEF ReservationTable
    <3>3. Bootstrapped(v, c)  BY <2>10, <2>13, <2>15 DEF Bootstrapped
    <3> QED  BY <2>10, <2>13, <3>2, <3>3 DEF ReservationsSound
  <2>18. OperationsSound(c)
    BY <2>10, <2>13, <2>14, <2>15 DEF OperationsSound, ReceiptMatches, TerminalCommands
  <2>19. {r.nonce : r \in c.roots} = c.spend  BY <2>7, <2>10
  <2>20. LedgerSound(c)
    BY <2>11, <2>12, <2>16, <2>17, <2>18, <2>19 DEF LedgerSound
  <2>21. Used(c) = {n}  BY <2>10, <2>13 DEF Used
  <2> QED  BY <1>6, <1>8, <2>10, <2>20, <2>21 DEF Migrated
<1> QED  BY <1>7, <1>8

\* The chain is built from the tables.
LEMMA BuildChainFacts ==
    ASSUME NEW b, LedgerSound(b), b.rev = "0010", NEW root, root.nonce \in Nat \ {0},
           root.nonce \notin Used(b), NEW c, c = Upgrade0010a(b, root)
    PROVE  Migrated(b, c, {root.nonce}) /\ c.rev = "0010a"
<1> DEFINE n == root.nonce
           a == AppendRoot(b, root)
           rootRows == {RootRow(r.nonce) : r \in a.roots}
           spendRows == {NoSpendRow(m) : m \in a.spend}
           resvRows == {Receipt("migration-reservation", v.nonce, v.d, v.pred) : v \in b.resv}
           done == {y \in b.ops \X b.resv : y[1].d = y[2].d}
           opRows == {Receipt(x[1].cmd, x[2].nonce, x[1].d, ReserveId(x[2])) : x \in done}
           last == Receipt("0010a", n, 0, NoSpendId(n))
           chain == (rootRows \cup spendRows \cup resvRows \cup opRows) \cup {last}
<1>0. IsDatabase(b) /\ {r.nonce : r \in b.roots} = b.spend /\ ~ChainExists(b) /\ Unchained(b)
  BY BoundaryFacts DEF LedgerSound
<1>1. /\ IsDatabase(a) /\ a.chain = b.chain /\ a.resv = b.resv
      /\ a.ops = b.ops /\ a.spend = b.spend \cup {n}
      /\ {r.nonce : r \in a.roots} = a.spend
  BY <1>0, AppendFacts
<1>2. FromLedger(a) = rootRows \cup spendRows \cup resvRows \cup opRows
  BY <1>1, Zenon DEF FromLedger
<1>3. c = [a EXCEPT !.rev = "0010a", !.chain = chain]  BY <1>2 DEF Upgrade0010a
<1> HIDE DEF a, rootRows, spendRows, resvRows, opRows, last
<1>4. c = [rev |-> "0010a", roots |-> a.roots, spend |-> a.spend, chain |-> chain,
           resv |-> b.resv, ops |-> b.ops]
  <2> HIDE DEF chain
  <2> QED  BY <1>1, <1>3 DEF IsDatabase
<1>5. /\ c.rev = "0010a" /\ c.roots = a.roots /\ c.spend = b.spend \cup {n}
      /\ c.chain = chain /\ c.resv = b.resv /\ c.ops = b.ops
      /\ {r.nonce : r \in c.roots} = c.spend /\ IsDatabase(c)
  <2> HIDE DEF chain
  <2>1. /\ c.rev = "0010a" /\ c.roots = a.roots /\ c.spend = a.spend /\ c.chain = chain
        /\ c.resv = b.resv /\ c.ops = b.ops
    BY <1>4
  <2> QED  BY <1>1, <1>4, <2>1 DEF IsDatabase
<1>6. \A v \in b.resv : v.d = 0 /\ Bootstrapped(v, b) /\ v.nonce # n
  BY <1>0 DEF Unchained, LedgerSound, ReservationsSound, Used
<1>7. \A row \in rootRows : /\ row.cmd = "review-root" /\ row.nonce \in c.spend /\ row.d = 0
  <2>1. \A m : /\ RootRow(m).cmd = "review-root" /\ RootRow(m).nonce = m /\ RootRow(m).d = 0
    BY ReceiptFacts DEF RootRow
  <2> QED  BY <1>5, <2>1 DEF rootRows
<1>8. \A m \in c.spend : /\ RootRow(m) \in rootRows /\ RootRow(m).nonce = m
                         /\ Id(RootRow(m)) = <<"review-root", m, 0>>
                         /\ NoSpendRow(m) \in spendRows /\ NoSpendRow(m).nonce = m
                         /\ Id(NoSpendRow(m)) = NoSpendId(m)
  <2> SUFFICES ASSUME NEW m \in c.spend
               PROVE  /\ RootRow(m) \in rootRows /\ RootRow(m).nonce = m
                      /\ Id(RootRow(m)) = <<"review-root", m, 0>>
                      /\ NoSpendRow(m) \in spendRows /\ NoSpendRow(m).nonce = m
                      /\ Id(NoSpendRow(m)) = NoSpendId(m)
    OBVIOUS
  <2>1. /\ RootRow(m).nonce = m /\ Id(RootRow(m)) = <<"review-root", m, 0>>
        /\ NoSpendRow(m).nonce = m /\ Id(NoSpendRow(m)) = NoSpendId(m)
    BY ReceiptFacts DEF RootRow, NoSpendRow, NoSpendId
  <2>2. m \in a.spend  BY <1>1, <1>5
  <2>3. PICK r \in a.roots : r.nonce = m  BY <1>1, <2>2
  <2>4. RootRow(m) \in rootRows  BY <2>3 DEF rootRows
  <2>5. NoSpendRow(m) \in spendRows  BY <2>2 DEF spendRows
  <2> QED  BY <2>1, <2>4, <2>5
<1>9. \A row \in spendRows :
          /\ row.cmd = "no-spend-preflight" /\ row.nonce \in c.spend /\ row.d = 0
          /\ row.pred = <<"review-root", row.nonce, 0>>
  <2>1. \A m : /\ NoSpendRow(m).cmd = "no-spend-preflight" /\ NoSpendRow(m).nonce = m
               /\ NoSpendRow(m).d = 0 /\ NoSpendRow(m).pred = <<"review-root", m, 0>>
    BY ReceiptFacts DEF NoSpendRow
  <2>2. c.spend = a.spend  BY <1>1, <1>5
  <2> QED  BY <2>1, <2>2 DEF spendRows
<1>10. \A row \in resvRows : \E v \in b.resv :
          /\ row.cmd = "migration-reservation" /\ row.nonce = v.nonce /\ row.d = v.d
          /\ row.pred = v.pred
  BY ReceiptFacts DEF resvRows
<1>11. \A row \in opRows : \E o \in b.ops, v \in b.resv :
          /\ row.cmd = o.cmd /\ row.nonce = v.nonce /\ row.d = o.d /\ o.d = v.d
          /\ row.pred = ReserveId(v)
  <2> SUFFICES ASSUME NEW row \in opRows
               PROVE  \E o \in b.ops, v \in b.resv :
                        /\ row.cmd = o.cmd /\ row.nonce = v.nonce /\ row.d = o.d /\ o.d = v.d
                        /\ row.pred = ReserveId(v)
    OBVIOUS
  <2>1. PICK x \in done : row = Receipt(x[1].cmd, x[2].nonce, x[1].d, ReserveId(x[2]))
    BY DEF opRows
  <2>2. x[1] \in b.ops /\ x[2] \in b.resv /\ x[1].d = x[2].d  OBVIOUS
  <2>3. /\ row.cmd = x[1].cmd /\ row.nonce = x[2].nonce /\ row.d = x[1].d
        /\ row.pred = ReserveId(x[2])
    BY <2>1, ReceiptFacts
  <2> QED  BY <2>2, <2>3
<1>12. last.cmd = "0010a" /\ last.nonce = n /\ last.d = 0 /\ last.pred = NoSpendId(n)
  BY ReceiptFacts DEF last
<1>13. \A row \in chain : \/ row \in rootRows \/ row \in spendRows \/ row \in resvRows
                          \/ row \in opRows \/ row = last
  OBVIOUS
<1>14. /\ rootRows \subseteq chain /\ spendRows \subseteq chain /\ resvRows \subseteq chain
       /\ opRows \subseteq chain /\ last \in chain
  OBVIOUS
<1> HIDE DEF chain
<1>15. \A v \in b.resv : v.nonce \in c.spend /\ v.pred = NoSpendId(v.nonce)
                         /\ v.pred[2] = v.nonce
  BY <1>5, <1>6 DEF Bootstrapped, NoSpendId
<1>16. \A m \in c.spend : /\ <<"review-root", m, 0>> \in Ids(c.chain)
                          /\ NoSpendId(m) \in Ids(c.chain)
  BY <1>5, <1>8, <1>14, IdsFacts
<1>17. \A v \in b.resv : ReserveId(v) \in Ids(c.chain) /\ ReserveId(v)[2] = v.nonce
  <2> SUFFICES ASSUME NEW v \in b.resv
               PROVE  ReserveId(v) \in Ids(c.chain) /\ ReserveId(v)[2] = v.nonce
    OBVIOUS
  <2>1. PICK row : row = Receipt("migration-reservation", v.nonce, v.d, v.pred)  OBVIOUS
  <2>2. row \in c.chain  BY <1>5, <1>14, <2>1 DEF resvRows
  <2>3. Id(row) = <<"migration-reservation", v.nonce, v.d>>  BY <2>1, ReceiptFacts
  <2>4. ReserveId(v) = Id(row)  BY <1>6, <2>3 DEF ReserveId
  <2> QED  BY <2>2, <2>3, <2>4, IdsFacts
<1>18. Linked(c.chain)
  <2> SUFFICES ASSUME NEW row \in c.chain, row.cmd # "review-root"
               PROVE  row.pred \in Ids(c.chain) /\ row.pred[2] = row.nonce
    BY DEF Linked
  <2>1. CASE row \in rootRows  BY <1>7, <2>1
  <2>2. CASE row \in spendRows
    <3>1. row.nonce \in c.spend /\ row.pred = <<"review-root", row.nonce, 0>>  BY <1>9, <2>2
    <3>2. row.pred[2] = row.nonce  BY <3>1
    <3> QED  BY <1>16, <3>1, <3>2
  <2>3. CASE row \in resvRows
    <3>1. PICK v \in b.resv : row.nonce = v.nonce /\ row.pred = v.pred  BY <1>10, <2>3
    <3> QED  BY <1>15, <1>16, <3>1
  <2>4. CASE row \in opRows
    <3>1. PICK v \in b.resv : row.nonce = v.nonce /\ row.pred = ReserveId(v)  BY <1>11, <2>4
    <3> QED  BY <1>17, <3>1
  <2>5. CASE row = last
    <3>1. n \in c.spend /\ NoSpendId(n)[2] = n  BY <1>5 DEF NoSpendId
    <3> QED  BY <1>12, <1>16, <2>5, <3>1
  <2> QED  BY <1>5, <1>13, <2>1, <2>2, <2>3, <2>4, <2>5
<1>19. \A o \in b.ops : o.cmd \notin {"review-root", "no-spend-preflight", "0010a",
                                      "workflow-dispatch-claim"}
  BY DEF LedgerSound, OperationsSound, TerminalCommands, AllowedCommands
<1>20. /\ \A row \in chain : row.cmd = "review-root" => row \in rootRows
       /\ \A row \in chain : row.cmd = "no-spend-preflight" => row \in spendRows
       /\ \A row \in chain : row.cmd = "0010a" => row = last
  <2> SUFFICES ASSUME NEW row \in chain
               PROVE  /\ row.cmd = "review-root" => row \in rootRows
                      /\ row.cmd = "no-spend-preflight" => row \in spendRows
                      /\ row.cmd = "0010a" => row = last
    OBVIOUS
  <2>1. CASE row \in rootRows  BY <1>7, <2>1
  <2>2. CASE row \in spendRows  BY <1>9, <2>2
  <2>3. CASE row \in resvRows  BY <1>10, <2>3
  <2>4. CASE row \in opRows
    <3>1. PICK o \in b.ops : row.cmd = o.cmd  BY <1>11, <2>4
    <3> QED  BY <1>19, <3>1
  <2>5. CASE row = last  BY <1>12, <2>5
  <2> QED  BY <1>13, <2>1, <2>2, <2>3, <2>4, <2>5
<1>21. RootsOf(c.chain) = c.spend /\ SpendOf(c.chain) = c.spend
  <2>1. \A m \in c.spend : m \in RootsOf(chain) /\ m \in SpendOf(chain)
    BY <1>7, <1>8, <1>9, <1>14 DEF RootsOf, SpendOf
  <2>2. \A m \in RootsOf(chain) : m \in c.spend  BY <1>7, <1>20 DEF RootsOf
  <2>3. \A m \in SpendOf(chain) : m \in c.spend  BY <1>9, <1>20 DEF SpendOf
  <2> QED  BY <1>5, <2>1, <2>2, <2>3
<1>22. \A row \in chain : row.d = 0
  <2> SUFFICES ASSUME NEW row \in chain PROVE row.d = 0  OBVIOUS
  <2>1. CASE row \in resvRows  BY <1>6, <1>10, <2>1
  <2>2. CASE row \in opRows  BY <1>6, <1>11, <2>2
  <2> QED  BY <1>7, <1>9, <1>12, <1>13, <2>1, <2>2
<1>23. ASSUME NEW o \in b.ops
       PROVE  \E v \in b.resv, row \in c.chain :
                  v.d = o.d /\ row.d = o.d /\ row.cmd = o.cmd /\ row.nonce = v.nonce
  <2>1. PICK v \in b.resv : v.d = o.d
    BY <1>23 DEF LedgerSound, OperationsSound, ReceiptMatches
  <2>2. PICK x : x = <<o, v>>  OBVIOUS
  <2>3. x \in done /\ x[1] = o /\ x[2] = v  BY <2>1, <2>2
  <2>4. PICK row : row = Receipt(o.cmd, v.nonce, o.d, ReserveId(v))  OBVIOUS
  <2>5. row = Receipt(x[1].cmd, x[2].nonce, x[1].d, ReserveId(x[2]))  BY <2>3, <2>4
  <2>6. row \in opRows  BY <2>3, <2>5 DEF opRows
  <2>7. row.d = o.d /\ row.cmd = o.cmd /\ row.nonce = v.nonce  BY <2>4, ReceiptFacts
  <2> QED  BY <1>5, <1>14, <2>1, <2>6, <2>7
<1>24. Chained(c)
  <2>1. c.resv = b.resv /\ c.ops = b.ops /\ c.chain = chain  BY <1>5
  <2>2. \A row \in c.chain :
          /\ row.d \in 0 .. MaxDispatches
          /\ ~(row.d > 0)
          /\ row.cmd = "0010a" => \A v \in c.resv : v.d = 0 => v.nonce # row.nonce
    BY <1>6, <1>12, <1>20, <1>22, <2>1, LedgerAssumption DEF LedgerAssumption
  <2>3. \A v \in b.resv : /\ ReserveId(v) \in Ids(c.chain) /\ v.pred \in Ids(c.chain)
                          /\ ~(v.d > 0)
    <3> SUFFICES ASSUME NEW v \in b.resv
                 PROVE  ReserveId(v) \in Ids(c.chain) /\ v.pred \in Ids(c.chain) /\ ~(v.d > 0)
      OBVIOUS
    <3>1. v.d = 0  BY <1>6
    <3>2. v.pred \in Ids(c.chain)  BY <1>15, <1>16
    <3>3. ReserveId(v) \in Ids(c.chain)  BY <1>17
    <3> QED  BY <3>1, <3>2, <3>3
  <2> QED  BY <1>18, <1>21, <1>23, <2>1, <2>2, <2>3 DEF Chained
<1>25. ReservationsSound(c) /\ OperationsSound(c)
  BY <1>5 DEF LedgerSound, ReservationsSound, OperationsSound, Bootstrapped
<1>26. ChainExists(c) /\ c.rev \in Revisions  BY <1>5, LadderFacts, BoundaryFacts
<1>27. LedgerSound(c)  BY <1>5, <1>24, <1>25, <1>26 DEF LedgerSound
<1>28. Used(c) \subseteq Used(b) \cup {n}
  <2>1. \A row \in c.chain : row.nonce \in c.spend
    <3> SUFFICES ASSUME NEW row \in chain PROVE row.nonce \in c.spend  BY <1>5
    <3>1. CASE row \in resvRows  BY <1>10, <1>15, <3>1
    <3>2. CASE row \in opRows  BY <1>11, <1>15, <3>2
    <3>3. n \in c.spend  BY <1>5
    <3> QED  BY <1>7, <1>9, <1>12, <1>13, <3>1, <3>2, <3>3
  <2> QED  BY <1>5, <2>1 DEF Used
<1>29. Kept(b, c)  BY <1>0, <1>5 DEF Kept, Unchained
<1> QED  BY <1>0, <1>5, <1>27, <1>28, <1>29 DEF Migrated

\* One upgrade step, whichever revision it leads to.
Reached(root) == {root.nonce} \ {0}

\* An upgrade by one revision keeps the ledger sound and mints at most its root.
LEMMA UpgradeFacts ==
    ASSUME NEW b, LedgerSound(b), NEW to \in Revisions, Level(b.rev) = Level(to) - 1,
           NEW root, root.nonce \in Nat, to \notin {"0010", "0011"} => root.nonce # 0,
           root.nonce # 0 => root.nonce \notin Used(b)
    PROVE  Migrated(b, Upgraded(b, to, root), Reached(root)) /\ Upgraded(b, to, root).rev = to
<1> DEFINE c == Upgraded(b, to, root)
<1>0. b.rev \in Revisions /\ Level(b.rev) \in 1 .. 11  BY BoundaryFacts DEF LedgerSound
<1>1. to # "0009"  BY <1>0, LadderFacts
<1>2. CASE to = "0010"
  <2>1. c = Upgrade0010(b, root)  BY <1>2 DEF Upgraded
  <2>2. b.rev = "0009"  BY <1>0, <1>2, LadderFacts
  <2> QED  BY <1>2, <2>1, <2>2, BootstrapFacts DEF Reached
<1>3. CASE to = "0010a"
  <2>1. c = Upgrade0010a(b, root)  BY <1>3 DEF Upgraded
  <2>2. b.rev = "0010"  BY <1>0, <1>3, LadderFacts
  <2>3. root.nonce \in Nat \ {0} /\ Reached(root) = {root.nonce}  BY <1>3 DEF Reached
  <2> QED  BY <1>3, <2>1, <2>2, <2>3, BuildChainFacts
<1>4. CASE to = "0011"
  <2>1. c = [b EXCEPT !.rev = to]  BY <1>4 DEF Upgraded, Upgrade0011
  <2>2. b.rev = "0010h"  BY <1>0, <1>4, LadderFacts
  <2>3. ChainExists(b)  BY <1>0, <2>2, BoundaryFacts
  <2>4. Migrated(b, c, {}) /\ c.rev = to  BY <1>4, <2>1, <2>3, RevFacts
  <2> QED  BY <2>4 DEF Migrated
<1>5. CASE to \notin {"0010", "0010a", "0011"}
  <2>0. to \in {"0010b", "0010c", "0010d", "0010e", "0010f", "0010g", "0010h"}
    BY <1>1, <1>5, LadderFacts
  <2>1. c = Rebind(b, to, root)
    BY <2>0 DEF Upgraded, Upgrade0010b, Upgrade0010c, Upgrade0010d, Upgrade0010e,
                Upgrade0010f, Upgrade0010g, Upgrade0010h
  <2>2. b.rev \notin {"0009", "0010"}  BY <1>0, <2>0, LadderFacts
  <2>3. ChainExists(b)  BY <1>0, <2>2, BoundaryFacts
  <2>4. root.nonce \in Nat \ {0} /\ Reached(root) = {root.nonce}  BY <1>5 DEF Reached
  <2>5. to \in Revisions \ {"0009", "0010", "0010a"}  BY <1>1, <1>5
  <2> QED  BY <2>1, <2>3, <2>4, <2>5, RebindFacts
<1> QED  BY <1>2, <1>3, <1>4, <1>5

\* One downgrade step, from whichever revision the database is at.
LEMMA DowngradeFacts ==
    ASSUME NEW b, LedgerSound(b), b.rev # "0009", NEW n, Deletable(b, n),
           b.rev = "0010a" => \A v \in b.resv : v.d = 0 => v.nonce # n
    PROVE  /\ Migrated(b, Downgraded(b, n), {})
           /\ Level(Downgraded(b, n).rev) = Level(b.rev) - 1
           /\ Downgraded(b, n).rev \in Revisions
<1> DEFINE c == Downgraded(b, n)
<1>0. b.rev \in Revisions  BY DEF LedgerSound
<1>1. CASE b.rev = "0010"
  <2>1. c = Empty  BY <1>1 DEF Downgraded, Downgrade0010
  <2> QED  BY <1>1, <2>1, DropTablesFacts, EmptyFacts, LadderFacts
<1>2. CASE b.rev = "0010a"
  <2>1. c = Downgrade0010a(b, n)  BY <1>2 DEF Downgraded
  <2>2. OldSchemaHolds(b)  BY <1>2 DEF Deletable
  <2>3. ChainExists(b)  BY <1>0, <1>2, BoundaryFacts
  <2>4. Migrated(b, c, {}) /\ c.rev = "0010"  BY <1>2, <2>1, <2>2, <2>3, DropChainFacts
  <2> QED  BY <1>2, <2>4, LadderFacts
<1>3. CASE b.rev = "0011"
  <2>1. c = [b EXCEPT !.rev = "0010h"]  BY <1>3 DEF Downgraded, Downgrade0011
  <2>2. ChainExists(b)  BY <1>0, <1>3, BoundaryFacts
  <2>3. "0010h" \in Revisions \ {"0009", "0010"}  BY LadderFacts
  <2>4. Migrated(b, c, {}) /\ c.rev = "0010h"  BY <2>1, <2>2, <2>3, RevFacts
  <2> QED  BY <1>3, <2>4, LadderFacts
<1>4. CASE b.rev \notin {"0010", "0010a", "0011"}
  <2>0. b.rev \in {"0010b", "0010c", "0010d", "0010e", "0010f", "0010g", "0010h"}
    BY <1>0, <1>4, LadderFacts
  <2>1. PICK to \in Revisions \ {"0009", "0010"} :
             c = Unbind(b, n, to) /\ Level(to) = Level(b.rev) - 1
    <3>1. CASE b.rev = "0010b"  BY <3>1, LadderFacts DEF Downgraded, Downgrade0010b
    <3>2. CASE b.rev = "0010c"  BY <3>2, LadderFacts DEF Downgraded, Downgrade0010c
    <3>3. CASE b.rev = "0010d"  BY <3>3, LadderFacts DEF Downgraded, Downgrade0010d
    <3>4. CASE b.rev = "0010e"  BY <3>4, LadderFacts DEF Downgraded, Downgrade0010e
    <3>5. CASE b.rev = "0010f"  BY <3>5, LadderFacts DEF Downgraded, Downgrade0010f
    <3>6. CASE b.rev = "0010g"  BY <3>6, LadderFacts DEF Downgraded, Downgrade0010g
    <3>7. CASE b.rev = "0010h"  BY <3>7, LadderFacts DEF Downgraded, Downgrade0010h
    <3> QED  BY <2>0, <3>1, <3>2, <3>3, <3>4, <3>5, <3>6, <3>7
  <2>2. Unreferenced(b, n)  BY <1>4 DEF Deletable
  <2>3. ChainExists(b)  BY <1>0, <2>0, BoundaryFacts
  <2>4. Migrated(b, c, {}) /\ c.rev = to  BY <2>1, <2>2, <2>3, UnbindFacts
  <2> QED  BY <2>1, <2>4
<1> QED  BY <1>1, <1>2, <1>3, <1>4

\* A path of migrations is a migration.
LEMMA MigratedTrans ==
    ASSUME NEW a, NEW b, NEW c, NEW x, Migrated(a, b, x), Migrated(b, c, x), ChainExists(b)
    PROVE  Migrated(a, c, x)
<1>1. Kept(a, c)  BY DEF Migrated, Kept
<1>2. Used(c) \subseteq Used(a) \cup x  BY DEF Migrated
<1> QED  BY <1>1, <1>2 DEF Migrated

\* What a begun process does when it commits; it leaves the chain only from 0010a.
LEMMA PathFacts ==
    ASSUME NEW b, LedgerSound(b), NEW op \in {"upgrade", "downgrade"}, NEW to \in Revisions,
           NEW root, root.nonce \in Nat, NEW n, ConstraintsHold(b, op, to, n),
           op = "upgrade" =>
              /\ Level(b.rev) = Level(to) - 1
              /\ to \notin {"0010", "0011"} => root.nonce # 0
              /\ root.nonce # 0 => root.nonce \notin Used(b),
           op = "downgrade" =>
              /\ Level(b.rev) > Level(to)
              /\ Level(b.rev) > Level(to) + 1 => b.rev = "0011" /\ to = "0010g"
              /\ b.rev = "0010a" => \A v \in b.resv : v.d = 0 => v.nonce # n
    PROVE  /\ Migrated(b, Path(b, op, to, root, n), Reached(root))
           /\ ChainExists(b) /\ ~(op = "downgrade" /\ b.rev = "0010a")
                 => ChainExists(Path(b, op, to, root, n))
<1>0. b.rev \in Revisions /\ Level(b.rev) \in 1 .. 11 /\ Level(to) \in 1 .. 11
  BY BoundaryFacts, LadderFacts DEF LedgerSound
<1>1. CASE op = "upgrade"
  <2>1. Path(b, op, to, root, n) = Upgraded(b, to, root)  BY <1>1 DEF Path
  <2>2. Migrated(b, Upgraded(b, to, root), Reached(root)) /\ Upgraded(b, to, root).rev = to
    BY <1>1, UpgradeFacts
  <2>3. ChainExists(b) => ChainExists(Upgraded(b, to, root))
    BY <1>0, <1>1, <2>2, LadderFacts DEF ChainExists
  <2> QED  BY <2>1, <2>2, <2>3
<1>2. CASE op = "downgrade"
  <2> DEFINE a == Downgraded(b, n)
  <2>1. op # "upgrade" /\ Level(b.rev) > Level(to)  BY <1>2
  <2>2. b.rev # "0009"  BY <1>0, <2>1, LadderFacts
  <2>3. Deletable(b, n)  BY <1>2 DEF ConstraintsHold
  <2>4. Migrated(b, a, {}) /\ Level(a.rev) = Level(b.rev) - 1 /\ a.rev \in Revisions
    BY <1>2, <2>2, <2>3, DowngradeFacts
  <2>5. CASE ~TwoSteps(b, to)
    <3>1. Path(b, op, to, root, n) = a  BY <2>1, <2>5 DEF Path
    <3>2. Migrated(b, a, Reached(root))  BY <2>4 DEF Migrated
    <3>3. ChainExists(b) /\ b.rev # "0010a" => ChainExists(a)
      BY <1>0, <2>4, LadderFacts DEF ChainExists
    <3> QED  BY <1>2, <3>1, <3>2, <3>3
  <2>6. CASE TwoSteps(b, to)
    <3>1. b.rev = "0011" /\ to = "0010g"  BY <1>2, <2>6 DEF TwoSteps
    <3>2. a.rev = "0010h"  BY <2>4, <3>1, LadderFacts
    <3>3. ChainExists(a) /\ LedgerSound(a)  BY <3>2, <2>4, BoundaryFacts DEF Migrated
    <3>4. Deletable(a, n)  BY <1>2, <2>6 DEF ConstraintsHold
    <3>5. Migrated(a, Downgraded(a, n), {}) /\ Level(Downgraded(a, n).rev) = 9
      <4>1. a.rev # "0009" /\ a.rev # "0010a"  BY <3>2
      <4> HIDE DEF a
      <4>2. Migrated(a, Downgraded(a, n), {}) /\ Level(Downgraded(a, n).rev) = Level(a.rev) - 1
        BY <3>3, <3>4, <4>1, DowngradeFacts
      <4> QED  BY <3>2, <4>2, LadderFacts
    <3>6. Path(b, op, to, root, n) = Downgraded(a, n)  BY <2>1, <2>6 DEF Path
    <3> HIDE DEF a
    <3>7. Migrated(b, Downgraded(a, n), {})  BY <2>4, <3>3, <3>5, MigratedTrans
    <3>8. Migrated(b, Downgraded(a, n), Reached(root))  BY <3>7 DEF Migrated
    <3>9. ChainExists(Downgraded(a, n))  BY <3>5, LadderFacts DEF ChainExists
    <3> QED  BY <3>6, <3>8, <3>9
  <2> QED  BY <2>5, <2>6
<1> QED  BY <1>1, <1>2

-----------------------------------------------------------------------------
(* Reservations, claims and completions *)

\* A chain and the same chain with one more row.
LEMMA OneMoreRow ==
    ASSUME NEW chain, Linked(chain), NEW row, row.pred \in Ids(chain), row.pred[2] = row.nonce,
           row.cmd \notin {"review-root", "no-spend-preflight"},
           NEW more, more = chain \cup {row}
    PROVE  /\ Linked(more) /\ RootsOf(more) = RootsOf(chain) /\ SpendOf(more) = SpendOf(chain)
           /\ Ids(more) = Ids(chain) \cup {Id(row)}
<1>1. Ids(more) = Ids(chain) \cup {Id(row)}
  <2>1. Ids(more) = Ids(chain) \cup Ids({row})  BY IdsOfUnion
  <2>2. Ids({row}) = {Id(row)}  BY DEF Ids
  <2> QED  BY <2>1, <2>2
<1>2. Linked(more)
  <2> SUFFICES ASSUME NEW r \in more, r.cmd # "review-root"
               PROVE  r.pred \in Ids(more) /\ r.pred[2] = r.nonce
    BY DEF Linked
  <2>1. CASE r \in chain  BY <1>1, <2>1 DEF Linked
  <2>2. CASE r = row  BY <1>1, <2>2
  <2> QED  BY <2>1, <2>2
<1>3. RootsOf(more) = RootsOf(chain) /\ SpendOf(more) = SpendOf(chain)
  BY DEF RootsOf, SpendOf
<1> QED  BY <1>1, <1>2, <1>3

\* What a reservation adds.
Reserved(b, n, pred, title, d) ==
    [b EXCEPT
        !.resv = @ \cup {Reservation(d, n, Id(pred), title)},
        !.chain = @ \cup {Receipt("dispatch-reserve", n, d, Id(pred))}]

\* A reservation adds one row to the dispatches and uses no receipt.
LEMMA ReservedFacts ==
    ASSUME NEW b, LedgerSound(b), ChainExists(b), NEW n, NEW pred \in b.chain, pred.nonce = n,
           NEW title, NEW d \in 1 .. MaxDispatches, \A v \in b.resv : v.d # d,
           NEW c, c = Reserved(b, n, pred, title, d)
    PROVE  /\ LedgerSound(c) /\ Used(c) = Used(b) /\ Kept(b, c) /\ ChainExists(c)
           /\ \A v \in c.resv : v.d = 0 => v \in b.resv
<1>0. IsDatabase(b) /\ Chained(b)  BY DEF LedgerSound
<1>1. PICK v : v = [d |-> d, nonce |-> n, pred |-> Id(pred), title |-> title, run |-> 0]
  OBVIOUS
<1>2. PICK new : new = Receipt("dispatch-reserve", n, d, Id(pred))  OBVIOUS
<1>3. Reservation(d, n, Id(pred), title) = v  BY <1>1 DEF Reservation
<1>4. c = [rev |-> b.rev, roots |-> b.roots, spend |-> b.spend, chain |-> b.chain \cup {new},
           resv |-> b.resv \cup {v}, ops |-> b.ops]
  BY <1>0, <1>2, <1>3 DEF IsDatabase, Reserved
<1>5. /\ c.rev = b.rev /\ c.roots = b.roots /\ c.spend = b.spend
      /\ c.chain = b.chain \cup {new} /\ c.resv = b.resv \cup {v} /\ c.ops = b.ops
      /\ IsDatabase(c)
  <2>1. PICK chain, resv : chain = b.chain \cup {new} /\ resv = b.resv \cup {v}  OBVIOUS
  <2>2. c = [rev |-> b.rev, roots |-> b.roots, spend |-> b.spend, chain |-> chain,
             resv |-> resv, ops |-> b.ops]
    BY <1>4, <2>1
  <2>3. /\ c.rev = b.rev /\ c.roots = b.roots /\ c.spend = b.spend
        /\ c.chain = chain /\ c.resv = resv /\ c.ops = b.ops /\ IsDatabase(c)
    BY <2>2, DatabaseFields
  <2> QED  BY <2>1, <2>3
<1>7. /\ v.d = d /\ v.nonce = n /\ v.pred = Id(pred) /\ v.run = 0 /\ IsReservation(v)
  BY <1>1 DEF IsReservation
<1>8. /\ new.cmd = "dispatch-reserve" /\ new.nonce = n /\ new.d = d /\ new.pred = Id(pred)
      /\ Id(new) = <<"dispatch-reserve", n, d>>
  BY <1>2, ReceiptFacts
<1>9. Id(pred) \in Ids(b.chain) /\ Id(pred)[2] = n  BY IdsFacts DEF Id
<1>10. /\ Linked(c.chain) /\ RootsOf(c.chain) = RootsOf(b.chain)
       /\ SpendOf(c.chain) = SpendOf(b.chain) /\ Ids(c.chain) = Ids(b.chain) \cup {Id(new)}
  <2>1. Linked(b.chain) /\ new.cmd \notin {"review-root", "no-spend-preflight"}
    BY <1>0, <1>8 DEF Chained
  <2>2. new.pred \in Ids(b.chain) /\ new.pred[2] = new.nonce  BY <1>8, <1>9
  <2> QED  BY <1>5, <2>1, <2>2, OneMoreRow
<1>11. ReserveId(v) = Id(new) /\ d # 0 /\ d \in 0 .. MaxDispatches
  BY <1>7, <1>8, LedgerAssumption DEF ReserveId, LedgerAssumption
<1>12. ASSUME NEW x
       PROVE  <<"workflow-dispatch-claim", x.nonce, x.d>> \in Ids(c.chain)
                 <=> <<"workflow-dispatch-claim", x.nonce, x.d>> \in Ids(b.chain)
  BY <1>8, <1>10
<1>13. <<"workflow-dispatch-claim", n, d>> \notin Ids(b.chain)
  <2> SUFFICES ASSUME <<"workflow-dispatch-claim", n, d>> \in Ids(b.chain) PROVE FALSE
    OBVIOUS
  <2>1. PICK row \in b.chain : <<"workflow-dispatch-claim", n, d>> = Id(row)  BY IdsFacts
  <2>2. row.d = d  BY <2>1 DEF Id
  <2>3. row.d > 0  BY <2>2
  <2>4. PICK w \in b.resv : w.d = row.d  BY <1>0, <2>3 DEF Chained
  <2> QED  BY <2>2, <2>4
<1>14. ASSUME NEW x \in c.resv
       PROVE  /\ ReserveId(x) \in Ids(c.chain) /\ x.pred \in Ids(c.chain)
              /\ x.d > 0 => (x.run # 0
                    <=> <<"workflow-dispatch-claim", x.nonce, x.d>> \in Ids(c.chain))
  <2>1. CASE x \in b.resv
    <3>1. /\ ReserveId(x) \in Ids(b.chain) /\ x.pred \in Ids(b.chain)
          /\ x.d > 0 => (x.run # 0
                <=> <<"workflow-dispatch-claim", x.nonce, x.d>> \in Ids(b.chain))
      BY <1>0, <2>1 DEF Chained
    <3>2. Ids(b.chain) \subseteq Ids(c.chain)  BY <1>10
    <3> QED  BY <1>12, <3>1, <3>2
  <2>2. CASE x = v
    <3>1. ReserveId(v) \in Ids(c.chain) /\ v.pred \in Ids(c.chain)
      BY <1>7, <1>9, <1>10, <1>11
    <3>2. ~(<<"workflow-dispatch-claim", v.nonce, v.d>> \in Ids(c.chain))
      BY <1>7, <1>12, <1>13
    <3>3. v.run = 0  BY <1>7
    <3> QED  BY <2>2, <3>1, <3>2, <3>3
  <2> QED  BY <1>5, <2>1, <2>2
<1>15. \A row \in c.chain :
          /\ row.d \in 0 .. MaxDispatches
          /\ row.d > 0 => \E x \in c.resv : x.d = row.d /\ x.nonce = row.nonce
          /\ row.cmd = "0010a" => \A x \in c.resv : x.d = 0 => x.nonce # row.nonce
  <2> SUFFICES ASSUME NEW row \in c.chain
               PROVE  /\ row.d \in 0 .. MaxDispatches
                      /\ row.d > 0 => \E x \in c.resv : x.d = row.d /\ x.nonce = row.nonce
                      /\ row.cmd = "0010a" => \A x \in c.resv : x.d = 0 => x.nonce # row.nonce
    OBVIOUS
  <2>0. b.resv \subseteq c.resv /\ v \in c.resv /\ \A x \in c.resv : x.d = 0 => x \in b.resv
    BY <1>5, <1>7, <1>11
  <2>1. CASE row \in b.chain
    <3>1. /\ row.d \in 0 .. MaxDispatches
          /\ row.d > 0 => \E x \in b.resv : x.d = row.d /\ x.nonce = row.nonce
          /\ row.cmd = "0010a" => \A x \in b.resv : x.d = 0 => x.nonce # row.nonce
      BY <1>0, <2>1 DEF Chained
    <3> QED  BY <2>0, <3>1
  <2>2. CASE row = new
    <3>1. row.d = d /\ row.nonce = n /\ row.cmd # "0010a"  BY <1>8, <2>2
    <3> QED  BY <1>7, <1>11, <2>0, <3>1
  <2> QED  BY <1>5, <2>1, <2>2
<1>16. \A o \in c.ops : \E x \in c.resv, row \in c.chain :
          x.d = o.d /\ row.d = o.d /\ row.cmd = o.cmd /\ row.nonce = x.nonce
  <2>1. \A o \in b.ops : \E x \in b.resv, row \in b.chain :
          x.d = o.d /\ row.d = o.d /\ row.cmd = o.cmd /\ row.nonce = x.nonce
    BY <1>0 DEF Chained
  <2>2. c.ops = b.ops /\ b.resv \subseteq c.resv /\ b.chain \subseteq c.chain  BY <1>5
  <2> QED  BY <2>1, <2>2
<1>17. Chained(c)
  <2>1. RootsOf(c.chain) = c.spend /\ SpendOf(c.chain) = c.spend
    BY <1>0, <1>5, <1>10 DEF Chained
  <2> QED  BY <1>10, <1>14, <1>15, <1>16, <2>1 DEF Chained
<1>18. ReservationsSound(c)
  <2>1. ReservationsSound(b) /\ ReservationTable(b.resv)
    BY DEF LedgerSound, ReservationsSound
  <2>2. ReservationTable(c.resv)
    <3> SUFFICES ASSUME NEW x \in c.resv
                 PROVE  /\ x.d \in 0 .. MaxDispatches /\ x.run \in 0 .. MaxRuns + 1
                        /\ x.pred[2] = x.nonce
                        /\ x.run # 0 => \A w \in c.resv : w.run = x.run => w = x
      BY DEF ReservationTable
    <3>1. CASE x \in b.resv
      <4>1. /\ x.d \in 0 .. MaxDispatches /\ x.run \in 0 .. MaxRuns + 1
            /\ x.pred[2] = x.nonce
            /\ x.run # 0 => \A w \in b.resv : w.run = x.run => w = x
        BY <2>1, <3>1 DEF ReservationTable
      <4> QED  BY <1>5, <1>7, <4>1
    <3>2. CASE x = v
      <4>1. v.run = 0 /\ 0 \in 0 .. MaxRuns + 1  BY <1>7, LedgerAssumption DEF LedgerAssumption
      <4>2. v.d \in 0 .. MaxDispatches /\ v.pred[2] = v.nonce  BY <1>7, <1>9, <1>11
      <4> QED  BY <3>2, <4>1, <4>2
    <3> QED  BY <1>5, <3>1, <3>2
  <2>3. \A x \in c.resv : IsReservation(x) /\ (x.d = 0 => Bootstrapped(x, c))
    <3>1. \A x \in b.resv : Bootstrapped(x, b) => Bootstrapped(x, c)
      BY <1>5 DEF Bootstrapped
    <3> QED  BY <1>5, <1>7, <1>11, <2>1, <3>1 DEF ReservationsSound
  <2>4. \A x, w \in c.resv : x.d = w.d => x = w
    BY <1>5, <1>7, <2>1 DEF ReservationsSound
  <2> QED  BY <2>2, <2>3, <2>4 DEF ReservationsSound
<1>19. OperationsSound(c)  BY <1>5 DEF LedgerSound, OperationsSound
<1>20. ChainExists(c)  BY <1>5 DEF ChainExists
<1>21. LedgerSound(c)
  <2>1. c.rev \in Revisions /\ {r.nonce : r \in c.roots} = c.spend  BY <1>5 DEF LedgerSound
  <2> QED  BY <1>5, <1>17, <1>18, <1>19, <1>20, <2>1 DEF LedgerSound
<1>22. Used(c) = Used(b)
  <2>1. n \in Used(b)  BY DEF Used
  <2>2. Used(c) = Used(b) \cup {n}  BY <1>5, <1>7, <1>8 DEF Used
  <2> QED  BY <2>1, <2>2
<1>23. Kept(b, c)  BY <1>5 DEF Kept
<1>24. \A x \in c.resv : x.d = 0 => x \in b.resv  BY <1>5, <1>7, <1>11
<1> QED  BY <1>20, <1>21, <1>22, <1>23, <1>24

\* Only where the chain is are there reservations of the operator's.
LEMMA GenericNeedsChain ==
    ASSUME NEW b, LedgerSound(b), NEW v \in b.resv, v.d # 0
    PROVE  ChainExists(b) /\ Chained(b) /\ v.d > 0
<1>1. ChainExists(b)  BY DEF LedgerSound, Unchained
<1>2. v.d \in 0 .. MaxDispatches  BY DEF LedgerSound, ReservationsSound, ReservationTable
<1> QED  BY <1>1, <1>2 DEF LedgerSound

\* A claim binds its reservation to one workflow run and keeps the rest.
LEMMA ClaimedFacts ==
    ASSUME NEW b, LedgerSound(b), NEW v \in b.resv, v.d # 0, v.run = 0,
           NEW run \in 1 .. MaxRuns, \A w \in b.resv : w.run # run,
           NEW c, c = Claimed(b, v, run)
    PROVE  /\ LedgerSound(c) /\ Used(c) = Used(b) /\ ChainExists(b) /\ ChainExists(c)
           /\ b.chain \subseteq c.chain /\ c.ops = b.ops
           /\ \A x \in b.resv : \E y \in c.resv : y.d = x.d
           /\ \A x \in c.resv : x.d = 0 => x \in b.resv
<1>0. IsDatabase(b) /\ ChainExists(b) /\ Chained(b) /\ v.d > 0
  BY GenericNeedsChain DEF LedgerSound
<1>1. PICK w : w = [v EXCEPT !.run = run]  OBVIOUS
<1>2. PICK new : new = Receipt("workflow-dispatch-claim", v.nonce, v.d, ReserveId(v))  OBVIOUS
<1>3. PICK chain, resv : chain = b.chain \cup {new} /\ resv = (b.resv \ {v}) \cup {w}  OBVIOUS
<1>4. c = [rev |-> b.rev, roots |-> b.roots, spend |-> b.spend, chain |-> chain,
           resv |-> resv, ops |-> b.ops]
  <2>1. c = [b EXCEPT !.resv = resv, !.chain = chain]  BY <1>1, <1>2, <1>3 DEF Claimed
  <2> QED  BY <1>0, <2>1 DEF IsDatabase
<1>5. /\ c.rev = b.rev /\ c.roots = b.roots /\ c.spend = b.spend
      /\ c.chain = b.chain \cup {new} /\ c.resv = (b.resv \ {v}) \cup {w} /\ c.ops = b.ops
      /\ IsDatabase(c)
  <2>1. /\ c.rev = b.rev /\ c.roots = b.roots /\ c.spend = b.spend
        /\ c.chain = chain /\ c.resv = resv /\ c.ops = b.ops /\ IsDatabase(c)
    BY <1>4, DatabaseFields
  <2> QED  BY <1>3, <2>1
<1>6. ReservationsSound(b) /\ ReservationTable(b.resv) /\ IsReservation(v)
  BY DEF LedgerSound, ReservationsSound
<1>7. /\ w.d = v.d /\ w.nonce = v.nonce /\ w.pred = v.pred /\ w.run = run /\ IsReservation(w)
  <2>1. w = [d |-> v.d, nonce |-> v.nonce, pred |-> v.pred, title |-> v.title, run |-> run]
    BY <1>1, <1>6 DEF IsReservation
  <2>2. w.d = v.d /\ w.nonce = v.nonce /\ w.pred = v.pred /\ w.run = run /\ w.title = v.title
    BY <2>1
  <2> QED  BY <2>1, <2>2 DEF IsReservation
<1>8. /\ new.cmd = "workflow-dispatch-claim" /\ new.nonce = v.nonce /\ new.d = v.d
      /\ new.pred = ReserveId(v)
      /\ Id(new) = <<"workflow-dispatch-claim", v.nonce, v.d>>
  BY <1>2, ReceiptFacts
<1>9. ReserveId(v) \in Ids(b.chain) /\ ReserveId(v)[2] = v.nonce
  BY <1>0 DEF Chained, ReserveId
<1>10. /\ Linked(c.chain) /\ RootsOf(c.chain) = RootsOf(b.chain)
       /\ SpendOf(c.chain) = SpendOf(b.chain) /\ Ids(c.chain) = Ids(b.chain) \cup {Id(new)}
  <2>1. Linked(b.chain) /\ new.cmd \notin {"review-root", "no-spend-preflight"}
    BY <1>0, <1>8 DEF Chained
  <2>2. new.pred \in Ids(b.chain) /\ new.pred[2] = new.nonce  BY <1>8, <1>9
  <2> QED  BY <1>5, <2>1, <2>2, OneMoreRow
<1>11. ReserveId(w) = ReserveId(v)  BY <1>7 DEF ReserveId
<1>12. \A x, y \in b.resv : x.d = y.d => x = y  BY <1>6 DEF ReservationsSound
<1>13. ASSUME NEW x \in c.resv
       PROVE  /\ ReserveId(x) \in Ids(c.chain) /\ x.pred \in Ids(c.chain)
              /\ x.d > 0 => (x.run # 0
                    <=> <<"workflow-dispatch-claim", x.nonce, x.d>> \in Ids(c.chain))
  <2>1. CASE x \in b.resv /\ x # v
    <3>1. /\ ReserveId(x) \in Ids(b.chain) /\ x.pred \in Ids(b.chain)
          /\ x.d > 0 => (x.run # 0
                <=> <<"workflow-dispatch-claim", x.nonce, x.d>> \in Ids(b.chain))
      BY <1>0, <2>1 DEF Chained
    <3>2. x.d # v.d  BY <1>12, <2>1
    <3>3. <<"workflow-dispatch-claim", x.nonce, x.d>> # Id(new)  BY <1>8, <3>2
    <3>4. <<"workflow-dispatch-claim", x.nonce, x.d>> \in Ids(c.chain)
             <=> <<"workflow-dispatch-claim", x.nonce, x.d>> \in Ids(b.chain)
      BY <1>10, <3>3
    <3>5. Ids(b.chain) \subseteq Ids(c.chain)  BY <1>10
    <3> QED  BY <3>1, <3>4, <3>5
  <2>2. CASE x = w
    <3>1. v.pred \in Ids(b.chain)  BY <1>0 DEF Chained
    <3>2. ReserveId(w) \in Ids(c.chain) /\ w.pred \in Ids(c.chain)
      BY <1>7, <1>9, <1>10, <1>11, <3>1
    <3>3. <<"workflow-dispatch-claim", w.nonce, w.d>> \in Ids(c.chain)  BY <1>7, <1>8, <1>10
    <3>4. w.run # 0  BY <1>7
    <3> QED  BY <2>2, <3>2, <3>3, <3>4
  <2> QED  BY <1>5, <2>1, <2>2
<1>14. \A x \in b.resv : \E y \in c.resv : y.d = x.d /\ y.nonce = x.nonce
  BY <1>5, <1>7
<1>15. \A x \in c.resv : x.d = 0 => x \in b.resv  BY <1>0, <1>5, <1>7
<1>16. ASSUME NEW row \in c.chain
       PROVE  /\ row.d \in 0 .. MaxDispatches
              /\ row.d > 0 => \E x \in c.resv : x.d = row.d /\ x.nonce = row.nonce
              /\ row.cmd = "0010a" => \A x \in c.resv : x.d = 0 => x.nonce # row.nonce
  <2>1. CASE row \in b.chain
    <3>1. /\ row.d \in 0 .. MaxDispatches
          /\ row.d > 0 => \E x \in b.resv : x.d = row.d /\ x.nonce = row.nonce
          /\ row.cmd = "0010a" => \A x \in b.resv : x.d = 0 => x.nonce # row.nonce
      BY <1>0, <2>1 DEF Chained
    <3> QED  BY <1>14, <1>15, <3>1
  <2>2. CASE row = new
    <3>1. row.d = v.d /\ row.nonce = v.nonce /\ row.cmd # "0010a"  BY <1>8, <2>2
    <3>2. v.d \in 0 .. MaxDispatches  BY <1>6 DEF ReservationTable
    <3> QED  BY <1>14, <3>1, <3>2
  <2> QED  BY <1>5, <2>1, <2>2
<1>17. ASSUME NEW o \in b.ops
       PROVE  \E x \in c.resv, row \in c.chain :
                  x.d = o.d /\ row.d = o.d /\ row.cmd = o.cmd /\ row.nonce = x.nonce
  <2>1. PICK x \in b.resv, row \in b.chain :
                 x.d = o.d /\ row.d = o.d /\ row.cmd = o.cmd /\ row.nonce = x.nonce
    BY <1>0 DEF Chained
  <2>2. PICK y \in c.resv : y.d = x.d /\ y.nonce = x.nonce  BY <1>14
  <2>3. row \in c.chain  BY <1>5
  <2> QED  BY <2>1, <2>2, <2>3
<1>18. Chained(c)
  <2>1. RootsOf(c.chain) = c.spend /\ SpendOf(c.chain) = c.spend
    BY <1>0, <1>5, <1>10 DEF Chained
  <2>2. c.ops = b.ops  BY <1>5
  <2> QED  BY <1>10, <1>13, <1>16, <1>17, <2>1, <2>2 DEF Chained
<1>19. ReservationsSound(c)
  <2>1. ASSUME NEW x \in c.resv
        PROVE  /\ x.d \in 0 .. MaxDispatches /\ x.run \in 0 .. MaxRuns + 1
               /\ x.pred[2] = x.nonce
               /\ x.run # 0 => \A y \in c.resv : y.run = x.run => y = x
               /\ IsReservation(x) /\ (x.d = 0 => Bootstrapped(x, c))
    <3>0. \A y \in b.resv :
             /\ y.d \in 0 .. MaxDispatches /\ y.run \in 0 .. MaxRuns + 1
             /\ y.pred[2] = y.nonce
             /\ y.run # 0 => \A z \in b.resv : z.run = y.run => z = y
      BY <1>6 DEF ReservationTable
    <3>1. CASE x \in b.resv /\ x # v
      <4>1. /\ x.d \in 0 .. MaxDispatches /\ x.run \in 0 .. MaxRuns + 1
            /\ x.pred[2] = x.nonce
            /\ x.run # 0 => \A y \in b.resv : y.run = x.run => y = x
        BY <3>0, <3>1
      <4>2. x.run # w.run  BY <1>7, <3>1
      <4>3. x.run # 0 => \A y \in c.resv : y.run = x.run => y = x  BY <1>5, <4>1, <4>2
      <4>4. IsReservation(x) /\ (x.d = 0 => Bootstrapped(x, c))
        BY <1>5, <1>6, <3>1 DEF ReservationsSound, Bootstrapped
      <4> QED  BY <4>1, <4>3, <4>4
    <3>2. CASE x = w
      <4>1. w.d \in 0 .. MaxDispatches /\ w.pred[2] = w.nonce  BY <1>7, <3>0
      <4>2. w.run \in 0 .. MaxRuns + 1  BY <1>7, LedgerAssumption DEF LedgerAssumption
      <4>3. \A y \in c.resv : y.run = w.run => y = w  BY <1>5, <1>7
      <4>4. w.d # 0  BY <1>7
      <4> QED  BY <1>7, <3>2, <4>1, <4>2, <4>3, <4>4
    <3> QED  BY <1>5, <3>1, <3>2
  <2>2. \A x, y \in c.resv : x.d = y.d => x = y  BY <1>5, <1>7, <1>12
  <2> QED  BY <2>1, <2>2 DEF ReservationsSound, ReservationTable
<1>20. OperationsSound(c)
  <2>1. OperationsSound(b) /\ c.ops = b.ops  BY <1>5 DEF LedgerSound
  <2>2. ASSUME NEW o \in b.ops PROVE \E x \in c.resv : ReceiptMatches(o, x)
    <3>1. PICK x \in b.resv : ReceiptMatches(o, x)  BY <2>1 DEF OperationsSound
    <3>2. x.run # 0  BY <2>1, <3>1 DEF OperationsSound, ReceiptMatches
    <3>3. x \in c.resv  BY <1>5, <3>2
    <3> QED  BY <3>1, <3>3
  <2> QED  BY <2>1, <2>2 DEF OperationsSound
<1>21. ChainExists(c)  BY <1>0, <1>5 DEF ChainExists
<1>22. LedgerSound(c)
  <2>1. c.rev \in Revisions /\ {r.nonce : r \in c.roots} = c.spend  BY <1>5 DEF LedgerSound
  <2> QED  BY <1>5, <1>18, <1>19, <1>20, <1>21, <2>1 DEF LedgerSound
<1>23. Used(c) = Used(b)
  <2>1. {x.nonce : x \in c.resv} = {x.nonce : x \in b.resv}  BY <1>5, <1>7
  <2>2. {row.nonce : row \in c.chain} = {row.nonce : row \in b.chain} \cup {v.nonce}
    BY <1>5, <1>8
  <2>3. v.nonce \in {x.nonce : x \in b.resv}  OBVIOUS
  <2> QED  BY <1>5, <2>1, <2>2, <2>3 DEF Used
<1> QED  BY <1>0, <1>5, <1>14, <1>15, <1>21, <1>22, <1>23

\* What a completion adds.
Finished(b, v, cmd, rev) ==
    [b EXCEPT
        !.ops = @ \cup {Operation(v.d, v.run, cmd, rev)},
        !.chain = @ \cup {Receipt(cmd, v.nonce, v.d, ReserveId(v))}]

\* A finished dispatch adds its one operation and keeps the rest.
LEMMA FinishedFacts ==
    ASSUME NEW b, LedgerSound(b), NEW v \in b.resv, v.d # 0, v.run # 0,
           \A o \in b.ops : o.d # v.d, NEW cmd \in AllowedCommands, NEW rev,
           NEW c, c = Finished(b, v, cmd, rev)
    PROVE  /\ LedgerSound(c) /\ Used(c) = Used(b) /\ Kept(b, c) /\ c.resv = b.resv
           /\ ChainExists(b) /\ ChainExists(c)
<1>0. IsDatabase(b) /\ ChainExists(b) /\ Chained(b) /\ v.d > 0
  BY GenericNeedsChain DEF LedgerSound
<1>1. PICK o : o = [d |-> v.d, run |-> v.run, cmd |-> cmd, rev |-> rev]  OBVIOUS
<1>2. PICK new : new = Receipt(cmd, v.nonce, v.d, ReserveId(v))  OBVIOUS
<1>3. PICK chain, ops : chain = b.chain \cup {new} /\ ops = b.ops \cup {o}  OBVIOUS
<1>4. c = [rev |-> b.rev, roots |-> b.roots, spend |-> b.spend, chain |-> chain,
           resv |-> b.resv, ops |-> ops]
  <2>1. Operation(v.d, v.run, cmd, rev) = o  BY <1>1 DEF Operation
  <2>2. c = [b EXCEPT !.ops = ops, !.chain = chain]  BY <1>2, <1>3, <2>1 DEF Finished
  <2> QED  BY <1>0, <2>2 DEF IsDatabase
<1>5. /\ c.rev = b.rev /\ c.roots = b.roots /\ c.spend = b.spend
      /\ c.chain = b.chain \cup {new} /\ c.resv = b.resv /\ c.ops = b.ops \cup {o}
      /\ IsDatabase(c)
  <2>1. /\ c.rev = b.rev /\ c.roots = b.roots /\ c.spend = b.spend
        /\ c.chain = chain /\ c.resv = b.resv /\ c.ops = ops /\ IsDatabase(c)
    BY <1>4, DatabaseFields
  <2> QED  BY <1>3, <2>1
<1>6. ReservationsSound(b) /\ ReservationTable(b.resv) /\ OperationsSound(b)
  BY DEF LedgerSound, ReservationsSound
<1>7. o.d = v.d /\ o.run = v.run /\ o.cmd = cmd  BY <1>1
<1>8. /\ new.cmd = cmd /\ new.nonce = v.nonce /\ new.d = v.d
      /\ new.pred = ReserveId(v) /\ Id(new) = <<cmd, v.nonce, v.d>>
  BY <1>2, ReceiptFacts
<1>9. cmd \notin {"review-root", "no-spend-preflight", "workflow-dispatch-claim", "0010a"}
  BY DEF AllowedCommands
<1>10. ReserveId(v) \in Ids(b.chain) /\ ReserveId(v)[2] = v.nonce
  BY <1>0 DEF Chained, ReserveId
<1>11. /\ Linked(c.chain) /\ RootsOf(c.chain) = RootsOf(b.chain)
       /\ SpendOf(c.chain) = SpendOf(b.chain) /\ Ids(c.chain) = Ids(b.chain) \cup {Id(new)}
  <2>1. Linked(b.chain) /\ new.cmd \notin {"review-root", "no-spend-preflight"}
    BY <1>0, <1>8, <1>9 DEF Chained
  <2>2. new.pred \in Ids(b.chain) /\ new.pred[2] = new.nonce  BY <1>8, <1>10
  <2> QED  BY <1>5, <2>1, <2>2, OneMoreRow
<1>12. ASSUME NEW x \in b.resv
       PROVE  /\ ReserveId(x) \in Ids(c.chain) /\ x.pred \in Ids(c.chain)
              /\ x.d > 0 => (x.run # 0
                    <=> <<"workflow-dispatch-claim", x.nonce, x.d>> \in Ids(c.chain))
  <2>1. /\ ReserveId(x) \in Ids(b.chain) /\ x.pred \in Ids(b.chain)
        /\ x.d > 0 => (x.run # 0
              <=> <<"workflow-dispatch-claim", x.nonce, x.d>> \in Ids(b.chain))
    BY <1>0 DEF Chained
  <2>2. <<"workflow-dispatch-claim", x.nonce, x.d>> # Id(new)  BY <1>8, <1>9
  <2>3. <<"workflow-dispatch-claim", x.nonce, x.d>> \in Ids(c.chain)
           <=> <<"workflow-dispatch-claim", x.nonce, x.d>> \in Ids(b.chain)
    BY <1>11, <2>2
  <2>4. Ids(b.chain) \subseteq Ids(c.chain)  BY <1>11
  <2> QED  BY <2>1, <2>3, <2>4
<1>13. ASSUME NEW row \in c.chain
       PROVE  /\ row.d \in 0 .. MaxDispatches
              /\ row.d > 0 => \E x \in b.resv : x.d = row.d /\ x.nonce = row.nonce
              /\ row.cmd = "0010a" => \A x \in b.resv : x.d = 0 => x.nonce # row.nonce
  <2>1. CASE row \in b.chain  BY <1>0, <2>1 DEF Chained
  <2>2. CASE row = new
    <3>1. row.d = v.d /\ row.nonce = v.nonce /\ row.cmd # "0010a"  BY <1>8, <1>9, <2>2
    <3>2. v.d \in 0 .. MaxDispatches  BY <1>6 DEF ReservationTable
    <3> QED  BY <3>1, <3>2
  <2> QED  BY <1>5, <2>1, <2>2
<1>14. ASSUME NEW p \in c.ops
       PROVE  \E x \in b.resv, row \in c.chain :
                  x.d = p.d /\ row.d = p.d /\ row.cmd = p.cmd /\ row.nonce = x.nonce
  <2>1. CASE p \in b.ops
    <3>1. PICK x \in b.resv, row \in b.chain :
                   x.d = p.d /\ row.d = p.d /\ row.cmd = p.cmd /\ row.nonce = x.nonce
      BY <1>0, <2>1 DEF Chained
    <3>2. row \in c.chain  BY <1>5
    <3> QED  BY <3>1, <3>2
  <2>2. CASE p = o
    <3>1. new \in c.chain  BY <1>5
    <3> QED  BY <1>7, <1>8, <2>2, <3>1
  <2> QED  BY <1>5, <2>1, <2>2
<1>15. Chained(c)
  <2>1. RootsOf(c.chain) = c.spend /\ SpendOf(c.chain) = c.spend
    BY <1>0, <1>5, <1>11 DEF Chained
  <2>2. c.resv = b.resv  BY <1>5
  <2> QED  BY <1>11, <1>12, <1>13, <1>14, <2>1, <2>2 DEF Chained
<1>16. ReservationsSound(c)  BY <1>5, <1>6 DEF ReservationsSound, Bootstrapped
<1>17. OperationsSound(c)
  <2>1. ASSUME NEW p \in c.ops
        PROVE  /\ p.run # 0 /\ p.cmd \in TerminalCommands
               /\ \E x \in b.resv : ReceiptMatches(p, x)
    <3>1. CASE p \in b.ops  BY <1>6, <3>1 DEF OperationsSound
    <3>2. CASE p = o  BY <1>7, <3>2 DEF ReceiptMatches, TerminalCommands
    <3> QED  BY <1>5, <3>1, <3>2
  <2>2. \A p, q \in c.ops : p.d = q.d => p = q
    <3>1. \A p, q \in b.ops : p.d = q.d => p = q  BY <1>6 DEF OperationsSound
    <3>2. \A p \in b.ops : p.d # o.d  BY <1>7
    <3> QED  BY <1>5, <3>1, <3>2
  <2>3. c.resv = b.resv  BY <1>5
  <2> QED  BY <2>1, <2>2, <2>3 DEF OperationsSound
<1>18. ChainExists(c)  BY <1>0, <1>5 DEF ChainExists
<1>19. LedgerSound(c)
  <2>1. c.rev \in Revisions /\ {r.nonce : r \in c.roots} = c.spend  BY <1>5 DEF LedgerSound
  <2> QED  BY <1>5, <1>15, <1>16, <1>17, <1>18, <2>1 DEF LedgerSound
<1>20. Used(c) = Used(b)
  <2>1. {row.nonce : row \in c.chain} = {row.nonce : row \in b.chain} \cup {v.nonce}
    BY <1>5, <1>8
  <2>2. v.nonce \in {x.nonce : x \in b.resv}  OBVIOUS
  <2> QED  BY <1>5, <2>1, <2>2 DEF Used
<1>21. Kept(b, c)  BY <1>5 DEF Kept
<1> QED  BY <1>0, <1>5, <1>18, <1>19, <1>20, <1>21

-----------------------------------------------------------------------------
(* The processes *)

\* A process that does not move, while the database and the counter do.
LEMMA ProcessKept ==
    ASSUME NEW p, IsRun(p), NEW b, NEW c, NEW m \in Nat, NEW k \in Nat, m <= k,
           ProcessSound(p, b, m),
           p.root.nonce # 0 => p.root.nonce \notin Used(c),
           p.pc = "begun" /\ p.op = "downgrade" /\ p.from = "0010a"
              => ChainExists(c) /\ \A v \in c.resv : v.d = 0 => v \in b.resv
    PROVE  ProcessSound(p, c, k)
<1>1. p.root.nonce # 0 => p.root.nonce < Len(Ladder) + k /\ p.root.nonce \notin Used(c)
  <2>1. Len(Ladder) \in Nat /\ p.root.nonce \in Nat  BY LadderFacts DEF IsRun
  <2> QED  BY <2>1 DEF ProcessSound
<1>2. p.pc = "begun" => Begun(p, c)
  BY DEF ProcessSound, Begun
<1> QED  BY <1>1, <1>2 DEF ProcessSound

\* A slot without a process is sound against any database.
LEMMA NoRunFacts ==
    /\ IsRun(NoRun) /\ NoRun.root.nonce = 0 /\ NoRun.pc = "idle" /\ NoRun.d = 0
    /\ \A b, m : ProcessSound(NoRun, b, m)
<1>1. /\ NoRun.root.nonce = 0 /\ NoRun.pc = "idle" /\ NoRun.d = 0 /\ NoRun.id = 0
  BY DEF NoRun
<1>2. NoRun = [op |-> NoRun.op, to |-> NoRun.to, d |-> NoRun.d, id |-> NoRun.id,
               pc |-> NoRun.pc, from |-> NoRun.from, n |-> NoRun.n, root |-> NoRun.root]
  BY DEF NoRun
<1>3. IsRun(NoRun)  BY <1>1, <1>2, LedgerAssumption DEF IsRun, LedgerAssumption
<1> QED  BY <1>1, <1>3 DEF ProcessSound

\* One process moves.
LEMMA RunsKept ==
    ASSUME LedgerInv, NEW s \in Slots, NEW q, runs' = [runs EXCEPT ![s] = q],
           IsRun(q), ProcessSound(q, db', moves'),
           \A t \in Slots \ {s} : runs[t].root.nonce # q.root.nonce \/ q.root.nonce = 0,
           moves' \in Nat, moves <= moves',
           \A t \in Slots \ {s} :
              /\ runs[t].root.nonce # 0 => runs[t].root.nonce \notin Used(db')
              /\ runs[t].pc = "begun" /\ runs[t].op = "downgrade" /\ runs[t].from = "0010a"
                    => ChainExists(db') /\ \A v \in db'.resv : v.d = 0 => v \in db.resv
    PROVE  RunsSound'
<1>1. runs'[s] = q /\ \A t \in Slots \ {s} : runs'[t] = runs[t]
  BY DEF LedgerInv, RunsSound
<1>2. runs' = [t \in Slots |-> runs'[t]]
  BY DEF LedgerInv, RunsSound
<1>3. ASSUME NEW t \in Slots PROVE IsRun(runs'[t]) /\ ProcessSound(runs'[t], db', moves')
  <2>1. CASE t = s  BY <1>1, <2>1
  <2>2. CASE t # s
    <3>1. PICK p : p = runs[t]  OBVIOUS
    <3>2. IsRun(p) /\ ProcessSound(p, db, moves) /\ moves \in Nat
      BY <3>1 DEF LedgerInv, RunsSound
    <3>3. /\ p.root.nonce # 0 => p.root.nonce \notin Used(db')
          /\ p.pc = "begun" /\ p.op = "downgrade" /\ p.from = "0010a"
                => ChainExists(db') /\ \A v \in db'.resv : v.d = 0 => v \in db.resv
      BY <2>2, <3>1
    <3>4. ProcessSound(p, db', moves')  BY <3>2, <3>3, ProcessKept
    <3>5. runs'[t] = p  BY <1>1, <2>2, <3>1
    <3> QED  BY <3>2, <3>4, <3>5
  <2> QED  BY <2>1, <2>2
<1>4. ASSUME NEW x \in Slots, NEW y \in Slots,
             runs'[x].root.nonce = runs'[y].root.nonce, runs'[x].root.nonce # 0
      PROVE  x = y
  <2>1. CASE x # s /\ y # s  BY <1>1, <1>4, <2>1 DEF LedgerInv, RunsSound
  <2>2. CASE x = s \/ y = s  BY <1>1, <1>4, <2>2
  <2> QED  BY <2>1, <2>2
<1> QED  BY <1>2, <1>3, <1>4 DEF RunsSound

\* A step that leaves the database alone.
LEMMA QuietStep ==
    ASSUME LedgerInv, NEW s \in Slots, NEW q, runs' = [runs EXCEPT ![s] = q],
           IsRun(q), ProcessSound(q, db, moves'),
           \A t \in Slots \ {s} : runs[t].root.nonce # q.root.nonce \/ q.root.nonce = 0,
           moves' \in moves .. MaxMoves, lastRun' \in 0 .. MaxRuns,
           UNCHANGED <<db, verified>>
    PROVE  LedgerInv' /\ OperationsStep
<1>0. moves \in Nat /\ MaxMoves \in Nat /\ db' = db /\ verified' = verified
  BY LedgerAssumption DEF LedgerInv, LedgerAssumption
<1>1. \A t \in Slots :
          /\ runs[t].root.nonce # 0 => runs[t].root.nonce \notin Used(db')
          /\ runs[t].pc = "begun" /\ runs[t].op = "downgrade" /\ runs[t].from = "0010a"
                => ChainExists(db') /\ \A v \in db'.resv : v.d = 0 => v \in db.resv
  BY <1>0 DEF LedgerInv, RunsSound, ProcessSound, Begun
<1>2. ProcessSound(q, db', moves') /\ moves' \in Nat /\ moves <= moves' /\ moves' \in 0 .. MaxMoves
  BY <1>0
<1>3. RunsSound'  BY <1>1, <1>2, RunsKept
<1>4. Used(db) \subseteq 1 .. (Len(Ladder) + moves' - 1)
  BY <1>0, <1>2, LadderFacts DEF LedgerInv
<1>5. LedgerInv'  BY <1>0, <1>2, <1>3, <1>4 DEF LedgerInv
<1>6. OperationsStep  BY <1>0 DEF OperationsStep
<1> QED  BY <1>5, <1>6

\* A process that ends writes nothing.
LEMMA EndedStep ==
    ASSUME LedgerInv, NEW s \in Slots, Ended(s), UNCHANGED <<db, moves, lastRun, verified>>
    PROVE  LedgerInv' /\ OperationsStep
<1>1. PICK q : q = NoRun  OBVIOUS
<1>2. runs' = [runs EXCEPT ![s] = q]  BY <1>1 DEF Ended
<1>3. IsRun(q) /\ ProcessSound(q, db, moves') /\ q.root.nonce = 0
  BY <1>1, NoRunFacts
<1>4. moves' \in moves .. MaxMoves /\ lastRun' \in 0 .. MaxRuns
  BY LedgerAssumption DEF LedgerInv, LedgerAssumption
<1> QED  BY <1>2, <1>3, <1>4, QuietStep

\* A process that goes on with what it carries, or without its root.
LEMMA GoesOn ==
    ASSUME LedgerInv, NEW s \in Slots, NEW q, runs' = [runs EXCEPT ![s] = q],
           IsRun(q), ProcessSound(q, db, moves),
           q.root.nonce \in {0, runs[s].root.nonce},
           UNCHANGED <<db, moves, lastRun, verified>>
    PROVE  LedgerInv' /\ OperationsStep
<1>1. moves' \in moves .. MaxMoves /\ lastRun' \in 0 .. MaxRuns
  BY LedgerAssumption DEF LedgerInv, LedgerAssumption
<1>2. \A t \in Slots \ {s} : runs[t].root.nonce # q.root.nonce \/ q.root.nonce = 0
  BY DEF LedgerInv, RunsSound
<1> QED  BY <1>1, <1>2, QuietStep

\* A process that is stopped writes nothing (Stop).
LEMMA StopStep ==
    ASSUME LedgerInv, NEW s \in Slots, Stop(s)
    PROVE  LedgerInv' /\ OperationsStep
  BY EndedStep DEF Stop

\* What alembic's start and its exit change of a process.
StartedRun(p, pc, from, n) == [p EXCEPT !.from = from, !.pc = pc, !.n = n]
Exited(p, pc, from, n, root) == [p EXCEPT !.pc = pc, !.from = from, !.n = n, !.root = root]

\* The records the steps of a process write, field by field.
LEMMA RunUpdates ==
    ASSUME NEW p, IsRun(p), NEW pc, NEW from, NEW n, NEW root
    PROVE  /\ StartedRun(p, pc, from, n)
                = [op |-> p.op, to |-> p.to, d |-> p.d, id |-> p.id, pc |-> pc, from |-> from,
                   n |-> n, root |-> p.root]
           /\ Exited(p, pc, from, n, root)
                = [op |-> p.op, to |-> p.to, d |-> p.d, id |-> p.id, pc |-> pc, from |-> from,
                   n |-> n, root |-> root]
<1> DEFINE Rec(x, y, z, w) == [op |-> p.op, to |-> p.to, d |-> p.d, id |-> p.id,
                               pc |-> x, from |-> y, n |-> z, root |-> w]
<1>0. PICK x, y, z, w : p = Rec(x, y, z, w) /\ w = p.root
  <2>1. p = Rec(p.pc, p.from, p.n, p.root)  BY DEF IsRun
  <2> QED  BY <2>1
<1>1. \A a, b, c, e, v : /\ [Rec(a, b, c, e) EXCEPT !.pc = v] = Rec(v, b, c, e)
                         /\ [Rec(a, b, c, e) EXCEPT !.from = v] = Rec(a, v, c, e)
                         /\ [Rec(a, b, c, e) EXCEPT !.n = v] = Rec(a, b, v, e)
                         /\ [Rec(a, b, c, e) EXCEPT !.root = v] = Rec(a, b, c, v)
  OBVIOUS
<1>2. [p EXCEPT !.from = from, !.pc = pc, !.n = n]
        = [[[p EXCEPT !.from = from] EXCEPT !.pc = pc] EXCEPT !.n = n]
  OBVIOUS
<1>3. [p EXCEPT !.pc = pc, !.from = from, !.n = n, !.root = root]
        = [[[[p EXCEPT !.pc = pc] EXCEPT !.from = from] EXCEPT !.n = n] EXCEPT !.root = root]
  OBVIOUS
<1> HIDE DEF Rec
<1>4. [p EXCEPT !.from = from, !.pc = pc, !.n = n] = Rec(pc, from, n, w)
  <2>1. [p EXCEPT !.from = from] = Rec(x, from, z, w)  BY <1>0, <1>1
  <2>2. [Rec(x, from, z, w) EXCEPT !.pc = pc] = Rec(pc, from, z, w)  BY <1>1
  <2>3. [Rec(pc, from, z, w) EXCEPT !.n = n] = Rec(pc, from, n, w)  BY <1>1
  <2> QED  BY <1>0, <1>2, <2>1, <2>2, <2>3
<1>5. [p EXCEPT !.pc = pc, !.from = from, !.n = n, !.root = root] = Rec(pc, from, n, root)
  <2>1. [p EXCEPT !.pc = pc] = Rec(pc, y, z, w)  BY <1>0, <1>1
  <2>2. [Rec(pc, y, z, w) EXCEPT !.from = from] = Rec(pc, from, z, w)  BY <1>1
  <2>3. [Rec(pc, from, z, w) EXCEPT !.n = n] = Rec(pc, from, n, w)  BY <1>1
  <2>4. [Rec(pc, from, n, w) EXCEPT !.root = root] = Rec(pc, from, n, root)  BY <1>1
  <2> QED  BY <1>3, <2>1, <2>2, <2>3, <2>4
<1> QED  BY <1>0, <1>4, <1>5 DEF Rec, StartedRun, Exited

\* alembic's exit.
LEMMA AppliedFacts ==
    ASSUME LedgerInv, NEW s \in Slots, Applied(s)
    PROVE  \E q : /\ runs' = [runs EXCEPT ![s] = q] /\ IsRun(q) /\ q.root.nonce = 0
                  /\ \A b, m : ProcessSound(q, b, m)
<1>1. PICK p : p = runs[s]  OBVIOUS
<1>2. IsRun(p) /\ ProcessSound(p, db, moves)  BY <1>1 DEF LedgerInv, RunsSound
<1>3. PICK q : q = [op |-> p.op, to |-> p.to, d |-> p.d, id |-> p.id, pc |-> "applied",
                    from |-> NoRun.from, n |-> 0, root |-> NoRun.root]
  OBVIOUS
<1>4. Exited(p, "applied", NoRun.from, 0, NoRun.root) = q
  BY <1>2, <1>3, RunUpdates
<1>5. runs' = [runs EXCEPT ![s] = q]
  <2>1. runs' = [runs EXCEPT ![s] = Exited(p, "applied", NoRun.from, 0, NoRun.root)]
    BY <1>1 DEF Applied, Exited
  <2> QED  BY <1>4, <2>1
<1>6. /\ q.op = p.op /\ q.to = p.to /\ q.d = p.d /\ q.id = p.id /\ q.pc = "applied"
      /\ q.from = NoRun.from /\ q.n = 0 /\ q.root = NoRun.root
  BY <1>3
<1>7. IsRun(q)  BY <1>2, <1>3, <1>6, NoRunFacts DEF IsRun
<1>8. q.root.nonce = 0  BY <1>6, NoRunFacts
<1>9. \A b, m : ProcessSound(q, b, m)  BY <1>2, <1>6, <1>8 DEF ProcessSound
<1> QED  BY <1>5, <1>7, <1>8, <1>9

\* A result is checked against the ledger without a write (CheckResult).
LEMMA CheckResultStep ==
    ASSUME LedgerInv, NEW s \in Slots, CheckResult(s)
    PROVE  LedgerInv' /\ OperationsStep
<1>1. UNCHANGED <<db, moves, lastRun, verified>>  BY DEF CheckResult
<1>2. CASE Ended(s)  BY <1>1, <1>2, EndedStep
<1>3. CASE ~Ended(s)
  <2>1. PICK p : p = runs[s]  OBVIOUS
  <2>2. IsRun(p) /\ ProcessSound(p, db, moves)  BY <2>1 DEF LedgerInv, RunsSound
  <2>3. runs[s].d # 0 /\ runs' = [runs EXCEPT ![s].pc = "checked"]
    BY <1>3 DEF CheckResult
  <2>4. PICK q : q = [op |-> p.op, to |-> p.to, d |-> p.d, id |-> p.id, pc |-> "checked",
                      from |-> p.from, n |-> p.n, root |-> p.root]
    OBVIOUS
  <2>5. [p EXCEPT !.pc = "checked"] = q  BY <2>2, <2>4 DEF IsRun
  <2>6. runs' = [runs EXCEPT ![s] = q]  BY <2>1, <2>3, <2>5
  <2>7. /\ q.op = p.op /\ q.to = p.to /\ q.d = p.d /\ q.id = p.id /\ q.pc = "checked"
        /\ q.from = p.from /\ q.n = p.n /\ q.root = p.root
    BY <2>4
  <2>8. IsRun(q)  BY <2>2, <2>4, <2>7 DEF IsRun
  <2>9. ProcessSound(q, db, moves)  BY <2>1, <2>2, <2>3, <2>7 DEF ProcessSound
  <2> QED  BY <1>1, <2>1, <2>6, <2>7, <2>8, <2>9, GoesOn
<1> QED  BY <1>2, <1>3

\* What begins knows the database as it is now.
LEMMA BeginStep ==
    ASSUME LedgerInv, NEW s \in Slots, Begin(s)
    PROVE  LedgerInv' /\ OperationsStep
<1>1. UNCHANGED <<db, moves, lastRun, verified>>  BY DEF Begin
<1>2. CASE Ended(s)  BY <1>1, <1>2, EndedStep
<1>3. CASE Applied(s)
  <2>1. PICK q : /\ runs' = [runs EXCEPT ![s] = q] /\ IsRun(q) /\ q.root.nonce = 0
                 /\ \A b, m : ProcessSound(q, b, m)
    BY <1>3, AppliedFacts
  <2>2. ProcessSound(q, db, moves)  BY <2>1
  <2> QED  BY <1>1, <2>1, <2>2, GoesOn
<1>4. CASE ~Ended(s) /\ ~Applied(s)
  <2>1. PICK p, b : p = runs[s] /\ b = db  OBVIOUS
  <2>2. IsRun(p) /\ ProcessSound(p, b, moves) /\ LedgerSound(b)
    BY <2>1 DEF LedgerInv, RunsSound
  <2>3. /\ p.pc = "ready" /\ ~NothingToDo(s) /\ ShortPath(s)
        /\ GuardsPass(b, p.op, p.to, p.root)
        /\ runs' = [runs EXCEPT ![s].from = db.rev, ![s].pc = "begun",
                                ![s].n = NonceOf(db, Corrected(s))]
    BY <1>4, <2>1 DEF Begin
  <2>4. PICK n : n = NonceOf(b, Corrected(s))  OBVIOUS
  <2>5. PICK q : q = [op |-> p.op, to |-> p.to, d |-> p.d, id |-> p.id, pc |-> "begun",
                      from |-> b.rev, n |-> n, root |-> p.root]
    OBVIOUS
  <2>6. runs' = [runs EXCEPT ![s] = q]
    <3>1. StartedRun(p, "begun", b.rev, n) = q  BY <2>2, <2>5, RunUpdates
    <3>2. runs' = [runs EXCEPT ![s] = StartedRun(p, "begun", b.rev, n)]
      BY <2>1, <2>3, <2>4 DEF LedgerInv, RunsSound, StartedRun
    <3> QED  BY <3>1, <3>2
  <2>7. /\ q.op = p.op /\ q.to = p.to /\ q.d = p.d /\ q.id = p.id /\ q.pc = "begun"
        /\ q.from = b.rev /\ q.n = n /\ q.root = p.root
    BY <2>5
  <2>8. IsRun(q)  BY <2>2, <2>5, <2>7 DEF IsRun
  <2>9. p.op \in {"upgrade", "downgrade"} /\ p.to \in Revisions
    BY <2>2, <2>3 DEF ProcessSound
  <2>10. b.rev \in Revisions /\ Level(b.rev) \in 1 .. 11 /\ Level(p.to) \in 1 .. 11
    BY <2>2, <2>9, BoundaryFacts, LadderFacts DEF LedgerSound
  <2>11. ASSUME p.op = "upgrade"
         PROVE  /\ Level(b.rev) = Level(p.to) - 1
                /\ p.to \notin {"0010", "0011"} => p.root.nonce # 0
    <3>1. Level(b.rev) = Level(p.to) - 1 /\ MayUpgrade(b, p.to, p.root)
      BY <2>3, <2>11 DEF GuardsPass
    <3>2. p.to \notin {"0010", "0011"} => LoadInputs(p.root)
      BY <3>1 DEF MayUpgrade
    <3> QED  BY <3>1, <3>2 DEF LoadInputs
  <2>12. ASSUME p.op = "downgrade"
         PROVE  /\ Level(b.rev) > Level(p.to)
                /\ Level(b.rev) > Level(p.to) + 1 => b.rev = "0011" /\ p.to = "0010g"
    <3>1. ~(Level(b.rev) <= Level(p.to))  BY <2>1, <2>3, <2>12 DEF NothingToDo
    <3>2. Level(b.rev) > Level(p.to)  BY <2>10, <3>1
    <3>3. Level(IF b.rev = "0011" THEN "0010h" ELSE b.rev) <= Level(p.to) + 1
      BY <2>1, <2>3, <2>12 DEF ShortPath, Corrected
    <3>4. CASE b.rev = "0011"
      <4>1. 10 <= Level(p.to) + 1  BY <3>3, <3>4, LadderFacts
      <4>2. Level(b.rev) > Level(p.to) + 1 => Level(p.to) = 9
        BY <2>10, <3>4, <4>1, LadderFacts
      <4>3. Level(p.to) = 9 => p.to = "0010g"  BY <2>9, LadderFacts
      <4> QED  BY <3>2, <3>4, <4>2, <4>3
    <3>5. CASE b.rev # "0011"  BY <2>10, <3>2, <3>3, <3>5
    <3> QED  BY <3>4, <3>5
  <2>13. ASSUME b.rev = "0010a" PROVE ChainExists(b) /\ \A v \in b.resv : v.d = 0 => v.nonce # n
    <3>1. ChainExists(b)  BY <2>10, <2>13, BoundaryFacts
    <3>2. n = NonceOf(b, "0010a")  BY <2>1, <2>4, <2>13 DEF Corrected
    <3>3. CASE NoncesOf(b, "0010a") = {}
      <4>1. n = 0  BY <3>2, <3>3 DEF NonceOf
      <4>2. \A v \in b.resv : v.d = 0 => v.nonce \in Used(b)
        BY <2>2 DEF Used
      <4>3. 0 \notin Used(b)
        <5>1. Used(b) \subseteq 1 .. (Len(Ladder) + moves - 1)  BY <2>1 DEF LedgerInv
        <5> QED  BY <5>1
      <4> QED  BY <3>1, <4>1, <4>2, <4>3
    <3>4. CASE NoncesOf(b, "0010a") # {}
      <4>1. n \in NoncesOf(b, "0010a")  BY <3>2, <3>4, Zenon DEF NonceOf
      <4>2. PICK row \in b.chain : row.cmd = "0010a" /\ row.nonce = n  BY <4>1 DEF NoncesOf
      <4>3. Chained(b)  BY <2>2, <3>1 DEF LedgerSound
      <4> QED  BY <3>1, <4>2, <4>3 DEF Chained
    <3> QED  BY <3>3, <3>4
  <2>14. Begun(q, b)  BY <2>7, <2>11, <2>12, <2>13 DEF Begun
  <2>15. ProcessSound(q, b, moves)  BY <2>2, <2>7, <2>9, <2>14 DEF ProcessSound
  <2>16. ProcessSound(q, db, moves) /\ q.root.nonce = runs[s].root.nonce
    BY <2>1, <2>7, <2>15
  <2> QED  BY <1>1, <2>6, <2>8, <2>16, GoesOn
<1> QED  BY <1>2, <1>3, <1>4

\* A manual alembic run carries no root.
LEMMA OperatorStep ==
    ASSUME LedgerInv, NEW s \in Slots, OperatorDowngrade(s) \/ OperatorUpgrade(s)
    PROVE  LedgerInv' /\ OperationsStep
<1>1. /\ moves < MaxMoves /\ moves' = moves + 1 /\ UNCHANGED <<db, lastRun, verified>>
  BY DEF OperatorDowngrade, OperatorUpgrade
<1> DEFINE Manual(op, to) == [NoRun EXCEPT !.op = op, !.to = to, !.pc = "ready"]
<1>2. PICK op \in {"upgrade", "downgrade"}, to \in Revisions :
          runs' = [runs EXCEPT ![s] = Manual(op, to)]
  <2>1. CASE OperatorUpgrade(s)
    <3>1. "0010" \in Revisions  BY LadderFacts
    <3>2. runs' = [runs EXCEPT ![s] = Manual("upgrade", "0010")]  BY <2>1 DEF OperatorUpgrade
    <3> HIDE DEF Manual
    <3> QED  BY <3>1, <3>2
  <2>2. CASE OperatorDowngrade(s)
    <3>1. db.rev \in Revisions /\ db.rev # "0009"
      BY <2>2 DEF OperatorDowngrade, LedgerInv, LedgerSound
    <3>2. Level(db.rev) \in 2 .. 11  BY <3>1, LadderFacts
    <3>3. Level(db.rev) - 1 \in DOMAIN Ladder  BY <3>2, LadderFacts
    <3>4. Ladder[Level(db.rev) - 1] \in Revisions  BY <3>3 DEF Revisions
    <3>5. runs' = [runs EXCEPT ![s] = Manual("downgrade", Ladder[Level(db.rev) - 1])]
      BY <2>2 DEF OperatorDowngrade
    <3> HIDE DEF Manual
    <3> QED  BY <3>4, <3>5
  <2> HIDE DEF Manual
  <2> QED  BY <2>1, <2>2
<1>3. PICK q : q = Manual(op, to)  OBVIOUS
<1>4. q = [op |-> op, to |-> to, d |-> 0, id |-> 0, pc |-> "ready", from |-> "0009", n |-> 0,
           root |-> NoRun.root]
  BY <1>3 DEF NoRun
<1> HIDE DEF Manual
<1>5. /\ q.op = op /\ q.to = to /\ q.d = 0 /\ q.id = 0 /\ q.pc = "ready" /\ q.from = "0009"
      /\ q.n = 0 /\ q.root = NoRun.root
  BY <1>4
<1>6. IsRun(q)
  BY <1>4, <1>5, NoRunFacts, LedgerAssumption DEF IsRun, LedgerAssumption
<1>7. ProcessSound(q, db, moves') /\ q.root.nonce = 0
  BY <1>5, NoRunFacts DEF ProcessSound
<1>8. moves' \in moves .. MaxMoves /\ lastRun' \in 0 .. MaxRuns
  BY <1>1, LedgerAssumption DEF LedgerInv, LedgerAssumption
<1> QED  BY <1>1, <1>2, <1>3, <1>6, <1>7, <1>8, QuietStep

\* A minted root is none that a process or the database has.
LEMMA MintedRoot ==
    ASSUME LedgerInv, NEW root \in RootsToMint
    PROVE  /\ root.nonce = Len(Ladder) + moves /\ root.nonce \in Nat \ {0}
           /\ root.nonce \notin Used(db)
           /\ \A t \in Slots : runs[t].root.nonce # root.nonce
<1>1. root.nonce = Len(Ladder) + moves  BY DEF RootsToMint
<1>2. Len(Ladder) = 11 /\ moves \in Nat  BY LadderFacts DEF LedgerInv
<1>3. root.nonce \notin Used(db)
  <2>1. Used(db) \subseteq 1 .. (Len(Ladder) + moves - 1)  BY DEF LedgerInv
  <2>2. Len(Ladder) + moves \notin 1 .. (Len(Ladder) + moves - 1)  BY <1>2
  <2> QED  BY <1>1, <2>1, <2>2
<1>4. ASSUME NEW t \in Slots PROVE runs[t].root.nonce # root.nonce
  <2>1. runs[t].root.nonce # 0 => runs[t].root.nonce < Len(Ladder) + moves
    BY DEF LedgerInv, RunsSound, ProcessSound
  <2> QED  BY <1>1, <1>2, <2>1
<1> QED  BY <1>1, <1>2, <1>3, <1>4

\* A bootstrap dispatch starts on the revision below its own (DispatchBootstrap).
LEMMA DispatchBootstrapStep ==
    ASSUME LedgerInv, NEW s \in Slots, NEW i \in 2 .. 10, NEW root \in RootsToMint,
           DispatchBootstrap(s, Ladder[i], root)
    PROVE  LedgerInv' /\ OperationsStep
<1>1. /\ moves < MaxMoves /\ moves' = moves + 1 /\ UNCHANGED <<db, lastRun, verified>>
  BY DEF DispatchBootstrap
<1>2. PICK to \in Revisions : to = Ladder[i]  BY LadderFacts DEF Revisions
<1>3. PICK q : q = [NoRun EXCEPT !.op = "upgrade", !.to = to, !.pc = "ready", !.root = root]
  OBVIOUS
<1>4. q = [op |-> "upgrade", to |-> to, d |-> 0, id |-> 0, pc |-> "ready", from |-> "0009",
           n |-> 0, root |-> root]
  BY <1>3 DEF NoRun
<1>5. /\ q.op = "upgrade" /\ q.to = to /\ q.d = 0 /\ q.id = 0 /\ q.pc = "ready"
      /\ q.from = "0009" /\ q.n = 0 /\ q.root = root
  BY <1>4
<1>6. runs' = [runs EXCEPT ![s] = q]  BY <1>2, <1>3 DEF DispatchBootstrap
<1>7. /\ root.nonce = Len(Ladder) + moves /\ root.nonce \in Nat \ {0}
      /\ root.nonce \notin Used(db) /\ \A t \in Slots : runs[t].root.nonce # root.nonce
  BY MintedRoot
<1>8. IsRun(q)  BY <1>4, <1>5, <1>7, LedgerAssumption DEF IsRun, LedgerAssumption
<1>9. ProcessSound(q, db, moves')
  <2>1. root.nonce < Len(Ladder) + moves'  BY <1>1, <1>7, LadderFacts DEF LedgerInv
  <2> QED  BY <1>5, <1>7, <2>1 DEF ProcessSound
<1>10. moves' \in moves .. MaxMoves /\ lastRun' \in 0 .. MaxRuns
  BY <1>1, LedgerAssumption DEF LedgerInv, LedgerAssumption
<1>11. \A t \in Slots \ {s} : runs[t].root.nonce # q.root.nonce \/ q.root.nonce = 0
  BY <1>5, <1>7
<1> QED  BY <1>1, <1>6, <1>8, <1>9, <1>10, <1>11, QuietStep

\* A workflow run is started for one reservation (DispatchWorkflow).
LEMMA DispatchWorkflowStep ==
    ASSUME LedgerInv, NEW s \in Slots, NEW v \in db.resv, DispatchWorkflow(s, v)
    PROVE  LedgerInv' /\ OperationsStep
<1>1. /\ v.d > 0 /\ lastRun < MaxRuns /\ lastRun' = lastRun + 1
      /\ UNCHANGED <<db, moves, verified>>
  BY DEF DispatchWorkflow
<1>2. moves' \in moves .. MaxMoves /\ lastRun' \in 0 .. MaxRuns /\ lastRun' # 0
  BY <1>1, LedgerAssumption DEF LedgerInv, LedgerAssumption
<1>3. PICK p : p = runs[s]  OBVIOUS
<1>4. CASE runs' = runs
  <2>1. runs' = [runs EXCEPT ![s] = p]  BY <1>3, <1>4 DEF LedgerInv, RunsSound
  <2>2. IsRun(p) /\ ProcessSound(p, db, moves')
    BY <1>1, <1>3 DEF LedgerInv, RunsSound
  <2>3. \A t \in Slots \ {s} : runs[t].root.nonce # p.root.nonce \/ p.root.nonce = 0
    BY <1>3 DEF LedgerInv, RunsSound
  <2> QED  BY <1>1, <1>2, <2>1, <2>2, <2>3, QuietStep
<1>5. CASE runs' # runs
  <2>1. PICK q : q = [NoRun EXCEPT !.op = v.title[1], !.to = v.title[2], !.d = v.d,
                                   !.id = lastRun + 1, !.pc = "dispatched"]
    OBVIOUS
  <2>2. runs' = [runs EXCEPT ![s] = q]  BY <1>5, <2>1 DEF DispatchWorkflow
  <2>3. q = [op |-> v.title[1], to |-> v.title[2], d |-> v.d, id |-> lastRun + 1,
             pc |-> "dispatched", from |-> "0009", n |-> 0, root |-> NoRun.root]
    BY <2>1 DEF NoRun
  <2>4. /\ q.op = v.title[1] /\ q.to = v.title[2] /\ q.d = v.d /\ q.id = lastRun + 1
        /\ q.pc = "dispatched" /\ q.from = "0009" /\ q.n = 0 /\ q.root = NoRun.root
    BY <2>3
  <2>5. v.d \in 0 .. MaxDispatches /\ v.d # 0
    BY <1>1 DEF LedgerInv, LedgerSound, ReservationsSound, ReservationTable
  <2>6. IsRun(q)  BY <1>1, <1>2, <2>3, <2>4, <2>5, NoRunFacts DEF IsRun
  <2>7. ProcessSound(q, db, moves') /\ q.root.nonce = 0
    BY <1>1, <1>2, <2>4, <2>5, NoRunFacts DEF ProcessSound
  <2> QED  BY <1>1, <1>2, <2>2, <2>6, <2>7, QuietStep
<1> QED  BY <1>4, <1>5

\* A receipt is verified against the operation it names (VerifyReceipt).
LEMMA VerifyReceiptStep ==
    ASSUME LedgerInv, NEW v \in db.resv, VerifyReceipt(v)
    PROVE  LedgerInv' /\ OperationsStep
<1>1. PICK x : x = [d |-> v.d, run |-> v.run]  OBVIOUS
<1>2. /\ verified' = verified \cup {x} /\ v.d > 0
      /\ UNCHANGED <<db, moves, lastRun, runs>>
      /\ \E o \in db.ops : ReceiptMatches(o, v)
  BY <1>1 DEF VerifyReceipt
<1>3. x.d > 0 /\ \E o \in db.ops : o.d = x.d /\ o.run = x.run
  BY <1>1, <1>2 DEF ReceiptMatches
<1>4. \A y \in verified' : y.d > 0 /\ \E o \in db'.ops : o.d = y.d /\ o.run = y.run
  BY <1>2, <1>3 DEF LedgerInv
<1>5. LedgerInv'  BY <1>2, <1>4 DEF LedgerInv, RunsSound
<1>6. OperationsStep  BY <1>2 DEF OperationsStep
<1> QED  BY <1>5, <1>6

-----------------------------------------------------------------------------
(* The steps that write the ledger *)

\* Every process stays while the database only grows.
LEMMA GrowingStep ==
    ASSUME LedgerInv, NEW s \in Slots, NEW q, runs' = [runs EXCEPT ![s] = q],
           IsRun(q), ProcessSound(q, db', moves),
           q.root.nonce \in {0, runs[s].root.nonce},
           LedgerSound(db'), Used(db') = Used(db), ChainExists(db'),
           \A v \in db'.resv : v.d = 0 => v \in db.resv,
           \A o \in db.ops : o \in db'.ops,
           UNCHANGED <<moves, lastRun, verified>>
    PROVE  LedgerInv'
<1>0. moves' = moves /\ moves \in Nat /\ moves <= moves /\ Used(db') = Used(db)
  BY DEF LedgerInv
<1>1. \A t \in Slots \ {s} : runs[t].root.nonce # q.root.nonce \/ q.root.nonce = 0
  BY DEF LedgerInv, RunsSound
<1>2. \A t \in Slots : runs[t].root.nonce # 0 => runs[t].root.nonce \notin Used(db')
  BY <1>0 DEF LedgerInv, RunsSound, ProcessSound
<1>3. RunsSound'
  BY <1>0, <1>1, <1>2, RunsKept
<1>4. Used(db') \subseteq 1 .. (Len(Ladder) + moves' - 1)  BY <1>0 DEF LedgerInv
<1>5. \A x \in verified' : x.d > 0 /\ \E o \in db'.ops : o.d = x.d /\ o.run = x.run
  BY DEF LedgerInv
<1>6. moves' \in 0 .. MaxMoves /\ lastRun' \in 0 .. MaxRuns  BY DEF LedgerInv
<1> QED  BY <1>3, <1>4, <1>5, <1>6 DEF LedgerInv

\* What is kept is not taken by the step.
LEMMA KeptStep ==
    ASSUME Kept(db, db'), ReservationsSound(db)
    PROVE  OperationsStep
<1>1. \A v \in db.resv : v.d # 0 => v \in db'.resv
  <2>1. \A v \in db.resv : v.d \in 0 .. MaxDispatches
    BY DEF ReservationsSound, ReservationTable
  <2> QED  BY <2>1 DEF Kept
<1>2. {v.d : v \in db.resv} \ {0} \subseteq {v.d : v \in db'.resv}  BY <1>1
<1> QED  BY <1>2 DEF OperationsStep, Kept

\* A dispatch is reserved on a predecessor receipt (ReserveDispatch).
LEMMA ReserveDispatchStep ==
    ASSUME LedgerInv, NEW row \in Predecessors, NEW title, NEW d \in 1 .. MaxDispatches,
           ReserveDispatch(row.nonce, row, title, d)
    PROVE  LedgerInv' /\ OperationsStep
<1>1. /\ row \in db.chain /\ ChainExists(db) /\ \A v \in db.resv : v.d # d
      /\ UNCHANGED <<moves, lastRun, runs, verified>>
  BY DEF ReserveDispatch, Predecessors, Reservable, FreshDispatch
<1>2. db' = Reserved(db, row.nonce, row, title, d)  BY DEF ReserveDispatch, Reserved
<1>3. LedgerSound(db)  BY DEF LedgerInv
<1>4. /\ LedgerSound(db') /\ Used(db') = Used(db) /\ Kept(db, db') /\ ChainExists(db')
      /\ \A v \in db'.resv : v.d = 0 => v \in db.resv
  <2>1. PICK n, b, c : n = row.nonce /\ b = db /\ c = db'  OBVIOUS
  <2>2. /\ LedgerSound(b) /\ ChainExists(b) /\ row \in b.chain /\ row.nonce = n
        /\ c = Reserved(b, n, row, title, d) /\ \A v \in b.resv : v.d # d
    BY <1>1, <1>2, <1>3, <2>1
  <2>3. /\ LedgerSound(c) /\ Used(c) = Used(b) /\ Kept(b, c) /\ ChainExists(c)
        /\ \A v \in c.resv : v.d = 0 => v \in b.resv
    BY <2>2, ReservedFacts
  <2> QED  BY <2>1, <2>3
<1>5. \A o \in db.ops : o \in db'.ops
  BY <1>2, <1>3 DEF Reserved, LedgerSound, IsDatabase
<1>6. RunsSound'
  <2>1. ASSUME NEW t \in Slots PROVE IsRun(runs'[t]) /\ ProcessSound(runs'[t], db', moves')
    <3>1. PICK p : p = runs[t]  OBVIOUS
    <3>2. IsRun(p) /\ ProcessSound(p, db, moves) /\ moves \in Nat /\ moves <= moves
      BY <3>1 DEF LedgerInv, RunsSound
    <3>3. p.root.nonce # 0 => p.root.nonce \notin Used(db')
      BY <1>4, <3>2 DEF ProcessSound
    <3>4. ProcessSound(p, db', moves)  BY <1>4, <3>2, <3>3, ProcessKept
    <3> QED  BY <1>1, <3>1, <3>2, <3>4
  <2> QED  BY <1>1, <2>1 DEF LedgerInv, RunsSound
<1>7. LedgerInv'  BY <1>1, <1>4, <1>5, <1>6 DEF LedgerInv
<1>8. OperationsStep  BY <1>3, <1>4, KeptStep DEF LedgerSound
<1> QED  BY <1>7, <1>8

\* A workflow run claims its dispatch (Claim).
LEMMA ClaimStep ==
    ASSUME LedgerInv, NEW s \in Slots, Claim(s)
    PROVE  LedgerInv' /\ OperationsStep
<1>1. UNCHANGED <<moves, lastRun, verified>> /\ runs[s].pc = "dispatched"  BY DEF Claim
<1>2. CASE Ended(s) /\ UNCHANGED db  BY <1>1, <1>2, EndedStep
<1>3. CASE \E v \in db.resv :
              /\ Claimable(v, s)
              /\ db' = Claimed(db, v, runs[s].id)
              /\ runs' = [runs EXCEPT ![s].pc =
                             IF ReviewedPostLedger(v.title) THEN "ready" ELSE "applied"]
  <2>1. PICK v \in db.resv :
              /\ Claimable(v, s)
              /\ db' = Claimed(db, v, runs[s].id)
              /\ runs' = [runs EXCEPT ![s].pc =
                             IF ReviewedPostLedger(v.title) THEN "ready" ELSE "applied"]
    BY <1>3
  <2>2. PICK p, pc : p = runs[s] /\ pc = IF ReviewedPostLedger(v.title) THEN "ready" ELSE "applied"
    OBVIOUS
  <2>3. IsRun(p) /\ ProcessSound(p, db, moves)  BY <2>2 DEF LedgerInv, RunsSound
  <2>4. /\ p.pc = "dispatched" /\ v.d = p.d /\ v.title = <<p.op, p.to>> /\ v.run = 0
        /\ \A w \in db.resv : w.run # p.id
    BY <1>1, <2>1, <2>2 DEF Claimable, Authenticated
  <2>5. p.d # 0 /\ p.id \in 1 .. MaxRuns  BY <2>3, <2>4 DEF ProcessSound, IsRun
  <2>6. LedgerSound(db) /\ v.d # 0 /\ db' = Claimed(db, v, p.id)
    BY <2>1, <2>2, <2>4, <2>5 DEF LedgerInv
  <2>7. /\ LedgerSound(db') /\ Used(db') = Used(db) /\ ChainExists(db) /\ ChainExists(db')
        /\ db.chain \subseteq db'.chain /\ db'.ops = db.ops
        /\ \A x \in db.resv : \E y \in db'.resv : y.d = x.d
        /\ \A x \in db'.resv : x.d = 0 => x \in db.resv
    <3>1. PICK run, b, c : run = p.id /\ b = db /\ c = db'  OBVIOUS
    <3>2. /\ LedgerSound(b) /\ v \in b.resv /\ v.d # 0 /\ v.run = 0 /\ run \in 1 .. MaxRuns
          /\ c = Claimed(b, v, run) /\ \A w \in b.resv : w.run # run
      BY <2>4, <2>5, <2>6, <3>1
    <3>3. /\ LedgerSound(c) /\ Used(c) = Used(b) /\ ChainExists(b) /\ ChainExists(c)
          /\ b.chain \subseteq c.chain /\ c.ops = b.ops
          /\ \A x \in b.resv : \E y \in c.resv : y.d = x.d
          /\ \A x \in c.resv : x.d = 0 => x \in b.resv
      BY <3>2, ClaimedFacts
    <3> QED  BY <3>1, <3>3
  <2>8. PICK q : q = [op |-> p.op, to |-> p.to, d |-> p.d, id |-> p.id, pc |-> pc,
                      from |-> p.from, n |-> p.n, root |-> p.root]
    OBVIOUS
  <2>9. runs' = [runs EXCEPT ![s] = q]
    <3>1. [p EXCEPT !.pc = pc] = q  BY <2>3, <2>8 DEF IsRun
    <3>2. runs' = [runs EXCEPT ![s] = [p EXCEPT !.pc = pc]]  BY <2>1, <2>2
    <3> QED  BY <3>1, <3>2
  <2>10. /\ q.op = p.op /\ q.to = p.to /\ q.d = p.d /\ q.id = p.id /\ q.pc = pc
         /\ q.from = p.from /\ q.n = p.n /\ q.root = p.root
    BY <2>8
  <2>11. IsRun(q)  BY <2>2, <2>3, <2>8, <2>10 DEF IsRun
  <2>12. pc \in {"ready", "applied"}  BY <2>2
  <2>13. pc = "ready" => p.op \in {"upgrade", "downgrade"} /\ p.to \in Revisions
    <3> SUFFICES ASSUME ReviewedPostLedger(v.title)
                 PROVE  p.op \in {"upgrade", "downgrade"} /\ p.to \in Revisions
      BY <2>2
    <3>1. PICK x : x = v.title  OBVIOUS
    <3>2. x \in Titles /\ x # <<"other", "none">>  BY <3>1 DEF ReviewedPostLedger
    <3>3. x = <<"upgrade", "0011">> \/ x = <<"downgrade", "0010g">>
             \/ x = <<"downgrade", "0010h">>
      BY <3>2 DEF Titles
    <3>4. x[1] = p.op /\ x[2] = p.to  BY <2>4, <3>1
    <3>5. x[1] \in {"upgrade", "downgrade"} /\ x[2] \in {"0011", "0010g", "0010h"}  BY <3>3
    <3> QED  BY <3>4, <3>5, LadderFacts
  <2>14. q.root.nonce # 0 => q.root.nonce < Len(Ladder) + moves /\ q.root.nonce \notin Used(db')
    BY <2>3, <2>7, <2>10 DEF ProcessSound
  <2>15. ProcessSound(q, db', moves)
    BY <2>5, <2>10, <2>12, <2>13, <2>14 DEF ProcessSound
  <2>16. LedgerInv'
    <3>1. q.root.nonce \in {0, runs[s].root.nonce} /\ \A o \in db.ops : o \in db'.ops
      BY <2>2, <2>7, <2>10
    <3> QED  BY <1>1, <2>7, <2>9, <2>11, <2>15, <3>1, GrowingStep
  <2>17. OperationsStep  BY <2>7 DEF OperationsStep
  <2> QED  BY <2>16, <2>17
<1> QED  BY <1>2, <1>3 DEF Claim

\* A workflow run completes its dispatch (Complete).
LEMMA CompleteStep ==
    ASSUME LedgerInv, NEW s \in Slots, Complete(s)
    PROVE  LedgerInv' /\ OperationsStep
<1>1. UNCHANGED <<moves, lastRun, verified>> /\ runs[s].pc = "checked"  BY DEF Complete
<1>2. CASE UNCHANGED db /\ runs' = [runs EXCEPT ![s] = [NoRun EXCEPT !.pc = "refused"]]
  <2>1. PICK q : q = [NoRun EXCEPT !.pc = "refused"]  OBVIOUS
  <2>2. q = [op |-> "none", to |-> "none", d |-> 0, id |-> 0, pc |-> "refused",
             from |-> "0009", n |-> 0, root |-> NoRun.root]
    BY <2>1 DEF NoRun
  <2>3. q.d = 0 /\ q.id = 0 /\ q.pc = "refused" /\ q.root = NoRun.root /\ q.op = "none"
        /\ q.to = "none" /\ q.from = "0009" /\ q.n = 0
    BY <2>2
  <2>4. IsRun(q)
    BY <2>2, <2>3, NoRunFacts, LedgerAssumption DEF IsRun, LedgerAssumption
  <2>5. ProcessSound(q, db, moves) /\ q.root.nonce = 0  BY <2>3, NoRunFacts DEF ProcessSound
  <2> QED  BY <1>1, <1>2, <2>1, <2>4, <2>5, GoesOn
<1>3. CASE \E v \in db.resv : MayComplete(v, s) /\ db' = Completed(db, v, s) /\ Ended(s)
  <2>1. PICK v \in db.resv : MayComplete(v, s) /\ db' = Completed(db, v, s) /\ Ended(s)
    BY <1>3
  <2>2. PICK p, cmd, rev : p = runs[s] /\ cmd = Command(s) /\ rev = db.rev  OBVIOUS
  <2>3. ProcessSound(p, db, moves)  BY <2>2 DEF LedgerInv, RunsSound
  <2>4. /\ p.pc = "checked" /\ v.d = p.d /\ v.run = p.id /\ cmd \in AllowedCommands
        /\ \A o \in db.ops : o.d # v.d
    BY <1>1, <2>1, <2>2 DEF MayComplete, Completable, Authenticated
  <2>5. v.d # 0 /\ v.run # 0  BY <2>3, <2>4 DEF ProcessSound
  <2>6. db' = Finished(db, v, cmd, rev)
    BY <2>1, <2>2, <2>4 DEF Completed, Finished
  <2>7. LedgerSound(db)  BY DEF LedgerInv
  <2>8. /\ LedgerSound(db') /\ Used(db') = Used(db) /\ Kept(db, db') /\ db'.resv = db.resv
        /\ ChainExists(db')
    BY <2>4, <2>5, <2>6, <2>7, FinishedFacts
  <2>9. PICK q : q = NoRun  OBVIOUS
  <2>10. runs' = [runs EXCEPT ![s] = q] /\ IsRun(q) /\ ProcessSound(q, db', moves)
         /\ q.root.nonce = 0
    BY <2>1, <2>9, NoRunFacts DEF Ended
  <2>11. \A o \in db.ops : o \in db'.ops
    BY <2>6, <2>7 DEF Finished, LedgerSound, IsDatabase
  <2>12. LedgerInv'
    <3>1. \A x \in db'.resv : x.d = 0 => x \in db.resv  BY <2>8
    <3> QED  BY <1>1, <2>8, <2>10, <2>11, <3>1, GrowingStep
  <2>13. OperationsStep  BY <2>7, <2>8, KeptStep DEF LedgerSound
  <2> QED  BY <2>12, <2>13
<1> QED  BY <1>2, <1>3 DEF Complete

\* A migration commits: its schema, its rows and its root at once (CommitMigration).
LEMMA CommitStep ==
    ASSUME LedgerInv, NEW s \in Slots, CommitMigration(s)
    PROVE  LedgerInv' /\ OperationsStep
<1>1. UNCHANGED <<moves, lastRun, verified>> /\ runs[s].pc = "begun" /\ LocksFree(s)
  BY DEF CommitMigration
<1>2. CASE Ended(s) /\ UNCHANGED db  BY <1>1, <1>2, EndedStep
<1>3. CASE ~(Ended(s) /\ UNCHANGED db)
  <2>1. PICK p, b : p = runs[s] /\ b = db  OBVIOUS
  <2>2. /\ b.rev = p.from /\ ConstraintsHold(b, p.op, p.to, p.n)
        /\ db' = Path(b, p.op, p.to, p.root, p.n) /\ Applied(s)
    BY <1>3, <2>1 DEF CommitMigration
  <2>3. IsRun(p) /\ ProcessSound(p, b, moves) /\ LedgerSound(b) /\ p.pc = "begun"
    BY <1>1, <2>1 DEF LedgerInv, RunsSound
  <2>4. /\ p.op \in {"upgrade", "downgrade"} /\ p.to \in Revisions /\ Begun(p, b)
        /\ p.root.nonce \in Nat
        /\ p.root.nonce # 0 => p.root.nonce < Len(Ladder) + moves /\ p.root.nonce \notin Used(b)
    BY <2>3 DEF ProcessSound, IsRun
  <2>5. /\ p.op = "upgrade" =>
              /\ Level(b.rev) = Level(p.to) - 1
              /\ p.to \notin {"0010", "0011"} => p.root.nonce # 0
              /\ p.root.nonce # 0 => p.root.nonce \notin Used(b)
        /\ p.op = "downgrade" =>
              /\ Level(b.rev) > Level(p.to)
              /\ Level(b.rev) > Level(p.to) + 1 => b.rev = "0011" /\ p.to = "0010g"
              /\ b.rev = "0010a" => \A v \in b.resv : v.d = 0 => v.nonce # p.n
    BY <2>2, <2>4 DEF Begun
  <2>6. /\ Migrated(b, db', Reached(p.root))
        /\ ChainExists(b) /\ ~(p.op = "downgrade" /\ b.rev = "0010a") => ChainExists(db')
    BY <2>2, <2>3, <2>4, <2>5, PathFacts
  <2>7. /\ LedgerSound(db') /\ Used(db') \subseteq Used(b) \cup Reached(p.root) /\ Kept(b, db')
        /\ ChainExists(b) => db'.resv = b.resv
    BY <2>6 DEF Migrated
  <2>8. PICK q : /\ runs' = [runs EXCEPT ![s] = q] /\ IsRun(q) /\ q.root.nonce = 0
                 /\ \A x, m : ProcessSound(q, x, m)
    BY <2>2, AppliedFacts
  <2>9. ASSUME NEW t \in Slots \ {s}
        PROVE  /\ runs[t].root.nonce # 0 => runs[t].root.nonce \notin Used(db')
               /\ runs[t].pc = "begun" /\ runs[t].op = "downgrade" /\ runs[t].from = "0010a"
                     => ChainExists(db') /\ \A v \in db'.resv : v.d = 0 => v \in db.resv
    <3>1. ProcessSound(runs[t], db, moves)  BY DEF LedgerInv, RunsSound
    <3>2. runs[t].root.nonce # 0 => runs[t].root.nonce \notin Used(db')
      <4>1. runs[t].root.nonce # 0 => runs[t].root.nonce # p.root.nonce
        BY <2>1 DEF LedgerInv, RunsSound
      <4>2. runs[t].root.nonce # 0 => runs[t].root.nonce \notin Used(b)
        BY <2>1, <3>1 DEF ProcessSound
      <4> QED  BY <2>7, <4>1, <4>2 DEF Reached
    <3>3. ASSUME runs[t].pc = "begun", runs[t].op = "downgrade", runs[t].from = "0010a"
          PROVE  ChainExists(db') /\ \A v \in db'.resv : v.d = 0 => v \in db.resv
      <4>1. ChainExists(b)  BY <2>1, <3>1, <3>3 DEF ProcessSound, Begun
      <4>2. ~(p.op = "downgrade" /\ b.rev = "0010a")
        BY <1>1, <2>1, <3>3 DEF LocksFree
      <4> QED  BY <2>1, <2>6, <2>7, <4>1, <4>2
    <3> QED  BY <3>2, <3>3
  <2>10. moves' \in Nat /\ moves <= moves' /\ moves' = moves  BY <1>1 DEF LedgerInv
  <2>11. RunsSound'
    <3>1. ProcessSound(q, db', moves')  BY <2>8
    <3> QED  BY <2>8, <2>9, <2>10, <3>1, RunsKept
  <2>12. Used(db') \subseteq 1 .. (Len(Ladder) + moves' - 1)
    <3>1. Used(b) \subseteq 1 .. (Len(Ladder) + moves - 1)  BY <2>1 DEF LedgerInv
    <3>2. Len(Ladder) \in Nat  BY LadderFacts
    <3>3. Reached(p.root) \subseteq 1 .. (Len(Ladder) + moves - 1)
      BY <2>4, <2>10, <3>2 DEF Reached
    <3> QED  BY <2>7, <2>10, <3>1, <3>3
  <2>13. \A x \in verified' : x.d > 0 /\ \E o \in db'.ops : o.d = x.d /\ o.run = x.run
    BY <1>1, <2>1, <2>7 DEF LedgerInv, Kept
  <2>14. LedgerInv'
    <3>1. moves' \in 0 .. MaxMoves /\ lastRun' \in 0 .. MaxRuns  BY <1>1 DEF LedgerInv
    <3> QED  BY <2>7, <2>11, <2>12, <2>13, <3>1 DEF LedgerInv
  <2>15. OperationsStep  BY <2>1, <2>3, <2>7, KeptStep DEF LedgerSound
  <2> QED  BY <2>14, <2>15
<1> QED  BY <1>2, <1>3

-----------------------------------------------------------------------------
(* A reviewed deployment *)

First(i) == [nonce |-> i - 1, plan |-> 1, ident |-> 1]

\* The databases of the ladder, defined along it.
Climb(f) == [i \in DOMAIN Ladder |->
                IF i = 1 THEN Empty ELSE Upgraded(f[i - 1], Ladder[i], First(i))]
Climbed == CHOOSE f : f = Climb(f)

\* The databases of all revisions are what one climb of the chain builds.
LEMMA ClimbedFacts ==
    Climbed = Climb(Climbed)
<1> DEFINE Up(b, i) == Upgraded(b, Ladder[i], First(i))
<1>1. PICK e1, e2, e3, e4, e5, e6, e7, e8, e9, e10, e11 :
          /\ e1 = Empty /\ e2 = Up(e1, 2) /\ e3 = Up(e2, 3) /\ e4 = Up(e3, 4) /\ e5 = Up(e4, 5)
          /\ e6 = Up(e5, 6) /\ e7 = Up(e6, 7) /\ e8 = Up(e7, 8) /\ e9 = Up(e8, 9)
          /\ e10 = Up(e9, 10) /\ e11 = Up(e10, 11)
  <2> HIDE DEF Up
  <2> QED  OBVIOUS
<1> HIDE DEF Up
<1>2. PICK f : f = <<e1, e2, e3, e4, e5, e6, e7, e8, e9, e10, e11>>  OBVIOUS
<1>3. /\ f[1] = e1 /\ f[2] = e2 /\ f[3] = e3 /\ f[4] = e4 /\ f[5] = e5 /\ f[6] = e6
      /\ f[7] = e7 /\ f[8] = e8 /\ f[9] = e9 /\ f[10] = e10 /\ f[11] = e11
      /\ DOMAIN f = 1 .. 11 /\ f = [i \in 1 .. 11 |-> f[i]]
  BY <1>2
<1>4. ASSUME NEW i \in 1 .. 11 PROVE f[i] = IF i = 1 THEN Empty ELSE Up(f[i - 1], i)
  <2>1. \/ i = 1 \/ i = 2 \/ i = 3 \/ i = 4 \/ i = 5 \/ i = 6 \/ i = 7 \/ i = 8 \/ i = 9
        \/ i = 10 \/ i = 11
    OBVIOUS
  <2> QED  BY <1>1, <1>3, <2>1
<1>5. Climb(f) = [i \in 1 .. 11 |-> IF i = 1 THEN Empty ELSE Up(f[i - 1], i)]
  BY LadderFacts DEF Climb, Up
<1>6. f = Climb(f)  BY <1>3, <1>4, <1>5
<1> QED  BY <1>6, Zenon DEF Climbed

\* Each database a run may start from is sound, with its roots' nonces used.
LEMMA DeployedFacts ==
    ASSUME NEW r \in Starts
    PROVE  LedgerSound(Deployed[r]) /\ Used(Deployed[r]) \subseteq 1 .. 10
<1>1. Deployed = [x \in Starts |-> Climbed[Level(x)]]
  BY DEF Deployed, Climbed, Climb, First
<1>2. r \in Revisions  BY LedgerAssumption DEF LedgerAssumption, Revisions
<1>3. Level(r) \in 1 .. 11  BY <1>2, LadderFacts
<1>4. /\ Climbed[1] = Empty
      /\ \A i \in 2 .. 11 : Climbed[i] = Upgraded(Climbed[i - 1], Ladder[i], First(i))
  <2>1. DOMAIN Ladder = 1 .. 11  BY LadderFacts
  <2> QED  BY <2>1, ClimbedFacts DEF Climb
<1> DEFINE P(i) == /\ LedgerSound(Climbed[i]) /\ Used(Climbed[i]) \subseteq 1 .. (i - 1)
                   /\ Level(Climbed[i].rev) = i
<1>5. P(1)
  BY <1>4, EmptyFacts, LadderFacts
<1>6. ASSUME NEW i \in 2 .. 11, P(i - 1) PROVE P(i)
  <2>1. PICK b, root, to : b = Climbed[i - 1] /\ root = First(i) /\ to = Ladder[i]  OBVIOUS
  <2>2. root.nonce = i - 1  BY <2>1 DEF First
  <2>3. to \in Revisions /\ Level(to) = i
    <3>1. i \in 1 .. 11  OBVIOUS
    <3> QED  BY <2>1, <3>1, LadderFacts, LevelOf DEF Revisions
  <2>4. LedgerSound(b) /\ Used(b) \subseteq 1 .. (i - 2) /\ Level(b.rev) = Level(to) - 1
    BY <1>6, <2>1, <2>3
  <2>5. root.nonce \in Nat /\ root.nonce # 0 /\ root.nonce \notin Used(b)
    BY <2>2, <2>4
  <2>6. Migrated(b, Upgraded(b, to, root), Reached(root)) /\ Upgraded(b, to, root).rev = to
    BY <2>3, <2>4, <2>5, UpgradeFacts
  <2>7. Climbed[i] = Upgraded(b, to, root)  BY <1>4, <2>1
  <2>8. Used(Climbed[i]) \subseteq Used(b) \cup {i - 1}
    BY <2>2, <2>6, <2>7 DEF Migrated, Reached
  <2>9. Used(Climbed[i]) \subseteq 1 .. (i - 1)  BY <2>4, <2>8
  <2> QED  BY <2>3, <2>6, <2>7, <2>9 DEF Migrated
<1>7. \A i \in 1 .. 11 : P(i)
  <2>1. \A i \in 2 .. 11 : P(i - 1) => P(i)  BY <1>6
  <2> HIDE DEF P
  <2>2. P(2)  BY <1>5, <2>1
  <2>3. P(3)  BY <2>2, <2>1
  <2>4. P(4)  BY <2>3, <2>1
  <2>5. P(5)  BY <2>4, <2>1
  <2>6. P(6)  BY <2>5, <2>1
  <2>7. P(7)  BY <2>6, <2>1
  <2>8. P(8)  BY <2>7, <2>1
  <2>9. P(9)  BY <2>8, <2>1
  <2>10. P(10)  BY <2>9, <2>1
  <2>11. P(11)  BY <2>10, <2>1
  <2> SUFFICES ASSUME NEW i \in 1 .. 11 PROVE P(i)  OBVIOUS
  <2>12. \/ i = 1 \/ i = 2 \/ i = 3 \/ i = 4 \/ i = 5 \/ i = 6 \/ i = 7 \/ i = 8 \/ i = 9
         \/ i = 10 \/ i = 11
    OBVIOUS
  <2> QED  BY <1>5, <2>2, <2>3, <2>4, <2>5, <2>6, <2>7, <2>8, <2>9, <2>10, <2>11, <2>12
<1>8. Deployed[r] = Climbed[Level(r)]  BY <1>1
<1> QED  BY <1>3, <1>7, <1>8

\* The ledger's invariant holds at the start.
LEMMA LedgerInitSound == LedgerInit => LedgerInv
<1> SUFFICES ASSUME LedgerInit PROVE LedgerInv  OBVIOUS
<1>1. LedgerSound(db) /\ Used(db) \subseteq 1 .. 10
  <2>1. PICK r \in Starts : db = Deployed[r]  BY DEF LedgerInit
  <2> QED  BY <2>1, DeployedFacts
<1>2. moves = 0 /\ lastRun = 0 /\ runs = [s \in Slots |-> NoRun] /\ verified = {}
  BY DEF LedgerInit
<1>3. Used(db) \subseteq 1 .. (Len(Ladder) + moves - 1)
  <2>1. Len(Ladder) + moves - 1 = 10  BY <1>2, LadderFacts
  <2> QED  BY <1>1, <2>1
<1>4. moves \in 0 .. MaxMoves /\ lastRun \in 0 .. MaxRuns
  BY <1>2, LedgerAssumption DEF LedgerAssumption
<1>5. \A s \in Slots : runs[s] = NoRun  BY <1>2
<1>6. RunsSound
  <2>1. runs = [s \in Slots |-> runs[s]]  BY <1>2
  <2>2. \A s \in Slots : IsRun(runs[s]) /\ ProcessSound(runs[s], db, moves)
                         /\ runs[s].root.nonce = 0
    BY <1>5, NoRunFacts
  <2> QED  BY <2>1, <2>2 DEF RunsSound
<1> QED  BY <1>1, <1>2, <1>3, <1>4, <1>6 DEF LedgerInv

\* Every step keeps the ledger's invariant and its operations.
LEMMA LedgerStep == LedgerInv /\ [LedgerNext]_ledgerVars => LedgerInv' /\ OperationsStep
<1> SUFFICES ASSUME LedgerInv, [LedgerNext]_ledgerVars PROVE LedgerInv' /\ OperationsStep
  OBVIOUS
<1>1. CASE UNCHANGED ledgerVars
  <2>1. UNCHANGED <<db, moves, lastRun, runs, verified>>  BY <1>1 DEF ledgerVars
  <2>2. LedgerInv'  BY <2>1 DEF LedgerInv, RunsSound
  <2>3. OperationsStep  BY <2>1 DEF OperationsStep
  <2> QED  BY <2>2, <2>3
<1>2. ASSUME NEW row \in Predecessors, NEW t \in Titles, NEW d \in 1 .. MaxDispatches,
             ReserveDispatch(row.nonce, row, t, d)
      PROVE  LedgerInv' /\ OperationsStep
  BY <1>2, ReserveDispatchStep
<1>3. ASSUME NEW v \in db.resv, VerifyReceipt(v) PROVE LedgerInv' /\ OperationsStep
  BY <1>3, VerifyReceiptStep
<1>4. ASSUME NEW s \in Slots, NEW i \in 2 .. 10, NEW root \in RootsToMint,
             DispatchBootstrap(s, Ladder[i], root)
      PROVE  LedgerInv' /\ OperationsStep
  BY <1>4, DispatchBootstrapStep
<1>5. ASSUME NEW s \in Slots, NEW v \in db.resv, DispatchWorkflow(s, v)
      PROVE  LedgerInv' /\ OperationsStep
  BY <1>5, DispatchWorkflowStep
<1>6. ASSUME NEW s \in Slots, OperatorDowngrade(s) PROVE LedgerInv' /\ OperationsStep
  BY <1>6, OperatorStep
<1>7. ASSUME NEW s \in Slots, OperatorUpgrade(s) PROVE LedgerInv' /\ OperationsStep
  BY <1>7, OperatorStep
<1>8. ASSUME NEW s \in Slots, Claim(s) PROVE LedgerInv' /\ OperationsStep
  BY <1>8, ClaimStep
<1>9. ASSUME NEW s \in Slots, Begin(s) PROVE LedgerInv' /\ OperationsStep
  BY <1>9, BeginStep
<1>10. ASSUME NEW s \in Slots, CommitMigration(s) PROVE LedgerInv' /\ OperationsStep
  BY <1>10, CommitStep
<1>11. ASSUME NEW s \in Slots, CheckResult(s) PROVE LedgerInv' /\ OperationsStep
  BY <1>11, CheckResultStep
<1>12. ASSUME NEW s \in Slots, Complete(s) PROVE LedgerInv' /\ OperationsStep
  BY <1>12, CompleteStep
<1>13. ASSUME NEW s \in Slots, Stop(s) PROVE LedgerInv' /\ OperationsStep
  BY <1>13, StopStep
<1> QED
  BY <1>1, <1>2, <1>3, <1>4, <1>5, <1>6, <1>7, <1>8, <1>9, <1>10, <1>11, <1>12, <1>13
  DEF LedgerNext

-----------------------------------------------------------------------------
(* The theorems *)

(***************************************************************************)
(* Every behaviour of the release keeps the ledger sound at every revision,  *)
(* with the processes that have begun.                                      *)
(***************************************************************************)
THEOREM LedgerInvariant == LedgerSpec => []LedgerInv
<1>1. LedgerInit => LedgerInv  BY LedgerInitSound
<1>2. LedgerInv /\ [LedgerNext]_ledgerVars => LedgerInv'  BY LedgerStep
<1> QED  BY <1>1, <1>2, PTL DEF LedgerSpec

\* The invariant says that the ledger is one account.
LEMMA SoundAgrees == LedgerInv => LedgerAgrees
<1> SUFFICES ASSUME LedgerInv PROVE LedgerAgrees  OBVIOUS
<1>1. /\ LedgerSound(db) /\ ReservationsSound(db) /\ OperationsSound(db)
      /\ Used(db) \subseteq 1 .. (Len(Ladder) + moves - 1) /\ moves \in 0 .. MaxMoves
  BY DEF LedgerInv, LedgerSound
<1>2. Used(db) \subseteq 1 .. Len(Ladder) + MaxMoves
  <2>1. Len(Ladder) = 11 /\ MaxMoves \in Nat
    BY LadderFacts, LedgerAssumption DEF LedgerAssumption
  <2> QED  BY <1>1, <2>1
<1>3. ~ChainExists(db) => db.chain = {}  BY <1>1 DEF LedgerSound, Unchained
<1>4. ChainExists(db) => Chained(db)  BY <1>1 DEF LedgerSound
<1>5. LedgerTypeOK
  <2>1. db.rev \in {Ladder[i] : i \in DOMAIN Ladder}  BY <1>1 DEF LedgerSound, Revisions
  <2>2. db.spend \subseteq 1 .. Len(Ladder) + MaxMoves  BY <1>2 DEF Used
  <2>3. \A row \in db.chain : row.nonce \in 1 .. Len(Ladder) + MaxMoves /\ row.d \in 0 .. MaxDispatches
    BY <1>2, <1>3, <1>4 DEF Used, Chained
  <2>4. ReservationTable(db.resv)  BY <1>1 DEF ReservationsSound
  <2>5. lastRun \in 0 .. MaxRuns  BY DEF LedgerInv
  <2>6. \A s \in Slots : runs[s].pc \in {"idle", "ready", "dispatched", "begun", "applied",
                                         "checked", "refused"}
    BY DEF LedgerInv, RunsSound, IsRun
  <2> QED  BY <2>1, <2>2, <2>3, <2>4, <2>5, <2>6 DEF LedgerTypeOK
<1>6. TablesMatchChain
  <2> SUFFICES ASSUME ChainExists(db)
               PROVE  /\ \A row \in db.chain : row.cmd # "review-root" =>
                            row.pred \in Ids(db.chain) /\ row.pred[2] = row.nonce
                      /\ {row.nonce : row \in {x \in db.chain : x.cmd = "review-root"}}
                            = {r.nonce : r \in db.roots}
                      /\ {row.nonce : row \in {x \in db.chain : x.cmd = "no-spend-preflight"}}
                            = db.spend
                      /\ \A v \in db.resv :
                            /\ ReserveId(v) \in Ids(db.chain) /\ v.pred \in Ids(db.chain)
                            /\ v.d > 0 => (v.run # 0
                                  <=> <<"workflow-dispatch-claim", v.nonce, v.d>> \in Ids(db.chain))
                      /\ \A o \in db.ops : \E row \in db.chain : row.cmd = o.cmd /\ row.d = o.d
    BY DEF TablesMatchChain
  <2>1. Chained(db)  BY <1>4
  <2>2. \A row \in db.chain : row.cmd # "review-root" =>
            row.pred \in Ids(db.chain) /\ row.pred[2] = row.nonce
    BY <2>1 DEF Chained, Linked
  <2>3. RootsOf(db.chain) = db.spend /\ SpendOf(db.chain) = db.spend
        /\ {r.nonce : r \in db.roots} = db.spend
    BY <1>1, <2>1 DEF Chained, LedgerSound
  <2>4. /\ {row.nonce : row \in {x \in db.chain : x.cmd = "review-root"}} = db.spend
        /\ {row.nonce : row \in {x \in db.chain : x.cmd = "no-spend-preflight"}} = db.spend
    BY <2>3 DEF RootsOf, SpendOf
  <2>5. \A o \in db.ops : \E row \in db.chain : row.cmd = o.cmd /\ row.d = o.d
    BY <2>1 DEF Chained
  <2>6. \A v \in db.resv :
            /\ ReserveId(v) \in Ids(db.chain) /\ v.pred \in Ids(db.chain)
            /\ v.d > 0 => (v.run # 0
                  <=> <<"workflow-dispatch-claim", v.nonce, v.d>> \in Ids(db.chain))
    BY <2>1, Zenon DEF Chained
  <2> QED  BY <2>2, <2>3, <2>4, <2>5, <2>6
<1>7. ReceiptNamesClaimant
  <2>1. \A o \in db.ops : \E v \in db.resv : ReceiptMatches(o, v)
    BY <1>1 DEF OperationsSound
  <2>2. \A o, p \in db.ops : o.d = p.d => o = p  BY <1>1 DEF OperationsSound
  <2>3. \A x \in verified : \E o \in db.ops : o.d = x.d /\ o.run = x.run  BY DEF LedgerInv
  <2> QED  BY <2>1, <2>2, <2>3 DEF ReceiptNamesClaimant
<1> QED  BY <1>5, <1>6, <1>7 DEF LedgerAgrees

(***************************************************************************)
(* The ledger is one account: through every upgrade, downgrade and          *)
(* re-upgrade, with any number of processes at work, the chain holds what   *)
(* the tables hold and every terminal receipt names its claimant's run.     *)
(***************************************************************************)
THEOREM LedgerIsOneAccount == LedgerSpec => []LedgerAgrees
  BY LedgerInvariant, SoundAgrees, PTL

(***************************************************************************)
(* No migration, claim or completion takes away a receipt or a reservation  *)
(* an operator or a run made.                                               *)
(***************************************************************************)
THEOREM OperationsAreKept == LedgerSpec => OperationsKept
<1>1. LedgerInv /\ [LedgerNext]_ledgerVars => [OperationsStep]_ledgerVars  BY LedgerStep
<1> QED  BY <1>1, LedgerInvariant, PTL DEF LedgerSpec, OperationsKept


-----------------------------------------------------------------------------
(* The activation: the types of its variables, the shape of its log and the *)
(* invariant.                                                               *)

Scripts == {"apply", "handshake", "finalize", "restore"}
Links == [auth : {None, "scoped", "legacy", "repaired"},
          budget : {None, "free", "zeroed", "repaired"},
          binding : 0..2, anchor : Nat]
Rows == [state : States, gen : 1..2, bound : BOOLEAN, pred : Nat, at : Nat,
         ptr : Links]
Sources == [exists : BOOLEAN, on : BOOLEAN, ptr : Links,
            scope : {"base", "manifold"}, prepared : [1..2 -> Nat]]
Sides == {"old", "new"}
Phased == [phase : Phases, now : Nat, at : Nat]

\* Every variable of the activation has its type.
ActType ==
    /\ log \in Seq(Rows)
    /\ intent \in {[gen |-> 0, payload |-> 0], [gen |-> 1, payload |-> 1],
                   [gen |-> 2, payload |-> 2]}
    /\ epochs \subseteq [anchor : Nat \ {0}, closed : BOOLEAN]
    /\ source \in Sources
    /\ github \in [anchor : Nat, secret : Sides, ids : Sides, scope : Sides]
    /\ receipts \subseteq Scripts \cup {"evidence"}
    /\ mut \in [cmd : Scripts \cup {None}, pc : 0..6, anchor : Nat, at : Nat]
    /\ mut.cmd # None => mut.pc \in 1..Len(Program(mut.cmd))
    /\ acts \subseteq Phased /\ \A a, b \in acts : a = b
    /\ mig \in [on : BOOLEAN, at : Nat, pred : Nat]
    /\ revision \in 0..4 /\ clock \in Nat

\* A row follows one before it and bears the time of a transaction that began no
\* later than it was committed; no two began together.
NewestIn(l, i) == i \in DOMAIN l /\ \A j \in DOMAIN l : l[j].at <= l[i].at
RowsSound(l) ==
    /\ \A i \in DOMAIN l : l[i].at \in 1..(6 * i) /\ l[i].pred \in 0..(i - 1)
    /\ \A i, j \in DOMAIN l : l[i].at = l[j].at => i = j
    /\ l # <<>> => \E i \in DOMAIN l : NewestIn(l, i)

\* The time a transaction under way bears is no row's.
Fresh(at) == at \in 1..(6 * Len(log) + 5) /\ \A i \in DOMAIN log : log[i].at # at
HeldSound ==
    /\ mut.cmd = None => mut.at = 0
    /\ mut.at # 0 => Fresh(mut.at)
    /\ mig.on => Fresh(mig.at) /\ mig.pred \in DOMAIN log /\ mig.at # mut.at
    /\ ~mig.on => mig.at = 0
    /\ \A act \in acts : Fresh(act.at) /\ act.at # mut.at /\ act.at # mig.at

\* What the incident's progress has.
IncidentSound ==
    /\ targets \in 0..MaxTargets /\ incident \in Incident
    /\ incident.graph <= targets /\ deleted \subseteq 1..targets
    /\ content \subseteq {"window", "before", "logs"}
    /\ matrixB \in [ok : BOOLEAN, seen : DOMAIN log \cup {0}]
    /\ restored \subseteq {"technical", "privacy"}

\* The generations of the rows follow the intent's payload.
Rotated ==
    /\ \A i \in DOMAIN log : log[i].gen = 2 => intent.payload = 2
    /\ \A i \in DOMAIN log : log[i].bound => intent.payload # 0
    /\ mut.cmd # None => intent.payload = 1
    /\ \A i \in DOMAIN log : log[i].state = "failed" =>
          \E j \in DOMAIN log : /\ log[j].state = "github_finalized"
                                /\ log[j].gen = log[i].gen

\* The states in which an activation has been taken back, and after which no
\* binding counts; and GitHub written in the order of the script.
Past == {"failed", "restore_writing", "restored", "deactivated"}
Over == LatestState \in Past \/ intent.payload = 2
Ordered ==
    /\ github.scope = "new" => github.ids = "new"
    /\ github.ids = "new" => github.secret = "new"

\* How far the script under way has written the side it writes.
WrittenUpTo(side) ==
    /\ mut.pc >= 4 => github.secret = side
    /\ mut.pc >= 5 => github.ids = side
    /\ mut.pc >= 6 => github.scope = side
\* What GitHub holds: the payload of a binding that counts as committed, the
\* prestate once a restoration is received, and of a side being written as much
\* as the script has reached.
BindingSound ==
    /\ intent.payload = 2 => LatestState \in Past \cup {"prepared"}
    /\ mut.cmd = "restore" => LatestState \in Past /\ WrittenUpTo("old")
    /\ mut.cmd = "apply" => WrittenUpTo("new")
    /\ mut.cmd \in Scripts \ {"restore"} => Ordered
    /\ Over \/ Ordered
    /\ CommittedIsLive
    /\ "restore" \in receipts =>
          Held = Prestate /\ Over /\ mut.cmd \in {None, "restore"}

\* The chain of receipts that ends in a restoration begins with the binding's.
ChainSound ==
    /\ matrixB.ok => "restore" \in receipts
    /\ matrixB.seen # 0 => matrixB.ok
    /\ incident.stage \in {"proved", "restored"} => matrixB.ok
    /\ restored # {} => matrixB.ok

\* Every anchor in use is an epoch's, and in an ordered log one is reserved.
OfEpoch(anchor) == \E e \in epochs : e.anchor = anchor
Open == {None, "prepared", "binding_writing", "binding_committed", "handshake_passed"}
AnchorsSound ==
    /\ source.on => OfEpoch(source.ptr.anchor) /\ github.anchor # 0
    /\ github.anchor # 0 => OfEpoch(github.anchor)
    /\ mut.cmd = "finalize" => /\ OfEpoch(mut.anchor)
                               /\ mut.pc = 2 => github.anchor # 0
    /\ (\E i \in DOMAIN log : log[i].state = "github_finalized") => github.anchor # 0
    /\ ~Overtaken /\ epochs # {} =>
          /\ mut.cmd \notin {"apply", "handshake"}
          /\ LatestState \notin Open \/ intent.payload = 2
    /\ ~Overtaken => OneAnchor

ActInv == /\ ActType /\ RowsSound(log) /\ HeldSound /\ IncidentSound
          /\ Rotated /\ BindingSound /\ ChainSound /\ AnchorsSound

-----------------------------------------------------------------------------
\* Facts about one log, whatever state it is in.
LEMMA EmptyLog == ASSUME NEW l \in Seq(Rows)
                  PROVE  /\ DOMAIN l = 1..Len(l) /\ Len(l) \in Nat
                         /\ l = <<>> <=> Len(l) = 0
  OBVIOUS

\* What a row of the transition log holds.
LEMMA RowType ==
  ASSUME NEW l \in Seq(Rows), NEW i \in DOMAIN l
  PROVE  /\ l[i] \in Rows /\ l[i].state \in States /\ l[i].gen \in 1..2
         /\ l[i].bound \in BOOLEAN /\ l[i].pred \in Nat /\ l[i].at \in Nat
         /\ l[i].ptr \in Links
<1>1. l[i] \in Rows
  OBVIOUS
<1> QED
  BY <1>1 DEF Rows

\* A row that follows one of the log and bears a time of its own keeps it sound.
LEMMA AppendRow ==
  ASSUME NEW l \in Seq(Rows), NEW r \in Rows, RowsSound(l),
         r.pred \in 0..Len(l), r.at \in 1..(6 * Len(l) + 6),
         \A i \in DOMAIN l : l[i].at # r.at
  PROVE  /\ Append(l, r) \in Seq(Rows)
         /\ Len(Append(l, r)) = Len(l) + 1
         /\ DOMAIN Append(l, r) = 1..(Len(l) + 1)
         /\ \A i \in DOMAIN l : Append(l, r)[i] = l[i]
         /\ Append(l, r)[Len(l) + 1] = r
         /\ RowsSound(Append(l, r))
<1> DEFINE m == Append(l, r)
           n == Len(l) + 1
<1>1. m \in Seq(Rows) /\ Len(m) = n /\ DOMAIN m = 1..n /\ n \in Nat
  OBVIOUS
<1>2. \A i \in DOMAIN l : m[i] = l[i] /\ m[n] = r
  OBVIOUS
<1>3. m[n] = r
  OBVIOUS
<1>4. DOMAIN l = 1..Len(l) /\ Len(l) \in Nat /\ DOMAIN m = DOMAIN l \cup {n} /\ n \notin DOMAIN l
  BY <1>1
<1>5. \A i \in DOMAIN l : l[i] \in Rows /\ l[i].at \in Nat
  BY RowType
<1> HIDE DEF m, n
<1>6. \A i \in DOMAIN m : m[i].at \in 1..(6 * i) /\ m[i].pred \in 0..(i - 1)
  <2> SUFFICES ASSUME NEW i \in DOMAIN m
               PROVE  m[i].at \in 1..(6 * i) /\ m[i].pred \in 0..(i - 1)
    OBVIOUS
  <2>1. CASE i \in DOMAIN l
    BY <2>1, <1>2 DEF RowsSound
  <2>2. CASE i = n
    BY <2>2, <1>3, <1>4 DEF n
  <2> QED
    BY <2>1, <2>2, <1>4
<1>7. \A i, j \in DOMAIN m : m[i].at = m[j].at => i = j
  <2> SUFFICES ASSUME NEW i \in DOMAIN m, NEW j \in DOMAIN m, m[i].at = m[j].at
               PROVE  i = j
    OBVIOUS
  <2>1. CASE i \in DOMAIN l /\ j \in DOMAIN l
    BY <2>1, <1>2 DEF RowsSound
  <2>2. CASE i \in DOMAIN l /\ j = n
    BY <2>2, <1>2, <1>3
  <2>3. CASE i = n /\ j \in DOMAIN l
    BY <2>3, <1>2, <1>3
  <2> QED
    BY <2>1, <2>2, <2>3, <1>4
<1>8. \E i \in DOMAIN m : NewestIn(m, i)
  <2>1. r.at \in Nat
    OBVIOUS
  <2>2. CASE \A j \in DOMAIN l : l[j].at <= r.at
    <3>1. NewestIn(m, n)
      BY <2>1, <2>2, <1>2, <1>3, <1>4 DEF NewestIn
    <3> QED
      BY <3>1, <1>4
  <2>3. CASE ~\A j \in DOMAIN l : l[j].at <= r.at
    <3>1. PICK k \in DOMAIN l : ~(l[k].at <= r.at)
      BY <2>3
    <3>2. l # <<>>
      BY <3>1
    <3>3. PICK i \in DOMAIN l : NewestIn(l, i)
      BY <3>2 DEF RowsSound
    <3>4. \A j \in DOMAIN l : l[j].at <= l[i].at
      BY <3>3 DEF NewestIn
    <3>5. l[i].at \in Nat /\ l[k].at \in Nat /\ l[k].at <= l[i].at
      BY <3>4, <1>5
    <3>6. r.at <= l[i].at
      BY <3>5, <3>1, <2>1
    <3>7. NewestIn(m, i)
      BY <3>4, <3>6, <1>2, <1>3, <1>4 DEF NewestIn
    <3> QED
      BY <3>7, <1>4
  <2> QED
    BY <2>2, <2>3
<1> QED
  BY <1>1, <1>2, <1>3, <1>6, <1>7, <1>8 DEF m, n, RowsSound

\* The place of the row that the latest is, for any log.
Last(l) == IF l = <<>> THEN 0
           ELSE CHOOSE i \in DOMAIN l : \A j \in DOMAIN l : l[j].at <= l[i].at
StateOf(l) == IF Last(l) = 0 THEN None ELSE l[Last(l)].state
OvertakenIn(l) == \E i, j \in DOMAIN l : i < j /\ l[j].at <= l[i].at

\* There is one latest row; the state of a log that has one is a state.
LEMMA LastIs ==
  ASSUME NEW l \in Seq(Rows), RowsSound(l)
  PROVE  /\ l = <<>> => Last(l) = 0 /\ StateOf(l) = None
         /\ l # <<>> => /\ NewestIn(l, Last(l)) /\ Last(l) \in DOMAIN l /\ Last(l) # 0
                        /\ StateOf(l) = l[Last(l)].state /\ StateOf(l) \in States
         /\ \A i \in DOMAIN l : NewestIn(l, i) => Last(l) = i
<1>1. ASSUME l = <<>> PROVE Last(l) = 0 /\ StateOf(l) = None
  BY <1>1 DEF Last, StateOf
<1>2. ASSUME l # <<>>
      PROVE  /\ NewestIn(l, Last(l)) /\ Last(l) \in DOMAIN l /\ Last(l) # 0
             /\ StateOf(l) = l[Last(l)].state /\ StateOf(l) \in States
  <2>1. PICK i \in DOMAIN l : NewestIn(l, i)
    BY <1>2 DEF RowsSound
  <2>2. \A j \in DOMAIN l : l[j].at <= l[i].at
    BY <2>1 DEF NewestIn
  <2>3. Last(l) \in DOMAIN l /\ \A j \in DOMAIN l : l[j].at <= l[Last(l)].at
    BY <1>2, <2>2, Zenon DEF Last
  <2>4. NewestIn(l, Last(l)) /\ Last(l) # 0
    BY <2>3 DEF NewestIn
  <2>5. StateOf(l) = l[Last(l)].state
    BY <2>4 DEF StateOf
  <2>6. l[Last(l)] \in Rows
    BY <2>3
  <2> QED
    BY <2>3, <2>4, <2>5, <2>6 DEF Rows
<1>3. ASSUME NEW i \in DOMAIN l, NewestIn(l, i) PROVE Last(l) = i
  <2>1. l # <<>>
    OBVIOUS
  <2>2. NewestIn(l, Last(l)) /\ Last(l) \in DOMAIN l
    BY <2>1, <1>2
  <2>3. l[i].at <= l[Last(l)].at /\ l[Last(l)].at <= l[i].at
    BY <2>2, <1>3 DEF NewestIn
  <2>4. l[i] \in Rows /\ l[Last(l)] \in Rows
    BY <2>2
  <2>5. l[i].at = l[Last(l)].at
    BY <2>3, <2>4 DEF Rows
  <2> QED
    BY <2>2, <2>5 DEF RowsSound
<1> QED
  BY <1>1, <1>2, <1>3

\* A row appended is the latest, or the latest stays; it is the latest when no row
\* bears a time after it, and so in a log that is in order.
LEMMA LastAfter ==
  ASSUME NEW l \in Seq(Rows), NEW r \in Rows, RowsSound(l),
         r.pred \in 0..Len(l), r.at \in 1..(6 * Len(l) + 6),
         \A i \in DOMAIN l : l[i].at # r.at
  PROVE  /\ StateOf(Append(l, r)) \in {StateOf(l), r.state}
         /\ OvertakenIn(l) => OvertakenIn(Append(l, r))
         /\ ~OvertakenIn(Append(l, r)) => StateOf(Append(l, r)) = r.state
<1> DEFINE m == Append(l, r)
           n == Len(l) + 1
<1>1. /\ m \in Seq(Rows) /\ Len(m) = n /\ DOMAIN m = 1..n /\ m[n] = r
      /\ \A i \in DOMAIN l : m[i] = l[i]
      /\ RowsSound(m)
  BY AppendRow
<1>2. /\ DOMAIN l = 1..Len(l) /\ Len(l) \in Nat /\ DOMAIN m = DOMAIN l \cup {n}
      /\ n \notin DOMAIN l /\ n \in DOMAIN m
  BY <1>1
<1>3. \A i \in DOMAIN m : m[i] \in Rows /\ m[i].at \in Nat
  BY <1>1, RowType
<1> HIDE DEF m, n
<1>4. m # <<>>
  BY <1>1, <1>2, EmptyLog
<1>5. /\ NewestIn(m, Last(m)) /\ Last(m) \in DOMAIN m
      /\ StateOf(m) = m[Last(m)].state
  BY <1>1, <1>4, LastIs
<1>6. StateOf(m) \in {StateOf(l), r.state}
  <2>1. CASE Last(m) = n
    BY <2>1, <1>1, <1>5
  <2>2. CASE Last(m) # n
    <3>1. Last(m) \in DOMAIN l /\ l # <<>>
      BY <2>2, <1>2, <1>5
    <3>2. NewestIn(l, Last(m))
      BY <3>1, <1>1, <1>2, <1>5 DEF NewestIn
    <3>3. Last(l) = Last(m)
      BY <3>1, <3>2, LastIs
    <3>4. StateOf(l) = l[Last(l)].state
      BY <3>1, LastIs
    <3> QED
      BY <3>1, <3>3, <3>4, <1>1, <1>5
  <2> QED
    BY <2>1, <2>2
<1>7. ASSUME OvertakenIn(l) PROVE OvertakenIn(m)
  <2>1. PICK i \in DOMAIN l, j \in DOMAIN l : i < j /\ l[j].at <= l[i].at
    BY <1>7 DEF OvertakenIn
  <2> QED
    BY <2>1, <1>1, <1>2 DEF OvertakenIn
<1>8. ASSUME ~OvertakenIn(m) PROVE StateOf(m) = r.state
  <2>1. ASSUME NEW j \in DOMAIN l PROVE m[j].at <= m[n].at
    <3>1. j < n /\ j \in DOMAIN m
      BY <1>2 DEF n
    <3>2. ~(m[n].at <= m[j].at)
      BY <1>8, <3>1, <1>2 DEF OvertakenIn
    <3> QED
      BY <3>1, <3>2, <1>2, <1>3
  <2>2. NewestIn(m, n)
    BY <2>1, <1>2, <1>3 DEF NewestIn
  <2>3. Last(m) = n
    BY <2>2, <1>1, <1>2, LastIs
  <2> QED
    BY <2>3, <1>1, <1>5
<1> QED
  BY <1>6, <1>7, <1>8 DEF m
-----------------------------------------------------------------------------
\* The part of the invariant that every step keeps for the sake of the others.
Sound == ActType /\ RowsSound(log) /\ HeldSound

\* A row joins the log.
RowGrows(r) ==
    /\ r.pred \in 0..Len(log) /\ r.at \in 1..(6 * Len(log) + 6)
    /\ \A i \in DOMAIN log : log[i].at # r.at
    /\ log' = Append(log, r)

\* What Latest and LatestState read of the log.
LEMMA Reads ==
  ASSUME ActType, RowsSound(log)
  PROVE  /\ DOMAIN log = 1..Len(log) /\ Len(log) \in Nat
         /\ log = <<>> => Latest = 0 /\ LatestState = None
         /\ log # <<>> => /\ Latest \in DOMAIN log /\ Latest # 0
                          /\ LatestState = log[Latest].state /\ LatestState \in States
<1>1. log \in Seq(Rows)
  BY DEF ActType
<1>2. Latest = Last(log) /\ LatestState = StateOf(log)
  BY DEF Latest, Last, LatestState, StateOf
<1> QED
  BY <1>1, <1>2, LastIs

\* A row that joins: the rows before it stay, and the latest row stays or is it.
LEMMA Growth ==
  ASSUME ActType, RowsSound(log), NEW r \in Rows, RowGrows(r)
  PROVE  /\ log' \in Seq(Rows) /\ RowsSound(log)'
         /\ Len(log') = Len(log) + 1 /\ DOMAIN log' = DOMAIN log \cup {Len(log) + 1}
         /\ \A i \in DOMAIN log : log'[i] = log[i]
         /\ log'[Len(log) + 1] = r
         /\ LatestState' \in {LatestState, r.state}
         /\ Overtaken => Overtaken'
         /\ ~Overtaken' => LatestState' = r.state
<1>1. log \in Seq(Rows)
  BY DEF ActType
<1>2. DOMAIN log = 1..Len(log) /\ Len(log) \in Nat
  BY <1>1
<1>3. /\ r.pred \in 0..Len(log) /\ r.at \in 1..(6 * Len(log) + 6)
      /\ \A i \in DOMAIN log : log[i].at # r.at
      /\ log' = Append(log, r)
  BY DEF RowGrows
<1>4. /\ log' \in Seq(Rows) /\ RowsSound(log') /\ Len(log') = Len(log) + 1
      /\ DOMAIN log' = 1..(Len(log) + 1)
      /\ \A i \in DOMAIN log : log'[i] = log[i]
      /\ log'[Len(log) + 1] = r
  BY <1>1, <1>3, AppendRow
<1>5. /\ LatestState = StateOf(log) /\ LatestState' = StateOf(log')
      /\ Overtaken = OvertakenIn(log) /\ Overtaken' = OvertakenIn(log')
  BY DEF Latest, Last, LatestState, StateOf, Overtaken, OvertakenIn
<1>6. /\ StateOf(log') \in {StateOf(log), r.state}
      /\ OvertakenIn(log) => OvertakenIn(log')
      /\ ~OvertakenIn(log') => StateOf(log') = r.state
  BY <1>1, <1>3, LastAfter
<1> QED
  BY <1>2, <1>4, <1>5, <1>6

\* Times: those of transactions under way stay free while others append, and
\* those that a transaction may take are free.
LEMMA StillFresh ==
  ASSUME ActType, RowsSound(log), NEW r \in Rows, RowGrows(r), NEW at, Fresh(at), at # r.at
  PROVE  Fresh(at)'
<1>1. /\ Len(log') = Len(log) + 1 /\ DOMAIN log' = DOMAIN log \cup {Len(log) + 1}
      /\ \A i \in DOMAIN log : log'[i] = log[i]
      /\ log'[Len(log) + 1] = r
  BY Growth
<1>2. DOMAIN log = 1..Len(log) /\ Len(log) \in Nat
  BY Reads
<1> QED
  BY <1>1, <1>2 DEF Fresh

\* The clock's next reading stamps no row of the log.
LEMMA NowFresh ==
  ASSUME ActType, RowsSound(log)
  PROVE  /\ Now \in 1..(6 * Len(log) + 6) /\ Now \in Nat
         /\ \A i \in DOMAIN log : log[i].at # Now
         /\ \A at : Fresh(at) => at # Now
<1>1. DOMAIN log = 1..Len(log) /\ Len(log) \in Nat
  BY Reads
<1>2. \A i \in DOMAIN log : log[i].at \in 1..(6 * i)
  BY DEF RowsSound
<1> QED
  BY <1>1, <1>2 DEF Now, Fresh

\* The stamp a command takes is no row's, no other command's and not the present.
LEMMA StampsFresh ==
  ASSUME Sound, NEW who \in {"mutate", "activate", "downgrade", "before"},
         NEW n \in 0..Len(log), NEW at \in Stamps(who, n)
  PROVE  /\ Fresh(at) /\ at \in Nat /\ at # 0
         /\ at # mut.at /\ at # mig.at /\ \A act \in acts : act.at # at
<1>1. DOMAIN log = 1..Len(log) /\ Len(log) \in Nat
  BY Reads DEF Sound
<1>2. Places[who] \in SUBSET (1..5)
  BY ActivationAssumption DEF ActivationAssumption
<1>3. PICK k \in Places[who] : at = 6 * n + k
  BY DEF Stamps
<1>4. k \in 1..5
  BY <1>2
<1>5. at \notin Taken
  BY DEF Stamps
<1>6. at \in 1..(6 * Len(log) + 5)
  BY <1>1, <1>3, <1>4
<1> QED
  BY <1>5, <1>6 DEF Taken, Fresh
-----------------------------------------------------------------------------
\* The log stays or takes a row of that time.
Moves(at) == log' = log \/ \E r \in Rows : RowGrows(r) /\ r.at = at

\* A step that appends to the log keeps the rows it has, and their order.
LEMMA MovesKeep ==
  ASSUME Sound, NEW at, Moves(at)
  PROVE  /\ log' \in Seq(Rows) /\ RowsSound(log)'
         /\ Len(log) \in Nat /\ Len(log') \in Nat /\ Len(log) <= Len(log')
         /\ DOMAIN log \subseteq DOMAIN log'
         /\ \A h : Fresh(h) /\ h # at => Fresh(h)'
<1>1. log \in Seq(Rows) /\ Len(log) \in Nat /\ ActType /\ RowsSound(log)
  BY DEF Sound, ActType
<1>2. CASE log' = log
  BY <1>1, <1>2 DEF Fresh
<1>3. CASE log' # log
  <2>1. PICK r \in Rows : RowGrows(r) /\ r.at = at
    BY <1>3 DEF Moves
  <2>2. /\ log' \in Seq(Rows) /\ RowsSound(log)' /\ Len(log') = Len(log) + 1
        /\ DOMAIN log \subseteq DOMAIN log'
    BY <2>1, <1>1, Growth
  <2>3. \A h : Fresh(h) /\ h # at => Fresh(h)'
    BY <2>1, <1>1, StillFresh
  <2> QED
    BY <2>2, <2>3, <1>1
<1> QED
  BY <1>2, <1>3

\* The row and the links that the actions build.
LEMMA RowIs ==
  ASSUME NEW state \in States, NEW gen \in 1..2, NEW bound \in BOOLEAN,
         NEW pred \in Nat, NEW at \in Nat, NEW ptr \in Links
  PROVE  /\ Row(state, gen, bound, pred, at, ptr) \in Rows
         /\ Row(state, gen, bound, pred, at, ptr).state = state
         /\ Row(state, gen, bound, pred, at, ptr).gen = gen
         /\ Row(state, gen, bound, pred, at, ptr).bound = bound
         /\ Row(state, gen, bound, pred, at, ptr).pred = pred
         /\ Row(state, gen, bound, pred, at, ptr).at = at
         /\ Row(state, gen, bound, pred, at, ptr).ptr = ptr
  BY DEF Row, Rows

\* Of a row that an action appends after one of the log.
LEMMA RowAppended ==
  ASSUME Sound, NEW state \in States, NEW gen \in 1..2, NEW bound \in BOOLEAN,
         NEW pred \in 0..Len(log), NEW ptr \in Links,
         NEW at, at = Now \/ Fresh(at),
         log' = Append(log, Row(state, gen, bound, pred, at, ptr))
  PROVE  /\ \E r \in Rows : /\ RowGrows(r) /\ r.state = state /\ r.gen = gen
                            /\ r.bound = bound /\ r.at = at
         /\ Moves(at)
<1>1. Len(log) \in Nat /\ DOMAIN log = 1..Len(log)
  BY Reads DEF Sound
<1>2. at \in 1..(6 * Len(log) + 6) /\ \A i \in DOMAIN log : log[i].at # at
  BY <1>1, NowFresh DEF Sound, Fresh
<1>3. at \in Nat /\ pred \in Nat
  BY <1>1, <1>2
<1> DEFINE r == Row(state, gen, bound, pred, at, ptr)
<1>4. /\ r \in Rows /\ r.state = state /\ r.gen = gen /\ r.bound = bound
      /\ r.pred = pred /\ r.at = at
  BY <1>3, RowIs
<1>5. RowGrows(r)
  BY <1>2, <1>4 DEF RowGrows
<1> QED
  BY <1>4, <1>5 DEF Moves

\* The pointers of a source: none, an anchor, a repaired one.
LEMMA UnlinkedIs == /\ Unlinked \in Links /\ Unlinked.anchor = 0
                    /\ \A a \in Nat : [Unlinked EXCEPT !.anchor = a] \in Links
                    /\ \A l \in Links : [l EXCEPT !.budget = "repaired"] \in Links
                    /\ \A l \in Links : [l EXCEPT !.auth = "repaired"] \in Links
  BY DEF Unlinked, Links, None

\* The steps of the four mutation scripts, in the order of their files.
LEMMA Programs ==
  /\ Len(Program("apply")) = 6 /\ Len(Program("handshake")) = 1
  /\ Len(Program("finalize")) = 2 /\ Len(Program("restore")) = 5
  /\ Program("apply")[1] = "binding_writing" /\ Program("apply")[2] = "check"
  /\ Program("apply")[3] = "secret" /\ Program("apply")[4] = "ids"
  /\ Program("apply")[5] = "scope" /\ Program("apply")[6] = "binding_committed"
  /\ Program("handshake")[1] = "handshake_passed"
  /\ Program("finalize")[1] = "anchor" /\ Program("finalize")[2] = "github_finalized"
  /\ Program("restore")[1] = "deactivated" /\ Program("restore")[2] = "restore_writing"
  /\ Program("restore")[3] = "secret" /\ Program("restore")[4] = "ids"
  /\ Program("restore")[5] = "scope"
  BY DEF Program

\* HeldSound when a transaction is over or under way as before.
LEMMA HeldMoves ==
  ASSUME Sound, NEW at, Moves(at),
         mut'.cmd = None => mut'.at = 0,
         mut'.at # 0 => mut'.at = mut.at /\ mut.at # at,
         mig' = mig \/ mig' = MigIdle,
         mig'.on => mig.at # at,
         acts' \subseteq acts,
         \A act \in acts' : act.at # at
  PROVE  HeldSound'
<1>1. /\ Len(log) \in Nat /\ DOMAIN log \subseteq DOMAIN log'
      /\ \A h : Fresh(h) /\ h # at => Fresh(h)'
  BY MovesKeep
<1>2. HeldSound /\ mig \in [on : BOOLEAN, at : Nat, pred : Nat]
  BY DEF Sound, ActType
<1>3. mut'.at # 0 => Fresh(mut.at)'
  <2> SUFFICES ASSUME mut'.at # 0 PROVE Fresh(mut.at)'
    OBVIOUS
  <2>1. PICK h : h = mut'.at
    OBVIOUS
  <2>2. Fresh(h) /\ h # at
    BY <2>1, <1>2 DEF HeldSound
  <2>3. Fresh(h)'
    BY <2>2, <1>1
  <2> QED
    BY <2>1, <2>3 DEF Fresh
<1>4. ~mig'.on => mig'.at = 0
  BY <1>2 DEF HeldSound, MigIdle
<1>5. ASSUME mig'.on
      PROVE  Fresh(mig.at)' /\ mig'.pred \in DOMAIN log' /\ mig'.at # mut'.at
  <2>1. mig' = mig /\ mig.on
    BY <1>5 DEF MigIdle
  <2>2. Fresh(mig.at) /\ mig.pred \in DOMAIN log /\ mig.at # mut.at /\ mig.at # 0
    BY <2>1, <1>2 DEF HeldSound, Fresh
  <2>3. PICK h : h = mig.at
    OBVIOUS
  <2>4. Fresh(h)'
    BY <2>2, <2>3, <1>1, <1>5
  <2>5. Fresh(mig.at)'
    BY <2>1, <2>3, <2>4 DEF Fresh
  <2>6. mig'.at # mut'.at
    BY <2>1, <2>2
  <2> QED
    BY <2>1, <2>2, <2>5, <2>6, <1>1
<1>6. ASSUME NEW act \in acts'
      PROVE  Fresh(act.at)' /\ act.at # mut'.at /\ act.at # mig'.at
  <2>1. act \in acts /\ Fresh(act.at) /\ act.at # mut.at /\ act.at # mig.at
        /\ act.at # 0
    BY <1>2 DEF HeldSound, Fresh
  <2>2. PICK h : h = act.at
    OBVIOUS
  <2>3. Fresh(h)'
    BY <2>1, <2>2, <1>1
  <2>4. Fresh(act.at)'
    BY <2>2, <2>3
  <2> QED
    BY <2>1, <2>4 DEF MigIdle
<1> QED
  BY <1>3, <1>4, <1>5, <1>6 DEF HeldSound
-----------------------------------------------------------------------------
\* No script, and no state of the log, stands for none.
LEMMA NoneIs == None \notin Scripts /\ None \notin States /\ Scripts \cap States = {}
  BY DEF None, Scripts, States

\* Sound is kept, action by action.
LEMMA SoundBegin ==
  ASSUME Sound, NEW cmd \in Scripts, MutateBegin(cmd)
  PROVE  Sound' /\ log' = log
<1>1. /\ log' = log /\ epochs' = epochs /\ source' = source /\ github' = github
      /\ receipts' = receipts /\ acts' = acts /\ mig' = mig /\ revision' = revision
      /\ clock' = clock
      /\ EnsureIntent /\ mut.cmd = None /\ log # <<>>
  BY DEF MutateBegin, LockFree
<1>2. PICK anchor \in Anchors(cmd), at \in Stamps("mutate", Len(log)) :
        mut' = [cmd |-> cmd, pc |-> FirstStep(cmd), anchor |-> anchor, at |-> at]
  BY DEF MutateBegin
<1>3. anchor \in Nat
  BY DEF Anchors, Sound, ActType
<1>4. FirstStep(cmd) \in 1..Len(Program(cmd)) /\ FirstStep(cmd) \in 0..6
  BY Programs DEF FirstStep, Scripts
<1>5. /\ Fresh(at) /\ at \in Nat /\ at # 0 /\ at # mig.at
      /\ \A act \in acts : act.at # at
  <2>1. Len(log) \in Nat
    BY Reads DEF Sound
  <2> QED
    BY <2>1, StampsFresh
<1>6. intent' \in {[gen |-> 0, payload |-> 0], [gen |-> 1, payload |-> 1],
                   [gen |-> 2, payload |-> 2]}
  BY <1>1 DEF EnsureIntent, Sound, ActType
<1>7. mut' \in [cmd : Scripts \cup {None}, pc : 0..6, anchor : Nat, at : Nat]
      /\ mut'.cmd = cmd /\ mut'.pc = FirstStep(cmd) /\ mut'.at = at
  BY <1>2, <1>3, <1>4, <1>5
<1>8. ActType'
  BY <1>1, <1>4, <1>6, <1>7 DEF Sound, ActType, Program
<1>9. RowsSound(log)'
  BY <1>1 DEF Sound, RowsSound, NewestIn
<1>10. Fresh(mut.at)'
  BY <1>1, <1>5, <1>7 DEF Fresh
<1>11. HeldSound'
  BY <1>1, <1>5, <1>7, <1>10, NoneIs DEF Sound, HeldSound, Fresh
<1> QED
  BY <1>1, <1>8, <1>9, <1>11 DEF Sound

\* What one step of the script does, by what the step is.
LEMMA SoundStep ==
  ASSUME Sound, MutateStep, mut.cmd # None => intent.gen \in 1..2
  PROVE  Sound'
<1>1. /\ mut.cmd # None /\ intent' = intent /\ epochs' = epochs /\ source' = source
      /\ acts' = acts /\ mig' = mig /\ revision' = revision /\ clock' = clock
  BY DEF MutateStep, LockFree
<1>2. mut.cmd \in Scripts /\ mut.pc \in 1..Len(Program(mut.cmd))
  BY <1>1 DEF Sound, ActType
<1>3. PICK step : step = Program(mut.cmd)[mut.pc]
  OBVIOUS
<1>4. PICK at : at = IF mut.at = 0 THEN Now ELSE mut.at
  OBVIOUS
<1>5. /\ IF step \in States THEN AppendTransition(step, at) ELSE log' = log
      /\ github' = IF step \in {"secret", "ids", "scope", "anchor"}
                    THEN [github EXCEPT ![step] = Written(step)] ELSE github
      /\ mut' = IF LastStep THEN Idle
                 ELSE [mut EXCEPT !.pc = NextStep(step), !.at = StillOpen(step)]
      /\ receipts' \in IF LastStep THEN {receipts, receipts \cup {mut.cmd}}
                        ELSE {receipts}
  BY <1>3, <1>4 DEF MutateStep
<1>6. at = Now \/ Fresh(at)
  BY <1>4 DEF Sound, HeldSound
<1>7. Latest \in 0..Len(log)
  BY Reads DEF Sound
<1>8. Moves(at)
  <2>1. CASE step \in States
    <3>1. log' = Append(log, Row(step, intent.gen, TRUE, Latest, at, Unlinked))
      BY <1>5, <2>1 DEF AppendTransition
    <3> QED
      BY <3>1, <2>1, <1>1, <1>6, <1>7, UnlinkedIs, RowAppended
  <2>2. CASE step \notin States
    BY <2>2, <1>5 DEF Moves
  <2> QED
    BY <2>1, <2>2
<1>9. log' \in Seq(Rows) /\ RowsSound(log)'
  BY <1>8, MovesKeep
<1>10. /\ mut' \in [cmd : Scripts \cup {None}, pc : 0..6, anchor : Nat, at : Nat]
       /\ mut'.cmd # None => mut'.cmd = mut.cmd /\ mut'.pc \in 1..Len(Program(mut.cmd))
       /\ mut'.cmd = None => mut'.at = 0
       /\ mut'.at # 0 => mut'.at = mut.at /\ step \notin States
  <2>0. mut \in [cmd : Scripts \cup {None}, pc : 0..6, anchor : Nat, at : Nat]
    BY DEF Sound, ActType
  <2>1. CASE LastStep
    BY <2>1, <1>5 DEF Idle, None
  <2>2. CASE ~LastStep
    <3>1. Len(Program(mut.cmd)) \in 1..6
      BY <1>2, Programs DEF Scripts
    <3>2. mut.pc + 1 \in 1..Len(Program(mut.cmd))
      BY <2>2, <1>2, <3>1 DEF LastStep
    <3>3. NextStep(step) \in 1..Len(Program(mut.cmd)) /\ NextStep(step) \in 0..6
      <4>1. NextStep(step) \in {Len(Program(mut.cmd)), mut.pc + 1}
        BY DEF NextStep
      <4>2. PICK n \in 1..6 : n = Len(Program(mut.cmd))
        BY <3>1
      <4>3. PICK k \in 1..n : k = mut.pc + 1
        BY <3>2, <4>2
      <4>4. NextStep(step) \in {n, k}
        BY <4>1, <4>2, <4>3
      <4>5. NextStep(step) \in 1..n /\ NextStep(step) \in 0..6
        BY <4>4
      <4> QED
        BY <4>2, <4>5
    <3>6. /\ StillOpen(step) \in Nat
          /\ StillOpen(step) # 0 => StillOpen(step) = mut.at /\ step \notin States
      <4>1. mut.at \in Nat
        BY <2>0
      <4> QED
        BY <4>1 DEF StillOpen
    <3>4. mut' = [mut EXCEPT !.pc = NextStep(step), !.at = StillOpen(step)]
      BY <2>2, <1>5
    <3>5. /\ mut' \in [cmd : Scripts \cup {None}, pc : 0..6, anchor : Nat, at : Nat]
          /\ mut'.cmd = mut.cmd /\ mut'.pc = NextStep(step)
          /\ mut'.at = StillOpen(step)
      BY <2>0, <3>3, <3>4, <3>6
    <3> QED
      BY <3>3, <3>5, <3>6, <1>1
  <2> QED
    BY <2>1, <2>2
<1>11. github' \in [anchor : Nat, secret : Sides, ids : Sides, scope : Sides]
  <2>0. github \in [anchor : Nat, secret : Sides, ids : Sides, scope : Sides]
        /\ mut.anchor \in Nat
    BY DEF Sound, ActType
  <2>1. Written("anchor") \in Nat
    BY <2>0 DEF Written
  <2>2. /\ Written("secret") \in Sides /\ Written("ids") \in Sides
        /\ Written("scope") \in Sides
    BY DEF Written, Payload, Prestate, Sides
  <2> QED
    BY <1>5, <2>0, <2>1, <2>2
<1>12. receipts' \subseteq Scripts \cup {"evidence"}
  BY <1>2, <1>5 DEF Sound, ActType
<1>13. mut'.cmd # None => mut'.pc \in 1..Len(Program(mut'.cmd))
  BY <1>10
<1>14. ActType'
  BY <1>1, <1>9, <1>10, <1>11, <1>12, <1>13 DEF Sound, ActType, Program
<1>15. HeldSound'
  <2>1. mut'.at # 0 => log' = log
    BY <1>5, <1>10
  <2>2. CASE step \in States
    <3>1. \A act \in acts : act.at # at
      BY <1>4, NowFresh DEF Sound, HeldSound
    <3>2. mig.on => mig.at # at
      BY <1>4, NowFresh DEF Sound, HeldSound
    <3> QED
      BY <1>1, <1>8, <1>10, <2>2, <3>1, <3>2, HeldMoves
  <2>3. CASE step \notin States
    <3>1. log' = log
      BY <1>5, <2>3
    <3>2. Moves(Now)
      BY <3>1 DEF Moves
    <3>3. /\ \A act \in acts : act.at # Now
          /\ mig.on => mig.at # Now
          /\ mut.at # 0 => mut.at # Now
      BY NowFresh DEF Sound, HeldSound
    <3> QED
      BY <1>1, <1>10, <3>2, <3>3, HeldMoves
  <2> QED
    BY <2>2, <2>3
<1> QED
  BY <1>9, <1>14, <1>15 DEF Sound

\* A step that writes no row, pointer or secret keeps the tables sound.
LEMMA SoundQuiet ==
  ASSUME Sound, log' = log, epochs' = epochs, source' = source, github' = github,
         intent' = intent, mig' = mig, mut' = mut \/ mut' = Idle,
         receipts' \subseteq receipts \cup {"evidence"},
         acts' \subseteq acts, revision' \in 0..4, clock' \in Nat
  PROVE  Sound'
<1>1. Moves(Now)
  BY DEF Moves
<1>2. /\ mut'.cmd = None => mut'.at = 0
      /\ mut'.at # 0 => mut'.at = mut.at /\ mut.at # Now
      /\ mig'.on => mig.at # Now
      /\ \A act \in acts' : act.at # Now
  BY NowFresh DEF Sound, HeldSound, Idle
<1>3. HeldSound'
  BY <1>1, <1>2, HeldMoves
<1>4. mut' \in [cmd : Scripts \cup {None}, pc : 0..6, anchor : Nat, at : Nat]
      /\ (mut.cmd # None => mut.pc \in 1..Len(Program(mut.cmd)))'
  BY DEF Sound, ActType, Idle, None, Program
<1>5. acts' \subseteq Phased /\ (\A a, b \in acts : a = b)'
  BY DEF Sound, ActType
<1>6. receipts' \subseteq Scripts \cup {"evidence"}
  BY DEF Sound, ActType
<1>7. ActType'
  BY <1>4, <1>5, <1>6 DEF Sound, ActType
<1>8. RowsSound(log)'
  BY DEF Sound, RowsSound, NewestIn
<1> QED
  BY <1>3, <1>7, <1>8 DEF Sound
\* A process of the activation that waits or ends keeps the tables sound (ActivateWait).
LEMMA SoundWait ==
  ASSUME Sound, NEW phase \in Waits, ActivateWait(phase)
  PROVE  Sound'
<1>1. /\ log' = log /\ epochs' = epochs /\ source' = source /\ github' = github
      /\ intent' = intent /\ mig' = mig /\ mut' = mut /\ receipts' = receipts
      /\ revision' = revision /\ clock' = clock
  BY DEF ActivateWait
<1>2. PICK at \in Stamps("activate", Len(log)) : acts' = {Started(phase, at)}
  BY DEF ActivateWait
<1>3. Len(log) \in Nat
  BY Reads DEF Sound
<1>4. Fresh(at) /\ at \in Nat /\ at # mut.at /\ at # mig.at
  BY <1>3, StampsFresh
<1>5. phase \in Phases /\ clock \in Nat
  BY ActivationAssumption DEF ActivationAssumption, Sound, ActType
<1>6. Started(phase, at) \in Phased /\ Started(phase, at).at = at
  BY <1>4, <1>5 DEF Started, Phased
<1>7. acts' \subseteq Phased /\ (\A a, b \in acts : a = b)'
      /\ \A act \in acts' : act.at = at
  BY <1>2, <1>6
<1>8. ActType'
  BY <1>1, <1>7 DEF Sound, ActType, Program
<1>9. RowsSound(log)'
  BY <1>1 DEF Sound, RowsSound, NewestIn
<1>10. Fresh(at)'
  BY <1>1, <1>4 DEF Fresh
<1>11. HeldSound'
  BY <1>1, <1>4, <1>7, <1>10 DEF Sound, HeldSound, Fresh
<1> QED
  BY <1>8, <1>9, <1>11 DEF Sound

\* The phases that may run: the one that waited and those that begin now.
Here == acts \cup {Started(phase, Now) : phase \in Phases}

\* A phase that runs: its time, and that it is not another's.
LEMMA PhaseIs ==
  ASSUME Sound, NEW act \in Here
  PROVE  /\ act \in Phased /\ act.now \in Nat
         /\ act.at = Now \/ Fresh(act.at)
         /\ mig.on => mig.at # act.at
         /\ \A b \in acts \ {act} : b.at # act.at
<1>1. Now \in Nat /\ \A at : Fresh(at) => at # Now
  BY NowFresh DEF Sound
<1>2. CASE act \in acts
  BY <1>2 DEF Sound, ActType, HeldSound, Phased
<1>3. CASE act \notin acts
  <2>1. PICK phase \in Phases : act = Started(phase, Now)
    BY <1>3 DEF Here
  <2>2. clock \in Nat
    BY DEF Sound, ActType
  <2>3. act \in Phased /\ act.at = Now /\ act.now \in Nat
    BY <1>1, <2>1, <2>2 DEF Started, Phased
  <2> QED
    BY <1>1, <2>3 DEF Sound, HeldSound
<1> QED
  BY <1>2, <1>3

\* A phase that has loaded its state, and the row it inserts or not.
LEMMA LoadedIs ==
  ASSUME Sound, NEW act, Loaded(act)
  PROVE  /\ mut.cmd = None /\ mut.at = 0 /\ log # <<>> /\ acts' = acts \ {act}
         /\ mut' = mut /\ mig' = mig /\ github' = github /\ receipts' = receipts
         /\ revision' = revision /\ clock' = clock
         /\ Latest \in DOMAIN log /\ log[Latest].bound /\ Generation = log[Latest].gen
         /\ Generation \in 1..2 /\ log[Latest] \in Rows /\ Latest \in 0..Len(log)
<1>1. mut.cmd = None /\ log # <<>> /\ log[Latest].bound
  BY DEF Loaded, LockFree
<1>2. Latest \in DOMAIN log /\ DOMAIN log = 1..Len(log) /\ log \in Seq(Rows)
  BY <1>1, Reads DEF Sound, ActType
<1>3. log[Latest].gen \in 1..2 /\ log[Latest] \in Rows
  BY <1>2, RowType
<1> QED
  BY <1>1, <1>2, <1>3 DEF Loaded, Sound, HeldSound, Generation

\* An insert appends its row after the one it read, or finds that one followed.
LEMMA Inserts ==
  ASSUME Sound, NEW act \in Here, Loaded(act),
         NEW state \in States, NEW gen \in 1..2, NEW ptr \in Links,
         InsertTransition(state, gen, act.at, ptr)
  PROVE  /\ Moves(act.at)
         /\ \/ log' = log /\ HasSuccessor(Latest)
            \/ \E r \in Rows : /\ RowGrows(r) /\ r.state = state /\ r.gen = gen
                               /\ r.bound = TRUE /\ r.at = act.at
<1>1. CASE HasSuccessor(Latest)
  BY <1>1 DEF InsertTransition, Moves
<1>2. CASE ~HasSuccessor(Latest)
  <2>1. log' = Append(log, Row(state, gen, TRUE, Latest, act.at, ptr))
    BY <1>2 DEF InsertTransition
  <2>2. Latest \in 0..Len(log) /\ (act.at = Now \/ Fresh(act.at))
    BY PhaseIs, LoadedIs
  <2>3. PICK at : at = act.at
    OBVIOUS
  <2>4. log' = Append(log, Row(state, gen, TRUE, Latest, at, ptr))
    BY <2>1, <2>3
  <2>5. at = Now \/ Fresh(at)
    BY <2>2, <2>3
  <2>6. /\ \E r \in Rows : /\ RowGrows(r) /\ r.state = state /\ r.gen = gen
                            /\ r.bound = TRUE /\ r.at = at
        /\ Moves(at)
    <3>1. PICK pred \in 0..Len(log) : pred = Latest
      BY <2>2
    <3>2. PICK b \in BOOLEAN : b = TRUE
      OBVIOUS
    <3>3. log' = Append(log, Row(state, gen, b, pred, at, ptr))
      BY <2>4, <3>1, <3>2
    <3>4. /\ \E r \in Rows : /\ RowGrows(r) /\ r.state = state /\ r.gen = gen
                              /\ r.bound = b /\ r.at = at
          /\ Moves(at)
      BY <2>5, <3>3, RowAppended
    <3> QED
      BY <3>2, <3>4
  <2> QED
    BY <2>3, <2>6
<1> QED
  BY <1>1, <1>2

\* A phase that does its part, given the types of what it assigns.
LEMMA SoundPhase ==
  ASSUME Sound, NEW act \in Here, Loaded(act), Moves(act.at),
         source' \in Sources,
         epochs' \subseteq [anchor : Nat \ {0}, closed : BOOLEAN],
         intent' \in {[gen |-> 0, payload |-> 0], [gen |-> 1, payload |-> 1],
                      [gen |-> 2, payload |-> 2]}
  PROVE  Sound' /\ DOMAIN log \subseteq DOMAIN log'
<1>1. /\ mut.cmd = None /\ mut.at = 0 /\ acts' = acts \ {act}
      /\ mut' = mut /\ mig' = mig /\ github' = github /\ receipts' = receipts
      /\ revision' = revision /\ clock' = clock
  BY LoadedIs
<1>2. /\ mig.on => mig.at # act.at
      /\ \A b \in acts \ {act} : b.at # act.at
  BY PhaseIs
<1>3. HeldSound'
  BY <1>1, <1>2, HeldMoves
<1>4. log' \in Seq(Rows) /\ RowsSound(log)' /\ DOMAIN log \subseteq DOMAIN log'
  BY MovesKeep
<1>5. acts' \subseteq Phased /\ (\A a, b \in acts : a = b)'
  BY <1>1 DEF Sound, ActType
<1>6. ActType'
  BY <1>1, <1>4, <1>5 DEF Sound, ActType, Program
<1> QED
  BY <1>3, <1>4, <1>6 DEF Sound

\* An anchor is a time after zero.
LEMMA AnchorIs == ASSUME NEW now \in Nat PROVE Anchor(now) \in Nat \ {0}
<1>1. now \div 2 \in Nat
  OBVIOUS
<1> QED
  BY <1>1 DEF Anchor

\* A reservation keeps the tables sound (Reserve).
LEMMA SoundReserve ==
  ASSUME Sound, NEW act \in Here, Reserve(act)
  PROVE  Sound' /\ DOMAIN log \subseteq DOMAIN log'
<1>1. /\ Loaded(act) /\ intent' = intent /\ source' = source
      /\ epochs' = Epoch(Anchor(act.now))
      /\ InsertTransition("anchor_reserved", Generation, act.at,
                          [Unlinked EXCEPT !.anchor = Anchor(act.now)])
  BY DEF Reserve
<1>2. act.now \in Nat /\ Anchor(act.now) \in Nat \ {0}
  BY PhaseIs, AnchorIs
<1>3. Moves(act.at)
  <2>1. [Unlinked EXCEPT !.anchor = Anchor(act.now)] \in Links
    BY <1>2, UnlinkedIs
  <2>2. "anchor_reserved" \in States /\ Generation \in 1..2
    BY <1>1, LoadedIs DEF States
  <2> QED
    BY <1>1, <2>1, <2>2, Inserts
<1>4. epochs' \subseteq [anchor : Nat \ {0}, closed : BOOLEAN]
  <2>1. epochs \subseteq [anchor : Nat \ {0}, closed : BOOLEAN]
    BY DEF Sound, ActType
  <2>2. PICK anchor \in Nat \ {0} : anchor = Anchor(act.now)
    BY <1>2
  <2>3. [anchor |-> anchor, closed |-> FALSE] \in [anchor : Nat \ {0}, closed : BOOLEAN]
    OBVIOUS
  <2>4. epochs' \in {epochs, epochs \cup {[anchor |-> anchor, closed |-> FALSE]}}
    BY <1>1, <2>2 DEF Epoch
  <2> QED
    BY <2>1, <2>3, <2>4
<1> QED
  BY <1>1, <1>3, <1>4, SoundPhase DEF Sound, ActType

\* The pointer a commit writes carries its anchor.
LEMMA LinkIs ==
  ASSUME NEW anchor \in Nat, Generation \in 1..2
  PROVE  Link(anchor) \in Links /\ Link(anchor).anchor = anchor
  BY DEF Link, Links

\* An activation's commit keeps the tables sound (Commit).
LEMMA SoundCommit ==
  ASSUME Sound, NEW act \in Here, Commit(act)
  PROVE  Sound' /\ DOMAIN log \subseteq DOMAIN log'
<1>1. Loaded(act) /\ intent' = intent /\ epochs' = epochs
  BY DEF Commit
<1>2. PICK e \in epochs : PersistCommit(Accepted(act.now, e.anchor), e.anchor, act.at)
  BY DEF Commit
<1>3. e.anchor \in Nat /\ Generation \in 1..2
  BY <1>1, LoadedIs DEF Sound, ActType
<1>4. Link(e.anchor) \in Links /\ source \in Sources
  BY <1>3, LinkIs DEF Sound, ActType
<1>5. Moves(act.at) /\ source' \in Sources
  <2>1. CASE Accepted(act.now, e.anchor)
    <3>1. /\ source' = [source EXCEPT !.on = TRUE, !.ptr = Link(e.anchor)]
          /\ InsertTransition("active", Generation, act.at, Link(e.anchor))
      BY <1>2, <2>1 DEF PersistCommit
    <3> QED
      BY <1>1, <1>3, <1>4, <3>1, Inserts DEF Sources, States
  <2>2. CASE ~Accepted(act.now, e.anchor)
    <3>1. /\ source' = source
          /\ InsertTransition("failed", Generation, act.at, Unlinked)
      BY <1>2, <2>2 DEF PersistCommit
    <3> QED
      BY <1>1, <1>3, <1>4, <3>1, UnlinkedIs, Inserts DEF States
  <2> QED
    BY <2>1, <2>2
<1> QED
  BY <1>1, <1>5, SoundPhase DEF Sound, ActType

\* A second preparation keeps the tables sound and ends the first generation (Reprepare).
LEMMA SoundReprepare ==
  ASSUME Sound, NEW act \in Here, Reprepare(act)
  PROVE  Sound' /\ DOMAIN log \subseteq DOMAIN log' /\ Generation = 1
<1>1. Loaded(act) /\ MayReprepare /\ PersistReprepare(act.now, act.at) /\ epochs' = epochs
  BY DEF Reprepare
<1>2. Generation \in 1..2 /\ act.now \in Nat /\ source \in Sources
  BY <1>1, LoadedIs, PhaseIs DEF Sound, ActType
<1>3. Generation = 1
  BY <1>1, <1>2 DEF MayReprepare, Sources
<1>4. /\ source' = [source EXCEPT !.prepared[2] = act.now]
      /\ intent' = IF intent.gen = 1 THEN [gen |-> 2, payload |-> 2] ELSE intent
      /\ InsertTransition("prepared", 2, act.at, Unlinked)
  BY <1>1, <1>3 DEF PersistReprepare
<1>5. source' \in Sources
  BY <1>2, <1>4 DEF Sources
<1>6. Moves(act.at)
  <2>1. "prepared" \in States /\ Unlinked \in Links /\ 2 \in 1..2
    BY UnlinkedIs DEF States
  <2> QED
    BY <1>1, <1>4, <2>1, Inserts
<1>7. intent' \in {[gen |-> 0, payload |-> 0], [gen |-> 1, payload |-> 1],
                   [gen |-> 2, payload |-> 2]}
  BY <1>4 DEF Sound, ActType
<1> QED
  BY <1>1, <1>3, <1>5, <1>6, <1>7, SoundPhase DEF Sound, ActType
-----------------------------------------------------------------------------
\* What most steps are to the binding and to the anchors: they write neither,
\* and at most take the activation back.
SameAnchors ==
    /\ \A e \in epochs : \E f \in epochs' : f.anchor = e.anchor
    /\ \A f \in epochs' : \E e \in epochs : f.anchor = e.anchor
TakesBack(r) ==
    /\ r.state \in {"deactivated", "restored", "active"}
    /\ r.state = "active" => LatestState = "active"
    /\ \E i \in DOMAIN log : r.gen = log[i].gen /\ (r.bound => log[i].bound)
Passes ==
    /\ intent' = intent /\ github' = github /\ SameAnchors
    /\ mut' = mut \/ mut' = Idle
    /\ receipts' = receipts \/ receipts' = receipts \cup {"evidence"}
    /\ source'.on => source.on /\ source'.ptr.anchor = source.ptr.anchor
    /\ log' = log \/ \E r \in Rows : RowGrows(r) /\ TakesBack(r)

\* While the epochs stay, so do their anchors.
LEMMA AnchorsKept == ASSUME epochs' = epochs PROVE SameAnchors
  BY DEF SameAnchors

\* The steps that pass in this sense, one by one.
LEMMA QuietSteps ==
  ASSUME Sound,
         \/ MutateFails \/ HandshakeRun \/ ActivateRefused \/ Tick
         \/ \E to \in 0..3 : RevisionOnly(to)
         \/ UNCHANGED actVars
  PROVE  Sound' /\ Passes
<1>1. /\ log' = log /\ epochs' = epochs /\ source' = source /\ github' = github
      /\ intent' = intent /\ mig' = mig /\ (mut' = mut \/ mut' = Idle)
      /\ receipts' = receipts \/ receipts' = receipts \cup {"evidence"}
      /\ acts' \subseteq acts
  BY DEF MutateFails, HandshakeRun, ActivateRefused, Tick, RevisionOnly, actVars
<1>2. revision' \in 0..4
  BY DEF MutateFails, HandshakeRun, ActivateRefused, Tick, RevisionOnly, actVars,
         Sound, ActType
<1>3. clock' \in Nat
  BY DEF MutateFails, HandshakeRun, ActivateRefused, Tick, RevisionOnly, actVars,
         Sound, ActType
<1>4. Sound'
  BY <1>1, <1>2, <1>3, SoundQuiet
<1> QED
  BY <1>1, <1>4, AnchorsKept DEF Passes

\* A process that waits changes nothing the other invariants read.
LEMMA WaitSteps ==
  ASSUME Sound, NEW phase \in Waits, ActivateWait(phase)
  PROVE  Sound' /\ Passes
<1>1. /\ log' = log /\ epochs' = epochs /\ source' = source /\ github' = github
      /\ intent' = intent /\ mut' = mut /\ receipts' = receipts
  BY DEF ActivateWait
<1> QED
  BY <1>1, SoundWait, AnchorsKept DEF Passes

\* A downgrade that reads changes nothing the other invariants read.
LEMMA DowngradeReads ==
  ASSUME Sound, DowngradeRead
  PROVE  Sound' /\ Passes
<1>1. /\ log' = log /\ epochs' = epochs /\ source' = source /\ github' = github
      /\ intent' = intent /\ mut' = mut /\ receipts' = receipts /\ acts' = acts
      /\ revision' = revision /\ clock' = clock /\ Latest # 0
  BY DEF DowngradeRead
<1>2. PICK at \in Stamps("before", Len(log) - 1) \cup Stamps("downgrade", Len(log)) :
        mig' = [on |-> TRUE, at |-> at, pred |-> Latest]
  BY DEF DowngradeRead
<1>3. /\ Latest \in DOMAIN log /\ DOMAIN log = 1..Len(log) /\ Len(log) \in Nat
  BY <1>1, Reads DEF Sound
<1>4. Len(log) - 1 \in 0..Len(log) /\ Len(log) \in 0..Len(log)
  BY <1>3
<1>5. Fresh(at) /\ at \in Nat /\ at # mut.at /\ \A act \in acts : act.at # at
  <2>1. CASE at \in Stamps("before", Len(log) - 1)
    <3>1. PICK n \in 0..Len(log) : n = Len(log) - 1
      BY <1>4
    <3>2. at \in Stamps("before", n)
      BY <2>1, <3>1
    <3> QED
      BY <3>2, StampsFresh
  <2>2. CASE at \in Stamps("downgrade", Len(log))
    BY <1>4, <2>2, StampsFresh
  <2> QED
    BY <2>1, <2>2
<1>6. mig' \in [on : BOOLEAN, at : Nat, pred : Nat]
      /\ mig'.on /\ mig'.at = at /\ mig'.pred = Latest
  BY <1>2, <1>3, <1>5
<1>7. ActType'
  BY <1>1, <1>6 DEF Sound, ActType, Program
<1>8. RowsSound(log)'
  BY <1>1 DEF Sound, RowsSound, NewestIn
<1>9. HeldSound'
  BY <1>1, <1>3, <1>5, <1>6 DEF Sound, HeldSound, Fresh
<1> QED
  BY <1>1, <1>7, <1>8, <1>9, AnchorsKept DEF Passes, Sound

\* A source switched off loses its pointer.
LEMMA UnlinkedSource ==
  ASSUME source \in Sources,
         source' = [source EXCEPT !.on = FALSE, !.ptr = Unlinked]
  PROVE  source' \in Sources /\ ~source'.on
<1>1. PICK p \in Links : p = Unlinked
  BY UnlinkedIs
<1>2. source' = [source EXCEPT !.on = FALSE, !.ptr = p]
  BY <1>1
<1> QED
  BY <1>2 DEF Sources

\* A downgrade's commit keeps the tables sound (DowngradeCommit).
LEMMA DowngradeCommits ==
  ASSUME Sound, NEW to \in 0..3, DowngradeCommit(to)
  PROVE  Sound' /\ Passes
<1>1. /\ mig.on /\ revision' = to /\ mig' = MigIdle /\ intent' = intent
      /\ github' = github /\ receipts' = receipts /\ mut' = mut /\ acts' = acts
      /\ clock' = clock
      /\ epochs' = {[e EXCEPT !.closed = TRUE] : e \in epochs}
      /\ source' = [source EXCEPT !.on = FALSE, !.ptr = Unlinked]
  BY DEF DowngradeCommit
<1>2. log' = log \/ log' = Append(log, Row("deactivated", log[mig.pred].gen, FALSE,
                                           mig.pred, mig.at, Unlinked))
  BY DEF DowngradeCommit
<1>3. /\ Fresh(mig.at) /\ mig.pred \in DOMAIN log /\ mig.at # mut.at
      /\ \A act \in acts : act.at # mig.at
      /\ mut.cmd = None => mut.at = 0
  BY <1>1 DEF Sound, HeldSound
<1>4. /\ mig.pred \in 0..Len(log) /\ log[mig.pred].gen \in 1..2
  <2>1. log \in Seq(Rows) /\ DOMAIN log = 1..Len(log)
    BY Reads DEF Sound, ActType
  <2> QED
    BY <1>3, <2>1, RowType
<1>5. Moves(mig.at) /\ (log' = log \/ \E r \in Rows : RowGrows(r) /\ TakesBack(r))
  <2>1. CASE log' = log
    BY <2>1 DEF Moves
  <2>2. CASE log' # log
    <3>1. PICK at : at = mig.at
      OBVIOUS
    <3>2. PICK b \in BOOLEAN : b = FALSE
      OBVIOUS
    <3>3. log' = Append(log, Row("deactivated", log[mig.pred].gen, b, mig.pred, at,
                                 Unlinked))
      BY <1>2, <2>2, <3>1, <3>2
    <3>4. Fresh(at) /\ "deactivated" \in States /\ Unlinked \in Links
      BY <1>3, <3>1, UnlinkedIs DEF States
    <3>5. /\ \E r \in Rows : /\ RowGrows(r) /\ r.state = "deactivated"
                             /\ r.gen = log[mig.pred].gen /\ r.bound = b /\ r.at = at
          /\ Moves(at)
      BY <1>4, <3>3, <3>4, RowAppended
    <3>6. PICK r \in Rows : /\ RowGrows(r) /\ r.state = "deactivated"
                            /\ r.gen = log[mig.pred].gen /\ r.bound = b
      BY <3>5
    <3>7. TakesBack(r)
      <4>1. ~r.bound
        BY <3>2, <3>6
      <4>2. \E i \in DOMAIN log : r.gen = log[i].gen /\ (r.bound => log[i].bound)
        BY <4>1, <1>3, <3>6
      <4> QED
        BY <4>2, <3>6 DEF TakesBack
    <3> QED
      BY <3>1, <3>5, <3>6, <3>7
  <2> QED
    BY <2>1, <2>2
<1>6. source' \in Sources /\ ~source'.on
  BY <1>1, UnlinkedSource DEF Sound, ActType
<1>7. /\ epochs' \subseteq [anchor : Nat \ {0}, closed : BOOLEAN]
      /\ SameAnchors
  <2>1. epochs \subseteq [anchor : Nat \ {0}, closed : BOOLEAN]
    BY DEF Sound, ActType
  <2>2. \A e \in epochs : /\ [e EXCEPT !.closed = TRUE] \in [anchor : Nat \ {0}, closed : BOOLEAN]
                          /\ [e EXCEPT !.closed = TRUE].anchor = e.anchor
    BY <2>1
  <2> QED
    BY <1>1, <2>2 DEF SameAnchors
<1>8. log' \in Seq(Rows) /\ RowsSound(log)'
  BY <1>5, MovesKeep
<1>9. HeldSound'
  BY <1>1, <1>3, <1>5, HeldMoves DEF MigIdle
<1>10. mig' \in [on : BOOLEAN, at : Nat, pred : Nat] /\ revision' \in 0..4
  BY <1>1 DEF MigIdle
<1>11. ActType'
  BY <1>1, <1>6, <1>7, <1>8, <1>10 DEF Sound, ActType, Program
<1> QED
  BY <1>1, <1>5, <1>6, <1>7, <1>8, <1>9, <1>11 DEF Sound, Passes

\* A step that appends the next row in its own right, or none, and links or
\* unlinks the source at most.
LEMMA OwnRow ==
  ASSUME Sound, log # <<>>, NEW state \in States, NEW ptr \in Links,
         \/ log' = log
         \/ log' = Append(log, Row(state, Generation, log[Latest].bound, Latest, Now, ptr)),
         intent' = intent, epochs' = epochs, github' = github, receipts' = receipts,
         mut' = mut, acts' = acts, mig' = mig, clock' = clock,
         revision' \in 0..4, source' \in Sources
  PROVE  /\ Sound'
         /\ log' = log \/ \E r \in Rows : /\ RowGrows(r) /\ r.state = state
                                          /\ r.gen = log[Latest].gen
                                          /\ r.bound = log[Latest].bound
<1>1. /\ Latest \in DOMAIN log /\ DOMAIN log = 1..Len(log) /\ log \in Seq(Rows)
      /\ log[Latest].gen \in 1..2 /\ log[Latest].bound \in BOOLEAN
      /\ Latest \in 0..Len(log)
  BY Reads, RowType DEF Sound, ActType
<1>2. /\ Moves(Now)
      /\ log' = log \/ \E r \in Rows : /\ RowGrows(r) /\ r.state = state
                                       /\ r.gen = log[Latest].gen
                                       /\ r.bound = log[Latest].bound
  <2>1. CASE log' = log
    BY <2>1 DEF Moves
  <2>2. CASE log' # log
    <3>1. PICK gen \in 1..2, b \in BOOLEAN, pred \in 0..Len(log), at \in {Now} :
             gen = log[Latest].gen /\ b = log[Latest].bound /\ pred = Latest
      BY <1>1
    <3>2. log' = Append(log, Row(state, gen, b, pred, at, ptr))
      BY <2>2, <3>1 DEF Generation
    <3>3. /\ \E r \in Rows : /\ RowGrows(r) /\ r.state = state /\ r.gen = gen
                             /\ r.bound = b /\ r.at = at
          /\ Moves(at)
      BY <3>1, <3>2, RowAppended
    <3> QED
      BY <3>1, <3>3
  <2> QED
    BY <2>1, <2>2
<1>3. /\ \A act \in acts : act.at # Now
      /\ mig.on => mig.at # Now
      /\ mut.at # 0 => mut.at # Now
      /\ mut.cmd = None => mut.at = 0
  BY NowFresh DEF Sound, HeldSound
<1>4. HeldSound'
  BY <1>2, <1>3, HeldMoves
<1>5. log' \in Seq(Rows) /\ RowsSound(log)'
  BY <1>2, MovesKeep
<1>6. ActType'
  BY <1>5 DEF Sound, ActType, Program
<1> QED
  BY <1>2, <1>4, <1>5, <1>6 DEF Sound
\* The rest of the steps that take back or repair.
LEMMA RowTakesBack ==
  ASSUME Sound, log # <<>>, NEW state \in States,
         state \in {"deactivated", "restored", "active"},
         state = "active" => LatestState = "active",
         \/ log' = log
         \/ \E r \in Rows : /\ RowGrows(r) /\ r.state = state
                            /\ r.gen = log[Latest].gen /\ r.bound = log[Latest].bound
  PROVE  log' = log \/ \E r \in Rows : RowGrows(r) /\ TakesBack(r)
<1>1. CASE log' = log
  BY <1>1
<1>2. CASE log' # log
  <2>1. PICK r \in Rows : /\ RowGrows(r) /\ r.state = state
                          /\ r.gen = log[Latest].gen /\ r.bound = log[Latest].bound
    BY <1>2
  <2>2. Latest \in DOMAIN log
    BY Reads DEF Sound
  <2>3. TakesBack(r)
    BY <2>1, <2>2 DEF TakesBack
  <2> QED
    BY <2>1, <2>3
<1> QED
  BY <1>1, <1>2

\* The budget repair keeps the tables sound (RepairBudget).
LEMMA RepairsBudget ==
  ASSUME Sound, RepairBudget
  PROVE  Sound' /\ Passes
<1>1. /\ intent' = intent /\ epochs' = epochs /\ github' = github /\ receipts' = receipts
      /\ mut' = mut /\ acts' = acts /\ mig' = mig /\ clock' = clock
      /\ revision' \in 0..4
  BY DEF RepairBudget
<1>2. source \in Sources /\ log \in Seq(Rows)
  BY DEF Sound, ActType
<1>3. CASE source.ptr.budget \in {None, "free", "repaired"}
  <2>1. log' = log /\ source' = [source EXCEPT !.scope = "manifold"]
    BY <1>3 DEF RepairBudget
  <2>2. /\ source' \in Sources /\ source'.on = source.on /\ source'.ptr = source.ptr
    BY <1>2, <2>1 DEF Sources
  <2>3. Sound'
    <3>1. /\ \A act \in acts : act.at # Now
          /\ mig.on => mig.at # Now
          /\ mut.at # 0 => mut.at # Now
          /\ mut.cmd = None => mut.at = 0
      BY NowFresh DEF Sound, HeldSound
    <3>2. Moves(Now)
      BY <2>1 DEF Moves
    <3>3. HeldSound'
      BY <1>1, <3>1, <3>2, HeldMoves
    <3>4. ActType' /\ RowsSound(log)'
      BY <1>1, <2>1, <2>2 DEF Sound, ActType, Program, RowsSound, NewestIn
    <3> QED
      BY <3>3, <3>4 DEF Sound
  <2> QED
    BY <1>1, <2>1, <2>2, <2>3, AnchorsKept DEF Passes
<1>4. CASE source.ptr.budget \notin {None, "free", "repaired"}
  <2>1. /\ LatestState = "active"
        /\ source' = [source EXCEPT !.scope = "manifold", !.ptr.budget = "repaired"]
        /\ log' = Append(log, Row("active", Generation, log[Latest].bound, Latest, Now,
                                  [log[Latest].ptr EXCEPT !.budget = "repaired"]))
    BY <1>4 DEF RepairBudget
  <2>2. log # <<>> /\ Latest \in DOMAIN log
    BY <2>1, Reads DEF Sound, None
  <2>3. PICK ptr \in Links : ptr = [log[Latest].ptr EXCEPT !.budget = "repaired"]
    BY <1>2, <2>2, RowType, UnlinkedIs
  <2>4. /\ source' \in Sources /\ source'.on = source.on
        /\ source'.ptr.anchor = source.ptr.anchor
    BY <1>2, <2>1 DEF Sources, Links
  <2>5. "active" \in States
    BY DEF States
  <2>6. /\ Sound'
        /\ log' = log \/ \E r \in Rows : /\ RowGrows(r) /\ r.state = "active"
                                         /\ r.gen = log[Latest].gen
                                         /\ r.bound = log[Latest].bound
    BY <1>1, <2>1, <2>2, <2>3, <2>4, <2>5, OwnRow
  <2>7. log' = log \/ \E r \in Rows : RowGrows(r) /\ TakesBack(r)
    BY <2>1, <2>2, <2>5, <2>6, RowTakesBack
  <2> QED
    BY <1>1, <2>4, <2>6, <2>7, AnchorsKept DEF Passes
<1> QED
  BY <1>3, <1>4

\* The authorization repair keeps the tables sound (RepairAuthorization).
LEMMA RepairsAuthorization ==
  ASSUME Sound, RepairAuthorization
  PROVE  Sound' /\ Passes
<1>1. /\ intent' = intent /\ epochs' = epochs /\ github' = github /\ receipts' = receipts
      /\ mut' = mut /\ acts' = acts /\ mig' = mig /\ clock' = clock
      /\ revision' \in 0..4
  BY DEF RepairAuthorization
<1>2. source \in Sources /\ log \in Seq(Rows)
  BY DEF Sound, ActType
<1>3. CASE source.ptr.auth \in {None, "repaired"}
  <2>1. log' = log /\ source' = source
    BY <1>3 DEF RepairAuthorization
  <2>2. Sound'
    <3>1. /\ \A act \in acts : act.at # Now
          /\ mig.on => mig.at # Now
          /\ mut.at # 0 => mut.at # Now
          /\ mut.cmd = None => mut.at = 0
      BY NowFresh DEF Sound, HeldSound
    <3>2. Moves(Now)
      BY <2>1 DEF Moves
    <3>3. HeldSound'
      BY <1>1, <3>1, <3>2, HeldMoves
    <3>4. ActType' /\ RowsSound(log)'
      BY <1>1, <2>1 DEF Sound, ActType, Program, RowsSound, NewestIn
    <3> QED
      BY <3>3, <3>4 DEF Sound
  <2> QED
    BY <1>1, <2>1, <2>2, AnchorsKept DEF Passes
<1>4. CASE source.ptr.auth \notin {None, "repaired"}
  <2>1. /\ LatestState = "active"
        /\ source' = [source EXCEPT !.ptr.auth = "repaired"]
        /\ log' = Append(log, Row("active", Generation, log[Latest].bound, Latest, Now,
                                  [log[Latest].ptr EXCEPT !.auth = "repaired"]))
    BY <1>4 DEF RepairAuthorization
  <2>2. log # <<>> /\ Latest \in DOMAIN log
    BY <2>1, Reads DEF Sound, None
  <2>3. PICK ptr \in Links : ptr = [log[Latest].ptr EXCEPT !.auth = "repaired"]
    BY <1>2, <2>2, RowType, UnlinkedIs
  <2>4. /\ source' \in Sources /\ source'.on = source.on
        /\ source'.ptr.anchor = source.ptr.anchor
    BY <1>2, <2>1 DEF Sources, Links
  <2>5. "active" \in States
    BY DEF States
  <2>6. /\ Sound'
        /\ log' = log \/ \E r \in Rows : /\ RowGrows(r) /\ r.state = "active"
                                         /\ r.gen = log[Latest].gen
                                         /\ r.bound = log[Latest].bound
    BY <1>1, <2>1, <2>2, <2>3, <2>4, <2>5, OwnRow
  <2>7. log' = log \/ \E r \in Rows : RowGrows(r) /\ TakesBack(r)
    BY <2>1, <2>2, <2>5, <2>6, RowTakesBack
  <2> QED
    BY <1>1, <2>4, <2>6, <2>7, AnchorsKept DEF Passes
<1> QED
  BY <1>3, <1>4

\* prepare_source on an empty log, or on one that is there.
LEMMA Prepares ==
  ASSUME Sound, PrepareSource
  PROVE  /\ Sound'
         /\ \/ Passes
            \/ /\ log = <<>>
               /\ \E r \in Rows : RowGrows(r) /\ r.state = "prepared" /\ r.gen = 1 /\ ~r.bound
               /\ source'.on = source.on /\ source'.ptr = source.ptr
               /\ UNCHANGED <<intent, epochs, github, receipts, mut>>
<1>1. /\ intent' = intent /\ epochs' = epochs /\ github' = github /\ receipts' = receipts
      /\ mut' = mut /\ acts' = acts /\ mig' = mig /\ clock' = clock
      /\ revision' \in 0..4
  BY DEF PrepareSource
<1>2. source \in Sources /\ log \in Seq(Rows) /\ clock \in Nat
  BY DEF Sound, ActType
<1>3. /\ \A act \in acts : act.at # Now
      /\ mig.on => mig.at # Now
      /\ mut.at # 0 => mut.at # Now
      /\ mut.cmd = None => mut.at = 0
  BY NowFresh DEF Sound, HeldSound
<1>4. CASE log = <<>>
  <2>1. /\ source' = [source EXCEPT !.exists = TRUE, !.prepared[1] = clock]
        /\ log' = <<Row("prepared", 1, FALSE, 0, Now, Unlinked)>>
    BY <1>4 DEF PrepareSource
  <2>2. /\ source' \in Sources /\ source'.on = source.on /\ source'.ptr = source.ptr
    BY <1>2, <2>1 DEF Sources
  <2>3. Len(log) = 0 /\ 0 \in 0..Len(log)
    BY <1>4
  <2>4. PICK b \in BOOLEAN : b = FALSE
    OBVIOUS
  <2>5. PICK at : at = Now
    OBVIOUS
  <2>6. log' = Append(log, Row("prepared", 1, b, 0, at, Unlinked))
    <3>1. PICK r : r = Row("prepared", 1, b, 0, at, Unlinked)
      OBVIOUS
    <3>2. log' = <<r>>
      BY <2>1, <2>4, <2>5, <3>1
    <3> QED
      BY <1>4, <3>1, <3>2
  <2>7. "prepared" \in States /\ Unlinked \in Links /\ 1 \in 1..2
    BY UnlinkedIs DEF States
  <2>8. /\ \E r \in Rows : /\ RowGrows(r) /\ r.state = "prepared" /\ r.gen = 1
                           /\ r.bound = b /\ r.at = at
        /\ Moves(at)
    BY <2>3, <2>5, <2>6, <2>7, RowAppended
  <2>9. Moves(Now)
    BY <2>5, <2>8
  <2>10. HeldSound'
    BY <1>1, <1>3, <2>9, HeldMoves
  <2>11. log' \in Seq(Rows) /\ RowsSound(log)'
    BY <2>9, MovesKeep
  <2>12. ActType'
    BY <1>1, <2>2, <2>11 DEF Sound, ActType, Program
  <2>13. \E r \in Rows : RowGrows(r) /\ r.state = "prepared" /\ r.gen = 1 /\ ~r.bound
    BY <2>4, <2>8
  <2> QED
    BY <1>1, <1>4, <2>2, <2>10, <2>11, <2>12, <2>13 DEF Sound
<1>5. CASE log # <<>>
  <2>1. log' = log /\ source' = source
    BY <1>5 DEF PrepareSource
  <2>2. Moves(Now)
    BY <2>1 DEF Moves
  <2>3. HeldSound'
    BY <1>1, <1>3, <2>2, HeldMoves
  <2>4. ActType' /\ RowsSound(log)'
    BY <1>1, <2>1 DEF Sound, ActType, Program, RowsSound, NewestIn
  <2> QED
    BY <1>1, <2>1, <2>3, <2>4, AnchorsKept DEF Sound, Passes
<1> QED
  BY <1>4, <1>5

\* The incident's steps that append after the latest row.
LEMMA IncidentRows ==
  ASSUME Sound, log # <<>>, NEW state \in {"deactivated", "restored"},
         AppendAfterLatest(state), LogOnly, source' = source \/ Disable
  PROVE  Sound' /\ Passes
<1>1. /\ intent' = intent /\ epochs' = epochs /\ github' = github /\ receipts' = receipts
      /\ mut' = mut /\ acts' = acts /\ mig' = mig /\ clock' = clock
      /\ revision' = revision
  BY DEF LogOnly
<1>2. log' = Append(log, Row(state, Generation, log[Latest].bound, Latest, Now, Unlinked))
  BY DEF AppendAfterLatest
<1>3. source' \in Sources /\ (source'.on => source.on /\ source' = source)
  BY UnlinkedSource DEF Disable, Sound, ActType
<1>4. state \in States /\ Unlinked \in Links /\ revision \in 0..4
  BY UnlinkedIs DEF States, Sound, ActType
<1>5. /\ Sound'
      /\ log' = log \/ \E r \in Rows : /\ RowGrows(r) /\ r.state = state
                                       /\ r.gen = log[Latest].gen
                                       /\ r.bound = log[Latest].bound
  BY <1>1, <1>2, <1>3, <1>4, OwnRow
<1>6. log' = log \/ \E r \in Rows : RowGrows(r) /\ TakesBack(r)
  BY <1>4, <1>5, RowTakesBack
<1> QED
  BY <1>1, <1>3, <1>5, <1>6, AnchorsKept DEF Passes
-----------------------------------------------------------------------------
\* What passes keeps each part of the invariant.
LEMMA PassFacts ==
  ASSUME Sound, Passes
  PROVE  /\ LatestState' \in {LatestState, "deactivated", "restored"}
         /\ Overtaken => Overtaken'
         /\ DOMAIN log \subseteq DOMAIN log' /\ \A i \in DOMAIN log : log'[i] = log[i]
         /\ \A i \in DOMAIN log' :
               \/ i \in DOMAIN log
               \/ /\ log'[i].state \in {"deactivated", "restored", "active"}
                  /\ \E j \in DOMAIN log : /\ log'[i].gen = log[j].gen
                                           /\ log'[i].bound => log[j].bound
<1>1. CASE log' = log
  BY <1>1 DEF Latest, LatestState, Overtaken
<1>2. CASE log' # log
  <2>1. PICK r \in Rows : RowGrows(r) /\ TakesBack(r)
    BY <1>2 DEF Passes
  <2>2. /\ DOMAIN log' = DOMAIN log \cup {Len(log) + 1}
        /\ \A i \in DOMAIN log : log'[i] = log[i]
        /\ log'[Len(log) + 1] = r
        /\ LatestState' \in {LatestState, r.state}
        /\ Overtaken => Overtaken'
    BY <2>1, Growth DEF Sound
  <2>3. /\ r.state \in {"deactivated", "restored", "active"}
        /\ r.state = "active" => LatestState = "active"
        /\ \E j \in DOMAIN log : r.gen = log[j].gen /\ (r.bound => log[j].bound)
    BY <2>1 DEF TakesBack
  <2> QED
    BY <2>2, <2>3
<1> QED
  BY <1>1, <1>2

\* A step that leaves log, intent and secrets keeps their generations in step.
LEMMA PassesRotated ==
  ASSUME Sound, Rotated, Passes
  PROVE  Rotated'
<1>1. /\ DOMAIN log \subseteq DOMAIN log' /\ \A i \in DOMAIN log : log'[i] = log[i]
      /\ \A i \in DOMAIN log' :
            \/ i \in DOMAIN log
            \/ /\ log'[i].state \in {"deactivated", "restored", "active"}
               /\ \E j \in DOMAIN log : /\ log'[i].gen = log[j].gen
                                        /\ log'[i].bound => log[j].bound
  BY PassFacts
<1>2. intent' = intent /\ (mut' = mut \/ mut' = Idle)
  BY DEF Passes
<1>3. ASSUME NEW i \in DOMAIN log'
      PROVE  /\ log'[i].gen = 2 => intent'.payload = 2
             /\ log'[i].bound => intent'.payload # 0
  BY <1>1, <1>2 DEF Rotated
<1>4. mut'.cmd # None => intent'.payload = 1
  BY <1>2 DEF Rotated, Idle
<1>5. ASSUME NEW i \in DOMAIN log', log'[i].state = "failed"
      PROVE  \E j \in DOMAIN log' : /\ log'[j].state = "github_finalized"
                                    /\ log'[j].gen = log'[i].gen
  <2>1. i \in DOMAIN log /\ log'[i] = log[i]
    BY <1>1, <1>5
  <2>2. PICK j \in DOMAIN log : /\ log[j].state = "github_finalized"
                                /\ log[j].gen = log[i].gen
    BY <2>1, <1>5 DEF Rotated
  <2> QED
    BY <1>1, <2>1, <2>2
<1> QED
  BY <1>3, <1>4, <1>5 DEF Rotated

\* A step that leaves log and secrets keeps the binding sound.
LEMMA PassesBinding ==
  ASSUME Sound, BindingSound, Passes
  PROVE  BindingSound'
<1>1. LatestState' \in {LatestState, "deactivated", "restored"}
  BY PassFacts
<1>2. /\ intent' = intent /\ github' = github /\ (mut' = mut \/ mut' = Idle)
      /\ receipts' = receipts \/ receipts' = receipts \cup {"evidence"}
  BY DEF Passes
<1>3. LatestState \in Past => LatestState' \in Past
  BY <1>1 DEF Past
<1>4. Over => Over'
  BY <1>2, <1>3 DEF Over
<1>5. Ordered' = Ordered /\ Held' = Held
  BY <1>2 DEF Ordered, Held
<1>6. mut'.cmd # None => mut' = mut
  BY <1>2 DEF Idle
<1>7. intent'.payload = 2 => LatestState' \in Past \cup {"prepared"}
  BY <1>1, <1>2 DEF BindingSound, Past
<1>8. /\ mut'.cmd = "restore" => LatestState' \in Past /\ WrittenUpTo("old")'
      /\ mut'.cmd = "apply" => WrittenUpTo("new")'
      /\ mut'.cmd \in Scripts \ {"restore"} => Ordered'
  BY <1>2, <1>3, <1>5, <1>6, NoneIs DEF BindingSound, WrittenUpTo, Scripts
<1>9. Over' \/ Ordered'
  BY <1>4, <1>5 DEF BindingSound
<1>10. CommittedIsLive'
  BY <1>1, <1>5 DEF BindingSound, CommittedIsLive
<1>11. "restore" \in receipts' =>
          Held' = Prestate /\ Over' /\ mut'.cmd \in {None, "restore"}
  BY <1>2, <1>4, <1>5 DEF BindingSound, Idle
<1> QED
  BY <1>7, <1>8, <1>9, <1>10, <1>11 DEF BindingSound, Past

\* What an anchor is of stays so while the epochs do.
LEMMA AnchorsMove ==
  ASSUME SameAnchors
  PROVE  /\ \A a : OfEpoch(a) => OfEpoch(a)'
         /\ OneAnchor => OneAnchor'
         /\ epochs' # {} => epochs # {}
<1>1. \A a : OfEpoch(a) => OfEpoch(a)'
  BY DEF SameAnchors, OfEpoch
<1>2. OneAnchor => OneAnchor'
  <2> SUFFICES ASSUME OneAnchor, NEW f \in epochs', NEW g \in epochs'
               PROVE  f.anchor = g.anchor
    BY DEF OneAnchor
  <2>1. PICK e \in epochs, d \in epochs : f.anchor = e.anchor /\ g.anchor = d.anchor
    BY DEF SameAnchors
  <2> QED
    BY <2>1 DEF OneAnchor
<1>3. epochs' # {} => epochs # {}
  BY DEF SameAnchors
<1> QED
  BY <1>1, <1>2, <1>3

\* A step that leaves epochs and links keeps the anchors sound.
LEMMA PassesAnchors ==
  ASSUME Sound, AnchorsSound, Passes
  PROVE  AnchorsSound'
<1>1. /\ LatestState' \in {LatestState, "deactivated", "restored"}
      /\ Overtaken => Overtaken'
      /\ \A i \in DOMAIN log : log'[i] = log[i]
      /\ \A i \in DOMAIN log' :
            i \in DOMAIN log \/ log'[i].state \in {"deactivated", "restored", "active"}
  BY PassFacts
<1>2. /\ intent' = intent /\ github' = github /\ (mut' = mut \/ mut' = Idle)
      /\ source'.on => source.on /\ source'.ptr.anchor = source.ptr.anchor
      /\ SameAnchors
  BY DEF Passes
<1>3. /\ \A a : OfEpoch(a) => OfEpoch(a)'
      /\ OneAnchor => OneAnchor'
      /\ epochs' # {} => epochs # {}
  BY <1>2, AnchorsMove
<1>4. mut'.cmd # None => mut' = mut
  BY <1>2 DEF Idle
<1>5. source'.on => OfEpoch(source.ptr.anchor)' /\ github'.anchor # 0
  <2> SUFFICES ASSUME source'.on PROVE OfEpoch(source.ptr.anchor)' /\ github'.anchor # 0
    OBVIOUS
  <2>1. PICK a : a = source.ptr.anchor
    OBVIOUS
  <2>2. OfEpoch(a)' /\ a = source'.ptr.anchor
    BY <1>2, <1>3, <2>1 DEF AnchorsSound
  <2> QED
    BY <1>2, <2>2 DEF AnchorsSound, OfEpoch
<1>6. github'.anchor # 0 => OfEpoch(github.anchor)'
  <2> SUFFICES ASSUME github'.anchor # 0 PROVE OfEpoch(github.anchor)'
    OBVIOUS
  <2>1. PICK a : a = github.anchor
    OBVIOUS
  <2>2. OfEpoch(a)' /\ a = github'.anchor
    BY <1>2, <1>3, <2>1 DEF AnchorsSound
  <2> QED
    BY <2>2 DEF OfEpoch
<1>7. mut'.cmd = "finalize" => /\ OfEpoch(mut.anchor)'
                               /\ mut'.pc = 2 => github'.anchor # 0
  <2> SUFFICES ASSUME mut'.cmd = "finalize"
               PROVE  /\ OfEpoch(mut.anchor)'
                      /\ mut'.pc = 2 => github'.anchor # 0
    OBVIOUS
  <2>1. mut' = mut /\ mut.cmd = "finalize"
    BY <1>4, NoneIs DEF Scripts
  <2>2. PICK a : a = mut.anchor
    OBVIOUS
  <2>3. OfEpoch(a)' /\ a = mut'.anchor
    BY <1>3, <2>1, <2>2 DEF AnchorsSound
  <2> QED
    BY <1>2, <2>1, <2>3 DEF AnchorsSound, OfEpoch
<1>8. (\E i \in DOMAIN log' : log'[i].state = "github_finalized") => github'.anchor # 0
  BY <1>1, <1>2 DEF AnchorsSound
<1>9. ASSUME ~Overtaken', epochs' # {}
      PROVE  /\ mut'.cmd \notin {"apply", "handshake"}
             /\ LatestState' \notin Open \/ intent'.payload = 2
  <2>1. /\ mut.cmd \notin {"apply", "handshake"}
        /\ LatestState \notin Open \/ intent.payload = 2
    BY <1>1, <1>3, <1>9 DEF AnchorsSound
  <2>2. {"deactivated", "restored"} \cap Open = {}
    BY DEF Open, None
  <2> QED
    BY <1>1, <1>2, <1>4, <2>1, <2>2, NoneIs DEF Scripts
<1>10. ~Overtaken' => OneAnchor'
  BY <1>1, <1>3 DEF AnchorsSound
<1> QED
  BY <1>5, <1>6, <1>7, <1>8, <1>9, <1>10 DEF AnchorsSound, Open
-----------------------------------------------------------------------------
\* A script begins: its intent, its predecessor and where it starts.
LEMMA Beginning ==
  ASSUME Sound, NEW cmd \in Scripts, MutateBegin(cmd)
  PROVE  /\ LatestState' = LatestState /\ Overtaken' = Overtaken /\ log' = log
         /\ epochs' = epochs /\ source' = source /\ github' = github
         /\ receipts' = receipts
         /\ intent.payload # 2 /\ intent'.payload = 1
         /\ mut'.cmd = cmd /\ mut'.pc \in {1, 3} /\ (cmd # "restore" => mut'.pc = 1)
         /\ cmd = "finalize" => \E e \in epochs : mut'.anchor = e.anchor
         /\ May(cmd)
<1>1. /\ log' = log /\ epochs' = epochs /\ source' = source /\ github' = github
      /\ receipts' = receipts /\ EnsureIntent /\ May(cmd)
  BY DEF MutateBegin
<1>2. PICK anchor \in Anchors(cmd), at \in Stamps("mutate", Len(log)) :
        mut' = [cmd |-> cmd, pc |-> FirstStep(cmd), anchor |-> anchor, at |-> at]
  BY DEF MutateBegin
<1>3. mut'.cmd = cmd /\ mut'.pc = FirstStep(cmd) /\ mut'.anchor = anchor
  BY <1>2
<1>4. FirstStep(cmd) \in {1, 3} /\ (cmd # "restore" => FirstStep(cmd) = 1)
  BY DEF FirstStep
<1>5. cmd = "finalize" => \E e \in epochs : anchor = e.anchor
  BY DEF Anchors
<1>6. intent.payload # 2 /\ intent'.payload = 1
  BY <1>1 DEF EnsureIntent, IntentMatches, Sound, ActType
<1> QED
  BY <1>1, <1>3, <1>4, <1>5, <1>6 DEF Latest, LatestState, Overtaken

\* The predecessor states a command accepts.
LEMMA AcceptedStates ==
  ASSUME NEW cmd \in Scripts, May(cmd)
  PROVE  /\ cmd \in {"apply", "handshake"} => LatestState \in Open
         /\ cmd \in Scripts \ {"restore"} => LatestState \notin Past
         /\ cmd = "restore" => LatestState \in Past
  BY DEF May, MayApply, MayHandshake, MayFinalize, MayRestore, Open, Past, Scripts, None

\* A mutation script that begins takes its stamp and nothing else (MutateBegin).
LEMMA BeginKeeps ==
  ASSUME Sound, Rotated, BindingSound, AnchorsSound, NEW cmd \in Scripts, MutateBegin(cmd)
  PROVE  Rotated' /\ BindingSound' /\ AnchorsSound'
<1>1. /\ LatestState' = LatestState /\ Overtaken' = Overtaken /\ log' = log
      /\ epochs' = epochs /\ source' = source /\ github' = github
      /\ receipts' = receipts
      /\ intent.payload # 2 /\ intent'.payload = 1
      /\ mut'.cmd = cmd /\ mut'.pc \in {1, 3} /\ (cmd # "restore" => mut'.pc = 1)
      /\ cmd = "finalize" => \E e \in epochs : mut'.anchor = e.anchor
      /\ May(cmd)
  BY Beginning
<1>2. /\ cmd \in {"apply", "handshake"} => LatestState \in Open
      /\ cmd \in Scripts \ {"restore"} => LatestState \notin Past
      /\ cmd = "restore" => LatestState \in Past
  BY <1>1, AcceptedStates
<1>3. Rotated'
  BY <1>1 DEF Rotated
<1>4. BindingSound'
  <2>1. Ordered' = Ordered /\ Held' = Held /\ Past' = Past
    BY <1>1 DEF Ordered, Held, Past
  <2>2. Over = (LatestState \in Past) /\ Over' = (LatestState \in Past)
    BY <1>1, <2>1 DEF Over
  <2>3. WrittenUpTo("old")' /\ (cmd = "apply" => WrittenUpTo("new")')
    BY <1>1 DEF WrittenUpTo
  <2>4. cmd \in Scripts \ {"restore"} => Ordered
    BY <1>2, <2>2 DEF BindingSound
  <2>5. "restore" \in receipts => Held = Prestate /\ Over
    BY DEF BindingSound
  <2>6. "restore" \in receipts => cmd = "restore"
    BY <1>2, <2>2, <2>5
  <2>7. CommittedIsLive'
    BY <1>1, <2>1 DEF BindingSound, CommittedIsLive
  <2>8. Over \/ Ordered
    BY DEF BindingSound
  <2>9. /\ intent'.payload = 2 => LatestState' \in Past \cup {"prepared"}
        /\ mut'.cmd = "restore" => LatestState' \in Past
    BY <1>1, <1>2
  <2> QED
    BY <1>1, <2>1, <2>2, <2>3, <2>4, <2>5, <2>6, <2>7, <2>8, <2>9 DEF BindingSound
<1>5. AnchorsSound'
  <2>1. ~Overtaken /\ epochs # {} => cmd \notin {"apply", "handshake"} /\ LatestState \notin Open
    BY <1>1, <1>2 DEF AnchorsSound
  <2>2. cmd = "finalize" => OfEpoch(mut.anchor)' /\ mut'.pc # 2
    BY <1>1 DEF OfEpoch, Scripts
  <2>3. /\ source'.on => OfEpoch(source.ptr.anchor)' /\ github'.anchor # 0
        /\ github'.anchor # 0 => OfEpoch(github.anchor)'
        /\ (\E i \in DOMAIN log' : log'[i].state = "github_finalized") => github'.anchor # 0
        /\ ~Overtaken' => OneAnchor'
    BY <1>1 DEF AnchorsSound, OfEpoch, OneAnchor
  <2> QED
    BY <1>1, <2>1, <2>2, <2>3 DEF AnchorsSound, Open
<1> QED
  BY <1>3, <1>4, <1>5

-----------------------------------------------------------------------------
\* What one step of the script does.
StepAt(step) ==
    /\ intent' = intent /\ epochs' = epochs /\ source' = source
    /\ intent.payload = 1 /\ intent.gen = 1 /\ mut.cmd \in Scripts
    /\ mut.pc \in 1..Len(Program(mut.cmd)) /\ step = Program(mut.cmd)[mut.pc]
    /\ github' = IF step \in {"secret", "ids", "scope", "anchor"}
                 THEN [github EXCEPT ![step] = Written(step)] ELSE github
    /\ LastStep => mut'.cmd = None
    /\ ~LastStep => /\ mut'.cmd = mut.cmd /\ mut'.anchor = mut.anchor
                    /\ mut'.pc = NextStep(step)
    /\ "restore" \in receipts' => "restore" \in receipts \/ (LastStep /\ mut.cmd = "restore")
    /\ step \notin States => log' = log
    /\ step \in States => \E r \in Rows : /\ RowGrows(r) /\ r.state = step /\ r.gen = 1
                                          /\ r.bound = TRUE

\* A step of the script under way is one of these; what it does to the log, to
\* the generations, to the binding and to the anchors.
LEMMA Stepping ==
  ASSUME Sound, Rotated, MutateStep
  PROVE  \E step : StepAt(step)
<1>1. /\ mut.cmd # None /\ intent' = intent /\ epochs' = epochs /\ source' = source
  BY DEF MutateStep, LockFree
<1>2. mut.cmd \in Scripts /\ mut.pc \in 1..Len(Program(mut.cmd))
  BY <1>1 DEF Sound, ActType
<1>3. PICK step : step = Program(mut.cmd)[mut.pc]
  OBVIOUS
<1>4. PICK at : at = IF mut.at = 0 THEN Now ELSE mut.at
  OBVIOUS
<1>5. /\ IF step \in States THEN AppendTransition(step, at) ELSE log' = log
      /\ github' = IF step \in {"secret", "ids", "scope", "anchor"}
                    THEN [github EXCEPT ![step] = Written(step)] ELSE github
      /\ mut' = IF LastStep THEN Idle
                 ELSE [mut EXCEPT !.pc = NextStep(step), !.at = StillOpen(step)]
      /\ receipts' \in IF LastStep THEN {receipts, receipts \cup {mut.cmd}}
                        ELSE {receipts}
  BY <1>3, <1>4 DEF MutateStep
<1>6. intent.payload = 1 /\ intent.gen = 1
  BY <1>1 DEF Rotated, Sound, ActType
<1>7. step \in States => \E r \in Rows : /\ RowGrows(r) /\ r.state = step /\ r.gen = 1
                                         /\ r.bound = TRUE
  <2> SUFFICES ASSUME step \in States
               PROVE  \E r \in Rows : /\ RowGrows(r) /\ r.state = step /\ r.gen = 1
                                      /\ r.bound = TRUE
    OBVIOUS
  <2>1. log' = Append(log, Row(step, 1, TRUE, Latest, at, Unlinked))
    BY <1>5, <1>6 DEF AppendTransition
  <2>2. at = Now \/ Fresh(at)
    BY <1>4 DEF Sound, HeldSound
  <2>3. Latest \in 0..Len(log)
    BY Reads DEF Sound
  <2>4. PICK b \in BOOLEAN : b = TRUE
    OBVIOUS
  <2>5. log' = Append(log, Row(step, 1, b, Latest, at, Unlinked))
    BY <2>1, <2>4
  <2>7. 1 \in 1..2
    OBVIOUS
  <2>6. \E r \in Rows : /\ RowGrows(r) /\ r.state = step /\ r.gen = 1
                        /\ r.bound = b /\ r.at = at
    BY <2>2, <2>3, <2>5, <2>7, UnlinkedIs, RowAppended
  <2> QED
    BY <2>4, <2>6
<1>8. LastStep => mut'.cmd = None
  BY <1>5 DEF Idle
<1>9. ~LastStep => /\ mut'.cmd = mut.cmd /\ mut'.anchor = mut.anchor
                   /\ mut'.pc = NextStep(step)
  <2>1. mut \in [cmd : Scripts \cup {None}, pc : 0..6, anchor : Nat, at : Nat]
    BY DEF Sound, ActType
  <2> QED
    BY <1>5, <2>1
<1>10. "restore" \in receipts' => "restore" \in receipts \/ (LastStep /\ mut.cmd = "restore")
  BY <1>5
<1>11. step \notin States => log' = log
  BY <1>5
<1>12. github' = IF step \in {"secret", "ids", "scope", "anchor"}
                 THEN [github EXCEPT ![step] = Written(step)] ELSE github
  BY <1>5
<1>13. StepAt(step)
  BY <1>1, <1>2, <1>3, <1>6, <1>7, <1>8, <1>9, <1>10, <1>11, <1>12 DEF StepAt
<1> QED
  BY <1>13

\* What a script's step appends to the log, and when the log has overtaken it.
LEMMA StepLog ==
  ASSUME Sound, NEW step, StepAt(step)
  PROVE  /\ LatestState' \in {LatestState, step}
         /\ step \notin States => LatestState' = LatestState /\ Overtaken' = Overtaken
         /\ Overtaken => Overtaken'
         /\ ~Overtaken' /\ step \in States => LatestState' = step
         /\ DOMAIN log \subseteq DOMAIN log' /\ \A i \in DOMAIN log : log'[i] = log[i]
         /\ \A i \in DOMAIN log' :
               \/ i \in DOMAIN log
               \/ log'[i].state = step /\ log'[i].gen = 1 /\ step \in States
<1>1. CASE step \notin States
  <2>1. log' = log
    BY <1>1 DEF StepAt
  <2>2. LatestState' = LatestState /\ Overtaken' = Overtaken
    BY <2>1 DEF Latest, LatestState, Overtaken
  <2> QED
    BY <1>1, <2>1, <2>2
<1>2. CASE step \in States
  <2>1. PICK r \in Rows : RowGrows(r) /\ r.state = step /\ r.gen = 1
    BY <1>2 DEF StepAt
  <2>2. /\ DOMAIN log' = DOMAIN log \cup {Len(log) + 1}
        /\ \A i \in DOMAIN log : log'[i] = log[i]
        /\ log'[Len(log) + 1] = r
        /\ LatestState' \in {LatestState, r.state}
        /\ Overtaken => Overtaken'
        /\ ~Overtaken' => LatestState' = r.state
    BY <2>1, Growth DEF Sound
  <2> QED
    BY <1>2, <2>1, <2>2
<1> QED
  BY <1>1, <1>2

\* A script's step keeps generation and intent in step.
LEMMA StepRotated ==
  ASSUME Sound, Rotated, NEW step, StepAt(step), step # "failed"
  PROVE  Rotated'
<1>1. /\ DOMAIN log \subseteq DOMAIN log' /\ \A i \in DOMAIN log : log'[i] = log[i]
      /\ \A i \in DOMAIN log' :
            \/ i \in DOMAIN log
            \/ log'[i].state = step /\ log'[i].gen = 1 /\ step \in States
  BY StepLog
<1>2. intent' = intent /\ intent.payload = 1
  BY DEF StepAt
<1>3. ASSUME NEW i \in DOMAIN log'
      PROVE  /\ log'[i].gen = 2 => intent'.payload = 2
             /\ log'[i].bound => intent'.payload # 0
  BY <1>1, <1>2 DEF Rotated
<1>4. ASSUME NEW i \in DOMAIN log', log'[i].state = "failed"
      PROVE  \E j \in DOMAIN log' : /\ log'[j].state = "github_finalized"
                                    /\ log'[j].gen = log'[i].gen
  <2>1. i \in DOMAIN log /\ log'[i] = log[i]
    BY <1>1, <1>4
  <2>2. PICK j \in DOMAIN log : /\ log[j].state = "github_finalized"
                                /\ log[j].gen = log[i].gen
    BY <2>1, <1>4 DEF Rotated
  <2> QED
    BY <1>1, <2>1, <2>2
<1> QED
  BY <1>2, <1>3, <1>4 DEF Rotated
\* GitHub holds the payload, or the prestate, when all three of its parts do.
LEMMA HeldIs ==
  /\ Held = Payload <=> github.secret = "new" /\ github.ids = "new" /\ github.scope = "new"
  /\ Held = Prestate <=> github.secret = "old" /\ github.ids = "old" /\ github.scope = "old"
  BY DEF Held, Payload, Prestate

\* A script's step writes one part of the binding and leaves the others.
LEMMA Writing ==
  ASSUME Sound, NEW step, StepAt(step)
  PROVE  /\ step = "secret" => /\ github'.secret = Written("secret")
                               /\ github'.ids = github.ids
                               /\ github'.scope = github.scope
                               /\ github'.anchor = github.anchor
         /\ step = "ids" => /\ github'.secret = github.secret
                            /\ github'.ids = Written("ids")
                            /\ github'.scope = github.scope
                            /\ github'.anchor = github.anchor
         /\ step = "scope" => /\ github'.secret = github.secret
                              /\ github'.ids = github.ids
                              /\ github'.scope = Written("scope")
                              /\ github'.anchor = github.anchor
         /\ step = "anchor" => /\ github'.secret = github.secret
                               /\ github'.ids = github.ids
                               /\ github'.scope = github.scope
                               /\ github'.anchor = Written("anchor")
         /\ step \notin {"secret", "ids", "scope", "anchor"} => github' = github
<1>1. github \in [anchor : Nat, secret : Sides, ids : Sides, scope : Sides]
  BY DEF Sound, ActType
<1>2. github' = IF step \in {"secret", "ids", "scope", "anchor"}
                THEN [github EXCEPT ![step] = Written(step)] ELSE github
  BY DEF StepAt
<1>3. PICK w : w = Written(step)
  OBVIOUS
<1>4. step \in {"secret", "ids", "scope", "anchor"} => github' = [github EXCEPT ![step] = w]
  BY <1>2, <1>3
<1>5. CASE step = "secret"
  <2>1. w = Written("secret")
    BY <1>3, <1>5
  <2> QED
    BY <1>1, <1>4, <1>5, <2>1
<1>6. CASE step = "ids"
  <2>1. w = Written("ids")
    BY <1>3, <1>6
  <2> QED
    BY <1>1, <1>4, <1>6, <2>1
<1>7. CASE step = "scope"
  <2>1. w = Written("scope")
    BY <1>3, <1>7
  <2> QED
    BY <1>1, <1>4, <1>7, <2>1
<1>8. CASE step = "anchor"
  <2>1. w = Written("anchor")
    BY <1>3, <1>8
  <2> QED
    BY <1>1, <1>4, <1>8, <2>1
<1> QED
  BY <1>2, <1>5, <1>6, <1>7, <1>8

\* The steps of apply: what GitHub holds after each, and how far it is.
LEMMA ApplyStep ==
  ASSUME Sound, NEW step, StepAt(step), mut.cmd = "apply", Ordered, WrittenUpTo("new")
  PROVE  /\ Ordered' /\ (mut'.cmd # None => WrittenUpTo("new")')
         /\ Held = Payload => Held' = Payload
         /\ step = "binding_committed" => Held' = Payload
         /\ step \in {"binding_writing", "binding_committed"} \/ step \notin States
         /\ github'.anchor = github.anchor
<1>1. github \in [anchor : Nat, secret : Sides, ids : Sides, scope : Sides]
  BY DEF Sound, ActType
<1>2. /\ mut.pc \in 1..6 /\ step = Program("apply")[mut.pc]
      /\ ~LastStep => mut'.pc = NextStep(step)
      /\ LastStep => mut'.cmd = None
      /\ LastStep <=> mut.pc = 6
  BY Programs DEF StepAt, LastStep
<1>3. /\ Written("secret") = "new" /\ Written("ids") = "new" /\ Written("scope") = "new"
  BY DEF Written, Payload
<1>4. /\ NextStep(step) = IF step = "check" /\ github.scope = "new" /\ github.ids = "new"
                          THEN 6 ELSE mut.pc + 1
  BY Programs DEF NextStep, AlreadyWritten, Payload
<1>5. CASE mut.pc = 1
  <2>1. step = "binding_writing" /\ mut'.pc = 2
    BY <1>2, <1>4, <1>5, Programs
  <2>2. github' = github
    BY <2>1, Writing
  <2> QED
    BY <2>1, <2>2 DEF Ordered, WrittenUpTo, Held
<1>6. CASE mut.pc = 2
  <2>1. /\ step = "check"
        /\ mut'.pc = IF github.scope = "new" /\ github.ids = "new" THEN 6 ELSE 3
    BY <1>2, <1>4, <1>6, Programs
  <2>2. github' = github
    BY <2>1, Writing
  <2> QED
    BY <2>1, <2>2 DEF Ordered, WrittenUpTo, Held, States
<1>7. CASE mut.pc = 3
  <2>1. step = "secret" /\ mut'.pc = 4
    BY <1>2, <1>4, <1>7, Programs
  <2>2. /\ github'.secret = "new" /\ github'.ids = github.ids
        /\ github'.scope = github.scope /\ github'.anchor = github.anchor
    BY <1>3, <2>1, Writing
  <2> QED
    BY <2>1, <2>2, HeldIs DEF Ordered, WrittenUpTo, Held, Payload, States
<1>8. CASE mut.pc = 4
  <2>1. step = "ids" /\ mut'.pc = 5
    BY <1>2, <1>4, <1>8, Programs
  <2>2. /\ github'.secret = github.secret /\ github'.ids = "new"
        /\ github'.scope = github.scope /\ github'.anchor = github.anchor
    BY <1>3, <2>1, Writing
  <2> QED
    BY <1>8, <2>1, <2>2, HeldIs DEF Ordered, WrittenUpTo, Held, Payload, States
<1>9. CASE mut.pc = 5
  <2>1. step = "scope" /\ mut'.pc = 6
    BY <1>2, <1>4, <1>9, Programs
  <2>2. /\ github'.secret = github.secret /\ github'.ids = github.ids
        /\ github'.scope = "new" /\ github'.anchor = github.anchor
    BY <1>3, <2>1, Writing
  <2> QED
    BY <1>9, <2>1, <2>2, HeldIs DEF Ordered, WrittenUpTo, Held, Payload, States
<1>10. CASE mut.pc = 6
  <2>1. step = "binding_committed" /\ mut'.cmd = None
    BY <1>2, <1>10, Programs
  <2>2. github' = github
    BY <2>1, Writing
  <2> QED
    BY <1>10, <2>1, <2>2, HeldIs DEF Ordered, WrittenUpTo, Held
<1> QED
  BY <1>2, <1>5, <1>6, <1>7, <1>8, <1>9, <1>10

\* The steps of restore: the same for the side captured before the activation.
LEMMA RestoreStep ==
  ASSUME Sound, NEW step, StepAt(step), mut.cmd = "restore", WrittenUpTo("old")
  PROVE  /\ mut'.cmd # None => WrittenUpTo("old")'
         /\ Held = Prestate \/ LastStep => Held' = Prestate
         /\ step \in {"deactivated", "restore_writing"} \/ step \notin States
         /\ github'.anchor = github.anchor
<1>1. github \in [anchor : Nat, secret : Sides, ids : Sides, scope : Sides]
  BY DEF Sound, ActType
<1>2. /\ mut.pc \in 1..5 /\ step = Program("restore")[mut.pc]
      /\ ~LastStep => mut'.pc = NextStep(step)
      /\ LastStep => mut'.cmd = None
      /\ LastStep <=> mut.pc = 5
  BY Programs DEF StepAt, LastStep
<1>3. /\ Written("secret") = "old" /\ Written("ids") = "old" /\ Written("scope") = "old"
  BY DEF Written, Prestate
<1>4. step # "check" => NextStep(step) = mut.pc + 1
  BY DEF NextStep
<1>5. CASE mut.pc = 1
  <2>1. step = "deactivated" /\ mut'.pc = 2
    BY <1>2, <1>4, <1>5, Programs
  <2>2. github' = github
    BY <2>1, Writing
  <2> QED
    BY <1>2, <1>5, <2>1, <2>2 DEF WrittenUpTo, Held
<1>6. CASE mut.pc = 2
  <2>1. step = "restore_writing" /\ mut'.pc = 3
    BY <1>2, <1>4, <1>6, Programs
  <2>2. github' = github
    BY <2>1, Writing
  <2> QED
    BY <1>2, <1>6, <2>1, <2>2 DEF WrittenUpTo, Held
<1>7. CASE mut.pc = 3
  <2>1. step = "secret" /\ mut'.pc = 4
    BY <1>2, <1>4, <1>7, Programs
  <2>2. /\ github'.secret = "old" /\ github'.ids = github.ids
        /\ github'.scope = github.scope /\ github'.anchor = github.anchor
    BY <1>3, <2>1, Writing
  <2> QED
    BY <1>2, <1>7, <2>1, <2>2, HeldIs DEF WrittenUpTo, Held, Prestate, States
<1>8. CASE mut.pc = 4
  <2>1. step = "ids" /\ mut'.pc = 5
    BY <1>2, <1>4, <1>8, Programs
  <2>2. /\ github'.secret = github.secret /\ github'.ids = "old"
        /\ github'.scope = github.scope /\ github'.anchor = github.anchor
    BY <1>3, <2>1, Writing
  <2> QED
    BY <1>2, <1>8, <2>1, <2>2, HeldIs DEF WrittenUpTo, Held, Prestate, States
<1>9. CASE mut.pc = 5
  <2>1. step = "scope" /\ mut'.cmd = None
    BY <1>2, <1>9, Programs
  <2>2. /\ github'.secret = github.secret /\ github'.ids = github.ids
        /\ github'.scope = "old" /\ github'.anchor = github.anchor
    BY <1>3, <2>1, Writing
  <2> QED
    BY <1>9, <2>1, <2>2, HeldIs DEF WrittenUpTo, Held, Prestate, States
<1> QED
  BY <1>2, <1>5, <1>6, <1>7, <1>8, <1>9

\* The steps of handshake and finalize leave the binding alone.
LEMMA OtherStep ==
  ASSUME Sound, NEW step, StepAt(step), mut.cmd \in {"handshake", "finalize"}
  PROVE  /\ Held' = Held /\ Ordered' = Ordered
         /\ mut.cmd = "handshake" => /\ step = "handshake_passed" /\ mut'.cmd = None
                                     /\ github'.anchor = github.anchor
         /\ mut.cmd = "finalize" =>
               \/ /\ step = "anchor" /\ mut'.cmd = "finalize" /\ mut'.pc = 2
                  /\ mut'.anchor = mut.anchor /\ github'.anchor = mut.anchor
               \/ /\ step = "github_finalized" /\ mut'.cmd = None /\ mut.pc = 2
                  /\ github'.anchor = github.anchor
<1>3. Written("anchor") = mut.anchor
  BY DEF Written
<1>4. step # "check" => NextStep(step) = mut.pc + 1
  BY DEF NextStep
<1>5. CASE mut.cmd = "handshake"
  <2>0. mut.pc = 1
    <3>1. mut.pc \in 1..1
      BY <1>5, Programs DEF StepAt
    <3> QED
      BY <3>1
  <2>1. /\ step = "handshake_passed" /\ mut'.cmd = None
    BY <1>5, <2>0, Programs DEF StepAt, LastStep
  <2>2. github' = github
    BY <2>1, Writing
  <2> QED
    BY <1>5, <2>1, <2>2 DEF Held, Ordered
<1>6. CASE mut.cmd = "finalize"
  <2>1. mut.pc \in 1..2
    BY <1>6, Programs DEF StepAt
  <2>2. CASE mut.pc = 1
    <3>1. step = "anchor" /\ mut'.cmd = "finalize" /\ mut'.anchor = mut.anchor
      BY <1>6, <2>2, Programs DEF StepAt, LastStep
    <3>2. mut'.pc = 2
      BY <1>4, <1>6, <2>2, <3>1, Programs DEF StepAt, LastStep
    <3>4. /\ github'.secret = github.secret /\ github'.ids = github.ids
          /\ github'.scope = github.scope /\ github'.anchor = mut.anchor
      BY <1>3, <3>1, Writing
    <3> QED
      BY <1>6, <3>1, <3>2, <3>4 DEF Held, Ordered
  <2>3. CASE mut.pc = 2
    <3>1. step = "github_finalized" /\ mut'.cmd = None
      BY <1>6, <2>3, Programs DEF StepAt, LastStep
    <3>2. github' = github
      BY <3>1, Writing
    <3> QED
      BY <1>6, <2>3, <3>1, <3>2 DEF Held, Ordered
  <2> QED
    BY <2>1, <2>2, <2>3
<1> QED
  BY <1>5, <1>6
\* A script's step keeps the binding sound, and none of them fails by itself.
LEMMA StepBinding ==
  ASSUME Sound, Rotated, BindingSound, NEW step, StepAt(step)
  PROVE  BindingSound' /\ step # "failed"
<1>1. /\ intent' = intent /\ intent.payload = 1 /\ mut.cmd \in Scripts
      /\ mut'.cmd \in {None, mut.cmd}
      /\ "restore" \in receipts' => "restore" \in receipts \/ (LastStep /\ mut.cmd = "restore")
  BY DEF StepAt
<1>2. LatestState' \in {LatestState, step} /\ (step \notin States => LatestState' = LatestState)
  BY StepLog
<1>3. Over = (LatestState \in Past) /\ Over' = (LatestState' \in Past)
  BY <1>1 DEF Over, Past
<1>4. CASE mut.cmd = "restore"
  <2>1. LatestState \in Past /\ WrittenUpTo("old")
    BY <1>4 DEF BindingSound
  <2>2. /\ mut'.cmd # None => WrittenUpTo("old")'
        /\ Held = Prestate \/ LastStep => Held' = Prestate
        /\ step \in {"deactivated", "restore_writing"} \/ step \notin States
    BY <1>4, <2>1, RestoreStep
  <2>3. LatestState' \in Past
    BY <1>2, <2>1, <2>2 DEF Past
  <2>4. CommittedIsLive'
    BY <2>3 DEF CommittedIsLive, Past
  <2>5. "restore" \in receipts' => Held' = Prestate
    BY <1>1, <2>2 DEF BindingSound
  <2>6. /\ mut'.cmd = "restore" => LatestState' \in Past /\ WrittenUpTo("old")'
        /\ mut'.cmd = "apply" => WrittenUpTo("new")'
        /\ mut'.cmd \notin Scripts \ {"restore"}
        /\ mut'.cmd \in {None, "restore"}
    BY <1>1, <1>4, <2>2, <2>3, NoneIs DEF Scripts
  <2>7. step # "failed"
    BY <2>2 DEF States
  <2> QED
    BY <1>1, <1>3, <2>3, <2>4, <2>5, <2>6, <2>7 DEF BindingSound, Past
<1>5. CASE mut.cmd # "restore"
  <2>1. Ordered /\ "restore" \notin receipts
    BY <1>1, <1>5, NoneIs DEF BindingSound
  <2>2. "restore" \notin receipts'
    BY <1>1, <1>5, <2>1
  <2>3. CASE mut.cmd = "apply"
    <3>1. WrittenUpTo("new")
      BY <2>3 DEF BindingSound
    <3>2. /\ Ordered' /\ (mut'.cmd # None => WrittenUpTo("new")')
          /\ Held = Payload => Held' = Payload
          /\ step = "binding_committed" => Held' = Payload
          /\ step \in {"binding_writing", "binding_committed"} \/ step \notin States
      BY <2>1, <2>3, <3>1, ApplyStep
    <3>3. CommittedIsLive'
      BY <1>2, <3>2 DEF BindingSound, CommittedIsLive
    <3>4. /\ mut'.cmd # "restore"
          /\ mut'.cmd = "apply" => WrittenUpTo("new")'
      BY <1>1, <1>5, <3>2, NoneIs DEF Scripts
    <3>5. step # "failed"
      BY <3>2 DEF States
    <3> QED
      BY <1>1, <2>2, <3>2, <3>3, <3>4, <3>5 DEF BindingSound
  <2>4. CASE mut.cmd \in {"handshake", "finalize"}
    <3>1. /\ Held' = Held /\ Ordered' = Ordered
          /\ step \in {"handshake_passed", "anchor", "github_finalized"}
      BY <2>4, OtherStep
    <3>2. CommittedIsLive'
      BY <1>2, <3>1 DEF BindingSound, CommittedIsLive
    <3>3. mut'.cmd # "restore" /\ mut'.cmd # "apply"
      BY <1>1, <2>4, NoneIs DEF Scripts
    <3>4. step # "failed"
      BY <3>1
    <3> QED
      BY <1>1, <2>1, <2>2, <3>1, <3>2, <3>3, <3>4 DEF BindingSound
  <2> QED
    BY <1>1, <1>5, <2>3, <2>4 DEF Scripts
<1> QED
  BY <1>4, <1>5

\* A script's step keeps the anchors sound.
LEMMA StepAnchors ==
  ASSUME Sound, Rotated, BindingSound, AnchorsSound, NEW step, StepAt(step)
  PROVE  AnchorsSound'
<1>1. /\ intent' = intent /\ epochs' = epochs /\ source' = source
      /\ intent.payload = 1 /\ mut.cmd \in Scripts
      /\ mut'.cmd \in {None, mut.cmd}
  BY DEF StepAt
<1>2. /\ step \notin States => LatestState' = LatestState /\ Overtaken' = Overtaken
      /\ Overtaken => Overtaken'
      /\ ~Overtaken' /\ step \in States => LatestState' = step
      /\ \A i \in DOMAIN log : log'[i] = log[i]
      /\ \A i \in DOMAIN log' : \/ i \in DOMAIN log
                                \/ log'[i].state = step
  BY StepLog
<1>3. /\ mut.cmd # "finalize" => /\ github'.anchor = github.anchor
                                 /\ step # "github_finalized"
      /\ mut.cmd = "finalize" =>
            \/ /\ step = "anchor" /\ mut'.cmd = "finalize"
               /\ mut'.anchor = mut.anchor /\ github'.anchor = mut.anchor
            \/ /\ step = "github_finalized" /\ mut'.cmd = None /\ mut.pc = 2
               /\ github'.anchor = github.anchor
      /\ mut.cmd = "restore" => step \in {"deactivated", "restore_writing"} \/ step \notin States
  <2>1. CASE mut.cmd = "apply"
    <3>1. Ordered /\ WrittenUpTo("new")
      BY <2>1, NoneIs DEF BindingSound, Scripts
    <3> QED
      BY <2>1, <3>1, ApplyStep DEF States
  <2>2. CASE mut.cmd = "restore"
    <3>1. WrittenUpTo("old")
      BY <2>2 DEF BindingSound
    <3> QED
      BY <2>2, <3>1, RestoreStep DEF States
  <2>3. CASE mut.cmd \in {"handshake", "finalize"}
    BY <2>3, OtherStep
  <2> QED
    BY <1>1, <2>1, <2>2, <2>3 DEF Scripts
<1>4. \A a : OfEpoch(a)' <=> OfEpoch(a)
  BY <1>1 DEF OfEpoch
<1>5. \A e \in epochs : e.anchor # 0
  BY DEF Sound, ActType
<1>6. github'.anchor # 0 => OfEpoch(github.anchor)'
  <2> SUFFICES ASSUME github'.anchor # 0 PROVE OfEpoch(github.anchor)'
    OBVIOUS
  <2>1. PICK a : a = github'.anchor
    OBVIOUS
  <2>2. OfEpoch(a)
    BY <1>3, <2>1 DEF AnchorsSound
  <2>3. OfEpoch(a)'
    BY <1>4, <2>2
  <2> QED
    BY <2>1, <2>3 DEF OfEpoch
<1>7. github.anchor # 0 => github'.anchor # 0
  BY <1>3, <1>5 DEF AnchorsSound, OfEpoch
<1>8. source'.on => OfEpoch(source.ptr.anchor)' /\ github'.anchor # 0
  BY <1>1, <1>7 DEF AnchorsSound, OfEpoch
<1>9. mut'.cmd = "finalize" => /\ OfEpoch(mut.anchor)'
                               /\ mut'.pc = 2 => github'.anchor # 0
  <2> SUFFICES ASSUME mut'.cmd = "finalize"
               PROVE  OfEpoch(mut.anchor)' /\ github'.anchor # 0
    OBVIOUS
  <2>1. mut.cmd = "finalize" /\ mut'.anchor = mut.anchor /\ github'.anchor = mut.anchor
    BY <1>1, <1>3, NoneIs DEF Scripts
  <2>2. OfEpoch(mut.anchor)
    BY <2>1 DEF AnchorsSound
  <2> QED
    BY <1>1, <1>5, <2>1, <2>2 DEF OfEpoch
<1>10. (\E i \in DOMAIN log' : log'[i].state = "github_finalized") => github'.anchor # 0
  <2> SUFFICES ASSUME NEW i \in DOMAIN log', log'[i].state = "github_finalized"
               PROVE  github'.anchor # 0
    OBVIOUS
  <2>1. CASE i \in DOMAIN log
    BY <1>2, <1>7, <2>1 DEF AnchorsSound
  <2>2. CASE i \notin DOMAIN log
    <3>1. step = "github_finalized"
      BY <1>2, <2>2
    <3>2. mut.cmd = "finalize" /\ mut.pc = 2 /\ github'.anchor = github.anchor
      BY <1>3, <3>1
    <3> QED
      BY <3>2 DEF AnchorsSound
  <2> QED
    BY <2>1, <2>2
<1>11. ~Overtaken' => OneAnchor'
  BY <1>1, <1>2 DEF AnchorsSound, OneAnchor
<1>12. ASSUME ~Overtaken', epochs' # {}
       PROVE  /\ mut'.cmd \notin {"apply", "handshake"}
              /\ LatestState' \notin Open \/ intent'.payload = 2
  <2>1. mut.cmd \notin {"apply", "handshake"} /\ LatestState \notin Open
    BY <1>1, <1>2, <1>12 DEF AnchorsSound
  <2>2. LatestState' \notin Open
    <3>1. step \in States => step \in {"deactivated", "restore_writing", "github_finalized"}
      BY <1>1, <1>3, <2>1 DEF Scripts, States
    <3> QED
      BY <1>2, <1>12, <2>1, <3>1 DEF Open, None
  <2> QED
    BY <1>1, <2>1, <2>2, NoneIs DEF Scripts
<1> QED
  BY <1>6, <1>8, <1>9, <1>10, <1>11, <1>12 DEF AnchorsSound, Open

\* A script's step keeps the invariant and takes back no restore (MutateStep).
LEMMA StepKeeps ==
  ASSUME Sound, Rotated, BindingSound, AnchorsSound, MutateStep
  PROVE  Sound' /\ Rotated' /\ BindingSound' /\ AnchorsSound'
         /\ ("restore" \in receipts => "restore" \in receipts')
<1>1. PICK step : StepAt(step)
  BY Stepping
<1>2. mut.cmd # None => intent.gen \in 1..2
  BY DEF Rotated, Sound, ActType
<1>3. receipts \subseteq receipts'
  BY DEF MutateStep
<1> QED
  BY <1>1, <1>2, <1>3, SoundStep, StepRotated, StepBinding, StepAnchors
-----------------------------------------------------------------------------
\* A row inserted in a log that stays in order is the latest: the row before it
\* then has no successor yet.
LEMMA InOrder ==
  ASSUME Sound, ~Overtaken, HasSuccessor(Latest), log # <<>>
  PROVE  FALSE
<1>1. /\ log \in Seq(Rows) /\ DOMAIN log = 1..Len(log) /\ Len(log) \in Nat
      /\ Latest \in DOMAIN log
  BY Reads DEF Sound, ActType
<1>2. Latest = Last(log)
  BY DEF Latest, Last
<1>3. \A j \in DOMAIN log : log[j].at <= log[Latest].at
  BY <1>1, <1>2, LastIs DEF NewestIn, Sound
<1>4. PICK j \in DOMAIN log : log[j].pred = Latest
  BY DEF HasSuccessor
<1>5. log[j].pred \in 0..(j - 1)
  BY DEF Sound, RowsSound
<1>6. Latest < j
  BY <1>1, <1>4, <1>5
<1>7. log[j].at <= log[Latest].at
  BY <1>3
<1> QED
  BY <1>1, <1>6, <1>7 DEF Overtaken

\* What INSERT_TRANSITION leaves, whether it writes its row or not.
LEMMA InsertFacts ==
  ASSUME Sound, NEW act \in Here, Loaded(act),
         NEW state \in States, NEW gen \in 1..2, NEW ptr \in Links,
         InsertTransition(state, gen, act.at, ptr)
  PROVE  /\ LatestState' \in {LatestState, state}
         /\ Overtaken => Overtaken'
         /\ ~Overtaken' => LatestState' = state
         /\ DOMAIN log \subseteq DOMAIN log' /\ \A i \in DOMAIN log : log'[i] = log[i]
         /\ \A i \in DOMAIN log' :
               i \in DOMAIN log \/ (log'[i].state = state /\ log'[i].gen = gen)
<1>1. log # <<>>
  BY LoadedIs
<1>2. CASE log' = log /\ HasSuccessor(Latest)
  <2>1. Overtaken
    BY <1>1, <1>2, InOrder
  <2>2. LatestState' = LatestState /\ Overtaken' = Overtaken
    BY <1>2 DEF Latest, LatestState, Overtaken
  <2> QED
    BY <1>2, <2>1, <2>2
<1>3. CASE ~(log' = log /\ HasSuccessor(Latest))
  <2>1. PICK r \in Rows : RowGrows(r) /\ r.state = state /\ r.gen = gen
    <3>1. \/ log' = log /\ HasSuccessor(Latest)
          \/ \E r \in Rows : /\ RowGrows(r) /\ r.state = state /\ r.gen = gen
                             /\ r.bound = TRUE /\ r.at = act.at
      BY Inserts
    <3> QED
      BY <1>3, <3>1
  <2>2. /\ DOMAIN log' = DOMAIN log \cup {Len(log) + 1}
        /\ \A i \in DOMAIN log : log'[i] = log[i]
        /\ log'[Len(log) + 1] = r
        /\ LatestState' \in {LatestState, r.state}
        /\ Overtaken => Overtaken'
        /\ ~Overtaken' => LatestState' = r.state
    BY <2>1, Growth DEF Sound
  <2> QED
    BY <2>1, <2>2
<1> QED
  BY <1>2, <1>3

\* A row of the current generation keeps generation and intent in step.
LEMMA InsertRotated ==
  ASSUME Rotated, mut' = mut, mut.cmd = None, NEW state \in States, NEW gen \in 1..2,
         DOMAIN log \subseteq DOMAIN log', \A i \in DOMAIN log : log'[i] = log[i],
         \A i \in DOMAIN log' :
            i \in DOMAIN log \/ (log'[i].state = state /\ log'[i].gen = gen),
         intent.payload # 0, intent'.payload # 0,
         intent.payload = 2 => intent'.payload = 2, gen = 2 => intent'.payload = 2,
         state = "failed" =>
            \E j \in DOMAIN log : log[j].state = "github_finalized" /\ log[j].gen = gen
  PROVE  Rotated'
<1>1. ASSUME NEW i \in DOMAIN log'
      PROVE  /\ log'[i].gen = 2 => intent'.payload = 2
             /\ log'[i].bound => intent'.payload # 0
  BY DEF Rotated
<1>2. ASSUME NEW i \in DOMAIN log', log'[i].state = "failed"
      PROVE  \E j \in DOMAIN log' : /\ log'[j].state = "github_finalized"
                                    /\ log'[j].gen = log'[i].gen
  <2>1. \E j \in DOMAIN log : /\ log[j].state = "github_finalized"
                              /\ log[j].gen = log'[i].gen
    BY <1>2 DEF Rotated
  <2> QED
    BY <2>1
<1> QED
  BY <1>1, <1>2 DEF Rotated

\* A failed row has a finalized one of its generation before it, so that a failed
\* generation is never reserved again.
LEMMA ReserveFrom ==
  ASSUME Sound, Rotated, NEW act, Reserve(act)
  PROVE  LatestState = "handshake_passed"
<1>1. /\ Loaded(act) /\ LatestState \in {"handshake_passed", "failed"}
      /\ LatestState = "failed" => ~BindingWritten
  BY DEF Reserve, MayReserve
<1>2. Latest \in DOMAIN log /\ Generation = log[Latest].gen
  BY <1>1, LoadedIs
<1>3. LatestState = log[Latest].state
  BY <1>1, LoadedIs, Reads DEF Sound
<1>4. ASSUME LatestState = "failed" PROVE FALSE
  <2>1. PICK j \in DOMAIN log : /\ log[j].state = "github_finalized"
                                /\ log[j].gen = log[Latest].gen
    BY <1>2, <1>3, <1>4 DEF Rotated
  <2>2. BindingWritten
    BY <1>2, <2>1 DEF BindingWritten
  <2> QED
    BY <1>1, <1>4, <2>2
<1> QED
  BY <1>1, <1>4

\* A loaded activation has an intent, of the log's generation.
LEMMA BoundIntent ==
  ASSUME Sound, Rotated, NEW act, Loaded(act)
  PROVE  intent.payload # 0 /\ (Generation = 2 => intent.payload = 2)
  BY LoadedIs DEF Rotated

\* The phases that write keep the invariant.
LEMMA ReserveKeeps ==
  ASSUME Sound, Rotated, BindingSound, AnchorsSound, NEW act \in Here, Reserve(act)
  PROVE  Rotated' /\ BindingSound' /\ AnchorsSound'
<1>1. /\ Loaded(act) /\ intent' = intent /\ source' = source
      /\ epochs' = Epoch(Anchor(act.now))
      /\ InsertTransition("anchor_reserved", Generation, act.at,
                          [Unlinked EXCEPT !.anchor = Anchor(act.now)])
  BY DEF Reserve
<1>2. /\ mut.cmd = None /\ mut' = mut /\ github' = github /\ receipts' = receipts
      /\ Generation \in 1..2
  BY <1>1, LoadedIs
<1>3. LatestState = "handshake_passed"
  BY ReserveFrom
<1>4. /\ LatestState' \in {LatestState, "anchor_reserved"}
      /\ Overtaken => Overtaken'
      /\ ~Overtaken' => LatestState' = "anchor_reserved"
      /\ DOMAIN log \subseteq DOMAIN log' /\ \A i \in DOMAIN log : log'[i] = log[i]
      /\ \A i \in DOMAIN log' :
            \/ i \in DOMAIN log
            \/ log'[i].state = "anchor_reserved" /\ log'[i].gen = Generation
  <2>1. PICK ptr \in Links : ptr = [Unlinked EXCEPT !.anchor = Anchor(act.now)]
    BY PhaseIs, AnchorIs, UnlinkedIs
  <2>2. PICK state \in States : state = "anchor_reserved"
    BY DEF States
  <2>3. InsertTransition(state, Generation, act.at, ptr)
    BY <1>1, <2>1, <2>2
  <2>4. Loaded(act)
    BY <1>1
  <2>5. /\ LatestState' \in {LatestState, state}
        /\ Overtaken => Overtaken'
        /\ ~Overtaken' => LatestState' = state
        /\ DOMAIN log \subseteq DOMAIN log' /\ \A i \in DOMAIN log : log'[i] = log[i]
        /\ \A i \in DOMAIN log' :
              i \in DOMAIN log \/ (log'[i].state = state /\ log'[i].gen = Generation)
    BY <1>2, <2>3, <2>4, InsertFacts
  <2> QED
    BY <2>2, <2>5
<1>5. intent.payload # 0 /\ (Generation = 2 => intent.payload = 2)
  BY <1>1, BoundIntent
<1>6. intent.payload # 2 /\ ~Over /\ Ordered /\ "restore" \notin receipts
  BY <1>3 DEF BindingSound, Over, Past
<1>7. Rotated'
  <2>1. "anchor_reserved" \in States /\ "anchor_reserved" # "failed"
    BY DEF States
  <2> QED
    BY <1>1, <1>2, <1>4, <1>5, <2>1, InsertRotated
<1>8. BindingSound'
  <2>1. Ordered' /\ Held' = Held
    BY <1>2, <1>6 DEF Ordered, Held
  <2>2. CommittedIsLive'
    BY <1>3, <1>4 DEF CommittedIsLive
  <2> QED
    BY <1>1, <1>2, <1>6, <2>1, <2>2, NoneIs DEF BindingSound, Scripts
<1>9. AnchorsSound'
  <2>1. PICK anchor : anchor = Anchor(act.now)
    OBVIOUS
  <2>2. epochs' \in {epochs, epochs \cup {[anchor |-> anchor, closed |-> FALSE]}}
    BY <1>1, <2>1 DEF Epoch
  <2>3. \A a : OfEpoch(a) => OfEpoch(a)'
    BY <2>2 DEF OfEpoch
  <2>4. source'.on => OfEpoch(source.ptr.anchor)' /\ github'.anchor # 0
    <3>1. PICK a : a = source.ptr.anchor
      OBVIOUS
    <3>2. source.on => OfEpoch(a)'
      BY <2>3, <3>1 DEF AnchorsSound
    <3> QED
      BY <1>1, <1>2, <3>1, <3>2 DEF AnchorsSound, OfEpoch
  <2>5. github'.anchor # 0 => OfEpoch(github.anchor)'
    <3>1. PICK a : a = github.anchor
      OBVIOUS
    <3>2. github.anchor # 0 => OfEpoch(a)'
      BY <2>3, <3>1 DEF AnchorsSound
    <3> QED
      BY <1>2, <3>1, <3>2 DEF OfEpoch
  <2>6. (\E i \in DOMAIN log' : log'[i].state = "github_finalized") => github'.anchor # 0
    BY <1>2, <1>4 DEF AnchorsSound
  <2>7. ~Overtaken' => epochs = {}
    BY <1>3, <1>4, <1>6 DEF AnchorsSound, Open
  <2>8. ~Overtaken' => OneAnchor'
    BY <2>2, <2>7 DEF OneAnchor
  <2>9. ~Overtaken' => LatestState' \notin Open
    BY <1>4 DEF Open, None
  <2> QED
    BY <1>2, <2>4, <2>5, <2>6, <2>8, <2>9, NoneIs DEF AnchorsSound, Open, Scripts
<1> QED
  BY <1>7, <1>8, <1>9
\* An activation's commit keeps binding and anchors sound (Commit).
LEMMA CommitKeeps ==
  ASSUME Sound, Rotated, BindingSound, AnchorsSound, NEW act \in Here, Commit(act)
  PROVE  Rotated' /\ BindingSound' /\ AnchorsSound'
<1>1. /\ Loaded(act) /\ intent' = intent /\ epochs' = epochs
      /\ LatestState = "github_finalized"
  BY DEF Commit
<1>2. PICK e \in epochs : PersistCommit(Accepted(act.now, e.anchor), e.anchor, act.at)
  BY DEF Commit
<1>3. /\ mut.cmd = None /\ mut' = mut /\ github' = github /\ receipts' = receipts
      /\ Generation \in 1..2 /\ Latest \in DOMAIN log /\ Generation = log[Latest].gen
      /\ log[Latest].state = "github_finalized"
  BY <1>1, LoadedIs, Reads DEF Sound
<1>4. e.anchor \in Nat /\ Link(e.anchor) \in Links /\ Link(e.anchor).anchor = e.anchor
      /\ source \in Sources
  BY <1>3, LinkIs DEF Sound, ActType
<1>5. PICK state \in {"active", "failed"}, ptr \in Links :
        /\ InsertTransition(state, Generation, act.at, ptr)
        /\ source'.on => source'.ptr.anchor = e.anchor \/ source' = source
  <2>1. CASE Accepted(act.now, e.anchor)
    <3>1. /\ source' = [source EXCEPT !.on = TRUE, !.ptr = Link(e.anchor)]
          /\ InsertTransition("active", Generation, act.at, Link(e.anchor))
      BY <1>2, <2>1 DEF PersistCommit
    <3>2. PICK ptr \in Links : ptr = Link(e.anchor)
      BY <1>4
    <3>3. source' = [source EXCEPT !.on = TRUE, !.ptr = ptr]
      BY <3>1, <3>2
    <3>4. source'.ptr.anchor = e.anchor
      BY <1>4, <3>2, <3>3 DEF Sources
    <3>5. InsertTransition("active", Generation, act.at, ptr)
      BY <3>1, <3>2
    <3> QED
      BY <3>4, <3>5
  <2>2. CASE ~Accepted(act.now, e.anchor)
    <3>1. /\ source' = source
          /\ InsertTransition("failed", Generation, act.at, Unlinked)
      BY <1>2, <2>2 DEF PersistCommit
    <3> QED
      BY <3>1, UnlinkedIs
  <2> QED
    BY <2>1, <2>2
<1>6. state \in States
  BY DEF States
<1>7. /\ LatestState' \in {LatestState, state}
      /\ Overtaken => Overtaken'
      /\ ~Overtaken' => LatestState' = state
      /\ DOMAIN log \subseteq DOMAIN log' /\ \A i \in DOMAIN log : log'[i] = log[i]
      /\ \A i \in DOMAIN log' :
            i \in DOMAIN log \/ (log'[i].state = state /\ log'[i].gen = Generation)
  BY <1>1, <1>3, <1>5, <1>6, InsertFacts
<1>8. intent.payload # 0 /\ (Generation = 2 => intent.payload = 2)
  BY <1>1, BoundIntent
<1>9. intent.payload # 2 /\ ~Over /\ Ordered /\ "restore" \notin receipts
  BY <1>1 DEF BindingSound, Over, Past
<1>10. Rotated'
  <2>1. \E j \in DOMAIN log : log[j].state = "github_finalized" /\ log[j].gen = Generation
    BY <1>3
  <2> QED
    BY <1>1, <1>3, <1>6, <1>7, <1>8, <2>1, InsertRotated
<1>11. BindingSound'
  <2>1. Ordered' /\ Held' = Held
    BY <1>3, <1>9 DEF Ordered, Held
  <2>2. CommittedIsLive'
    BY <1>1, <1>7 DEF CommittedIsLive
  <2> QED
    BY <1>1, <1>3, <1>9, <2>1, <2>2, NoneIs DEF BindingSound, Scripts
<1>12. AnchorsSound'
  <2>1. /\ github'.anchor # 0 /\ OfEpoch(github.anchor)
    BY <1>3 DEF AnchorsSound
  <2>2. OfEpoch(github.anchor)'
    BY <1>1, <1>3, <2>1 DEF OfEpoch
  <2>3. source'.on => OfEpoch(source.ptr.anchor)'
    BY <1>1, <1>5 DEF AnchorsSound, OfEpoch
  <2>4. ~Overtaken' => OneAnchor'
    BY <1>1, <1>7 DEF AnchorsSound, OneAnchor
  <2>5. ~Overtaken' => LatestState' \notin Open
    BY <1>7 DEF Open, None
  <2> QED
    BY <1>3, <2>1, <2>2, <2>3, <2>4, <2>5, NoneIs DEF AnchorsSound, Open, Scripts
<1> QED
  BY <1>10, <1>11, <1>12

\* A second preparation keeps binding and anchors sound (Reprepare).
LEMMA ReprepareKeeps ==
  ASSUME Sound, Rotated, BindingSound, AnchorsSound, NEW act \in Here, Reprepare(act)
  PROVE  Rotated' /\ BindingSound' /\ AnchorsSound'
<1>1. /\ Loaded(act) /\ MayReprepare /\ PersistReprepare(act.now, act.at)
      /\ epochs' = epochs /\ Generation = 1
  BY SoundReprepare DEF Reprepare
<1>2. /\ mut.cmd = None /\ mut' = mut /\ github' = github /\ receipts' = receipts
  BY <1>1, LoadedIs
<1>3. /\ source' = [source EXCEPT !.prepared[2] = act.now]
      /\ intent' = IF intent.gen = 1 THEN [gen |-> 2, payload |-> 2] ELSE intent
      /\ InsertTransition("prepared", 2, act.at, Unlinked)
  BY <1>1 DEF PersistReprepare
<1>4. intent.payload # 0
  BY <1>1, BoundIntent
<1>5. intent'.payload = 2
  BY <1>3, <1>4 DEF Sound, ActType
<1>6. source'.on = source.on /\ source'.ptr = source.ptr
  BY <1>3 DEF Sound, ActType, Sources
<1>7. LatestState \in {"failed", "restore_writing"}
  BY <1>1 DEF MayReprepare
<1>8. /\ LatestState' \in {LatestState, "prepared"}
      /\ Overtaken => Overtaken'
      /\ DOMAIN log \subseteq DOMAIN log' /\ \A i \in DOMAIN log : log'[i] = log[i]
      /\ \A i \in DOMAIN log' :
            i \in DOMAIN log \/ (log'[i].state = "prepared" /\ log'[i].gen = 2)
  <2>1. "prepared" \in States /\ Unlinked \in Links /\ 2 \in 1..2
    BY UnlinkedIs DEF States
  <2> QED
    BY <1>1, <1>3, <2>1, InsertFacts
<1>9. Rotated'
  <2>1. "prepared" \in States /\ "prepared" # "failed" /\ 2 \in 1..2
    BY DEF States
  <2> QED
    BY <1>2, <1>4, <1>5, <1>8, <2>1, InsertRotated
<1>10. BindingSound'
  <2>1. Over' /\ Held' = Held
    BY <1>2, <1>5 DEF Over, Held
  <2>2. CommittedIsLive'
    BY <1>7, <1>8 DEF CommittedIsLive
  <2>3. LatestState' \in Past \cup {"prepared"}
    BY <1>7, <1>8 DEF Past
  <2>4. "restore" \in receipts => Held = Prestate
    BY DEF BindingSound
  <2> QED
    BY <1>2, <2>1, <2>2, <2>3, <2>4, NoneIs DEF BindingSound, Scripts, Past
<1>11. AnchorsSound'
  <2>1. source'.on => OfEpoch(source.ptr.anchor)' /\ github'.anchor # 0
    BY <1>1, <1>2, <1>6 DEF AnchorsSound, OfEpoch
  <2>2. github'.anchor # 0 => OfEpoch(github.anchor)'
    BY <1>1, <1>2 DEF AnchorsSound, OfEpoch
  <2>3. ~Overtaken' => OneAnchor'
    BY <1>1, <1>8 DEF AnchorsSound, OneAnchor
  <2>4. (\E i \in DOMAIN log' : log'[i].state = "github_finalized") => github'.anchor # 0
    BY <1>2, <1>8 DEF AnchorsSound
  <2> QED
    BY <1>2, <1>5, <2>1, <2>2, <2>3, <2>4, NoneIs DEF AnchorsSound, Open, Scripts
<1> QED
  BY <1>9, <1>10, <1>11

\* The first preparation keeps binding and anchors sound (PrepareSource).
LEMMA PrepareKeeps ==
  ASSUME Sound, Rotated, BindingSound, AnchorsSound, PrepareSource
  PROVE  Rotated' /\ BindingSound' /\ AnchorsSound'
<1>1. CASE Passes
  BY <1>1, PassesRotated, PassesBinding, PassesAnchors
<1>2. CASE ~Passes
  <2>1. /\ log = <<>>
        /\ source'.on = source.on /\ source'.ptr = source.ptr
        /\ UNCHANGED <<intent, epochs, github, receipts, mut>>
    BY <1>2, Prepares
  <2>2. PICK r \in Rows : RowGrows(r) /\ r.state = "prepared" /\ r.gen = 1 /\ ~r.bound
    BY <1>2, Prepares
  <2>3. /\ DOMAIN log' = DOMAIN log \cup {Len(log) + 1}
        /\ log'[Len(log) + 1] = r
        /\ LatestState' \in {LatestState, "prepared"}
        /\ Overtaken => Overtaken'
    BY <2>2, Growth DEF Sound
  <2>4. DOMAIN log = {}
    BY <2>1
  <2>5. LatestState = None
    BY <2>1, Reads DEF Sound
  <2>6. \A i \in DOMAIN log' : log'[i] = r
    BY <2>3, <2>4
  <2>7. Rotated'
    BY <2>1, <2>2, <2>6 DEF Rotated
  <2>8. intent.payload # 2 /\ ~Over /\ Ordered /\ "restore" \notin receipts
    BY <2>5 DEF BindingSound, Over, Past, None
  <2>9. mut.cmd # "restore"
    BY <2>5 DEF BindingSound, Past, None
  <2>10. BindingSound'
    <3>1. Ordered' /\ Held' = Held
      BY <2>1, <2>8 DEF Ordered, Held
    <3>2. CommittedIsLive'
      BY <2>3, <2>5 DEF CommittedIsLive, None
    <3>3. mut'.cmd = "apply" => WrittenUpTo("new")'
      BY <2>1 DEF BindingSound, WrittenUpTo
    <3> QED
      BY <2>1, <2>8, <2>9, <3>1, <3>2, <3>3 DEF BindingSound
  <2>11. AnchorsSound'
    <3>1. ~Overtaken => epochs = {}
      BY <2>5, <2>8 DEF AnchorsSound, Open
    <3>2. ~Overtaken' => epochs' = {}
      BY <2>1, <2>3, <3>1
    <3>3. /\ source'.on => OfEpoch(source.ptr.anchor)' /\ github'.anchor # 0
          /\ github'.anchor # 0 => OfEpoch(github.anchor)'
          /\ mut'.cmd = "finalize" => /\ OfEpoch(mut.anchor)'
                                      /\ mut'.pc = 2 => github'.anchor # 0
      BY <2>1 DEF AnchorsSound, OfEpoch
    <3>4. \A i \in DOMAIN log' : log'[i].state # "github_finalized"
      BY <2>2, <2>6
    <3>5. ~Overtaken' => OneAnchor'
      BY <3>2 DEF OneAnchor
    <3> QED
      BY <3>2, <3>3, <3>4, <3>5 DEF AnchorsSound
  <2> QED
    BY <2>7, <2>10, <2>11
<1> QED
  BY <1>1, <1>2
-----------------------------------------------------------------------------
\* All but the incident's progress, which follows the receipts.
Bound == Sound /\ Rotated /\ BindingSound /\ AnchorsSound

\* A step that leaves the bindings keeps the whole invariant.
LEMMA PassesKeep ==
  ASSUME Bound, Sound', Passes
  PROVE  Bound' /\ receipts \subseteq receipts' /\ DOMAIN log \subseteq DOMAIN log'
<1>1. receipts \subseteq receipts'
  BY DEF Passes
<1>2. DOMAIN log \subseteq DOMAIN log'
  BY PassFacts DEF Bound
<1> QED
  BY <1>1, <1>2, PassesRotated, PassesBinding, PassesAnchors DEF Bound

\* Every action of the activation keeps the invariant.
LEMMA ActivationKeeps ==
  ASSUME Bound, Actions \/ Tick
  PROVE  Bound' /\ receipts \subseteq receipts' /\ DOMAIN log \subseteq DOMAIN log'
<1> USE DEF Bound
<1>1. ASSUME NEW cmd \in Scripts, MutateBegin(cmd)
      PROVE  Bound' /\ receipts \subseteq receipts' /\ DOMAIN log \subseteq DOMAIN log'
  <2>1. log' = log /\ receipts' = receipts
    BY <1>1, Beginning
  <2> QED
    BY <1>1, <2>1, SoundBegin, BeginKeeps
<1>2. ASSUME MutateStep
      PROVE  Bound' /\ receipts \subseteq receipts' /\ DOMAIN log \subseteq DOMAIN log'
  <2>1. PICK step : StepAt(step)
    BY <1>2, Stepping
  <2>2. DOMAIN log \subseteq DOMAIN log'
    BY <2>1, StepLog
  <2>3. receipts \subseteq receipts'
    BY <1>2 DEF MutateStep
  <2> QED
    BY <1>2, <2>2, <2>3, StepKeeps
<1>3. ASSUME MutateFails \/ HandshakeRun \/ ActivateRefused \/ Tick
             \/ \E to \in 0..3 : RevisionOnly(to)
      PROVE  Bound' /\ receipts \subseteq receipts' /\ DOMAIN log \subseteq DOMAIN log'
  <2>1. Sound' /\ Passes
    BY <1>3, QuietSteps
  <2> QED
    BY <2>1, PassesKeep
<1>4. ASSUME NEW phase \in Waits, ActivateWait(phase)
      PROVE  Bound' /\ receipts \subseteq receipts' /\ DOMAIN log \subseteq DOMAIN log'
  BY <1>4, WaitSteps, PassesKeep
<1>5. ASSUME Activate
      PROVE  Bound' /\ receipts \subseteq receipts' /\ DOMAIN log \subseteq DOMAIN log'
  <2>1. PICK act \in Here : Reserve(act) \/ Commit(act) \/ Reprepare(act)
    BY <1>5 DEF Activate, Here
  <2>2. receipts' = receipts
    BY <2>1 DEF Reserve, Commit, Reprepare, Loaded
  <2>3. CASE Reserve(act)
    BY <2>2, <2>3, SoundReserve, ReserveKeeps
  <2>4. CASE Commit(act)
    BY <2>2, <2>4, SoundCommit, CommitKeeps
  <2>5. CASE Reprepare(act)
    BY <2>2, <2>5, SoundReprepare, ReprepareKeeps
  <2> QED
    BY <2>1, <2>3, <2>4, <2>5
<1>6. ASSUME DowngradeRead
      PROVE  Bound' /\ receipts \subseteq receipts' /\ DOMAIN log \subseteq DOMAIN log'
  BY <1>6, DowngradeReads, PassesKeep
<1>7. ASSUME NEW to \in 0..3, DowngradeCommit(to)
      PROVE  Bound' /\ receipts \subseteq receipts' /\ DOMAIN log \subseteq DOMAIN log'
  BY <1>7, DowngradeCommits, PassesKeep
<1>8. ASSUME PrepareSource
      PROVE  Bound' /\ receipts \subseteq receipts' /\ DOMAIN log \subseteq DOMAIN log'
  <2>1. receipts' = receipts
    BY <1>8 DEF PrepareSource
  <2>2. DOMAIN log \subseteq DOMAIN log'
    <3>1. log # <<>> => log' = log
      BY <1>8 DEF PrepareSource
    <3>2. log = <<>> => DOMAIN log = {}
      OBVIOUS
    <3> QED
      BY <3>1, <3>2
  <2> QED
    BY <1>8, <2>1, <2>2, Prepares, PrepareKeeps
<1>9. ASSUME RepairBudget
      PROVE  Bound' /\ receipts \subseteq receipts' /\ DOMAIN log \subseteq DOMAIN log'
  BY <1>9, RepairsBudget, PassesKeep
<1>10. ASSUME RepairAuthorization
       PROVE  Bound' /\ receipts \subseteq receipts' /\ DOMAIN log \subseteq DOMAIN log'
  BY <1>10, RepairsAuthorization, PassesKeep
<1> QED
  BY <1>1, <1>2, <1>3, <1>4, <1>5, <1>6, <1>7, <1>8, <1>9, <1>10 DEF Actions, Scripts

\* Every action of an incident keeps the activation's invariant.
LEMMA IncidentKeeps ==
  ASSUME Bound, IncidentActions
  PROVE  Bound' /\ receipts' = receipts /\ DOMAIN log \subseteq DOMAIN log'
<1> USE DEF Bound
<1>1. CASE UNCHANGED actVars
  <2>1. Sound' /\ Passes
    BY <1>1, QuietSteps
  <2>2. receipts' = receipts
    BY <1>1 DEF actVars
  <2> QED
    BY <2>1, <2>2, PassesKeep
<1>2. ASSUME NEW state \in {"deactivated", "restored"}, log # <<>>,
             AppendAfterLatest(state), LogOnly, source' = source \/ Disable
      PROVE  Bound' /\ receipts' = receipts /\ DOMAIN log \subseteq DOMAIN log'
  <2>1. Sound' /\ Passes
    BY <1>2, IncidentRows
  <2>2. receipts' = receipts
    BY <1>2 DEF LogOnly
  <2> QED
    BY <2>1, <2>2, PassesKeep
<1>3. LatestState # None => log # <<>>
  BY Reads DEF Sound
<1>4. CASE Contain
  <2>1. /\ AppendAfterLatest("deactivated") /\ LogOnly /\ Disable
        /\ LatestState \in {"active", "deactivated"}
    BY <1>4 DEF Contain, ContainDatabase, Guard
  <2> QED
    BY <1>2, <1>3, <2>1 DEF None
<1>5. CASE AppendRestored
  <2>1. /\ AppendAfterLatest("restored") /\ LogOnly /\ source' = source
        /\ LatestState \in {"restore_writing"}
    BY <1>5 DEF AppendRestored, Guard
  <2> QED
    BY <1>2, <1>3, <2>1 DEF None
<1>6. CASE RollbackFinalize
  <2>1. LogOnly /\ source' = source
    BY <1>6 DEF RollbackFinalize
  <2>2. CASE matrixB.seen = Latest /\ LatestState = "restore_writing"
    <3>1. AppendAfterLatest("restored")
      BY <1>6, <2>2 DEF RollbackFinalize
    <3> QED
      BY <1>2, <1>3, <2>1, <2>2, <3>1 DEF None
  <2>3. CASE ~(matrixB.seen = Latest /\ LatestState = "restore_writing")
    <3>1. log' = log
      BY <1>6, <2>3 DEF RollbackFinalize
    <3> QED
      BY <1>1, <2>1, <3>1 DEF LogOnly, actVars
  <2> QED
    BY <2>2, <2>3
<1>7. CASE ~(Contain \/ AppendRestored \/ RollbackFinalize)
  <2>1. UNCHANGED actVars
    BY <1>7 DEF IncidentActions, Collect, LogsExpire, NewTarget, PurgeDatabase, PurgeGitHub,
                PurgeHeld, VerifyReads, MatrixBHealth, FinalizeReads
  <2> QED
    BY <1>1, <2>1
<1> QED
  BY <1>4, <1>5, <1>6, <1>7
-----------------------------------------------------------------------------
\* The privacy chain and Matrix B go on from receipts that stay.
LEMMA ProgressKeeps ==
  ASSUME Bound, IncidentSound, ChainSound, receipts \subseteq receipts',
         DOMAIN log \subseteq DOMAIN log',
         UNCHANGED incVars \/ IncidentActions
  PROVE  IncidentSound' /\ ChainSound'
<1>1. /\ targets \in 0..MaxTargets /\ incident \in Incident
      /\ incident.graph <= targets /\ deleted \subseteq 1..targets
      /\ content \subseteq {"window", "before", "logs"}
      /\ matrixB \in [ok : BOOLEAN, seen : DOMAIN log \cup {0}]
      /\ restored \subseteq {"technical", "privacy"}
      /\ MaxTargets \in Nat
  BY IncidentAssumption DEF IncidentSound, IncidentAssumption
<1>2. /\ matrixB.ok => "restore" \in receipts'
      /\ matrixB.seen # 0 => matrixB.ok
      /\ incident.stage \in {"proved", "restored"} => matrixB.ok
      /\ restored # {} => matrixB.ok
  BY DEF ChainSound
<1>3. matrixB \in [ok : BOOLEAN, seen : DOMAIN log' \cup {0}]
  BY <1>1
<1> DEFINE Stages == {"none", "contained", "purging", "purged", "proved", "restored"}
<1>4. incident \in [stage : Stages, graph : 0..MaxTargets]
  BY <1>1 DEF Incident
<1>5. CASE UNCHANGED <<content, targets, deleted, incident, matrixB, restored>>
  BY <1>1, <1>2, <1>3, <1>5 DEF IncidentSound, ChainSound, Incident
<1>6. CASE Collect \/ LogsExpire \/ PurgeDatabase
  <2>1. /\ content' \subseteq {"window", "before", "logs"}
        /\ UNCHANGED <<targets, deleted, matrixB, restored>>
        /\ incident' = incident \/ incident' = [incident EXCEPT !.stage = "purging"]
    BY <1>1, <1>6 DEF Collect, LogsExpire, PurgeDatabase, PurgeContent
  <2>2. /\ incident' \in [stage : Stages, graph : 0..MaxTargets]
        /\ incident'.graph = incident.graph
        /\ incident'.stage \in {"proved", "restored"} => incident' = incident
    BY <1>4, <2>1
  <2> QED
    BY <1>1, <1>2, <1>3, <2>1, <2>2 DEF IncidentSound, ChainSound, Incident
<1>7. CASE NewTarget
  <2>1. /\ targets' = targets + 1 /\ targets < MaxTargets
        /\ UNCHANGED <<content, deleted, incident, matrixB, restored>>
    BY <1>7 DEF NewTarget
  <2>2. /\ targets' \in 0..MaxTargets /\ incident'.graph <= targets'
        /\ deleted' \subseteq 1..targets'
    BY <1>1, <1>4, <2>1
  <2> QED
    BY <1>1, <1>2, <1>3, <2>1, <2>2 DEF IncidentSound, ChainSound, Incident
<1>8. CASE Contain
  <2>1. /\ incident' = [stage |-> "contained", graph |-> targets]
        /\ UNCHANGED <<content, targets, deleted, matrixB, restored>>
    BY <1>8 DEF Contain
  <2>2. /\ incident' \in [stage : Stages, graph : 0..MaxTargets]
        /\ incident'.graph = targets /\ incident'.stage = "contained"
    BY <1>1, <2>1
  <2> QED
    BY <1>1, <1>2, <1>3, <2>1, <2>2 DEF IncidentSound, ChainSound, Incident
<1>9. CASE PurgeGitHub \/ PurgeHeld
  <2>1. /\ UNCHANGED <<content, targets, matrixB, restored>>
        /\ deleted' = deleted \/ \E t \in 1..incident.graph : deleted' = deleted \cup {t}
        /\ \/ incident' = incident
           \/ incident' = [incident EXCEPT !.stage = "purged"]
           \/ incident' = [incident EXCEPT !.stage = "contained"]
    BY <1>9 DEF PurgeGitHub, PurgeHeld, DeleteTarget
  <2>2. /\ incident' \in [stage : Stages, graph : 0..MaxTargets]
        /\ incident'.graph = incident.graph
        /\ incident'.stage \in {"proved", "restored"} => incident' = incident
    BY <1>4, <2>1
  <2>3. deleted' \subseteq 1..targets
    <3>1. \A t \in 1..incident.graph : t \in 1..targets
      BY <1>1, <1>4
    <3> QED
      BY <1>1, <2>1, <3>1
  <2> QED
    BY <1>1, <1>2, <1>3, <2>1, <2>2, <2>3 DEF IncidentSound, ChainSound, Incident
<1>10. CASE VerifyReads
  <2>1. /\ incident' = [incident EXCEPT !.stage = "proved"] /\ matrixB.ok
        /\ UNCHANGED <<content, targets, deleted, matrixB, restored>>
    BY <1>10 DEF VerifyReads, MatrixProof
  <2>2. /\ incident' \in [stage : Stages, graph : 0..MaxTargets]
        /\ incident'.graph = incident.graph
    BY <1>4, <2>1
  <2> QED
    BY <1>1, <1>2, <1>3, <2>1, <2>2 DEF IncidentSound, ChainSound, Incident
<1>11. CASE AppendRestored
  <2>1. /\ incident' = [incident EXCEPT !.stage = "restored"]
        /\ incident.stage = "proved" /\ restored' = restored \cup {"privacy"}
        /\ UNCHANGED <<content, targets, deleted, matrixB>>
    BY <1>11 DEF AppendRestored, ProofsComplete
  <2>2. /\ incident' \in [stage : Stages, graph : 0..MaxTargets]
        /\ incident'.graph = incident.graph
    BY <1>4, <2>1
  <2>3. matrixB.ok
    BY <1>2, <2>1
  <2> QED
    BY <1>1, <1>2, <1>3, <2>1, <2>2, <2>3 DEF IncidentSound, ChainSound, Incident
<1>12. CASE MatrixBHealth
  <2>1. /\ matrixB' = [matrixB EXCEPT !.ok = TRUE] /\ "restore" \in receipts
        /\ UNCHANGED <<content, targets, deleted, incident, restored>>
    BY <1>12 DEF MatrixBHealth
  <2>2. /\ matrixB' \in [ok : BOOLEAN, seen : DOMAIN log' \cup {0}]
        /\ matrixB'.ok
    BY <1>3, <2>1
  <2> QED
    BY <1>1, <2>1, <2>2 DEF IncidentSound, ChainSound, Incident
<1>13. CASE FinalizeReads
  <2>1. /\ matrixB' = [matrixB EXCEPT !.seen = Latest] /\ matrixB.ok
        /\ UNCHANGED <<content, targets, deleted, incident, restored>>
        /\ LatestState = "restore_writing"
    BY <1>13 DEF FinalizeReads
  <2>2. Latest \in DOMAIN log
    BY <2>1, Reads DEF Bound, Sound, None
  <2>3. /\ matrixB' \in [ok : BOOLEAN, seen : DOMAIN log' \cup {0}]
        /\ matrixB'.ok
    BY <1>3, <2>1, <2>2
  <2> QED
    BY <1>1, <1>2, <2>1, <2>3 DEF IncidentSound, ChainSound, Incident
<1>14. CASE RollbackFinalize
  <2>1. /\ matrixB' = [matrixB EXCEPT !.seen = 0] /\ matrixB.seen # 0
        /\ UNCHANGED <<content, targets, deleted, incident>>
        /\ restored' = restored \/ restored' = restored \cup {"technical"}
    BY <1>14 DEF RollbackFinalize
  <2>2. /\ matrixB' \in [ok : BOOLEAN, seen : DOMAIN log' \cup {0}]
        /\ matrixB'.ok /\ matrixB.ok /\ matrixB'.seen = 0
    BY <1>2, <1>3, <2>1
  <2> QED
    BY <1>1, <1>2, <2>1, <2>2 DEF IncidentSound, ChainSound, Incident
<1> QED
  BY <1>5, <1>6, <1>7, <1>8, <1>9, <1>10, <1>11, <1>12, <1>13, <1>14
     DEF IncidentActions, incVars
-----------------------------------------------------------------------------
\* A log with those states, a row an append, in order.
InStates(l, states, n) ==
    /\ l \in Seq(Rows) /\ DOMAIN l = 1..n /\ Len(l) = n /\ RowsSound(l)
    /\ \A i \in 1..n : /\ l[i].state = states[i] /\ l[i].gen = 1
                        /\ l[i].at = 6 * i /\ l[i].pred = i - 1
    /\ n > 0 => l # <<>> /\ StateOf(l) = states[n]

\* The logs that a start has: a run of the trail, its rows in order.
LEMMA LogOfIs ==
  ASSUME NEW states \in Seq(States), NEW link \in Links, NEW n \in Nat, Len(states) = n
  PROVE  InStates(LogOf(states, link), states, n)
<1> DEFINE l == LogOf(states, link)
<1> DEFINE row(i) == [state |-> states[i], gen |-> 1, bound |-> i > 1, pred |-> i - 1,
                      at |-> 6 * i,
                      ptr |-> IF states[i] = "active" THEN link ELSE Unlinked]
<1>1. DOMAIN states = 1..n /\ n \in Nat /\ \A i \in 1..n : states[i] \in States
  OBVIOUS
<1>2. ASSUME NEW i \in 1..n
      PROVE  /\ row(i) \in Rows /\ row(i).state = states[i] /\ row(i).gen = 1
             /\ row(i).at = 6 * i /\ row(i).pred = i - 1
  <2>1. i \in Nat /\ i - 1 \in Nat /\ 6 * i \in Nat
    BY <1>1
  <2>2. (i > 1) \in BOOLEAN
    OBVIOUS
  <2>3. (IF states[i] = "active" THEN link ELSE Unlinked) \in Links
    BY UnlinkedIs
  <2> QED
    BY <1>1, <2>1, <2>2, <2>3 DEF Rows
<1>3. l = [i \in 1..n |-> row(i)]
  BY <1>1 DEF LogOf
<1> HIDE DEF row, l
<1>4. l \in Seq(Rows) /\ Len(l) = n /\ DOMAIN l = 1..n
  BY <1>1, <1>2, <1>3
<1>5. \A i \in 1..n : l[i] = row(i)
  BY <1>3
<1>6. \A i \in 1..n : /\ l[i].state = states[i] /\ l[i].gen = 1
                      /\ l[i].at = 6 * i /\ l[i].pred = i - 1
  BY <1>2, <1>5
<1>7. ASSUME n > 0 PROVE NewestIn(l, n) /\ l # <<>>
  BY <1>1, <1>4, <1>6, <1>7 DEF NewestIn
<1>8. RowsSound(l)
  <2>1. ASSUME NEW i \in DOMAIN l
        PROVE  l[i].at \in 1..(6 * i) /\ l[i].pred \in 0..(i - 1)
    <3>1. i \in 1..n /\ i \in Nat /\ i >= 1
      BY <1>4
    <3>2. l[i].at = 6 * i /\ l[i].pred = i - 1
      BY <1>6, <3>1
    <3> QED
      BY <3>1, <3>2
  <2>2. ASSUME NEW i \in DOMAIN l, NEW j \in DOMAIN l, l[i].at = l[j].at
        PROVE  i = j
    <3>1. i \in 1..n /\ j \in 1..n /\ i \in Nat /\ j \in Nat
      BY <1>4
    <3>2. l[i].at = 6 * i /\ l[j].at = 6 * j
      BY <1>6, <3>1
    <3>3. 6 * i = 6 * j
      BY <2>2, <3>2
    <3> QED
      BY <3>1, <3>3
  <2>3. l # <<>> => n > 0
    BY <1>1, <1>4, EmptyLog
  <2>4. l # <<>> => \E i \in DOMAIN l : NewestIn(l, i)
    BY <1>4, <1>7, <2>3
  <2> QED
    BY <2>1, <2>2, <2>4 DEF RowsSound
<1>9. n > 0 => StateOf(l) = states[n]
  <2> SUFFICES ASSUME n > 0 PROVE StateOf(l) = states[n]
    OBVIOUS
  <2>1. Last(l) = n /\ StateOf(l) = l[Last(l)].state
    BY <1>1, <1>4, <1>7, <1>8, LastIs
  <2> QED
    BY <1>1, <1>6, <2>1
<1> QED
  BY <1>4, <1>6, <1>7, <1>8, <1>9 DEF InStates, l

\* The states a log may have passed before the model starts.
LEMMA TrailIs ==
  /\ Trail \in Seq(States) /\ Len(Trail) = 10
  /\ Trail[4] = "handshake_passed" /\ Trail[6] = "github_finalized"
  /\ Trail[7] = "failed" /\ Trail[10] = "restore_writing"
  /\ \A i \in 1..4 : Trail[i] \notin {"failed", "github_finalized"}
<1>1. /\ Trail \in Seq(States) /\ Len(Trail) = 10
      /\ Trail[4] = "handshake_passed" /\ Trail[6] = "github_finalized"
      /\ Trail[7] = "failed" /\ Trail[10] = "restore_writing"
  BY DEF Trail, States
<1>2. Trail[1] = "prepared" /\ Trail[2] = "binding_writing" /\ Trail[3] = "binding_committed"
  BY DEF Trail
<1>3. ASSUME NEW i \in 1..4 PROVE Trail[i] \notin {"failed", "github_finalized"}
  <2>1. i = 1 \/ i = 2 \/ i = 3 \/ i = 4
    OBVIOUS
  <2> QED
    BY <1>1, <1>2, <2>1
<1> QED
  BY <1>1, <1>3

\* A log that has come part of the way.
LEMMA TrailUpTo ==
  ASSUME NEW n \in 1..10
  PROVE  /\ SubSeq(Trail, 1, n) \in Seq(States) /\ Len(SubSeq(Trail, 1, n)) = n
         /\ \A i \in 1..n : SubSeq(Trail, 1, n)[i] = Trail[i]
<1>1. Trail \in Seq(States) /\ Len(Trail) = 10
  BY TrailIs
<1> DEFINE s == SubSeq(Trail, 1, n)
<1>2. s = [i \in 1..n |-> Trail[i]]
  BY <1>1
<1>3. \A i \in 1..n : s[i] = Trail[i] /\ Trail[i] \in States
  <2>1. \A i \in 1..n : i \in 1..10
    OBVIOUS
  <2>2. \A i \in 1..Len(Trail) : Trail[i] \in States
    <3>1. Trail \in Seq(States)
      BY <1>1
    <3> QED
      BY <3>1
  <2>3. Len(Trail) = 10
    BY <1>1
  <2> QED
    BY <1>2, <2>1, <2>2, <2>3
<1>4. n \in Nat
  OBVIOUS
<1> HIDE DEF s
<1>5. s \in Seq(States) /\ Len(s) = n
  BY <1>2, <1>3, <1>4
<1> QED
  BY <1>3, <1>5 DEF s

\* A log that ends in a row that sorts before others of it: the latest row stays.
LEMMA RacedIs ==
  /\ RacedLog \in Seq(Rows) /\ RowsSound(RacedLog) /\ RacedLog # <<>>
  /\ StateOf(RacedLog) = "restore_writing"
  /\ \A i \in DOMAIN RacedLog : RacedLog[i].gen = 1
  /\ 6 \in DOMAIN RacedLog /\ RacedLog[6].state = "github_finalized"
<1> DEFINE rows == LogOf(Trail, Unlinked)
<1>3. /\ rows \in Seq(Rows) /\ DOMAIN rows = 1..10 /\ Len(rows) = 10 /\ RowsSound(rows)
      /\ \A i \in 1..10 : /\ rows[i].state = Trail[i] /\ rows[i].gen = 1
                          /\ rows[i].at = 6 * i /\ rows[i].pred = i - 1
      /\ StateOf(rows) = "restore_writing"
  <2>1. PICK n \in Nat : n = 10
    OBVIOUS
  <2>2. Len(Trail) = n
    BY <2>1, TrailIs
  <2>3. InStates(rows, Trail, n)
    BY <2>2, LogOfIs, TrailIs, UnlinkedIs
  <2> HIDE DEF rows
  <2> QED
    BY <2>1, <2>3, TrailIs DEF InStates
<1>4. RacedLog = Append(rows, [rows[8] EXCEPT !.bound = FALSE, !.at = 43])
  BY DEF RacedLog, rows
<1> HIDE DEF rows
<1>5. rows[8] \in Rows /\ rows[8].pred = 7 /\ rows[8].gen = 1
  <2>1. 8 \in 1..10 /\ 8 - 1 = 7
    OBVIOUS
  <2>2. 8 \in DOMAIN rows
    BY <1>3, <2>1
  <2>3. rows[8] \in Rows
    BY <1>3, <2>2, RowType
  <2> QED
    BY <1>3, <2>1, <2>3
<1>6. PICK r \in Rows : /\ RacedLog = Append(rows, r) /\ r.at = 43 /\ r.pred = 7 /\ r.gen = 1
  <2>1. [rows[8] EXCEPT !.bound = FALSE, !.at = 43] \in Rows
    BY <1>5 DEF Rows
  <2>2. /\ [rows[8] EXCEPT !.bound = FALSE, !.at = 43].at = 43
        /\ [rows[8] EXCEPT !.bound = FALSE, !.at = 43].pred = 7
        /\ [rows[8] EXCEPT !.bound = FALSE, !.at = 43].gen = 1
    BY <1>5 DEF Rows
  <2> QED
    BY <1>4, <2>1, <2>2
<1>7. /\ r.pred \in 0..Len(rows) /\ r.at \in 1..(6 * Len(rows) + 6)
      /\ \A i \in DOMAIN rows : rows[i].at # r.at
  <2>1. r.pred \in 0..Len(rows) /\ r.at \in 1..(6 * Len(rows) + 6)
    BY <1>3, <1>6
  <2>2. ASSUME NEW i \in 1..10 PROVE rows[i].at # r.at
    <3>1. rows[i].at = 6 * i
      BY <1>3
    <3> QED
      BY <1>6, <3>1
  <2> QED
    BY <1>3, <2>1, <2>2
<1>8. /\ RacedLog \in Seq(Rows) /\ DOMAIN RacedLog = 1..11 /\ RacedLog[11] = r
      /\ \A i \in DOMAIN rows : RacedLog[i] = rows[i]
      /\ RowsSound(RacedLog)
  <2>1. /\ Append(rows, r) \in Seq(Rows) /\ DOMAIN Append(rows, r) = 1..(Len(rows) + 1)
        /\ Append(rows, r)[Len(rows) + 1] = r
        /\ \A i \in DOMAIN rows : Append(rows, r)[i] = rows[i]
        /\ RowsSound(Append(rows, r))
    BY <1>3, <1>7, AppendRow
  <2>2. Len(rows) + 1 = 11
    BY <1>3
  <2> QED
    BY <1>6, <2>1, <2>2
<1>9. NewestIn(RacedLog, 10)
  <2>1. ASSUME NEW j \in 1..11 PROVE RacedLog[j].at <= RacedLog[10].at
    <3>1. ASSUME NEW i \in 1..10 PROVE RacedLog[i].at = 6 * i
      BY <1>3, <1>8
    <3>2. 10 \in 1..10 /\ 6 * 10 = 60
      OBVIOUS
    <3>3. RacedLog[10].at = 60
      BY <3>1, <3>2
    <3>4. CASE j \in 1..10
      BY <3>1, <3>3, <3>4
    <3>5. CASE j = 11
      <4>1. RacedLog[j].at = 43
        BY <1>6, <1>8, <3>5
      <4> QED
        BY <3>3, <4>1
    <3> QED
      BY <3>4, <3>5
  <2> QED
    BY <1>8, <2>1 DEF NewestIn
<1>10. Last(RacedLog) = 10 /\ RacedLog # <<>> /\ StateOf(RacedLog) = RacedLog[Last(RacedLog)].state
  BY <1>8, <1>9, LastIs
<1>11. RacedLog[10].state = "restore_writing" /\ RacedLog[6].state = "github_finalized"
  BY <1>3, <1>8, TrailIs
<1>12. ASSUME NEW i \in DOMAIN RacedLog PROVE RacedLog[i].gen = 1
  <2>1. i \in 1..10 \/ i = 11
    BY <1>8
  <2> QED
    BY <1>3, <1>6, <1>8, <2>1
<1> QED
  BY <1>8, <1>10, <1>11, <1>12

\* The log of every start, by where it ends.
LEMMA Starting ==
  ASSUME ActInit
  PROVE  /\ log \in Seq(Rows) /\ RowsSound(log) /\ \A i \in DOMAIN log : log[i].gen = 1
         /\ start = "fresh" => log = <<>>
         /\ start # "fresh" => log # <<>>
         /\ start = "bound" =>
               /\ StateOf(log) = "handshake_passed"
               /\ \A i \in DOMAIN log : log[i].state \notin {"failed", "github_finalized"}
         /\ start \notin {"fresh", "bound"} =>
               /\ StateOf(log) \in {"active", "failed", "restore_writing"}
               /\ 6 \in DOMAIN log /\ log[6].state = "github_finalized"
<1>1. start \in StartingPoints /\ log = StartLog(start)
  BY DEF ActInit
<1>2. LegacyLink \in Links
  BY DEF LegacyLink, Links, None
<1>3. CASE start = "fresh"
  <2>1. log = <<>>
    BY <1>1, <1>3 DEF StartLog
  <2>2. log \in Seq(Rows) /\ RowsSound(log) /\ DOMAIN log = {}
    BY <2>1 DEF RowsSound
  <2> QED
    BY <1>3, <2>1, <2>2
<1>4. CASE start = "bound"
  <2>1. PICK n \in 1..10 : n = 4
    OBVIOUS
  <2> DEFINE s == SubSeq(Trail, 1, n)
  <2>2. log = LogOf(s, Unlinked)
    BY <1>1, <1>4, <2>1 DEF StartLog
  <2>3. s \in Seq(States) /\ Len(s) = n /\ \A i \in 1..n : s[i] = Trail[i]
    BY TrailUpTo
  <2> HIDE DEF s
  <2>4. InStates(log, s, n)
    BY <2>2, <2>3, LogOfIs, UnlinkedIs
  <2>5. /\ log \in Seq(Rows) /\ DOMAIN log = 1..n /\ RowsSound(log)
        /\ \A i \in 1..n : log[i].state = Trail[i] /\ log[i].gen = 1
        /\ log # <<>> /\ StateOf(log) = Trail[n]
    BY <2>1, <2>3, <2>4 DEF InStates
  <2> QED
    BY <1>4, <2>1, <2>5, TrailIs
<1>5. ASSUME NEW n \in 1..10, n = 7, NEW s \in Seq(States), Len(s) = n, NEW link \in Links,
             s[6] = "github_finalized", s[7] \in {"active", "failed"}, log = LogOf(s, link)
      PROVE  /\ log \in Seq(Rows) /\ RowsSound(log) /\ \A i \in DOMAIN log : log[i].gen = 1
             /\ log # <<>> /\ StateOf(log) \in {"active", "failed", "restore_writing"}
             /\ 6 \in DOMAIN log /\ log[6].state = "github_finalized"
  <2>1. InStates(log, s, n)
    BY <1>5, LogOfIs
  <2>2. 6 \in 1..n
    BY <1>5
  <2>3. /\ log \in Seq(Rows) /\ DOMAIN log = 1..n /\ RowsSound(log)
        /\ \A i \in 1..n : log[i].state = s[i] /\ log[i].gen = 1
        /\ log # <<>> /\ StateOf(log) = s[n]
    BY <1>5, <2>1 DEF InStates
  <2> QED
    BY <1>5, <2>2, <2>3
<1>6. CASE start = "legacy"
  <2>1. PICK n \in 1..10 : n = 7
    OBVIOUS
  <2> DEFINE s == SubSeq(Trail, 1, n)
             t == [s EXCEPT ![7] = "active"]
  <2>2. log = LogOf(t, LegacyLink)
    BY <1>1, <1>6, <2>1 DEF StartLog
  <2>3. s \in Seq(States) /\ Len(s) = n /\ \A i \in 1..n : s[i] = Trail[i]
    BY TrailUpTo
  <2> HIDE DEF s
  <2>4. t \in Seq(States) /\ Len(t) = n /\ t[7] = "active" /\ t[6] = s[6]
    <3>1. PICK x \in States : x = "active"
      BY DEF States
    <3>2. PICK k \in 1..n, j \in 1..n : k = 7 /\ j = 6
      BY <2>1
    <3>3. t = [s EXCEPT ![k] = x]
      BY <3>1, <3>2
    <3> HIDE DEF t
    <3>4. t \in Seq(States) /\ Len(t) = n
      BY <2>3, <3>3
    <3>5. t[k] = x /\ t[j] = s[j]
      BY <2>3, <3>2, <3>3
    <3> QED
      BY <3>1, <3>2, <3>4, <3>5
  <2>5. 6 \in 1..n
    BY <2>1
  <2>6. t[6] = "github_finalized"
    BY <2>3, <2>4, <2>5, TrailIs
  <2> HIDE DEF t
  <2> QED
    BY <1>2, <1>5, <1>6, <2>1, <2>2, <2>4, <2>6
<1>7. CASE start = "failed"
  <2>1. PICK n \in 1..10 : n = 7
    OBVIOUS
  <2> DEFINE s == SubSeq(Trail, 1, n)
  <2>2. log = LogOf(s, Unlinked)
    BY <1>1, <1>7, <2>1 DEF StartLog
  <2>3. s \in Seq(States) /\ Len(s) = n /\ \A i \in 1..n : s[i] = Trail[i]
    BY TrailUpTo
  <2> HIDE DEF s
  <2>4. 6 \in 1..n /\ 7 \in 1..n
    BY <2>1
  <2>5. s[6] = "github_finalized" /\ s[7] = "failed"
    BY <2>3, <2>4, TrailIs
  <2> QED
    BY <1>5, <1>7, <2>1, <2>2, <2>3, <2>5, UnlinkedIs
<1>8. CASE start = "raced"
  <2>1. log = RacedLog
    BY <1>1, <1>8 DEF StartLog
  <2> QED
    BY <1>8, <2>1, RacedIs
<1> QED
  BY <1>1, <1>3, <1>4, <1>6, <1>7, <1>8 DEF StartingPoints
-----------------------------------------------------------------------------
\* Every start is sound.
LEMMA InitAct == ASSUME ActInit PROVE ActType /\ HeldSound
<1>1. log \in Seq(Rows)
  BY Starting
<1>2. start \in StartingPoints
  BY DEF ActInit
<1>3. /\ mut = Idle /\ acts = {} /\ mig = MigIdle
      /\ clock = IF start \in {"fresh", "bound"} THEN 1 ELSE IF start = "legacy" THEN 3 ELSE 5
      /\ revision = IF start = "raced" THEN 0 ELSE IF start = "fresh" THEN 1 ELSE 2
      /\ intent = IF start = "fresh" THEN [gen |-> 0, payload |-> 0]
                  ELSE [gen |-> 1, payload |-> 1]
  BY DEF ActInit
<1>4. epochs \subseteq [anchor : Nat \ {0}, closed : BOOLEAN]
  <2>1. PICK raced \in BOOLEAN : raced = (start = "raced")
    OBVIOUS
  <2>2. epochs \subseteq {[anchor |-> 6, closed |-> raced]}
    BY <2>1 DEF ActInit
  <2> QED
    BY <2>2
<1>5. source \in Sources
  <2>1. PICK on \in BOOLEAN, exists \in BOOLEAN :
           on = (start = "legacy") /\ exists = (start # "fresh")
    OBVIOUS
  <2>2. PICK ptr \in Links : ptr = IF start = "legacy" THEN LegacyLink ELSE Unlinked
    <3>1. LegacyLink \in Links
      BY DEF LegacyLink, Links, None
    <3> QED
      BY <3>1, UnlinkedIs
  <2>3. PICK prepared \in [1..2 -> Nat] :
           prepared = [g \in {1, 2} |-> IF start = "fresh" THEN 0 ELSE g % 2]
    <3>1. [g \in 1..2 |-> IF start = "fresh" THEN 0 ELSE g % 2] \in [1..2 -> Nat]
      OBVIOUS
    <3>2. 1..2 = {1, 2}
      OBVIOUS
    <3> QED
      BY <3>1, <3>2
  <2>4. source = [exists |-> exists, on |-> on, ptr |-> ptr, scope |-> "base",
                  prepared |-> prepared]
    BY <2>1, <2>2, <2>3 DEF ActInit
  <2> QED
    BY <2>4 DEF Sources
<1>6. github \in [anchor : Nat, secret : Sides, ids : Sides, scope : Sides]
  BY DEF ActInit, Prestate, Payload, Sides
<1>7. receipts \subseteq Scripts \cup {"evidence"}
  BY DEF ActInit, Scripts
<1>8. /\ mut \in [cmd : Scripts \cup {None}, pc : 0..6, anchor : Nat, at : Nat]
      /\ mut.cmd = None /\ mut.at = 0
  BY <1>3 DEF Idle
<1>9. mig \in [on : BOOLEAN, at : Nat, pred : Nat] /\ ~mig.on /\ mig.at = 0
  <2>1. PICK off \in BOOLEAN : off = FALSE
    OBVIOUS
  <2>2. mig = [on |-> off, at |-> 0, pred |-> 0]
    BY <1>3, <2>1 DEF MigIdle
  <2> QED
    BY <2>1, <2>2
<1>10. ActType
  BY <1>1, <1>2, <1>3, <1>4, <1>5, <1>6, <1>7, <1>8, <1>9 DEF ActType
<1>11. HeldSound
  BY <1>3, <1>8, <1>9 DEF HeldSound
<1> QED
  BY <1>10, <1>11

\* The invariant holds of every log the model starts from.
LEMMA InitKeeps == ASSUME Init PROVE ActInv
<1>1. ActInit
  BY DEF Init
<1>2. ActType /\ HeldSound
  BY <1>1, InitAct
<1>3. /\ log \in Seq(Rows) /\ RowsSound(log) /\ \A i \in DOMAIN log : log[i].gen = 1
      /\ start = "fresh" => log = <<>>
      /\ start # "fresh" => log # <<>>
      /\ start = "bound" =>
            /\ StateOf(log) = "handshake_passed"
            /\ \A i \in DOMAIN log : log[i].state \notin {"failed", "github_finalized"}
      /\ start \notin {"fresh", "bound"} =>
            /\ StateOf(log) \in {"active", "failed", "restore_writing"}
            /\ 6 \in DOMAIN log /\ log[6].state = "github_finalized"
  BY <1>1, Starting
<1>4. LatestState = StateOf(log)
  BY DEF LatestState, StateOf, Latest, Last
<1>5. start = "fresh" => LatestState = None
  BY <1>2, <1>3, Reads
<1>6. start = "fresh" => DOMAIN log = {}
  BY <1>3
<1>7. start \in StartingPoints
  BY <1>1 DEF ActInit
<1>8. /\ start = "fresh" => intent.payload = 0
      /\ start # "fresh" => intent.payload = 1
      /\ mut.cmd = None /\ mut.pc = 0
  BY <1>1 DEF ActInit, Idle
<1>9. /\ start = "fresh" => Held = Prestate
      /\ start # "fresh" => Held = Payload
      /\ start \in {"fresh", "bound"} => github.anchor = 0 /\ epochs = {}
      /\ start \notin {"fresh", "bound"} => github.anchor = 6
  BY <1>1 DEF ActInit, Held, Prestate, Payload
<1>10. /\ start \notin {"fresh", "bound"} => \A e \in epochs : e.anchor = 6
       /\ start \notin {"fresh", "bound"} => \E e \in epochs : e.anchor = 6
       /\ \A e, f \in epochs : e.anchor = f.anchor
  <2>1. PICK raced \in BOOLEAN : raced = (start = "raced")
    OBVIOUS
  <2>2. epochs = IF start \in {"fresh", "bound"} THEN {}
                 ELSE {[anchor |-> 6, closed |-> raced]}
    BY <1>1, <2>1 DEF ActInit
  <2>3. PICK e : e = [anchor |-> 6, closed |-> raced]
    OBVIOUS
  <2>4. e.anchor = 6 /\ epochs = IF start \in {"fresh", "bound"} THEN {} ELSE {e}
    BY <2>2, <2>3
  <2> QED
    BY <2>4
<1>11. source.on => start = "legacy" /\ source.ptr.anchor = 6
  BY <1>1 DEF ActInit, LegacyLink
<1>12. receipts \subseteq {"evidence", "handshake", "finalize"}
  BY <1>1 DEF ActInit
<1>13. IncidentSound
  <2>1. /\ content = {} /\ targets = 1 /\ deleted = {} /\ matrixB = NoHealth /\ restored = {}
        /\ incident = IF start = "raced" THEN [stage |-> "contained", graph |-> 1]
                      ELSE NoIncident
    BY DEF Init
  <2>2. targets \in 0..MaxTargets /\ 1 \in 0..MaxTargets /\ 0 \in 0..MaxTargets
    BY <2>1, IncidentAssumption DEF IncidentAssumption
  <2>3. incident \in Incident /\ incident.graph <= targets
    BY <2>1, <2>2 DEF Incident, NoIncident
  <2>4. matrixB \in [ok : BOOLEAN, seen : DOMAIN log \cup {0}]
    <3>1. PICK off \in BOOLEAN : off = FALSE
      OBVIOUS
    <3>2. matrixB = [ok |-> off, seen |-> 0]
      BY <2>1, <3>1 DEF NoHealth
    <3> QED
      BY <3>2
  <2> QED
    BY <2>1, <2>2, <2>3, <2>4 DEF IncidentSound
<1>14. Rotated
  <2>1. \A i \in DOMAIN log : log[i].gen # 2
    BY <1>3
  <2>2. \A i \in DOMAIN log : log[i].bound => intent.payload # 0
    BY <1>6, <1>8
  <2>3. \A i \in DOMAIN log : log[i].state = "failed" =>
           \E j \in DOMAIN log : /\ log[j].state = "github_finalized"
                                 /\ log[j].gen = log[i].gen
    BY <1>3, <1>6
  <2> QED
    BY <1>8, <2>1, <2>2, <2>3 DEF Rotated
<1>15. BindingSound
  <2>1. Ordered
    BY <1>9 DEF Ordered, Held, Prestate, Payload
  <2>2. CommittedIsLive
    BY <1>3, <1>4, <1>5, <1>9 DEF CommittedIsLive, None
  <2> QED
    BY <1>8, <1>12, <2>1, <2>2 DEF BindingSound, Scripts, None
<1>16. ChainSound
  <2>1. matrixB = NoHealth /\ restored = {} /\ incident.stage \in {"none", "contained"}
    BY DEF Init, NoIncident
  <2> QED
    BY <2>1 DEF ChainSound, NoHealth
<1>17. AnchorsSound
  <2>1. (\E i \in DOMAIN log : log[i].state = "github_finalized") => github.anchor # 0
    BY <1>3, <1>6, <1>9
  <2>2. epochs # {} => LatestState \notin Open
    BY <1>3, <1>4, <1>9 DEF Open, None
  <2>3. OneAnchor
    BY <1>10 DEF OneAnchor
  <2> QED
    BY <1>8, <1>9, <1>10, <1>11, <2>1, <2>2, <2>3 DEF AnchorsSound, OfEpoch, None
<1> QED
  BY <1>2, <1>3, <1>13, <1>14, <1>15, <1>16, <1>17 DEF ActInv

\* Every step keeps the invariant, and it gives what the runs check.
LEMMA NextKeeps == ASSUME ActInv, [Next]_vars PROVE ActInv'
<1>1. Bound /\ IncidentSound /\ ChainSound
  BY DEF ActInv, Bound, Sound
<1>2. CASE (Actions \/ Tick) /\ UNCHANGED incVars
  <2>1. Bound' /\ receipts \subseteq receipts' /\ DOMAIN log \subseteq DOMAIN log'
    BY <1>1, <1>2, ActivationKeeps
  <2>2. IncidentSound' /\ ChainSound'
    BY <1>1, <1>2, <2>1, ProgressKeeps
  <2> QED
    BY <2>1, <2>2 DEF ActInv, Bound, Sound
<1>3. CASE IncidentActions
  <2>1. Bound' /\ receipts' = receipts /\ DOMAIN log \subseteq DOMAIN log'
    BY <1>1, <1>3, IncidentKeeps
  <2>2. IncidentSound' /\ ChainSound'
    BY <1>1, <1>3, <2>1, ProgressKeeps
  <2> QED
    BY <2>1, <2>2 DEF ActInv, Bound, Sound
<1>4. CASE UNCHANGED vars
  <2>1. UNCHANGED actVars /\ UNCHANGED incVars
    BY <1>4 DEF vars
  <2>2. Sound' /\ Passes
    BY <1>1, <2>1, QuietSteps DEF Bound
  <2>3. Bound' /\ receipts \subseteq receipts' /\ DOMAIN log \subseteq DOMAIN log'
    BY <1>1, <2>2, PassesKeep
  <2>4. IncidentSound' /\ ChainSound'
    BY <1>1, <2>1, <2>3, ProgressKeeps
  <2> QED
    BY <2>3, <2>4 DEF ActInv, Bound, Sound
<1> QED
  BY <1>2, <1>3, <1>4 DEF Next

\* The invariant gives the types.
LEMMA TypeFollows == ASSUME ActInv PROVE TypeOK
<1>1. /\ log \in Seq(Rows) /\ RowsSound(log)
      /\ source.on => OfEpoch(source.ptr.anchor)
      /\ epochs \subseteq [anchor : Nat \ {0}, closed : BOOLEAN]
      /\ receipts \subseteq Scripts \cup {"evidence"}
      /\ acts \subseteq Phased /\ \A a, b \in acts : a = b
      /\ revision \in 0..4
  BY DEF ActInv, ActType, AnchorsSound
<1>2. ASSUME NEW i \in DOMAIN log
      PROVE  /\ log[i].state \in States /\ log[i].pred \in 0..(i - 1)
             /\ log[i].gen \in {1, 2}
  BY <1>1, RowType DEF RowsSound
<1>3. source.on => source.ptr.anchor # 0
  BY <1>1 DEF OfEpoch
<1>4. Cardinality(acts) <= 1
  <2>1. CASE acts = {}
    BY <2>1, FS_EmptySet
  <2>2. CASE acts # {}
    <3>1. PICK act \in acts : TRUE
      BY <2>2
    <3>2. acts = {act}
      BY <1>1, <3>1
    <3> QED
      <4>1. Cardinality({act}) = 1
        BY FS_Singleton
      <4> QED
        BY <3>2, <4>1
  <2> QED
    BY <2>1, <2>2
<1>5. /\ incident \in Incident /\ deleted \subseteq 1..targets
      /\ content \subseteq {"window", "before", "logs"}
      /\ restored \subseteq {"technical", "privacy"}
      /\ matrixB \in [ok : BOOLEAN, seen : DOMAIN log \cup {0}]
  BY DEF ActInv, IncidentSound
<1>6. matrixB.seen \in 0..Len(log)
  BY <1>1, <1>5, EmptyLog
<1> QED
  BY <1>1, <1>2, <1>3, <1>4, <1>5, <1>6 DEF TypeOK, Scripts

\* The invariant gives the agreement of the anchors.
LEMMA AnchorFollows == ASSUME ActInv PROVE AnchorAgrees
<1>1. AnchorsSound
  BY DEF ActInv
<1>2. ASSUME source.on, OneAnchor PROVE github.anchor = source.ptr.anchor
  BY <1>1, <1>2 DEF AnchorsSound, OfEpoch, OneAnchor
<1> QED
  BY <1>1, <1>2 DEF AnchorAgrees, AnchorsSound

\* The invariant gives the restored binding.
LEMMA RestoredFollows == ASSUME ActInv PROVE RestoredBindingBack
<1>1. restored # {} => Held = Prestate
  BY DEF ActInv, BindingSound, ChainSound
<1>2. CommittedIsLive
  BY DEF ActInv, BindingSound
<1> QED
  BY <1>1, <1>2, TypeFollows DEF RestoredBindingBack

\* The activation's state is sound in every behaviour: the log, the script that
\* mutate runs, the waiting phase, the migration and the incident's progress.
THEOREM ActivationInvariant == Spec => []ActInv
<1>1. Init => ActInv
  BY InitKeeps
<1>2. ActInv /\ [Next]_vars => ActInv'
  BY NextKeeps
<1> QED
  BY <1>1, <1>2, PTL DEF Spec

\* The anchor the scheduler starts from (update_anchor_variables) is the one that
\* ACTIVATE_SOURCE linked, unless persist_reserve inserted two epochs; and it does
\* that only under a row whose transition_at_db sorts before a row already there.
THEOREM AnchorsAgree == Spec => []AnchorAgrees
<1>1. ActInv => AnchorAgrees
  BY AnchorFollows
<1> QED
  BY <1>1, ActivationInvariant, PTL

\* No `restored` row is appended, by append_restored or by rollback-finalize, before
\* restore-github has written the captured binding back, and a binding_committed
\* row is the latest only while GitHub holds the payload, secret included.
THEOREM RestoredIsBack == Spec => []RestoredBindingBack
<1>1. ActInv => RestoredBindingBack
  BY RestoredFollows
<1> QED
  BY <1>1, ActivationInvariant, PTL
==============================================================================
