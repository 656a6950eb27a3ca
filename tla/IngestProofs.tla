---------------------------- MODULE IngestProofs ----------------------------
(***************************************************************************)
(* What comes in and who watches it, for every value of the constants: the *)
(* freshness verifier's record is sound, and the rows the ingestion of one *)
(* source writes are one record, in the order the provider served the      *)
(* texts, with nothing a Reddit walk passed left out.                      *)
(*                                                                         *)
(* Verifier.  A completion commits after the clock reading it stamps the   *)
(* run with, so a snapshot may miss a run that had finished: at most one   *)
(* of each source, as its runs do not overlap (Runs), and the facts that   *)
(* it gives stay true of it (Names).  A record transaction that            *)
(* passed its checks keeps a committed snapshot that saw each run no later *)
(* than the snapshot says (Checked), and writes only over the cursor it    *)
(* began with, so its rows continue the record (RecordGrows).  While the   *)
(* command waits for a transaction, that transaction carries its request   *)
(* (Answers).                                                              *)
(*                                                                         *)
(* Ingestion.  One process has the lease at the stored position (Leased),  *)
(* and what it fetched is no older than any stored version (Timely).  One  *)
(* text of a post is known of one time (Dated), so a post's versions       *)
(* cannot outnumber the changes of the feed.  A Reddit page under way      *)
(* holds the walked posts it will have passed (PageCovers), and those      *)
(* above the stored cursor are covered (WalkSound).                        *)
(***************************************************************************)
EXTENDS SourceIngest, Verifier, FiniteSetTheorems, WellFoundedInduction, TLAPS

-----------------------------------------------------------------------------
(* The freshness verifier *)

Times == 0 .. MaxClock
Slot  == {k \in Times : k % SlotLen = 0}

Fact == [on : BOOLEAN, seq : Nat, fin : {Never} \cup Times, vis : {Never} \cup Times]
Snapshot == [at : Times, facts : [Sources -> Fact]]

Command ==
    [pc : {"idle", "get", "post"}, slot : Slot, started : Int, try : {1, 2},
     id : 0 .. MaxTx, sn : Snapshot \cup {NoSnapshot}]

\* The runs of a source finish one after the other, the one whose completion is
\* not committed last.
Runs(s) ==
    /\ \A i, j \in DOMAIN fin[s] : i < j => fin[s][i] < fin[s][j]
    /\ \A i \in DOMAIN fin[s], e \in ending[s] : fin[s][i] < e
    /\ \A d, e \in ending[s] : d = e
    /\ Len(fin[s]) <= MaxFinish
    /\ ending[s] # {} => Len(fin[s]) < MaxFinish

\* A fact names a published run that had finished, and of the runs after it the
\* first one at most had finished too.
Names(f, at, s) ==
    /\ f.seq \in 0 .. Len(fin[s]) /\ f.fin = FinishedAt(s, f.seq) /\ f.fin <= at
    /\ \A i \in f.seq + 2 .. Len(fin[s]) : at <= fin[s][i]
    /\ f.seq < Len(fin[s]) => \A e \in ending[s] : at <= e

SnapshotTrue(sn) ==
    /\ sn \in Snapshot /\ sn.at <= now
    /\ \A s \in Sources : Names(sn.facts[s], sn.at, s)

\* A committed snapshot showed the run of the fact by the time the fact states.
SeenInTime(f, s) ==
    f.fin # Never =>
        \E x \in snaps : x.facts[s].seq >= f.seq /\ f.fin <= x.at /\ x.at <= f.vis

\* What a record transaction that passed its checks relies on.
Checked(sn, slot) ==
    /\ sn \in snaps /\ slot \in Slot /\ slot <= sn.at
    /\ \A s \in Sources : SeenInTime(sn.facts[s], s)

Transaction(t) ==
    /\ t.id \in 1 .. MaxTx
    /\ t.kind = "snapshot" => SnapshotTrue(t.sn)
    /\ t.kind = "record" =>
          /\ t.ok \in BOOLEAN /\ t.cur \in {Never} \cup Slot
          /\ t.ok => Checked(t.sn, t.slot) /\ VerificationSlots(t.cur, t.slot) # {}

World ==
    /\ now \in Times
    /\ fin \in [Sources -> Seq(0 .. now)] /\ ending \in [Sources -> SUBSET (0 .. now)]
    /\ on \in [Sources -> BOOLEAN] /\ \A s \in Sources : Runs(s)
    /\ \A sn \in snaps : SnapshotTrue(sn)
    /\ \A r \in reports : r.how \in {"succeeded", "failed"}

Transactions ==
    /\ IsFiniteSet(tx) /\ Cardinality(tx) <= MaxTx
    /\ \A t \in tx : Transaction(t)
    /\ \A t, u \in tx : t.id = u.id => t = u

\* The command waits for a transaction that carries its own request.
Answers ==
    /\ client \in Command
    /\ \A t \in tx : t.id = client.id /\ t.kind = "record" /\ client.pc = "post" =>
          t.slot = client.slot /\ t.sn = client.sn

\* The record runs without a hole to the cursor, one row for a source and slot.
RecordGrows ==
    /\ cursor \in {Never} \cup Slot
    /\ cursor = Never => obs = {}
    /\ \A o \in obs : o.slot \in Slot /\ o.slot <= cursor /\ o.source \in Sources
    /\ \A o \in obs, k \in Slot, s \in Sources : o.slot <= k /\ k <= cursor =>
          \E p \in obs : p.slot = k /\ p.source = s
    /\ \A o, p \in obs : o.slot = p.slot /\ o.source = p.source => o = p

\* A verdict is the one its snapshot gives, and its snapshot decides one slot.
VerdictsDerived ==
    /\ \A o \in obs : o.sn \in snaps
    /\ \A o \in obs : o.status # "missing" =>
          Checked(o.sn, o.slot) /\ o.status = Results(o.sn)[o.source]
    /\ \A o, p \in obs :
          o.sn = p.sn /\ o.status # "missing" /\ p.status # "missing" => o.slot = p.slot

VerifierInv ==
    /\ World /\ Transactions /\ Answers
    /\ RecordGrows /\ VerdictsDerived /\ SuccessIsRecorded

-----------------------------------------------------------------------------
(* Numbers *)

\* A set of numbers has a smallest one.
LEMMA MinFacts ==
    ASSUME NEW T, T \subseteq Nat, T # {}
    PROVE  Min(T) \in T /\ \A y \in T : Min(T) <= y
<1> DEFINE R == OpToRel(<, Nat)
<1>1. \A x, y \in Nat : x < y => <<x, y>> \in R  BY DEF OpToRel
<1>2. IsWellFoundedOn(R, Nat)  BY NatLessThanWellFounded
<1>3. T \subseteq Nat /\ T # {}  OBVIOUS
<1> HIDE DEF R
<1>4. PICK x \in T : \A y \in T : ~(<<y, x>> \in R)  BY <1>2, <1>3, WFMin
<1>5. ASSUME NEW y \in T PROVE x <= y
  <2>1. x \in Nat /\ y \in Nat /\ ~(y < x)  BY <1>1, <1>3, <1>4
  <2> QED  BY <2>1
<1> QED  BY <1>5 DEF Min

\* A bounded set of times, "never" among them, has a largest one.
LEMMA MaxFacts ==
    ASSUME NEW n \in Nat, NEW S, S \subseteq {Never} \cup 0 .. n, S # {}
    PROVE  Max(S) \in S /\ \A y \in S : y <= Max(S)
<1> DEFINE T == {n - x : x \in S}
<1>0. \A x \in S : x \in Int /\ x <= n /\ n - x \in Nat /\ n - x \in T  BY DEF Never
<1>1. T \subseteq Nat /\ T # {}  BY <1>0
<1>2. \E m \in T : \A y \in T : m <= y
  <2> HIDE DEF T
  <2> QED  BY <1>1, MinFacts
<1>3. PICK x \in S : \A y \in S : n - x <= n - y  BY <1>2
<1>4. \A y \in S : y <= x
  <2> TAKE y \in S
  <2>1. n - x <= n - y /\ x \in Int /\ y \in Int  BY <1>0, <1>3
  <2> QED  BY <2>1
<1>5. \E z \in S : \A y \in S : z >= y
  <2>1. \A y \in S : x >= y
    <3> TAKE y \in S
    <3>1. y <= x /\ x \in Int /\ y \in Int  BY <1>0, <1>4
    <3> QED  BY <3>1
  <2> QED  BY <2>1
<1>6. Max(S) \in S /\ \A y \in S : Max(S) >= y  BY <1>5, Zenon DEF Max
<1>7. \A y \in S : y <= Max(S)
  <2> TAKE y \in S
  <2>1. Max(S) \in Int /\ y \in Int /\ Max(S) >= y  BY <1>0, <1>6
  <2> QED  BY <2>1
<1> QED  BY <1>6, <1>7

\* The elements of a sequence, by position.
LEMMA SequenceElements ==
    ASSUME NEW T, NEW q \in Seq(T)
    PROVE  DOMAIN q = 1 .. Len(q) /\ \A i \in 1 .. Len(q) : q[i] \in T
  OBVIOUS

\* Division with a rest below the divisor.
LEMMA QuotientRest ==
    ASSUME NEW P \in Nat \ {0}, NEW t \in Int
    PROVE  /\ t % P \in 0 .. (P - 1)
           /\ t \div P \in Int
           /\ t = ((t \div P) * P) + (t % P)
  BY SMT

\* The rest of a sum that is written as quotient and rest.
LEMMA RestOfSum ==
    ASSUME NEW P \in Nat \ {0}, NEW q \in Int, NEW r \in 0 .. (P - 1)
    PROVE  (q * P + r) % P = r
  BY SMT

\* From a slot on, the slots are whole intervals away.
LEMMA SlotsApart ==
    ASSUME VerifierAssumption, NEW a \in Int, NEW k \in Int, a % SlotLen = 0
    PROVE  (k - a) % SlotLen = 0 <=> k % SlotLen = 0
<1>0. SlotLen \in Nat \ {0}  BY DEF VerifierAssumption
<1> DEFINE q == a \div SlotLen
           w == k \div SlotLen
           v == (k - a) \div SlotLen
<1>1. a = q * SlotLen /\ q \in Int  BY <1>0, QuotientRest
<1>2. k = w * SlotLen + (k % SlotLen) /\ w \in Int  BY <1>0, QuotientRest
<1>3. k - a = v * SlotLen + ((k - a) % SlotLen) /\ v \in Int
  <2>1. k - a \in Int  OBVIOUS
  <2> QED  BY <1>0, <2>1, QuotientRest
<1> HIDE DEF q, w, v
<1>4. ASSUME k % SlotLen = 0 PROVE (k - a) % SlotLen = 0
  <2>1. k - a = (w - q) * SlotLen + 0  BY <1>0, <1>1, <1>2, <1>4
  <2>2. w - q \in Int /\ 0 \in 0 .. (SlotLen - 1)  BY <1>0, <1>1, <1>2
  <2> QED  BY <1>0, <2>1, <2>2, RestOfSum
<1>5. ASSUME (k - a) % SlotLen = 0 PROVE k % SlotLen = 0
  <2>1. k = (v + q) * SlotLen + 0  BY <1>0, <1>1, <1>3, <1>5
  <2>2. v + q \in Int /\ 0 \in 0 .. (SlotLen - 1)  BY <1>0, <1>1, <1>3
  <2> QED  BY <1>0, <2>1, <2>2, RestOfSum
<1> QED  BY <1>4, <1>5
-----------------------------------------------------------------------------
(* Snapshots *)

\* The first visibility of a run, when a committed snapshot showed it in time.
LEMMA FirstVisibilityFacts ==
    ASSUME NEW s \in Sources, NEW seq, NEW f,
           \A sn \in snaps : sn.at \in Nat
    PROVE  /\ FirstVisibility(s, seq, f) # Never =>
                \E x \in snaps : /\ x.facts[s].seq >= seq /\ x.at >= f
                                 /\ x.at = FirstVisibility(s, seq, f)
           /\ \A x \in snaps : x.facts[s].seq >= seq /\ x.at >= f =>
                FirstVisibility(s, seq, f) \in Nat /\ FirstVisibility(s, seq, f) <= x.at
<1> DEFINE ats == {sn.at : sn \in {x \in snaps : x.facts[s].seq >= seq /\ x.at >= f}}
<1>1. FirstVisibility(s, seq, f) = IF ats = {} THEN Never ELSE Min(ats)
  BY DEF FirstVisibility
<1>2. ats \subseteq Nat  OBVIOUS
<1>3. \A a \in ats : \E x \in snaps : x.facts[s].seq >= seq /\ x.at >= f /\ x.at = a
  OBVIOUS
<1>4. \A x \in snaps : x.facts[s].seq >= seq /\ x.at >= f => x.at \in ats
  OBVIOUS
<1> HIDE DEF ats
<1>5. ats # {} => Min(ats) \in ats /\ \A y \in ats : Min(ats) <= y  BY <1>2, MinFacts
<1>6. ASSUME FirstVisibility(s, seq, f) # Never
      PROVE  FirstVisibility(s, seq, f) \in ats
  BY <1>1, <1>5, <1>6
<1>7. ASSUME NEW x \in snaps, x.facts[s].seq >= seq, x.at >= f
      PROVE  FirstVisibility(s, seq, f) \in Nat /\ FirstVisibility(s, seq, f) <= x.at
  BY <1>1, <1>2, <1>4, <1>5, <1>7
<1> QED  BY <1>3, <1>6, <1>7

\* The published run that finished last has the last number.
LEMMA LatestFacts ==
    ASSUME World, NEW s \in Sources
    PROVE  Latest(s) = Len(fin[s]) /\ Len(fin[s]) \in Nat
<1>0. now \in Nat  BY DEF World, Times
<1>1. PICK q \in Seq(0 .. now) : q = fin[s]  BY DEF World
<1>2. \A i, j \in DOMAIN q : i < j => q[i] < q[j]  BY <1>1 DEF World, Runs
<1>3. CASE q = <<>>  BY <1>1, <1>3 DEF Latest
<1>4. CASE q # <<>>
  <2>1. Len(q) \in DOMAIN q /\ DOMAIN q = 1 .. Len(q) /\ Len(q) \in Nat
        /\ \A i \in DOMAIN q : q[i] \in Int
    BY <1>0, <1>1, <1>4
  <2>2. \A j \in DOMAIN q : q[j] <= q[Len(q)]  BY <1>2, <2>1
  <2>3. \A i \in DOMAIN q : (\A j \in DOMAIN q : q[j] <= q[i]) => i = Len(q)
    <3>1. SUFFICES ASSUME NEW i \in DOMAIN q, q[Len(q)] <= q[i], i # Len(q) PROVE FALSE
      BY <2>1
    <3>2. i < Len(q)  BY <2>1, <3>1
    <3>3. q[i] < q[Len(q)]  BY <1>2, <2>1, <3>2
    <3> QED  BY <2>1, <3>1, <3>3
  <2>4. (CHOOSE i \in DOMAIN q : \A j \in DOMAIN q : q[j] <= q[i]) = Len(q)
    BY <2>1, <2>2, <2>3, Zenon
  <2> QED  BY <1>1, <1>4, <2>1, <2>4 DEF Latest
<1> QED  BY <1>3, <1>4

\* What a read of the run tables returns is true of the time it is made.
LEMMA CanonicalSnapshotTrue ==
    ASSUME VerifierAssumption, World
    PROVE  SnapshotTrue(CanonicalSnapshot)
<1>1. now \in Times /\ MaxClock \in Nat /\ now \in Nat /\ now <= now
  BY DEF World, Times, VerifierAssumption
<1>2. ASSUME NEW s \in Sources
      PROVE  SourceFacts(s) \in Fact /\ Names(SourceFacts(s), now, s)
  <2>1. PICK n \in Nat : n = Latest(s) /\ n = Len(fin[s])  BY LatestFacts
  <2>2. on[s] \in BOOLEAN  BY DEF World
  <2>3. FinishedAt(s, n) \in {Never} \cup 0 .. now
    <3>1. PICK q \in Seq(0 .. now) : q = fin[s]  BY DEF World
    <3>2. n = Len(q)  BY <2>1, <3>1
    <3>3. n # 0 => n \in 1 .. Len(q)  BY <3>2
    <3>4. \A i \in 1 .. Len(q) : q[i] \in 0 .. now  BY SequenceElements
    <3> QED  BY <3>1, <3>3, <3>4 DEF FinishedAt
  <2>4. PICK z \in {Never} \cup 0 .. now : z = FinishedAt(s, n)  BY <2>3
  <2>5. z \in {Never} \cup Times /\ z <= now  BY <1>1 DEF Times, Never
  <2>6. FirstVisibility(s, n, z) \in {Never} \cup Times
    <3>1. \A sn \in snaps : sn.at \in Times /\ sn.at \in Nat
      BY DEF World, SnapshotTrue, Snapshot, Times
    <3> QED  BY <3>1, FirstVisibilityFacts
  <2>7. PICK v \in {Never} \cup Times :
           SourceFacts(s) = [on |-> on[s], seq |-> n, fin |-> z, vis |-> v]
    <3>1. SourceFacts(s) =
             [on |-> on[s], seq |-> n, fin |-> z,
              vis |-> IF n = 0 THEN Never
                      ELSE IF FirstVisibility(s, n, z) = Never THEN now
                      ELSE FirstVisibility(s, n, z)]
      BY <2>1, <2>4 DEF SourceFacts
    <3> QED  BY <1>1, <2>6, <3>1
  <2>8. SourceFacts(s) \in Fact  BY <2>2, <2>5, <2>7 DEF Fact
  <2>9. SourceFacts(s).seq = n /\ SourceFacts(s).fin = z  BY <2>7
  <2>10. n \in 0 .. Len(fin[s]) /\ ~(n < Len(fin[s])) /\ n + 2 .. Len(fin[s]) = {}
    BY <2>1
  <2> QED  BY <2>4, <2>5, <2>8, <2>9, <2>10 DEF Names
<1> DEFINE facts == [s \in Sources |-> SourceFacts(s)]
<1>3. facts \in [Sources -> Fact]  BY <1>2
<1>4. CanonicalSnapshot = [at |-> now, facts |-> facts]  BY DEF CanonicalSnapshot
<1>5. \A s \in Sources : Names(facts[s], now, s)  BY <1>2
<1> HIDE DEF facts
<1>6. CanonicalSnapshot \in Snapshot  BY <1>1, <1>3, <1>4 DEF Snapshot
<1>7. CanonicalSnapshot.at = now /\ CanonicalSnapshot.facts = facts  BY <1>4
<1> QED  BY <1>1, <1>5, <1>6, <1>7 DEF SnapshotTrue

-----------------------------------------------------------------------------
(* Transactions *)

\* Below the bound on open transactions there is an id that none of them has.
LEMMA FreshIdFacts ==
    ASSUME VerifierAssumption, Transactions, Cardinality(tx) < MaxTx
    PROVE  FreshId \in 1 .. MaxTx /\ \A t \in tx : t.id # FreshId
<1>1. MaxTx \in Nat  BY DEF VerifierAssumption
<1>2. IsFiniteSet(tx) /\ Cardinality(tx) \in Nat  BY FS_CardinalityType DEF Transactions
<1> DEFINE ids == {t.id : t \in tx}
           name == [t \in tx |-> t.id]
<1>3. name \in Surjection(tx, ids)
  <2>1. name \in [tx -> ids]  OBVIOUS
  <2>2. \A i \in ids : \E t \in tx : name[t] = i  OBVIOUS
  <2> HIDE DEF name, ids
  <2> QED  BY <2>1, <2>2 DEF Surjection
<1>4. \A t \in tx : t.id \in ids  OBVIOUS
<1> HIDE DEF name, ids
<1>5. IsFiniteSet(ids) /\ Cardinality(ids) <= Cardinality(tx)  BY <1>2, <1>3, FS_Surjection
<1>6. \E i \in 1 .. MaxTx : i \notin ids
  <2>1. SUFFICES ASSUME 1 .. MaxTx \subseteq ids PROVE FALSE  OBVIOUS
  <2>2. Cardinality(1 .. MaxTx) <= Cardinality(ids)  BY <1>5, <2>1, FS_Subset
  <2>3. Cardinality(1 .. MaxTx) = MaxTx  BY <1>1, FS_Interval
  <2>4. Cardinality(ids) \in Nat  BY <1>5, FS_CardinalityType
  <2> QED  BY <1>1, <1>2, <1>5, <2>2, <2>3, <2>4
<1>7. \E i \in 1 .. MaxTx : \A t \in tx : t.id # i  BY <1>4, <1>6
<1> QED  BY <1>7, Zenon DEF FreshId

\* Opening one more transaction stays within the bound.
LEMMA OneMore ==
    ASSUME VerifierAssumption, IsFiniteSet(tx), Cardinality(tx) < MaxTx, NEW t
    PROVE  IsFiniteSet(tx \cup {t}) /\ Cardinality(tx \cup {t}) <= MaxTx
<1>1. MaxTx \in Nat /\ Cardinality(tx) \in Nat  BY FS_CardinalityType DEF VerifierAssumption
<1>2. /\ IsFiniteSet(tx \cup {t})
      /\ Cardinality(tx \cup {t}) = IF t \in tx THEN Cardinality(tx) ELSE Cardinality(tx) + 1
  BY FS_AddElement
<1> QED  BY <1>1, <1>2

\* Ending one leaves fewer.
LEMMA OneLess ==
    ASSUME VerifierAssumption, IsFiniteSet(tx), Cardinality(tx) <= MaxTx, NEW t
    PROVE  IsFiniteSet(tx \ {t}) /\ Cardinality(tx \ {t}) <= MaxTx
<1>1. MaxTx \in Nat /\ Cardinality(tx) \in Nat  BY FS_CardinalityType DEF VerifierAssumption
<1>2. IsFiniteSet(tx \ {t}) /\ Cardinality(tx \ {t}) <= Cardinality(tx)
  <2>1. tx \ {t} \subseteq tx  OBVIOUS
  <2> QED  BY <2>1, FS_Subset
<1>3. Cardinality(tx \ {t}) \in Nat  BY <1>2, FS_CardinalityType
<1> QED  BY <1>1, <1>2, <1>3
-----------------------------------------------------------------------------
(* What stands while other state changes *)

\* Checks passed stay passed: committed snapshots only join.
LEMMA CheckedStands ==
    ASSUME NEW sn, NEW slot, Checked(sn, slot), snaps \subseteq snaps'
    PROVE  Checked(sn, slot)'
  BY DEF Checked, SeenInTime

\* A true snapshot stays true while no completion begins or ends.
LEMMA TruthStands ==
    ASSUME NEW sn, SnapshotTrue(sn), now \in Nat, now' \in Nat, now <= now', fin' = fin,
           ending' = ending
    PROVE  SnapshotTrue(sn)'
<1>1. sn.at <= now'  BY DEF SnapshotTrue, Snapshot, Times
<1> QED  BY <1>1 DEF SnapshotTrue, Names, FinishedAt

\* So does an open transaction.
LEMMA TransactionStands ==
    ASSUME NEW t, Transaction(t), now \in Nat, now' \in Nat, now <= now', fin' = fin,
           ending' = ending, snaps \subseteq snaps'
    PROVE  Transaction(t)'
<1>1. t.kind = "snapshot" => SnapshotTrue(t.sn)'  BY TruthStands DEF Transaction
<1>2. t.ok /\ t.kind = "record" => Checked(t.sn, t.slot)'
  BY CheckedStands DEF Transaction
<1>3. (t.id \in 1 .. MaxTx)'  BY DEF Transaction
<1>4. t.kind = "record" =>
         /\ t.ok \in BOOLEAN /\ t.cur \in {Never} \cup Slot
         /\ t.ok => VerificationSlots(t.cur, t.slot) # {}
  BY DEF Transaction
<1> QED  BY <1>1, <1>2, <1>3, <1>4 DEF Transaction

\* The record and its verdicts, while nothing is recorded.
LEMMA RecordStands ==
    ASSUME RecordGrows, VerdictsDerived, snaps \subseteq snaps', UNCHANGED <<obs, cursor>>
    PROVE  RecordGrows' /\ VerdictsDerived'
<1>1. RecordGrows'  BY DEF RecordGrows
<1>2. \A o \in obs : o.status # "missing" => Checked(o.sn, o.slot)'
  BY CheckedStands DEF VerdictsDerived
<1>3. VerdictsDerived'  BY <1>2 DEF VerdictsDerived
<1> QED  BY <1>1, <1>3

\* What was reported as a success stays on record.
LEMMA SuccessStands ==
    ASSUME SuccessIsRecorded, obs \subseteq obs',
           \A r \in reports' : r.how = "succeeded" => r \in reports
    PROVE  SuccessIsRecorded'
  BY DEF SuccessIsRecorded

\* No command is one that could be.
LEMMA NoCommandTyped ==
    ASSUME VerifierAssumption
    PROVE  NoCommand \in Command /\ NoCommand.id = 0
<1>1. 0 \in Slot /\ 0 \in 0 .. MaxTx  BY DEF VerifierAssumption, Slot, Times
<1> QED  BY <1>1 DEF NoCommand, Command

\* A second try is a command.
LEMMA RetryTyped ==
    ASSUME VerifierAssumption, NEW c \in Command
    PROVE  /\ [c EXCEPT !.try = 2, !.id = 0] \in Command
           /\ [c EXCEPT !.try = 2, !.id = 0].id = 0
<1> DEFINE S == Snapshot \cup {NoSnapshot}
           I == 0 .. MaxTx
<1>1. 0 \in I  BY DEF VerifierAssumption
<1>2. c \in [pc : {"idle", "get", "post"}, slot : Slot, started : Int, try : {1, 2},
              id : I, sn : S]
  BY DEF Command
<1> HIDE DEF S, I
<1>3. [c EXCEPT !.try = 2, !.id = 0] \in
          [pc : {"idle", "get", "post"}, slot : Slot, started : Int, try : {1, 2},
           id : I, sn : S]
  BY <1>1, <1>2
<1>4. [c EXCEPT !.try = 2, !.id = 0].id = 0  BY <1>2
<1> QED  BY <1>3, <1>4 DEF S, I, Command

\* A command that starts over waits for nothing.
LEMMA AgainAnswers ==
    ASSUME VerifierAssumption, Answers, Again, tx' \subseteq tx,
           \A t \in tx : t.id \in 1 .. MaxTx
    PROVE  /\ Answers'
           /\ \A r \in reports' : r \in reports \/ r.how = "failed"
<1>0. MaxTx \in Nat  BY DEF VerifierAssumption
<1>1. \A t \in tx' : t.id # 0  BY <1>0
<1>2. client' \in Command /\ client'.id = 0
  <2>1. client \in Command  BY DEF Answers
  <2>2. CASE client.try = 1
    <3>1. client' = [client EXCEPT !.try = 2, !.id = 0]  BY <2>2 DEF Again
    <3> QED  BY <2>1, <3>1, RetryTyped
  <2>3. CASE client.try # 1
    <3>1. client' = NoCommand  BY <2>3 DEF Again, Report
    <3> QED  BY <3>1, NoCommandTyped
  <2> QED  BY <2>2, <2>3
<1>4. Answers'  BY <1>1, <1>2 DEF Answers
<1>5. \A r \in reports' : r \in reports \/ r.how = "failed"  BY DEF Again, Report
<1> QED  BY <1>4, <1>5
\* So is a command that waits for a call.
LEMMA WaitTyped ==
    ASSUME VerifierAssumption, NEW c \in Command, NEW i \in 0 .. MaxTx,
           NEW w, w = [c EXCEPT !.id = i]
    PROVE  w \in Command /\ w.id = i /\ w.slot = c.slot /\ w.sn = c.sn
<1> DEFINE S == Snapshot \cup {NoSnapshot}
           I == 0 .. MaxTx
           C == [pc : {"idle", "get", "post"}, slot : Slot, started : Int, try : {1, 2},
                 id : I, sn : S]
<1>0. Command = C /\ i \in I /\ c \in C  BY DEF Command
<1> HIDE DEF S, I
<1>1. w \in C /\ w.id = i /\ w.slot = c.slot /\ w.sn = c.sn  BY <1>0
<1> QED  BY <1>0, <1>1

\* And one that got its snapshot.
LEMMA PostTyped ==
    ASSUME VerifierAssumption, NEW c \in Command, NEW sn \in Snapshot,
           NEW w, w = [c EXCEPT !.pc = "post", !.sn = sn, !.id = 0, !.try = 1]
    PROVE  w \in Command /\ w.id = 0
<1> DEFINE S == Snapshot \cup {NoSnapshot}
           I == 0 .. MaxTx
           C == [pc : {"idle", "get", "post"}, slot : Slot, started : Int, try : {1, 2},
                 id : I, sn : S]
<1>0. Command = C /\ 0 \in I /\ c \in C /\ sn \in S
  BY DEF Command, VerifierAssumption
<1> HIDE DEF S, I
<1>1. w \in C /\ w.id = 0  BY <1>0
<1> QED  BY <1>0, <1>1

-----------------------------------------------------------------------------
(* The world *)

\* Time passes.
LEMMA ClockStep ==
    ASSUME VerifierAssumption, VerifierInv, ClockTick
    PROVE  VerifierInv'
<1> USE DEF VerifierInv
<1>1. now \in Nat /\ now' \in Nat /\ now <= now' /\ now' \in Times
  BY DEF ClockTick, World, Times, VerifierAssumption
<1>2. UNCHANGED <<fin, ending, on, snaps, cursor, obs, tx, client, reports>>  BY DEF ClockTick
<1>3. World'
  <2>1. \A sn \in snaps : SnapshotTrue(sn)'  BY <1>1, <1>2, TruthStands DEF World
  <2>2. 0 .. now \subseteq 0 .. now'  BY <1>1
  <2>3. /\ fin \in [Sources -> Seq(0 .. now')]
        /\ ending \in [Sources -> SUBSET (0 .. now')]
    <3>1. PICK S : S = 0 .. now  OBVIOUS
    <3>2. PICK T : T = 0 .. now'  OBVIOUS
    <3>3. S \subseteq T  BY <2>2, <3>1, <3>2
    <3>4. ASSUME NEW x \in Sources PROVE fin[x] \in Seq(T)
      <4>1. PICK q \in Seq(S) : q = fin[x]  BY <3>1 DEF World
      <4>2. q \in Seq(T)  BY <3>3
      <4> QED  BY <4>1, <4>2
    <3>5. fin \in [Sources -> Seq(T)]  BY <3>4 DEF World
    <3> QED  BY <2>2, <3>2, <3>5 DEF World
  <2>4. \A s \in Sources : Runs(s)'  BY <1>2 DEF World, Runs
  <2> QED  BY <1>1, <1>2, <2>1, <2>3, <2>4 DEF World
<1>4. Transactions'
  <2>1. \A t \in tx : Transaction(t)'
    BY <1>1, <1>2, TransactionStands DEF Transactions
  <2> QED  BY <1>2, <2>1 DEF Transactions
<1>5. Answers'  BY <1>2 DEF Answers
<1>6. (RecordGrows /\ VerdictsDerived /\ SuccessIsRecorded)'  BY <1>2, RecordStands, SuccessStands
<1> QED  BY <1>3, <1>4, <1>5, <1>6

\* A step of the completions that keeps the runs in order and every true snapshot
\* true keeps the invariant.
LEMMA CompletionStands ==
    ASSUME VerifierAssumption, VerifierInv,
           UNCHANGED <<now, on, snaps, cursor, obs, tx, client, reports>>,
           fin' \in [Sources -> Seq(0 .. now)], ending' \in [Sources -> SUBSET (0 .. now)],
           \A x \in Sources : Runs(x)',
           \A f, at, x : x \in Sources /\ at <= now /\ at \in Nat /\ f.seq \in Nat
               /\ Names(f, at, x) => Names(f, at, x)'
    PROVE  VerifierInv'
<1> USE DEF VerifierInv
<1>1. ASSUME NEW sn, SnapshotTrue(sn) PROVE SnapshotTrue(sn)'
  <2>1. sn.at \in Nat /\ sn.at <= now /\ sn \in Snapshot
    BY <1>1 DEF SnapshotTrue, Snapshot, Times
  <2>2. \A x \in Sources : sn.facts[x].seq \in Nat  BY <2>1 DEF Snapshot, Fact
  <2>3. \A x \in Sources : Names(sn.facts[x], sn.at, x)'  BY <1>1, <2>1, <2>2 DEF SnapshotTrue
  <2> QED  BY <2>1, <2>3 DEF SnapshotTrue
<1>2. World'  BY <1>1 DEF World
<1>3. Transactions'
  <2>1. ASSUME NEW t \in tx PROVE Transaction(t)'
    <3>1. Transaction(t)  BY DEF Transactions
    <3>2. t.kind = "snapshot" => SnapshotTrue(t.sn)'  BY <1>1, <3>1 DEF Transaction
    <3>3. t.ok /\ t.kind = "record" => Checked(t.sn, t.slot)'
      BY <3>1, CheckedStands DEF Transaction
    <3> QED  BY <3>1, <3>2, <3>3 DEF Transaction
  <2> QED  BY <2>1 DEF Transactions
<1>4. Answers'  BY DEF Answers
<1>5. (RecordGrows /\ VerdictsDerived /\ SuccessIsRecorded)'  BY RecordStands, SuccessStands
<1> QED  BY <1>2, <1>3, <1>4, <1>5

\* A completion begins: its run finishes after the others, and no snapshot is
\* later than its clock reading.
LEMMA BeginCompletionStep ==
    ASSUME VerifierAssumption, VerifierInv, NEW s \in Sources, BeginCompletion(s)
    PROVE  VerifierInv'
<1> USE DEF VerifierInv
<1>1. UNCHANGED <<now, fin, on, snaps, cursor, obs, tx, client, reports>>
  BY DEF BeginCompletion
<1>2. now \in Nat /\ now \in 0 .. now  BY DEF World, Times
<1>3. ending \in [Sources -> SUBSET (0 .. now)] /\ ending[s] = {}
  BY DEF World, BeginCompletion, OneActive
<1>4. ending' = [ending EXCEPT ![s] = {now}]  BY <1>3 DEF BeginCompletion
<1>5. ending'[s] = {now} /\ \A x \in Sources : x # s => ending'[x] = ending[x]
  BY <1>3, <1>4
<1>6. ending' \in [Sources -> SUBSET (0 .. now)]  BY <1>2, <1>3, <1>4
<1>7. ASSUME NEW x \in Sources PROVE Runs(x)'
  <2>1. Runs(x)  BY DEF World
  <2>2. CASE x # s  BY <1>1, <1>5, <2>1, <2>2 DEF Runs
  <2>3. CASE x = s
    <3>1. Len(fin[s]) < MaxFinish /\ \A i \in DOMAIN fin[s] : fin[s][i] < now
      BY DEF BeginCompletion
    <3> QED  BY <1>1, <1>5, <2>1, <2>3, <3>1 DEF Runs
  <2> QED  BY <2>2, <2>3
<1>8. ASSUME NEW f, NEW at, NEW x, x \in Sources, at <= now, Names(f, at, x)
      PROVE  Names(f, at, x)'
  <2>1. \A e \in ending'[x] : e = now \/ e \in ending[x]  BY <1>5, <1>8
  <2> QED  BY <1>1, <1>8, <2>1 DEF Names, FinishedAt
<1>9. fin' \in [Sources -> Seq(0 .. now)]  BY <1>1 DEF World
<1> QED  BY <1>1, <1>6, <1>7, <1>8, <1>9, CompletionStands

\* A completion commits: its run is the next one published, and it is the only one
\* that a snapshot taken since its clock reading has missed.
LEMMA CommitCompletionStep ==
    ASSUME VerifierAssumption, VerifierInv, NEW s \in Sources, NEW e \in ending[s],
           CommitCompletion(s, e)
    PROVE  VerifierInv'
<1> USE DEF VerifierInv
<1>1. UNCHANGED <<now, on, snaps, cursor, obs, tx, client, reports>>
  BY DEF CommitCompletion
<1>2. now \in Nat /\ fin \in [Sources -> Seq(0 .. now)]
      /\ ending \in [Sources -> SUBSET (0 .. now)]
  BY DEF World, Times
<1>3. Runs(s) /\ ending[s] = {e} /\ e \in 0 .. now  BY <1>2 DEF World, Runs
<1>4. fin' = [fin EXCEPT ![s] = Append(fin[s], e)] /\ ending' = [ending EXCEPT ![s] = {}]
  BY <1>2, <1>3 DEF CommitCompletion
<1>5. PICK q \in Seq(0 .. now) : q = fin[s]  BY <1>2
<1>6. PICK r \in Seq(0 .. now) : r = Append(q, e)
  <2>1. PICK T : T = 0 .. now  OBVIOUS
  <2>2. q \in Seq(T) /\ e \in T  BY <1>3, <1>5, <2>1
  <2>3. Append(q, e) \in Seq(T)  BY <2>2
  <2> QED  BY <2>1, <2>3
<1>7. /\ fin'[s] = r /\ ending'[s] = {}
      /\ \A x \in Sources : x # s => fin'[x] = fin[x] /\ ending'[x] = ending[x]
      /\ fin' \in [Sources -> Seq(0 .. now)] /\ ending' \in [Sources -> SUBSET (0 .. now)]
  BY <1>2, <1>4, <1>5, <1>6
<1>8. /\ Len(r) = Len(q) + 1 /\ Len(q) \in Nat /\ DOMAIN r = 1 .. Len(r)
      /\ DOMAIN q = 1 .. Len(q) /\ r[Len(r)] = e /\ \A i \in DOMAIN q : r[i] = q[i]
  BY <1>3, <1>5, <1>6
<1>9. ASSUME NEW x \in Sources PROVE Runs(x)'
  <2>1. CASE x # s
    <3>1. Runs(x)  BY DEF World
    <3> QED  BY <1>7, <2>1, <3>1 DEF Runs
  <2>2. CASE x = s
    <3>1. Len(r) <= MaxFinish
      <4>1. Len(q) < MaxFinish  BY <1>3, <1>5 DEF Runs
      <4> QED  BY <1>8, <4>1 DEF VerifierAssumption
    <3>2. ASSUME NEW i \in DOMAIN r, NEW j \in DOMAIN r, i < j PROVE r[i] < r[j]
      <4>1. i \in DOMAIN q /\ (j \in DOMAIN q \/ j = Len(r))  BY <1>8, <3>2
      <4>2. CASE j \in DOMAIN q
        <5>1. q[i] < q[j]  BY <1>3, <1>5, <3>2, <4>1, <4>2 DEF Runs
        <5> QED  BY <1>8, <4>1, <4>2, <5>1
      <4>3. CASE j = Len(r)
        <5>1. q[i] < e  BY <1>3, <1>5, <4>1 DEF Runs
        <5> QED  BY <1>8, <4>1, <4>3, <5>1
      <4> QED  BY <4>1, <4>2, <4>3
    <3> QED  BY <1>7, <2>2, <3>1, <3>2 DEF Runs
  <2> QED  BY <2>1, <2>2
<1>10. ASSUME NEW f, NEW at, NEW x, x \in Sources, f.seq \in Nat, Names(f, at, x)
       PROVE  Names(f, at, x)'
  <2>1. CASE x # s  BY <1>7, <1>10, <2>1 DEF Names, FinishedAt
  <2>2. CASE x = s
    <3>0. PICK n \in Nat : n = f.seq  BY <1>10
    <3>1. /\ n \in 0 .. Len(q) /\ f.fin = FinishedAt(s, n) /\ f.fin <= at
          /\ \A i \in n + 2 .. Len(q) : at <= q[i]
          /\ n < Len(q) => at <= e
      BY <1>3, <1>5, <1>10, <2>2, <3>0 DEF Names
    <3>2. n \in 0 .. Len(r)  BY <1>8, <3>1
    <3>3. f.fin = FinishedAt(s, n)'
      <4>1. n # 0 => n \in DOMAIN q  BY <1>8, <3>1
      <4> QED  BY <1>5, <1>7, <1>8, <3>1, <4>1 DEF FinishedAt
    <3>4. ASSUME NEW i \in n + 2 .. Len(r) PROVE at <= r[i]
      <4>1. CASE i \in DOMAIN q
        <5>1. i \in n + 2 .. Len(q)  BY <1>8, <4>1
        <5> QED  BY <1>8, <3>1, <4>1, <5>1
      <4>2. CASE i \notin DOMAIN q
        <5>1. i = Len(r) /\ n < Len(q)  BY <1>8, <3>0, <4>2
        <5> QED  BY <1>8, <3>1, <5>1
      <4> QED  BY <4>1, <4>2
    <3> QED  BY <1>7, <2>2, <3>0, <3>1, <3>2, <3>3, <3>4 DEF Names
  <2> QED  BY <2>1, <2>2
<1> QED  BY <1>1, <1>7, <1>9, <1>10, CompletionStands

\* A completion is rolled back.
LEMMA RollBackStep ==
    ASSUME VerifierAssumption, VerifierInv, NEW s \in Sources, NEW e \in ending[s],
           RollBackCompletion(s, e)
    PROVE  VerifierInv'
<1> USE DEF VerifierInv
<1>1. UNCHANGED <<now, fin, on, snaps, cursor, obs, tx, client, reports>>
  BY DEF RollBackCompletion
<1>2. ending \in [Sources -> SUBSET (0 .. now)] /\ fin' \in [Sources -> Seq(0 .. now)]
  BY <1>1 DEF World
<1>3. ending' = [ending EXCEPT ![s] = ending[s] \ {e}]  BY DEF RollBackCompletion
<1>4. ending' \in [Sources -> SUBSET (0 .. now)]
      /\ \A x \in Sources : ending'[x] \subseteq ending[x]
  BY <1>2, <1>3
<1>5. \A x \in Sources : Runs(x)'
  <2> TAKE x \in Sources
  <2>1. Runs(x)  BY DEF World
  <2>2. ending'[x] \subseteq ending[x]  BY <1>4
  <2> QED  BY <1>1, <2>1, <2>2 DEF Runs
<1>6. \A f, at, x : x \in Sources /\ Names(f, at, x) => Names(f, at, x)'
  <2> TAKE f, at, x
  <2> HAVE x \in Sources /\ Names(f, at, x)
  <2>1. ending'[x] \subseteq ending[x]  BY <1>4
  <2> QED  BY <1>1, <2>1 DEF Names, FinishedAt
<1> QED  BY <1>1, <1>2, <1>4, <1>5, <1>6, CompletionStands

\* A source is disabled.
LEMMA DisableStep ==
    ASSUME VerifierAssumption, VerifierInv, NEW s \in Sources, Disable(s)
    PROVE  VerifierInv'
<1> USE DEF VerifierInv
<1>1. now \in Nat /\ now <= now  BY DEF World, Times
<1>2. UNCHANGED <<now, fin, ending, snaps, cursor, obs, tx, client, reports>>  BY DEF Disable
<1>3. World'
  <2>1. \A sn \in snaps : SnapshotTrue(sn)'  BY <1>1, <1>2, TruthStands DEF World
  <2>2. on' \in [Sources -> BOOLEAN]  BY DEF Disable, World
  <2>3. \A x \in Sources : Runs(x)'  BY <1>2 DEF World, Runs
  <2> QED  BY <1>2, <2>1, <2>2, <2>3 DEF World
<1>4. Transactions'
  <2>1. \A t \in tx : Transaction(t)'
    BY <1>1, <1>2, TransactionStands DEF Transactions
  <2> QED  BY <1>2, <2>1 DEF Transactions
<1>5. Answers'  BY <1>2 DEF Answers
<1>6. (RecordGrows /\ VerdictsDerived /\ SuccessIsRecorded)'  BY <1>2, RecordStands, SuccessStands
<1> QED  BY <1>3, <1>4, <1>5, <1>6

-----------------------------------------------------------------------------
(* The command and its calls *)

\* While neither the world's clock and runs nor the tables change, they stay
\* what they are.
LEMMA WorldStands ==
    ASSUME World, UNCHANGED <<env, snaps>>,
           \A r \in reports' : r.how \in {"succeeded", "failed"}
    PROVE  World'
<1>1. now \in Nat /\ now <= now  BY DEF World, Times
<1>2. \A sn \in snaps : SnapshotTrue(sn)'  BY <1>1, TruthStands DEF World, env
<1>3. \A s \in Sources : Runs(s)'  BY DEF World, Runs, env
<1> QED  BY <1>2, <1>3 DEF World, env

\* Transactions stay sound while some of them end.
LEMMA OthersStand ==
    ASSUME World, Transactions, UNCHANGED env, snaps \subseteq snaps', NEW t \in tx
    PROVE  Transaction(t)'
<1>1. now \in Nat /\ now <= now  BY DEF World, Times
<1> QED  BY <1>1, TransactionStands DEF Transactions, env

\* The command starts, for the current slot or the one before.
LEMMA VerifyStep ==
    ASSUME VerifierAssumption, VerifierInv, NEW skew \in Skews, NEW slot \in 0 .. MaxClock,
           Verify(skew, slot)
    PROVE  VerifierInv'
<1> USE DEF VerifierInv
<1>1. UNCHANGED <<env, snaps, cursor, obs, tx, reports>>  BY DEF Verify
<1>2. now \in Int /\ skew \in Int /\ SlotLen \in Nat \ {0} /\ MaxTx \in Nat
  BY DEF World, Times, VerifierAssumption
<1>3. slot \in Slot
  <2> DEFINE q == (now + skew) \div SlotLen
  <2>0. now + skew \in Int  BY <1>2
  <2>1. Floor(now + skew) = q * SlotLen /\ q \in Int
    <3>1. now + skew = q * SlotLen + ((now + skew) % SlotLen) /\ q \in Int
          /\ (now + skew) % SlotLen \in Int
      BY <1>2, <2>0, QuotientRest
    <3> QED  BY <1>2, <3>1 DEF Floor
  <2> HIDE DEF q
  <2>2. slot = q * SlotLen + 0 \/ slot = (q - 1) * SlotLen + 0
    BY <1>2, <2>1 DEF Verify
  <2>3. 0 \in 0 .. (SlotLen - 1) /\ q - 1 \in Int  BY <1>2, <2>1
  <2>4. slot % SlotLen = 0  BY <1>2, <2>1, <2>2, <2>3, RestOfSum
  <2> QED  BY <2>4 DEF Slot, Times
<1>4. client' \in Command /\ client'.id = 0
  <2>1. client' = [NoCommand EXCEPT !.pc = "get", !.slot = slot, !.started = now + skew]
    BY DEF Verify
  <2>2. client' = [pc |-> "get", slot |-> slot, started |-> now + skew, try |-> 1,
                   id |-> 0, sn |-> NoSnapshot]
    BY <2>1 DEF NoCommand
  <2> QED  BY <1>2, <1>3, <2>2 DEF Command
<1>5. World'  BY <1>1, WorldStands DEF World
<1>6. Transactions'  BY <1>1, OthersStand DEF Transactions
<1>7. Answers'
  <2>1. \A t \in tx : t.id # 0  BY <1>2 DEF Transactions, Transaction
  <2> QED  BY <1>1, <1>4, <2>1 DEF Answers
<1>8. (RecordGrows /\ VerdictsDerived /\ SuccessIsRecorded)'  BY <1>1, RecordStands, SuccessStands
<1> QED  BY <1>5, <1>6, <1>7, <1>8

\* No answer comes.
LEMMA LoseStep ==
    ASSUME VerifierAssumption, VerifierInv, Lose
    PROVE  VerifierInv'
<1> USE DEF VerifierInv
<1>1. UNCHANGED <<env, snaps, cursor, obs, tx>> /\ Again  BY DEF Lose
<1>2. /\ Answers'
      /\ \A r \in reports' : r \in reports \/ r.how = "failed"
  <2>1. \A t \in tx : t.id \in 1 .. MaxTx  BY DEF Transactions, Transaction
  <2>2. tx' \subseteq tx  BY <1>1
  <2> QED  BY <1>1, <2>1, <2>2, AgainAnswers
<1>3. World'
  <2>1. \A r \in reports' : r.how \in {"succeeded", "failed"}  BY <1>2 DEF World
  <2> QED  BY <1>1, <2>1, WorldStands
<1>4. Transactions'  BY <1>1, OthersStand DEF Transactions
<1>5. (RecordGrows /\ VerdictsDerived /\ SuccessIsRecorded)'
  BY <1>1, <1>2, RecordStands, SuccessStands
<1> QED  BY <1>2, <1>3, <1>4, <1>5
\* One more transaction opens, with an id no other has, and the command waits
\* for it.
LEMMA OpenStands ==
    ASSUME VerifierAssumption, VerifierInv, NEW t, NEW pc, MayCall(pc),
           t.id = FreshId, tx' = tx \cup {t}, client' = [client EXCEPT !.id = FreshId],
           t.kind = "record" => t.slot = client.slot /\ t.sn = client.sn,
           UNCHANGED <<env, snaps, cursor, obs, reports>>,
           t.id \in 1 .. MaxTx => Transaction(t)'
    PROVE  VerifierInv'
<1> USE DEF VerifierInv
<1>1. t.id \in 1 .. MaxTx /\ \A u \in tx : u.id # t.id
  <2>1. Cardinality(tx) < MaxTx  BY DEF MayCall
  <2> QED  BY <2>1, FreshIdFacts
<1>2. MaxTx \in Nat  BY DEF VerifierAssumption
<1>3. World'  BY WorldStands DEF World
<1>4. Transactions'
  <2>1. IsFiniteSet(tx') /\ Cardinality(tx') <= MaxTx
    BY OneMore DEF Transactions, MayCall
  <2>2. \A u \in tx : Transaction(u)'  BY OthersStand
  <2>3. \A u \in tx' : Transaction(u)'  BY <1>1, <2>2
  <2>4. \A u, w \in tx' : u.id = w.id => u = w  BY <1>1 DEF Transactions
  <2> QED  BY <2>1, <2>3, <2>4 DEF Transactions
<1>5. Answers'
  <2>1. t.id \in 0 .. MaxTx  BY <1>1, <1>2
  <2>2. client' = [client EXCEPT !.id = t.id] /\ client \in Command  BY DEF Answers
  <2>3. client' \in Command /\ client'.id = t.id /\ client'.slot = client.slot
        /\ client'.sn = client.sn
    BY <2>1, <2>2, WaitTyped
  <2>4. \A u \in tx' : u.id = client'.id => u = t  BY <1>1, <2>1, <2>3
  <2> QED  BY <2>3, <2>4 DEF Answers
<1>6. (RecordGrows /\ VerdictsDerived /\ SuccessIsRecorded)'
  BY RecordStands, SuccessStands
<1> QED  BY <1>3, <1>4, <1>5, <1>6

\* The snapshot call begins: it reads.
LEMMA BeginSnapshotStep ==
    ASSUME VerifierAssumption, VerifierInv, BeginSnapshot
    PROVE  VerifierInv'
<1> USE DEF VerifierInv
<1>1. PICK sn : sn = CanonicalSnapshot  OBVIOUS
<1>2. PICK t : t = [id |-> FreshId, kind |-> "snapshot", sn |-> sn, slot |-> 0,
                    started |-> 0, cur |-> Never, ok |-> TRUE]
  OBVIOUS
<1>3. /\ tx' = tx \cup {t} /\ client' = [client EXCEPT !.id = FreshId] /\ MayCall("get")
      /\ UNCHANGED <<env, snaps, cursor, obs, reports>>
  BY <1>1, <1>2 DEF BeginSnapshot
<1>4. t.id = FreshId /\ t.kind = "snapshot" /\ t.sn = sn  BY <1>2
<1>5. SnapshotTrue(sn)'
  <2>1. SnapshotTrue(sn)  BY <1>1, CanonicalSnapshotTrue DEF BeginSnapshot
  <2>2. now \in Nat /\ now <= now  BY DEF World, Times
  <2> QED  BY <1>3, <2>1, <2>2, TruthStands DEF env
<1>6. t.id \in 1 .. MaxTx => Transaction(t)'  BY <1>4, <1>5 DEF Transaction
<1> QED  BY <1>3, <1>4, <1>6, OpenStands

\* A run that is the first visible one was shown by a snapshot.
LEMMA FactsSeen ==
    ASSUME World, NEW sn \in snaps, ObservationFacts(sn), NEW s \in Sources
    PROVE  SeenInTime(sn.facts[s], s)
<1> DEFINE f == sn.facts[s]
<1>1. \A x \in snaps : SnapshotTrue(x) /\ x.at \in Nat
  BY DEF World, SnapshotTrue, Snapshot, Times
<1>2. SUFFICES ASSUME f.fin # Never
               PROVE  \E x \in snaps : x.facts[s].seq >= f.seq /\ f.fin <= x.at /\ x.at <= f.vis
  BY DEF SeenInTime
<1>3. f.vis = FirstVisibility(s, f.seq, f.fin)  BY <1>2 DEF ObservationFacts
<1>4. f \in Fact /\ sn.at \in Nat
  <2>1. sn.facts \in [Sources -> Fact]  BY <1>1 DEF SnapshotTrue, Snapshot
  <2> QED  BY <1>1, <2>1
<1>5. f.fin \in Nat /\ f.fin <= sn.at
  <2>1. f.fin <= sn.at  BY <1>1 DEF SnapshotTrue, Names
  <2> HIDE DEF f
  <2> QED  BY <1>2, <1>4, <2>1 DEF Fact, Times
<1>6. f.seq >= f.seq /\ sn.at >= f.fin  BY <1>4, <1>5 DEF Fact
<1> HIDE DEF f
<1>7. FirstVisibility(s, f.seq, f.fin) \in Nat
  BY <1>1, <1>6, FirstVisibilityFacts DEF f
<1>8. PICK x \in snaps : /\ x.facts[s].seq >= f.seq /\ x.at >= f.fin
                         /\ x.at = FirstVisibility(s, f.seq, f.fin)
  BY <1>1, <1>7, FirstVisibilityFacts DEF Never
<1>9. f.fin <= x.at /\ x.at <= f.vis  BY <1>1, <1>3, <1>5, <1>8
<1> QED  BY <1>8, <1>9

\* The observation call begins: it reads and checks.
LEMMA BeginRecordStep ==
    ASSUME VerifierAssumption, VerifierInv, BeginRecord
    PROVE  VerifierInv'
<1> USE DEF VerifierInv
<1> DEFINE sound == /\ client.sn \in snaps
                    /\ ObservationFacts(client.sn)
                    /\ RejectDuplicateObservation(client.slot)
                    /\ RejectSnapshotReuse(client.sn)
                    /\ ValidatedSourceResults(client.sn, client.slot, client.started)
                    /\ VerificationSlots(cursor, client.slot) # {}
<1>1. PICK t : t = [id |-> FreshId, kind |-> "record", sn |-> client.sn,
                    slot |-> client.slot, started |-> client.started, cur |-> cursor,
                    ok |-> sound]
  OBVIOUS
<1>2. /\ tx' = tx \cup {t} /\ client' = [client EXCEPT !.id = FreshId] /\ MayCall("post")
      /\ UNCHANGED <<env, snaps, cursor, obs, reports>>
  BY <1>1 DEF BeginRecord
<1> HIDE DEF sound
<1>3. /\ t.id = FreshId /\ t.kind = "record" /\ t.sn = client.sn /\ t.slot = client.slot
      /\ t.cur = cursor
  BY <1>1
<1>4. t.ok = sound  BY <1>1
<1>5. t.ok \in BOOLEAN  BY <1>4 DEF sound
<1>6. t.cur \in {Never} \cup Slot  BY <1>3 DEF RecordGrows
<1>7. ASSUME t.ok PROVE Checked(t.sn, t.slot)' /\ VerificationSlots(t.cur, t.slot) # {}
  <2>1. /\ t.sn \in snaps /\ ObservationFacts(t.sn)
        /\ ValidatedSourceResults(t.sn, t.slot, client.started)
        /\ VerificationSlots(t.cur, t.slot) # {}
    BY <1>3, <1>4, <1>7 DEF sound
  <2>2. t.slot \in Slot /\ client.started \in Int  BY <1>3 DEF Answers, Command
  <2>3. t.sn.at \in Nat  BY <2>1 DEF World, SnapshotTrue, Snapshot, Times
  <2>4. t.slot <= t.sn.at
    BY <2>1, <2>2, <2>3 DEF ValidatedSourceResults, Slot, Times
  <2>5. \A s \in Sources : SeenInTime(t.sn.facts[s], s)  BY <2>1, FactsSeen
  <2>6. Checked(t.sn, t.slot)  BY <2>1, <2>2, <2>4, <2>5 DEF Checked
  <2>7. Checked(t.sn, t.slot)'  BY <1>2, <2>6, CheckedStands
  <2> QED  BY <2>1, <2>7
<1>8. t.id \in 1 .. MaxTx => Transaction(t)'
  <2>1. t.kind # "snapshot"  BY <1>3
  <2> QED  BY <1>5, <1>6, <1>7, <2>1 DEF Transaction
<1> QED  BY <1>2, <1>3, <1>8, OpenStands
-----------------------------------------------------------------------------
(* Transactions end *)

\* While a transaction ends that nobody waits for, or whose answer changes only
\* the command, the others stay.
LEMMA CloseStands ==
    ASSUME VerifierAssumption, World, Transactions, UNCHANGED env, snaps \subseteq snaps',
           NEW t \in tx, tx' = tx \ {t}
    PROVE  Transactions' /\ \A u \in tx' : u \in tx /\ u.id # 0 /\ u.id # t.id
<1>1. IsFiniteSet(tx') /\ Cardinality(tx') <= MaxTx  BY OneLess DEF Transactions
<1>2. \A u \in tx : Transaction(u)'  BY OthersStand
<1>3. MaxTx \in Nat  BY DEF VerifierAssumption
<1> QED  BY <1>1, <1>2, <1>3 DEF Transactions, Transaction

\* A snapshot transaction commits.
LEMMA CommitSnapshotStep ==
    ASSUME VerifierAssumption, VerifierInv, NEW t \in tx, CommitSnapshot(t)
    PROVE  VerifierInv'
<1> USE DEF VerifierInv
<1>1. /\ t.kind = "snapshot" /\ snaps' = snaps \cup {t.sn} /\ tx' = tx \ {t}
      /\ UNCHANGED <<env, cursor, obs, reports>>
  BY DEF CommitSnapshot
<1>2. SnapshotTrue(t.sn)  BY <1>1 DEF Transactions, Transaction
<1>3. World'
  <2>1. now \in Nat /\ now <= now /\ fin' = fin /\ ending' = ending /\ now' = now
    BY <1>1 DEF World, Times, env
  <2>2. \A sn \in snaps' : SnapshotTrue(sn)  BY <1>1, <1>2 DEF World
  <2>3. \A sn \in snaps' : SnapshotTrue(sn)'  BY <2>1, <2>2, TruthStands
  <2>4. \A s \in Sources : Runs(s)'  BY <2>1 DEF World, Runs
  <2> QED  BY <1>1, <2>3, <2>4 DEF World, env
<1>4. Transactions' /\ \A u \in tx' : u \in tx /\ u.id # 0 /\ u.id # t.id
  BY <1>1, CloseStands
<1>5. Answers'
  <2>1. CASE client.id = t.id /\ client.pc = "get"
    <3>1. client' = [client EXCEPT !.pc = "post", !.sn = t.sn, !.id = 0, !.try = 1]
      BY <2>1 DEF CommitSnapshot
    <3>2. t.sn \in Snapshot /\ client \in Command  BY <1>2 DEF SnapshotTrue, Answers
    <3>3. client' \in Command /\ client'.id = 0  BY <3>1, <3>2, PostTyped
    <3> QED  BY <1>4, <3>3 DEF Answers
  <2>2. CASE ~(client.id = t.id /\ client.pc = "get")
    <3>1. client' = client  BY <2>2 DEF CommitSnapshot
    <3> QED  BY <1>4, <3>1 DEF Answers
  <2> QED  BY <2>1, <2>2
<1>6. (RecordGrows /\ VerdictsDerived /\ SuccessIsRecorded)'
  BY <1>1, RecordStands, SuccessStands
<1> QED  BY <1>3, <1>4, <1>5, <1>6

\* A transaction dies that nobody waits for.
LEMMA AbortStep ==
    ASSUME VerifierAssumption, VerifierInv, NEW t \in tx, Abort(t)
    PROVE  VerifierInv'
<1> USE DEF VerifierInv
<1>1. tx' = tx \ {t} /\ UNCHANGED <<env, snaps, cursor, obs, client, reports>>  BY DEF Abort
<1>2. World'  BY <1>1, WorldStands DEF World
<1>3. Transactions' /\ \A u \in tx' : u \in tx  BY <1>1, CloseStands
<1>4. Answers'  BY <1>1, <1>3 DEF Answers
<1>5. (RecordGrows /\ VerdictsDerived /\ SuccessIsRecorded)'
  BY <1>1, RecordStands, SuccessStands
<1> QED  BY <1>2, <1>3, <1>4, <1>5

\* The rows of a record transaction: one for a source and missing slot.
LEMMA RowFacts ==
    ASSUME NEW t
    PROVE  /\ \A r \in Rows(t) :
                /\ r.slot \in VerificationSlots(t.cur, t.slot) /\ r.source \in Sources
                /\ r.sn = t.sn
                /\ r.status = IF r.slot = t.slot THEN Results(t.sn)[r.source] ELSE "missing"
           /\ \A k \in VerificationSlots(t.cur, t.slot), s \in Sources :
                \E r \in Rows(t) : r.slot = k /\ r.source = s
           /\ \A r, q \in Rows(t) : r.slot = q.slot /\ r.source = q.source => r = q
<1> DEFINE row(k, s) ==
        [slot |-> k, source |-> s, sn |-> t.sn, started |-> t.started,
         status |-> IF k = t.slot THEN Results(t.sn)[s] ELSE "missing"]
<1>1. \A r \in Rows(t) : \E k \in VerificationSlots(t.cur, t.slot), s \in Sources :
         r = row(k, s)
  BY DEF Rows
<1>2. \A k \in VerificationSlots(t.cur, t.slot), s \in Sources : row(k, s) \in Rows(t)
  BY DEF Rows
<1>3. \A k, s : /\ row(k, s).slot = k /\ row(k, s).source = s /\ row(k, s).sn = t.sn
                /\ row(k, s).status = IF k = t.slot THEN Results(t.sn)[s] ELSE "missing"
  OBVIOUS
<1> HIDE DEF row
<1>4. ASSUME NEW r \in Rows(t)
      PROVE  /\ r.slot \in VerificationSlots(t.cur, t.slot) /\ r.source \in Sources
             /\ r.sn = t.sn
             /\ r.status = IF r.slot = t.slot THEN Results(t.sn)[r.source] ELSE "missing"
             /\ r = row(r.slot, r.source)
  <2>1. PICK k \in VerificationSlots(t.cur, t.slot), s \in Sources : r = row(k, s)  BY <1>1
  <2>2. /\ r.slot = k /\ r.source = s /\ r.sn = t.sn
        /\ r.status = IF k = t.slot THEN Results(t.sn)[s] ELSE "missing"
    BY <1>3, <2>1
  <2> QED  BY <2>1, <2>2
<1>5. \A k \in VerificationSlots(t.cur, t.slot), s \in Sources :
         \E r \in Rows(t) : r.slot = k /\ r.source = s
  BY <1>2, <1>3
<1>6. \A r, q \in Rows(t) : r.slot = q.slot /\ r.source = q.source => r = q  BY <1>4
<1> QED  BY <1>4, <1>5, <1>6

\* The slots to record, for a cursor and a target that is ahead of it.
LEMMA SlotsToRecord ==
    ASSUME VerifierAssumption, NEW cur \in {Never} \cup Slot, NEW slot \in Slot,
           VerificationSlots(cur, slot) # {}
    PROVE  /\ slot \in VerificationSlots(cur, slot)
           /\ \A k \in VerificationSlots(cur, slot) :
                 k \in Slot /\ k <= slot /\ (cur # Never => cur < k)
           /\ \A k \in Slot : k <= slot /\ cur # Never /\ cur < k =>
                 k \in VerificationSlots(cur, slot)
           /\ cur = Never => VerificationSlots(cur, slot) = {slot}
<1>1. Slot \subseteq Nat /\ MaxClock \in Nat /\ Never \notin Slot
  BY DEF Slot, Times, Never, VerifierAssumption
<1>2. CASE cur = Never
  BY <1>1, <1>2 DEF VerificationSlots
<1>3. CASE cur # Never
  <2>1. VerificationSlots(cur, slot) = {k \in Slot : k > cur /\ k <= slot}
    BY <1>3 DEF VerificationSlots, Slot, Times
  <2>2. PICK k \in Slot : k > cur /\ k <= slot  BY <2>1
  <2>3. cur \in Nat /\ slot \in Nat /\ k \in Nat  BY <1>1, <1>3
  <2>4. slot > cur /\ slot <= slot  BY <2>2, <2>3
  <2>5. slot \in VerificationSlots(cur, slot)  BY <2>1, <2>4
  <2>6. \A j \in VerificationSlots(cur, slot) : j \in Slot /\ j <= slot /\ cur < j
    BY <1>1, <2>1, <2>3
  <2>7. \A j \in Slot : j <= slot /\ cur < j => j \in VerificationSlots(cur, slot)
    BY <1>1, <2>1, <2>3
  <2> QED  BY <1>3, <2>5, <2>6, <2>7
<1> QED  BY <1>2, <1>3

\* The rows that a record transaction adds continue the record.
LEMMA RowsContinue ==
    ASSUME VerifierAssumption, RecordGrows, NEW t, t.slot \in Slot,
           t.cur = cursor, VerificationSlots(t.cur, t.slot) # {},
           obs' = obs \cup Rows(t), cursor' = t.slot
    PROVE  RecordGrows'
<1> DEFINE VS == VerificationSlots(t.cur, t.slot)
<1>0. cursor \in {Never} \cup Slot  BY DEF RecordGrows
<1>1. /\ t.slot \in VS
      /\ \A k \in VS : k \in Slot /\ k <= t.slot /\ (cursor # Never => cursor < k)
      /\ \A k \in Slot : k <= t.slot /\ cursor # Never /\ cursor < k => k \in VS
      /\ cursor = Never => VS = {t.slot}
  BY <1>0, SlotsToRecord
<1>2. /\ \A r \in Rows(t) : r.slot \in VS /\ r.source \in Sources
      /\ \A k \in VS, s \in Sources : \E r \in Rows(t) : r.slot = k /\ r.source = s
      /\ \A r, q \in Rows(t) : r.slot = q.slot /\ r.source = q.source => r = q
  BY RowFacts
<1> HIDE DEF VS
<1>3. Slot \subseteq Nat  BY DEF Slot, Times
<1>4. \A o \in obs : cursor # Never /\ o.slot \in Slot /\ o.slot <= cursor /\ o.source \in Sources
  BY DEF RecordGrows
<1>5. cursor # Never => cursor \in Slot /\ cursor < t.slot  BY <1>0, <1>1
<1>6. \A o \in obs' : o.slot \in Slot /\ o.slot <= t.slot /\ o.source \in Sources
  <2>1. ASSUME NEW o \in obs PROVE o.slot <= t.slot
    <3>1. o.slot \in Nat /\ cursor \in Nat /\ t.slot \in Nat /\ o.slot <= cursor /\ cursor < t.slot
      BY <1>3, <1>4, <1>5
    <3> QED  BY <3>1
  <2> QED  BY <1>1, <1>2, <1>4, <2>1
<1>7. ASSUME NEW o \in obs', NEW k \in Slot, NEW s \in Sources, o.slot <= k, k <= t.slot
      PROVE  \E p \in obs' : p.slot = k /\ p.source = s
  <2>1. CASE k \in VS  BY <1>2, <2>1
  <2>2. CASE k \notin VS
    <3>1. o \in obs
      <4>1. SUFFICES ASSUME o \in Rows(t) PROVE FALSE  OBVIOUS
      <4>2. o.slot \in VS /\ o.slot \in Slot  BY <1>1, <1>2, <4>1
      <4> DEFINE n == o.slot
                 m == t.slot
      <4>a. n \in Nat /\ k \in Nat /\ m \in Nat /\ n <= k /\ k <= m
        BY <1>3, <1>7, <4>2
      <4>3. CASE cursor = Never
        <5>1. n = m  BY <1>1, <4>2, <4>3
        <5>2. k = m
          <6> HIDE DEF n, m
          <6> QED  BY <4>a, <5>1
        <5> QED  BY <1>1, <2>2, <5>2
      <4>4. CASE cursor # Never
        <5>1. cursor \in Nat /\ cursor < n  BY <1>1, <1>3, <1>5, <4>2, <4>4
        <5>2. cursor < k
          <6> HIDE DEF n, m
          <6> QED  BY <4>a, <5>1
        <5> QED  BY <1>1, <1>7, <2>2, <4>4, <5>2
      <4> QED  BY <4>3, <4>4
    <3>2. cursor # Never /\ cursor \in Slot  BY <1>4, <1>5, <3>1
    <3>3. k <= cursor  BY <1>1, <1>3, <1>7, <2>2, <3>2
    <3>4. \E p \in obs : p.slot = k /\ p.source = s
      BY <1>7, <3>1, <3>3 DEF RecordGrows
    <3> QED  BY <3>4
  <2> QED  BY <2>1, <2>2
<1>8. ASSUME NEW o \in obs', NEW p \in obs', o.slot = p.slot, o.source = p.source
      PROVE  o = p
  <2>1. ASSUME NEW a \in obs, NEW r \in Rows(t) PROVE a.slot # r.slot
    <3>1. a.slot \in Nat /\ cursor \in Nat /\ r.slot \in Nat /\ a.slot <= cursor /\ cursor < r.slot
      BY <1>1, <1>2, <1>3, <1>4, <1>5
    <3> QED  BY <3>1
  <2>2. CASE o \in obs /\ p \in obs  BY <1>8, <2>2 DEF RecordGrows
  <2>3. CASE o \in Rows(t) /\ p \in Rows(t)  BY <1>2, <1>8, <2>3
  <2> QED  BY <1>8, <2>1, <2>2, <2>3
<1>9. t.slot # Never  BY <1>3 DEF Never
<1> QED  BY <1>6, <1>7, <1>8, <1>9 DEF RecordGrows

\* They carry one verdict, under a snapshot that gave none before.
LEMMA RowsDerived ==
    ASSUME VerdictsDerived, NEW t, Checked(t.sn, t.slot), RejectSnapshotReuse(t.sn),
           obs' = obs \cup Rows(t), snaps' = snaps
    PROVE  VerdictsDerived'
<1>1. \A r \in Rows(t) :
         /\ r.sn = t.sn
         /\ r.status = IF r.slot = t.slot THEN Results(t.sn)[r.source] ELSE "missing"
  BY RowFacts
<1>2. \A r \in Rows(t) : r.status # "missing" =>
         r.slot = t.slot /\ r.status = Results(r.sn)[r.source]
  BY <1>1
<1>3. \A o \in obs : o.sn # t.sn  BY DEF RejectSnapshotReuse
<1>4. \A o \in obs' : o.status # "missing" => Checked(o.sn, o.slot)
  BY <1>1, <1>2 DEF VerdictsDerived
<1>5. \A o \in obs' : o.status # "missing" => Checked(o.sn, o.slot)'
  BY <1>4, CheckedStands
<1>6. \A o \in obs' : o.status # "missing" => o.status = Results(o.sn)[o.source]
  BY <1>2 DEF VerdictsDerived
<1>7. \A o, p \in obs' : o.sn = p.sn /\ o.status # "missing" /\ p.status # "missing"
         => o.slot = p.slot
  BY <1>1, <1>2, <1>3 DEF VerdictsDerived
<1>8. \A sn : Results(sn)' = Results(sn)  BY DEF Results, DeriveSourceResult
<1>9. \A o \in obs' : o.sn \in snaps  BY <1>1 DEF VerdictsDerived, Checked
<1> QED  BY <1>5, <1>6, <1>7, <1>8, <1>9 DEF VerdictsDerived

\* The answer to a record call, success or not.
LEMMA ReplyStands ==
    ASSUME VerifierAssumption, VerifierInv, NEW t \in tx, t.kind = "record",
           tx' = tx \ {t}, NEW status, Reply(t, status), obs \subseteq obs',
           status = 201 => \A s \in Sources : \E o \in obs' :
               o.slot = t.slot /\ o.source = s /\ o.sn = t.sn /\ o.status = Results(t.sn)[s]
    PROVE  /\ Answers' /\ SuccessIsRecorded'
           /\ \A r \in reports' : r.how \in {"succeeded", "failed"}
<1> USE DEF VerifierInv
<1>1. \A u \in tx' : u \in tx /\ u.id # 0 /\ u.id # t.id
  <2>1. MaxTx \in Nat  BY DEF VerifierAssumption
  <2> QED  BY <2>1 DEF Transactions, Transaction
<1>2. \A r \in reports : r.how \in {"succeeded", "failed"}  BY DEF World
<1>3. CASE client.id # t.id \/ client.pc # "post"
  <2>1. client' = client /\ reports' = reports  BY <1>3 DEF Reply
  <2>2. Answers'  BY <1>1, <2>1 DEF Answers
  <2> QED  BY <1>2, <2>1, <2>2, SuccessStands
<1>4. CASE client.id = t.id /\ client.pc = "post" /\ status = 201
  <2>1. Report("succeeded")  BY <1>4 DEF Reply
  <2>2. client' \in Command /\ client'.id = 0  BY <2>1, NoCommandTyped DEF Report
  <2>3. Answers'  BY <1>1, <2>2 DEF Answers
  <2>4. client.slot = t.slot /\ client.sn = t.sn  BY <1>4 DEF Answers
  <2>5. \A r \in reports' : r \in reports \/
           (r.how = "succeeded" /\ r.slot = t.slot /\ r.sn = t.sn)
    BY <2>1, <2>4 DEF Report
  <2>6. \A r \in reports' : r.how \in {"succeeded", "failed"}  BY <1>2, <2>5
  <2>7. \A sn : Results(sn)' = Results(sn)  BY DEF Results, DeriveSourceResult
  <2>8. ASSUME NEW r \in reports', r.how = "succeeded", NEW s \in Sources
        PROVE  \E o \in obs' : /\ o.slot = r.slot /\ o.source = s /\ o.sn = r.sn
                               /\ o.status = Results(r.sn)[s]
    <3>1. CASE r \in reports  BY <2>8, <3>1 DEF SuccessIsRecorded
    <3>2. CASE r.slot = t.slot /\ r.sn = t.sn  BY <1>4, <3>2
    <3> QED  BY <2>5, <3>1, <3>2
  <2>9. SuccessIsRecorded'  BY <2>7, <2>8 DEF SuccessIsRecorded
  <2> QED  BY <2>3, <2>6, <2>9
<1>5. CASE client.id = t.id /\ client.pc = "post" /\ status = 409
  <2>1. Report("failed")  BY <1>5 DEF Reply
  <2>2. client' \in Command /\ client'.id = 0  BY <2>1, NoCommandTyped DEF Report
  <2>3. Answers'  BY <1>1, <2>2 DEF Answers
  <2>4. \A r \in reports' : r \in reports \/ r.how = "failed"  BY <2>1 DEF Report
  <2> QED  BY <1>2, <2>3, <2>4, SuccessStands
<1>6. CASE client.id = t.id /\ client.pc = "post" /\ status # 201 /\ status # 409
  <2>1. Again  BY <1>6 DEF Reply
  <2>2. tx' \subseteq tx /\ \A u \in tx : u.id \in 1 .. MaxTx
    BY DEF Transactions, Transaction
  <2>3. Answers' /\ \A r \in reports' : r \in reports \/ r.how = "failed"
    BY <2>1, <2>2, AgainAnswers
  <2> QED  BY <1>2, <2>3, SuccessStands
<1> QED  BY <1>3, <1>4, <1>5, <1>6

\* A record transaction ends: its rows are on record, or nothing of it.
LEMMA CommitRecordStep ==
    ASSUME VerifierAssumption, VerifierInv, NEW t \in tx, CommitRecord(t)
    PROVE  VerifierInv'
<1> USE DEF VerifierInv
<1>1. t.kind = "record" /\ tx' = tx \ {t} /\ UNCHANGED <<env, snaps>>  BY DEF CommitRecord
<1>2. Transactions'  BY <1>1, CloseStands
<1>3. CASE t.ok /\ LockedCursor(t) /\ Unique(t) /\ obs' = obs \cup Rows(t)
           /\ cursor' = t.slot /\ Reply(t, 201)
  <2>1. /\ Checked(t.sn, t.slot) /\ VerificationSlots(t.cur, t.slot) # {}
        /\ t.cur \in {Never} \cup Slot
    BY <1>1, <1>3 DEF Transactions, Transaction
  <2>2. t.slot \in Slot  BY <2>1 DEF Checked
  <2>3. RecordGrows'  BY <1>3, <2>1, <2>2, RowsContinue DEF LockedCursor
  <2>4. VerdictsDerived'  BY <1>1, <1>3, <2>1, RowsDerived DEF Unique
  <2>5. \A s \in Sources : \E o \in obs' :
           o.slot = t.slot /\ o.source = s /\ o.sn = t.sn /\ o.status = Results(t.sn)[s]
    <3>1. t.slot \in VerificationSlots(t.cur, t.slot)  BY <2>1, <2>2, SlotsToRecord
    <3>2. \A s \in Sources : \E r \in Rows(t) :
             r.slot = t.slot /\ r.source = s /\ r.sn = t.sn /\ r.status = Results(t.sn)[s]
      BY <3>1, RowFacts
    <3> QED  BY <1>3, <3>2
  <2>6. /\ Answers' /\ SuccessIsRecorded'
        /\ \A r \in reports' : r.how \in {"succeeded", "failed"}
    BY <1>1, <1>3, <2>5, ReplyStands
  <2>7. World'  BY <1>1, <2>6, WorldStands
  <2> QED  BY <1>2, <2>3, <2>4, <2>6, <2>7
<1>4. CASE UNCHANGED <<obs, cursor>> /\ \E status \in {409, 500} : Reply(t, status)
  <2>1. PICK status \in {409, 500} : Reply(t, status)  BY <1>4
  <2>2. /\ Answers' /\ SuccessIsRecorded'
        /\ \A r \in reports' : r.how \in {"succeeded", "failed"}
    BY <1>1, <1>4, <2>1, ReplyStands
  <2>3. World'  BY <1>1, <2>2, WorldStands
  <2>4. RecordGrows' /\ VerdictsDerived'  BY <1>1, <1>4, RecordStands
  <2> QED  BY <1>2, <2>2, <2>3, <2>4
<1> QED  BY <1>3, <1>4, Zenon DEF CommitRecord
-----------------------------------------------------------------------------
(* The verifier's behaviours *)

\* The verifier's invariant holds at the start.
LEMMA VerifierStart ==
    ASSUME VerifierAssumption, VerifierInit
    PROVE  VerifierInv
<1>1. 0 \in Times /\ MaxTx \in Nat  BY DEF VerifierAssumption, Times
<1>2. IsFiniteSet({}) /\ Cardinality({}) = 0  BY FS_EmptySet
<1>3. World
  <2>1. now = 0 /\ snaps = {} /\ reports = {} /\ on \in [Sources -> BOOLEAN]
    BY DEF VerifierInit
  <2>2. \A s \in Sources : fin[s] = <<>> /\ ending[s] = {}  BY DEF VerifierInit
  <2>3. /\ fin \in [Sources -> Seq(0 .. now)] /\ ending \in [Sources -> SUBSET (0 .. now)]
    BY DEF VerifierInit
  <2>4. MaxFinish \in Nat  BY DEF VerifierAssumption
  <2>5. \A s \in Sources : Runs(s)  BY <2>2, <2>4 DEF Runs
  <2> QED  BY <1>1, <2>1, <2>3, <2>5 DEF World
<1>4. Transactions  BY <1>1, <1>2 DEF Transactions, VerifierInit
<1>5. Answers  BY NoCommandTyped DEF Answers, VerifierInit
<1>6. RecordGrows /\ VerdictsDerived /\ SuccessIsRecorded
  BY DEF RecordGrows, VerdictsDerived, SuccessIsRecorded, VerifierInit
<1> QED  BY <1>3, <1>4, <1>5, <1>6 DEF VerifierInv

\* Every step of clock, runs, database and callers keeps the verifier's invariant.
LEMMA VerifierStep ==
    ASSUME VerifierAssumption, VerifierInv, [VerifierNext]_verifierVars
    PROVE  VerifierInv'
<1>1. CASE UNCHANGED verifierVars
  <2>1. World'  BY <1>1, WorldStands DEF VerifierInv, World, verifierVars, env
  <2>2. Transactions'
    BY <1>1, OthersStand DEF VerifierInv, Transactions, verifierVars, env
  <2>3. Answers'  BY <1>1 DEF VerifierInv, Answers, verifierVars
  <2>4. (RecordGrows /\ VerdictsDerived /\ SuccessIsRecorded)'
    BY <1>1, RecordStands, SuccessStands DEF VerifierInv, verifierVars
  <2> QED  BY <2>1, <2>2, <2>3, <2>4 DEF VerifierInv
<1>2. CASE ClockTick  BY <1>2, ClockStep
<1>3. CASE \E s \in Sources : Completion(s) \/ Disable(s)
  BY <1>3, BeginCompletionStep, CommitCompletionStep, RollBackStep, DisableStep
  DEF Completion
<1>4. CASE \E skew \in Skews, slot \in 0 .. MaxClock : Verify(skew, slot)
  BY <1>4, VerifyStep
<1>5. CASE Lose  BY <1>5, LoseStep
<1>6. CASE BeginSnapshot  BY <1>6, BeginSnapshotStep
<1>7. CASE BeginRecord  BY <1>7, BeginRecordStep
<1>8. CASE \E t \in tx : CommitSnapshot(t) \/ CommitRecord(t) \/ Abort(t)
  BY <1>8, CommitSnapshotStep, CommitRecordStep, AbortStep
<1> QED
  BY <1>1, <1>2, <1>3, <1>4, <1>5, <1>6, <1>7, <1>8 DEF VerifierNext

\* The column types, and one id for each open transaction.
LEMMA VerifierTyped ==
    ASSUME VerifierAssumption, VerifierInv
    PROVE  VerifierTypeOK
<1> USE DEF VerifierInv
<1>1. now \in 0 .. MaxClock /\ cursor \in {Never} \cup 0 .. MaxClock
  BY DEF World, RecordGrows, Slot, Times
<1>2. \A s \in Sources :
         /\ Len(fin[s]) <= MaxFinish /\ \A i \in DOMAIN fin[s] : fin[s][i] \in 0 .. MaxClock
         /\ ending[s] \subseteq 0 .. MaxClock /\ on[s] \in BOOLEAN
  <2> TAKE s \in Sources
  <2>1. 0 .. now \subseteq 0 .. MaxClock  BY <1>1 DEF VerifierAssumption
  <2>2. PICK q \in Seq(0 .. now) : q = fin[s]  BY DEF World
  <2>3. \A i \in DOMAIN q : q[i] \in 0 .. MaxClock
    <3>1. \A i \in 1 .. Len(q) : q[i] \in 0 .. now /\ DOMAIN q = 1 .. Len(q)
      BY SequenceElements
    <3> QED  BY <2>1, <3>1
  <2>4. ending[s] \subseteq 0 .. MaxClock /\ on[s] \in BOOLEAN  BY <2>1 DEF World
  <2>5. Len(fin[s]) <= MaxFinish  BY DEF World, Runs
  <2> QED  BY <2>2, <2>3, <2>4, <2>5
<1>3. Cardinality({t.id : t \in tx}) = Cardinality(tx)
  <2> DEFINE ids == {t.id : t \in tx}
             name == [t \in tx |-> t.id]
  <2>1. name \in [tx -> ids]  OBVIOUS
  <2>2. \A i \in ids : \E t \in tx : name[t] = i  OBVIOUS
  <2>3. \A t, u \in tx : name[t] = name[u] => t = u  BY DEF Transactions
  <2> HIDE DEF name, ids
  <2>4. name \in Surjection(tx, ids)  BY <2>1, <2>2 DEF Surjection
  <2>5. name \in Injection(tx, ids)  BY <2>1, <2>3 DEF Injection, IsInjective
  <2>6. IsFiniteSet(tx)  BY DEF Transactions
  <2>7. Cardinality(ids) = Cardinality(tx)  BY <2>4, <2>5, <2>6, FS_Surjection
  <2> QED  BY <2>7 DEF ids
<1>4. client.pc \in {"idle", "get", "post"} /\ client.id \in 0 .. MaxTx
  BY DEF Answers, Command
<1> QED  BY <1>1, <1>2, <1>3, <1>4 DEF VerifierTypeOK, Transactions, World

\* No hole, one row for a slot and source, one slot for a snapshot.
LEMMA RecordContiguous ==
    ASSUME VerifierAssumption, VerifierInv
    PROVE  RecordIsContiguous
<1> USE DEF VerifierInv
<1>0. Slot \subseteq Nat /\ cursor \in {Never} \cup Slot
  BY DEF Slot, Times, RecordGrows
<1>1. ASSUME obs # {}
      PROVE  LET first == Min({o.slot : o \in obs})
             IN  {o.slot : o \in obs} =
                     {k \in first .. cursor : (k - first) % SlotLen = 0}
  <2> DEFINE taken == {o.slot : o \in obs}
             first == Min(taken)
  <2>1. taken \subseteq Slot /\ taken # {}  BY <1>1 DEF RecordGrows
  <2>2. \A k \in taken : \E o \in obs : o.slot = k  OBVIOUS
  <2>3. \A o \in obs : o.slot \in taken  OBVIOUS
  <2>4. cursor \in Slot /\ cursor \in Times  BY <1>1 DEF RecordGrows, Slot
  <2> HIDE DEF taken
  <2>5. first \in taken /\ \A k \in taken : first <= k  BY <1>0, <2>1, MinFacts
  <2> HIDE DEF first
  <2>6. first \in Slot /\ first % SlotLen = 0  BY <2>1, <2>5 DEF Slot
  <2>7. ASSUME NEW k \in taken
        PROVE  k \in first .. cursor /\ (k - first) % SlotLen = 0
    <3>1. k \in Slot /\ k % SlotLen = 0  BY <2>1 DEF Slot
    <3>2. k <= cursor  BY <2>2 DEF RecordGrows
    <3>3. k \in Int /\ first \in Int /\ cursor \in Int  BY <1>0, <2>4, <2>6, <3>1
    <3>4. (k - first) % SlotLen = 0  BY <2>6, <3>1, <3>3, SlotsApart
    <3> QED  BY <2>5, <3>2, <3>3, <3>4
  <2>8. ASSUME NEW k \in first .. cursor, (k - first) % SlotLen = 0
        PROVE  k \in taken
    <3>1. k \in Int /\ first \in Nat /\ cursor \in Nat  BY <1>0, <2>4, <2>6
    <3>2. k % SlotLen = 0
      <4>1. k \in Int /\ first \in Int  BY <3>1
      <4>2. (k - first) % SlotLen = 0 <=> k % SlotLen = 0  BY <2>6, <4>1, SlotsApart
      <4> QED  BY <2>8, <4>2
    <3>3. k \in Slot
      <4>1. MaxClock \in Nat /\ cursor <= MaxClock  BY <2>4 DEF VerifierAssumption, Times
      <4>2. k \in Times  BY <3>1, <4>1 DEF Times
      <4> QED  BY <3>2, <4>2 DEF Slot
    <3>4. PICK o \in obs : o.slot = first  BY <2>2, <2>5
    <3>5. o.source \in Sources  BY DEF RecordGrows
    <3>6. o.slot <= k /\ k <= cursor  BY <3>1, <3>4
    <3>7. \E p \in obs : p.slot = k  BY <3>3, <3>5, <3>6 DEF RecordGrows
    <3> QED  BY <2>3, <3>7
  <2>9. taken = {k \in first .. cursor : (k - first) % SlotLen = 0}  BY <2>7, <2>8
  <2> QED  BY <2>9 DEF first, taken
<1>2. ASSUME NEW k \in {o.slot : o \in obs}, NEW s \in Sources
      PROVE  Cardinality({o \in obs : o.slot = k /\ o.source = s}) = 1
  <2>1. PICK o \in obs : o.slot = k  BY <1>2
  <2>2. k \in Slot /\ k <= cursor /\ o.slot <= k
    <3>1. k \in Slot /\ k <= cursor  BY <2>1 DEF RecordGrows
    <3>2. k \in Int  BY <1>0, <3>1
    <3>3. k <= k  BY <3>2
    <3> QED  BY <2>1, <3>1, <3>3
  <2>3. PICK p \in obs : p.slot = k /\ p.source = s  BY <2>2 DEF RecordGrows
  <2>4. {q \in obs : q.slot = k /\ q.source = s} = {p}  BY <2>3 DEF RecordGrows
  <2> QED  BY <2>4, FS_Singleton
<1>3. \A o, p \in obs :
        o.sn = p.sn /\ o.status # "missing" /\ p.status # "missing" => o.slot = p.slot
  BY DEF VerdictsDerived
<1> QED  BY <1>1, <1>2, <1>3 DEF RecordIsContiguous

\* A row's facts are those of one run, and its snapshot missed no run but the one
\* whose completion was under way.
LEMMA RowsNamed ==
    ASSUME VerifierAssumption, VerifierInv
    PROVE  RowsNameTheirRun
<1> USE DEF VerifierInv
<1>1. SUFFICES ASSUME NEW o \in obs
               PROVE  LET f == o.sn.facts[o.source]
                      IN  /\ f.seq \in 0 .. Len(fin[o.source])
                          /\ f.fin = FinishedAt(o.source, f.seq)
                          /\ \A i \in f.seq + 1 .. Len(fin[o.source]) :
                                /\ f.fin < fin[o.source][i]
                                /\ i > f.seq + 1 => o.sn.at <= fin[o.source][i]
  BY DEF RowsNameTheirRun
<1> DEFINE s == o.source
           f == o.sn.facts[s]
<1>2. s \in Sources  BY DEF RecordGrows
<1>3. SnapshotTrue(o.sn)  BY DEF VerdictsDerived, World
<1>4. PICK q \in Seq(0 .. now) : q = fin[s]  BY <1>2 DEF World
<1>5. now \in Nat /\ Len(q) \in Nat /\ DOMAIN q = 1 .. Len(q)
      /\ \A i \in DOMAIN q : q[i] \in Nat
  BY <1>4 DEF World, Times
<1>6. PICK n \in 0 .. Len(q) : n = f.seq  BY <1>2, <1>3, <1>4 DEF SnapshotTrue, Names
<1>7. /\ f.fin = FinishedAt(s, n)
      /\ \A i \in n + 2 .. Len(q) : o.sn.at <= q[i]
  BY <1>2, <1>3, <1>4, <1>6 DEF SnapshotTrue, Names
<1>8. f.fin = IF n = 0 THEN -1 ELSE q[n]  BY <1>4, <1>7 DEF FinishedAt, Never
<1>9. \A i, j \in DOMAIN q : i < j => q[i] < q[j]  BY <1>2, <1>4 DEF World, Runs
<1> HIDE DEF f, s
<1>10. ASSUME NEW i \in n + 1 .. Len(q)
       PROVE  f.fin < q[i] /\ (i > n + 1 => o.sn.at <= q[i])
  <2>1. i \in DOMAIN q /\ n < i  BY <1>5
  <2>2. f.fin < q[i]
    <3>1. CASE n = 0  BY <1>5, <1>8, <2>1, <3>1
    <3>2. CASE n # 0
      <4>1. n \in DOMAIN q  BY <1>5, <3>2
      <4> QED  BY <1>8, <1>9, <2>1, <3>2, <4>1
    <3> QED  BY <3>1, <3>2
  <2>3. i > n + 1 => i \in n + 2 .. Len(q)  BY <1>5
  <2> QED  BY <1>7, <2>2, <2>3
<1> QED  BY <1>4, <1>6, <1>7, <1>10 DEF f, s

\* What passed was fresh.
LEMMA PassedFresh ==
    ASSUME VerifierAssumption, VerifierInv
    PROVE  PassedWasFresh
<1> USE DEF VerifierInv
<1>1. SUFFICES ASSUME NEW o \in obs, o.status = "passed"
               PROVE  LET f == o.sn.facts[o.source]
                      IN  /\ f.fin \in 0 .. o.sn.at
                          /\ o.sn.at - f.fin <= Fresh
                          /\ FirstVisibility(o.source, f.seq, f.fin) - f.fin \in 0 .. Fresh
                          /\ o.sn.at >= o.slot
  BY DEF PassedWasFresh
<1> DEFINE s == o.source
           f == o.sn.facts[s]
<1>2. s \in Sources /\ o.slot \in Nat  BY DEF RecordGrows, Slot, Times
<1>3. Checked(o.sn, o.slot) /\ Results(o.sn)[s] = "passed"  BY <1>1 DEF VerdictsDerived
<1>4. \A x \in snaps : SnapshotTrue(x) /\ x.at \in Nat
  BY DEF World, SnapshotTrue, Snapshot, Times
<1>5. o.sn \in snaps /\ SnapshotTrue(o.sn) /\ o.sn.at \in Nat  BY <1>3, <1>4 DEF Checked
<1>6. f \in Fact
  <2>1. o.sn.facts \in [Sources -> Fact]  BY <1>5 DEF SnapshotTrue, Snapshot
  <2> QED  BY <1>2, <2>1
<1>7. f.fin # Never /\ ~(o.sn.at - f.fin > Fresh) /\ ~(f.vis - f.fin > Fresh)
  <2>1. DeriveSourceResult(f, o.sn.at) = "passed"  BY <1>2, <1>3 DEF Results
  <2> HIDE DEF f
  <2> QED  BY <2>1 DEF DeriveSourceResult
<1>8. f.fin \in Nat /\ f.vis \in Int /\ Fresh \in Nat /\ f.seq \in Nat
  <2> HIDE DEF f
  <2> QED  BY <1>6, <1>7 DEF Fact, Never, Times, VerifierAssumption
<1>9. f.fin <= o.sn.at  BY <1>2, <1>5 DEF SnapshotTrue, Names
<1>10. f.fin \in 0 .. o.sn.at
  <2> HIDE DEF f
  <2> QED  BY <1>5, <1>8, <1>9
<1>11. FirstVisibility(s, f.seq, f.fin) - f.fin \in 0 .. Fresh
  <2>1. SeenInTime(f, s)  BY <1>2, <1>3 DEF Checked
  <2> HIDE DEF f, s
  <2>2. PICK x \in snaps : x.facts[s].seq >= f.seq /\ f.fin <= x.at /\ x.at <= f.vis
    BY <1>7, <2>1 DEF SeenInTime
  <2>3. x.at >= f.fin /\ x.at \in Nat  BY <1>4, <1>8, <2>2
  <2>4. FirstVisibility(s, f.seq, f.fin) \in Nat /\ FirstVisibility(s, f.seq, f.fin) <= x.at
    BY <1>2, <1>4, <2>2, <2>3, FirstVisibilityFacts
  <2>5. FirstVisibility(s, f.seq, f.fin) >= f.fin
    <3>1. FirstVisibility(s, f.seq, f.fin) # Never  BY <2>4 DEF Never
    <3>2. \E y \in snaps : y.at >= f.fin /\ y.at = FirstVisibility(s, f.seq, f.fin)
      BY <1>2, <1>4, <3>1, FirstVisibilityFacts
    <3> QED  BY <3>2
  <2> QED  BY <1>7, <1>8, <2>2, <2>3, <2>4, <2>5
<1>12. o.sn.at - f.fin <= Fresh
  <2> HIDE DEF f
  <2> QED  BY <1>5, <1>7, <1>8
<1>13. o.sn.at >= o.slot  BY <1>2, <1>3, <1>5 DEF Checked
<1> QED  BY <1>10, <1>11, <1>12, <1>13

\* The verifier's tables are sound in every state: of transactions that
\* overlap, calls that are lost or repeated and clocks that differ
\* (record_observations, persist_snapshot, ControlPlaneTransport._request).
THEOREM VerifierInvariant == VerifierSpec => []VerifierInv
<1>1. VerifierInit => VerifierInv  BY VerifierAssumption, VerifierStart
<1>2. VerifierInv /\ [VerifierNext]_verifierVars => VerifierInv'  BY VerifierAssumption, VerifierStep
<1> QED  BY <1>1, <1>2, PTL DEF VerifierSpec

\* The record has no hole and no second opinion on a slot, and a slot that
\* passed was fresh when it was observed (record_observations under REPEATABLE
\* READ, _locked_cursor, source_facts, derive_source_result).
THEOREM RecordIsSound == VerifierSpec => []RecordSound
<1>1. VerifierInv => RecordSound
  BY VerifierAssumption, VerifierTyped, RecordContiguous, RowsNamed, PassedFresh
  DEF RecordSound
<1> QED  BY <1>1, VerifierInvariant, PTL

\* A command that reports success has its verdict on record, also after a
\* retried call (verify, ControlPlaneTransport._request).
THEOREM ReportedIsRecorded == VerifierSpec => []SuccessIsRecorded
<1>1. VerifierInv => SuccessIsRecorded  BY DEF VerifierInv
<1> QED  BY <1>1, VerifierInvariant, PTL

-----------------------------------------------------------------------------
(* The ingestion of one source *)

Raws   == Served \cup {"unborn", "removed"}
Texts  == {Text(raw) : raw \in Raws}
Cursors == Posts \cup {None}

Items == [id : Posts, kind : {"post", "oversize"}, text : Texts, at : 0 .. MaxEvents]
Terms == {"none", "exhausted", "post_cap", "byte_cap", "pause", "continue"}
Page  == [items : SUBSET Items, next : Cursors, term : Terms]
Process ==
    [n : 0 .. MaxRuns, pc : {"idle", "cap", "content", "fetch", "view", "ready"}, auth : Nat,
     rev : Nat, cursor : Cursors, so : 0 .. PostCap, pages : Nat, todo : SUBSET Posts,
     page : Page]
Version == [id : Posts, rev : 1 .. MaxEvents + 1, text : Texts, at : 0 .. MaxEvents]

Types ==
    /\ platform \in Platforms
    /\ feed \in [Posts -> Raws] /\ walk \in [Posts -> SUBSET Served]
    /\ approval \in [id : Nat, active : BOOLEAN, lapsed : SUBSET Nat]
    /\ events \in 0 .. MaxEvents /\ active \in 0 .. MaxRuns
    /\ ck \in [rev : Nat, cursor : Cursors, mark : {0} \cup Posts]
    /\ store.versions \subseteq Version /\ IsFiniteSet(store.versions)
    /\ \A it \in store.items : it.id \in Posts
    /\ procs \in [Slots -> Process]

\* A page has one item for each of some posts.
PageSound(pr) ==
    /\ IsFiniteSet(pr.page.items)
    /\ \A i, j \in pr.page.items : i.id = j.id => i = j
    /\ pr.pc \notin {"view", "ready"} => pr.page = NewPage
    /\ pr.pc = "view" => pr.page.term = "none"
    /\ pr.pc = "view" /\ platform = "dcinside" => \A it \in pr.page.items : it.id \notin pr.todo
    /\ platform = "reddit" => /\ pr.pc # "view"
                              /\ pr.cursor # None => \A it \in pr.page.items : it.id < pr.cursor

\* A process goes on only while the run's posts are below the cap.
BelowCap(pr) ==
    /\ pr.pc \in {"fetch", "view"} => pr.so < PostCap
    /\ pr.pc = "ready" /\ pr.page.term \notin {"exhausted", "post_cap", "byte_cap", "pause"}
       => pr.so + Cardinality(Accepted(pr.page.items)) < PostCap

\* While a process has the stored checkpoint revision, no stored version is newer
\* than what it fetched.
Timely(pr) ==
    /\ pr.rev <= ck.rev
    /\ pr.rev = ck.rev => \A it \in pr.page.items, v \in store.versions : v.at <= it.at

Live(pr) == pr.pc \notin {"idle", "cap", "content"}

\* One live process has the lease, at the stored position.
Leased(s) ==
    /\ procs[s].n <= active
    /\ Live(procs[s]) =>
        /\ procs[s].n # 0
        /\ \A t \in Slots : Live(procs[t]) /\ procs[t].n = procs[s].n => t = s
        /\ procs[s].n = active => procs[s].rev = ck.rev /\ procs[s].cursor = ck.cursor

ProcsSound ==
    \A s \in Slots : /\ PageSound(procs[s]) /\ BelowCap(procs[s]) /\ Timely(procs[s])
                     /\ Leased(s)

\* What the feed served, as the rows and the pages under way know it: one text of a
\* post at one time, and the feed's own text at the present.
Knows(p, at, text) ==
    \/ \E v \in store.versions : v.id = p /\ v.at = at /\ v.text = text
    \/ \E s \in Slots : \E it \in procs[s].page.items : it.id = p /\ it.at = at /\ it.text = text
Dated ==
    \A p \in Posts, at \in 0 .. MaxEvents, text \in Texts : Knows(p, at, text) =>
        /\ at <= events
        /\ at = events => text = Text(feed[p])
        /\ \A other \in Texts : Knows(p, at, other) => other = text

\* The versions of a post are numbered in the order of their times.
VersionsSound ==
    /\ \A p \in Posts : {v.rev : v \in Versions(p)} = 1 .. Revision(p)
    /\ \A v, w \in store.versions : v.id = w.id /\ (v.text = w.text \/ v.rev = w.rev) => v = w
    /\ \A v, w \in store.versions : v.id = w.id /\ v.rev < w.rev => v.at <= w.at
    /\ \A v \in store.versions : v.rev <= v.at + 1

\* The other rows of a page name them.
RowsSound ==
    /\ store.queue = {[id |-> v.id, rev |-> v.rev] : v \in store.versions}
    /\ \A it \in store.items : \E v \in store.versions :
        v.id = it.id /\ v.rev = it.rev /\ v.text = it.text
    /\ ck.mark = Max({0} \cup {it.id : it \in store.items})

\* What a Reddit walk has passed is stored, and its next page holds what it passes.
Walked(p) == walk[p] # {} /\ "oversize" \notin walk[p]
WalkTexts(p) == {Text(raw) : raw \in walk[p]}
Covered(p) == \E v \in Versions(p) : v.rev = Revision(p) /\ v.text \in WalkTexts(p)
PageCovers(pr) ==
    \A p \in Posts : /\ Walked(p)
                     /\ pr.cursor = None \/ p < pr.cursor
                     /\ pr.page.next = None \/ p >= pr.page.next
        => \E it \in pr.page.items : it.id = p /\ it.kind = "post" /\ it.text \in WalkTexts(p)
WalkSound ==
    /\ \A p \in Posts : walk[p] # {} => p \in Listed /\ feed[p] \in walk[p]
    /\ platform = "reddit" =>
        /\ \A s \in Slots : procs[s].pc = "ready" /\ procs[s].n = active => PageCovers(procs[s])
        /\ ck.cursor # None => \A p \in Posts : Walked(p) /\ p >= ck.cursor => Covered(p)

IngestInv == Types /\ ProcsSound /\ Dated /\ VersionsSound /\ RowsSound /\ WalkSound
-----------------------------------------------------------------------------
(* Items, pages and listings *)

\* Posts are finitely many and numbered from 1 (the order of publication).
LEMMA PostNumbers ==
    /\ IsFiniteSet(Posts) /\ Posts \subseteq Nat \ {0}
    /\ \A S \in SUBSET Posts : IsFiniteSet(S) /\ Cardinality(S) \in Nat
<1>1. IsFiniteSet(Posts) /\ Posts = 1 .. Cardinality(Posts)
  BY IngestAssumption DEF IngestAssumption
<1>2. Cardinality(Posts) \in Nat
  BY <1>1, FS_CardinalityType
<1>3. \A S \in SUBSET Posts : IsFiniteSet(S) /\ Cardinality(S) \in Nat
  BY <1>1, FS_Subset, FS_CardinalityType
<1> QED
  BY <1>1, <1>2, <1>3

\* A set of posts, zero among them, has a largest and a smallest number.
LEMMA LargestPost ==
    ASSUME NEW S, S \subseteq {0} \cup Posts, S # {}
    PROVE  Max(S) \in S /\ \A y \in S : y <= Max(S)
<1>1. PICK n \in Nat : n = Cardinality(Posts)
  BY PostNumbers
<1>2. Posts = 1 .. n
  BY <1>1, IngestAssumption DEF IngestAssumption
<1>3. S \subseteq {Never} \cup 0 .. n
  BY <1>2
<1> QED
  BY <1>3, MaxFacts

\* A largest member of a set of numbers is its maximum.
LEMMA LargestIs ==
    ASSUME NEW S, S \subseteq Nat, NEW m \in S, \A x \in S : x <= m
    PROVE  Max(S) = m
<1>1. \A y \in S : m >= y
  <2> TAKE y \in S
  <2>1. y \in Nat /\ m \in Nat /\ y <= m
    OBVIOUS
  <2> QED
    BY <2>1
<1>2. Max(S) \in S /\ \A y \in S : Max(S) >= y
  BY <1>1, Zenon DEF Max
<1>3. Max(S) \in Nat /\ m \in Nat /\ Max(S) <= m /\ Max(S) >= m
  BY <1>2
<1> QED
  BY <1>3

\* The newest n of a set are its largest ones, and some when it has any (a listing).
LEMMA NewestFacts ==
    ASSUME NEW S \in SUBSET Posts, NEW n \in Nat
    PROVE  /\ Newest(S, n) \subseteq S
           /\ n # 0 /\ S # {} => Newest(S, n) # {}
           /\ \A p \in Newest(S, n) : \A q \in S : q >= p => q \in Newest(S, n)
<1>1. S \subseteq Nat /\ IsFiniteSet(S)
  BY PostNumbers
<1>2. ASSUME n # 0, S # {} PROVE Newest(S, n) # {}
  <2>1. S \subseteq {0} \cup Posts
    OBVIOUS
  <2>2. Max(S) \in S /\ \A y \in S : y <= Max(S)
    BY <1>2, <2>1, LargestPost
  <2>3. PICK m \in S : \A y \in S : y <= m
    BY <2>2
  <2>4. {q \in S : q > m} = {}
    <3>1. ASSUME NEW q \in S, q > m PROVE FALSE
      <4>1. q \in Nat /\ m \in Nat /\ q <= m
        BY <1>1, <2>3
      <4> QED
        BY <3>1, <4>1
    <3> QED
      BY <3>1
  <2>5. Cardinality({q \in S : q > m}) = 0
    BY <2>4, FS_EmptySet
  <2>6. 0 < n
    BY <1>2
  <2> QED
    BY <2>3, <2>5, <2>6 DEF Newest
<1>3. ASSUME NEW p \in Newest(S, n), NEW q \in S, q >= p PROVE q \in Newest(S, n)
  <2> DEFINE A == {x \in S : x > q}
             B == {x \in S : x > p}
  <2>1. p \in S /\ Cardinality(B) < n
    BY <1>3 DEF Newest
  <2>2. A \subseteq B /\ B \subseteq S
    <3>1. ASSUME NEW x \in S, x > q PROVE x > p
      <4>1. x \in Nat /\ q \in Nat /\ p \in Nat
        BY <1>1, <1>3, <2>1
      <4> QED
        BY <1>3, <3>1, <4>1
    <3> QED
      BY <3>1
  <2>3. Cardinality(A) <= Cardinality(B) /\ Cardinality(A) \in Nat /\ Cardinality(B) \in Nat
    <3>1. IsFiniteSet(B)
      BY <1>1, <2>2, FS_Subset
    <3> HIDE DEF A, B
    <3> QED
      BY <2>2, <3>1, FS_Subset, FS_CardinalityType
  <2>4. Cardinality(A) < n
    <3> HIDE DEF A, B
    <3> QED
      BY <2>1, <2>3
  <2> QED
    BY <1>3, <2>4 DEF Newest
<1>4. Newest(S, n) \subseteq S
  BY DEF Newest
<1> QED
  BY <1>2, <1>3, <1>4

\* The item an adapter makes of a listed post carries what the feed serves now.
LEMMA ItemIs ==
    ASSUME Types, NEW p \in Posts
    PROVE  /\ Item(p) \in Items /\ Item(p).id = p /\ Item(p).at = events
           /\ Item(p).text = Text(feed[p])
           /\ feed[p] # "oversize" => Item(p).kind = "post"
<1>1. feed[p] \in Raws
  BY DEF Types
<1>2. Text(feed[p]) \in Texts
  BY <1>1 DEF Texts
<1>3. events \in 0 .. MaxEvents
  BY DEF Types
<1> QED
  BY <1>2, <1>3 DEF Item, Items, Oversize

\* What a page is after some posts were added to it.
LEMMA AddIs ==
    ASSUME Types, NEW pg \in Page, NEW S \in SUBSET Posts
    PROVE  /\ Add(pg, S) \in Page
           /\ Add(pg, S).items = pg.items \cup {Item(p) : p \in S}
           /\ Add(pg, S).next = pg.next /\ Add(pg, S).term = pg.term
<1> DEFINE new == {Item(p) : p \in S}
<1>1. new \subseteq Items
  BY ItemIs
<1>2. Add(pg, S) = [pg EXCEPT !.items = @ \cup new]
  BY DEF Add
<1> HIDE DEF new
<1>3. Add(pg, S) \in Page /\ Add(pg, S).items = pg.items \cup new
      /\ Add(pg, S).next = pg.next /\ Add(pg, S).term = pg.term
  BY <1>1, <1>2 DEF Page
<1> QED
  BY <1>3 DEF new

\* A page that gets its termination is otherwise the same page.
LEMMA ReadyIs ==
    ASSUME NEW pg \in Page, NEW term \in Terms
    PROVE  /\ Ready(pg, term) \in Page /\ Ready(pg, term).items = pg.items
           /\ Ready(pg, term).next = pg.next /\ Ready(pg, term).term = term
  BY DEF Ready, Page

\* The page a process begins with.
LEMMA NewPageIs ==
    NewPage \in Page /\ NewPage.items = {} /\ NewPage.next = None /\ NewPage.term = "none"
<1>1. PICK items \in SUBSET Items, next \in Cursors, term \in Terms :
         items = {} /\ next = None /\ term = "none"
  <2>1. {} \in SUBSET Items
    OBVIOUS
  <2>2. None \in Cursors
    BY Zenon DEF Cursors
  <2>3. "none" \in Terms
    BY DEF Terms
  <2> QED
    BY <2>1, <2>2, <2>3, Zenon
<1>2. NewPage = [items |-> items, next |-> next, term |-> term]
  BY <1>1 DEF NewPage
<1>3. NewPage \in Page
  BY <1>2 DEF Page
<1> QED
  BY <1>1, <1>2, <1>3

\* The items a page got: those it had, and the present text of some posts.
Extends(items, old, S) ==
    /\ \A it \in items : it \in old \/ \E p \in S : it = Item(p)
    /\ \A p \in S : Item(p) \in items

\* Posts that a page does not have yet leave its items distinct.
LEMMA ItemsDistinct ==
    ASSUME Types, NEW items, NEW old, NEW S \in SUBSET Posts, IsFiniteSet(old),
           items = old \cup {Item(p) : p \in S},
           \A i, j \in old : i.id = j.id => i = j,
           \A it \in old : it.id \notin S
    PROVE  /\ IsFiniteSet(items) /\ Extends(items, old, S)
           /\ \A i, j \in items : i.id = j.id => i = j
<1>1. IsFiniteSet({Item(p) : p \in S})
  <2>1. IsFiniteSet(S)
    BY PostNumbers
  <2> DEFINE T == {Item(p) : p \in S}
             f == [p \in S |-> Item(p)]
  <2>2. f \in Surjection(S, T)
    BY DEF Surjection
  <2> HIDE DEF T, f
  <2>3. IsFiniteSet(T)
    BY <2>1, <2>2, FS_Surjection
  <2> QED
    BY <2>3 DEF T
<1>2. IsFiniteSet(items)
  BY <1>1, FS_Union
<1>3. \A p \in S : Item(p).id = p
  BY ItemIs
<1>4. Extends(items, old, S)
  BY DEF Extends
<1>5. \A i, j \in items : i.id = j.id => i = j
  BY <1>3, <1>4 DEF Extends
<1> QED
  BY <1>2, <1>4, <1>5

-----------------------------------------------------------------------------
(* One process at a time *)

\* The state of a process that does not run.
LEMMA IdleIs ==
    /\ Idle \in Process /\ Idle.n = 0 /\ Idle.pc = "idle" /\ Idle.page = NewPage
    /\ Idle.so = 0 /\ Idle.rev = 0
<1>1. PICK n \in 0 .. MaxRuns, so \in 0 .. PostCap, todo \in SUBSET Posts, from \in Cursors,
           pc \in {"idle", "cap", "content", "fetch", "view", "ready"} :
         n = 0 /\ so = 0 /\ todo = {} /\ from = None /\ pc = "idle"
  <2>1. 0 \in 0 .. MaxRuns /\ 0 \in 0 .. PostCap
    BY IngestAssumption DEF IngestAssumption
  <2> QED
    BY <2>1 DEF Cursors
<1>2. Idle = [n |-> n, pc |-> pc, auth |-> n, rev |-> n, cursor |-> from, so |-> so,
              pages |-> n, todo |-> todo, page |-> NewPage]
  BY <1>1 DEF Idle
<1>3. n \in Nat
  OBVIOUS
<1>4. Idle \in Process
  BY <1>2, <1>3, NewPageIs DEF Process
<1> QED
  BY <1>1, <1>2, <1>4

\* A process that is over, or goes on under its lease.
Continues(pr, X) ==
    \/ X.n = 0 /\ ~Live(X)
    \/ Live(pr) /\ X.n = pr.n /\ X.rev = pr.rev /\ X.cursor = pr.cursor

\* A step of one process that leaves lease and rows alone keeps every process sound.
LEMMA OneProcess ==
    ASSUME Types, ProcsSound, NEW s \in Slots, NEW X \in Process,
           procs' = [procs EXCEPT ![s] = X],
           UNCHANGED <<platform, store, ck, active>>,
           PageSound(X), BelowCap(X), Timely(X), Continues(procs[s], X)
    PROVE  ProcsSound'
<1>1. procs'[s] = X /\ \A t \in Slots : t # s => procs'[t] = procs[t]
  BY DEF Types
<1>2. active \in Nat
  BY DEF Types
<1>3. ASSUME NEW t \in Slots
      PROVE  PageSound(procs[t])' /\ BelowCap(procs[t])' /\ Timely(procs[t])'
  <2>1. PICK pr : pr = procs'[t]
    OBVIOUS
  <2>2. PageSound(pr) /\ BelowCap(pr) /\ Timely(pr)
    BY <1>1, <2>1 DEF ProcsSound
  <2>3. PageSound(procs[t])'
    BY <2>1, <2>2 DEF PageSound
  <2>4. BelowCap(procs[t])'
    BY <2>1, <2>2 DEF BelowCap
  <2>5. Timely(procs[t])'
    BY <2>1, <2>2 DEF Timely
  <2> QED
    BY <2>3, <2>4, <2>5
<1>4. ASSUME NEW t \in Slots
      PROVE  /\ procs'[t].n <= active
             /\ Live(procs'[t]) => /\ Live(procs[t]) /\ procs'[t].n = procs[t].n
                                   /\ procs'[t].rev = procs[t].rev
                                   /\ procs'[t].cursor = procs[t].cursor
  <2>1. procs[t].n <= active /\ procs[s].n <= active
    BY DEF ProcsSound, Leased
  <2>2. CASE t = s
    BY <1>1, <1>2, <2>1, <2>2 DEF Continues
  <2>3. CASE t # s
    BY <1>1, <2>1, <2>3
  <2> QED
    BY <2>2, <2>3
<1>5. ASSUME NEW t \in Slots PROVE Leased(t)'
  <2>1. Leased(t) /\ active' = active /\ ck' = ck
    BY DEF ProcsSound
  <2> QED
    BY <1>4, <2>1 DEF Leased, Live
<1> QED
  BY <1>3, <1>5 DEF ProcsSound

\* Rows and pages that only keep what is known, or learn what the feed serves now.
LEMMA DatedStands ==
    ASSUME Types, Dated, UNCHANGED <<events, feed>>,
           \A p \in Posts, at \in 0 .. MaxEvents, text \in Texts :
              Knows(p, at, text)' => Knows(p, at, text) \/ (at = events /\ text = Text(feed[p]))
    PROVE  Dated'
<1>1. events \in 0 .. MaxEvents
  BY DEF Types
<1>2. ASSUME NEW p \in Posts, NEW at \in 0 .. MaxEvents, NEW text \in Texts, Knows(p, at, text)'
      PROVE  at <= events /\ (at = events => text = Text(feed[p]))
  BY <1>1, <1>2 DEF Dated
<1>3. ASSUME NEW p \in Posts, NEW at \in 0 .. MaxEvents, NEW text \in Texts, Knows(p, at, text)',
             NEW other \in Texts, Knows(p, at, other)'
      PROVE  other = text
  <2>1. CASE at = events
    BY <1>2, <1>3, <2>1
  <2>2. CASE at # events
    <3>1. Knows(p, at, text) /\ Knows(p, at, other)
      BY <1>3, <2>2
    <3> QED
      BY <3>1 DEF Dated
  <2> QED
    BY <2>1, <2>2
<1> QED
  BY <1>2, <1>3 DEF Dated

\* What one process fetches now is known to be what the feed serves now.
LEMMA OneProcessDated ==
    ASSUME Types, Dated, NEW s \in Slots, NEW X \in Process,
           procs' = [procs EXCEPT ![s] = X], UNCHANGED <<events, feed, store>>,
           \A it \in X.page.items :
              it \in procs[s].page.items \/ (it.at = events /\ it.text = Text(feed[it.id]))
    PROVE  Dated'
<1>1. procs'[s] = X /\ \A t \in Slots : t # s => procs'[t] = procs[t]
  BY DEF Types
<1>2. ASSUME NEW p \in Posts, NEW at \in 0 .. MaxEvents, NEW text \in Texts, Knows(p, at, text)'
      PROVE  Knows(p, at, text) \/ (at = events /\ text = Text(feed[p]))
  <2>1. CASE \E v \in store.versions : v.id = p /\ v.at = at /\ v.text = text
    BY <2>1 DEF Knows
  <2>2. CASE \E t \in Slots : \E it \in procs'[t].page.items :
                it.id = p /\ it.at = at /\ it.text = text
    <3>1. PICK t \in Slots : \E it \in procs'[t].page.items :
                it.id = p /\ it.at = at /\ it.text = text
      BY <2>2
    <3>2. PICK it \in procs'[t].page.items : it.id = p /\ it.at = at /\ it.text = text
      BY <3>1
    <3>3. CASE it \in procs[t].page.items
      BY <3>2, <3>3 DEF Knows
    <3>4. CASE it \notin procs[t].page.items
      <4>1. t = s
        BY <1>1, <3>2, <3>4
      <4> QED
        BY <1>1, <3>2, <3>4, <4>1
    <3> QED
      BY <3>3, <3>4
  <2> QED
    BY <1>2, <2>1, <2>2 DEF Knows
<1> QED
  BY <1>2, DatedStands

\* A step that leaves the rows alone.
LEMMA RowsStand ==
    ASSUME UNCHANGED <<store, ck>>, VersionsSound, RowsSound
    PROVE  VersionsSound' /\ RowsSound'
<1>1. \A p : Versions(p)' = Versions(p) /\ Revision(p)' = Revision(p)
  BY DEF Versions, Revision
<1>2. VersionsSound'
  BY <1>1 DEF VersionsSound
<1> QED
  BY <1>2 DEF RowsSound

\* A covered post stays covered while its rows stay and its walk only learns texts.
LEMMA CoveredStands ==
    ASSUME store' = store, NEW p \in Posts, walk[p] \subseteq walk'[p], Covered(p)
    PROVE  Covered(p)'
<1>1. Versions(p)' = Versions(p) /\ Revision(p)' = Revision(p)
  BY DEF Versions, Revision
<1>2. WalkTexts(p) \subseteq WalkTexts(p)'
  BY DEF WalkTexts
<1> QED
  BY <1>1, <1>2 DEF Covered

\* A step of one process that neither commits nor starts a walk.
LEMMA OneProcessWalk ==
    ASSUME Types, WalkSound, NEW s \in Slots, NEW X \in Process,
           procs' = [procs EXCEPT ![s] = X],
           UNCHANGED <<platform, feed, store, ck, walk>>,
           active' = active \/ (active' = active + 1 /\ \A t \in Slots : procs[t].n <= active),
           platform = "reddit" /\ X.pc = "ready" /\ X.n = active' => PageCovers(X)
    PROVE  WalkSound'
<1>1. procs'[s] = X /\ \A t \in Slots : t # s => procs'[t] = procs[t]
  BY DEF Types
<1>2. ASSUME NEW p \in Posts PROVE Walked(p)' = Walked(p) /\ (Covered(p) => Covered(p)')
  BY CoveredStands DEF Walked
<1>3. ASSUME NEW pr, PageCovers(pr) PROVE PageCovers(pr)'
  BY <1>3 DEF PageCovers, Walked, WalkTexts
<1>4. ASSUME platform = "reddit", NEW t \in Slots,
             procs'[t].pc = "ready", procs'[t].n = active'
      PROVE  PageCovers(procs[t])'
  <2> PICK pr : pr = procs'[t]
    OBVIOUS
  <2> SUFFICES PageCovers(pr)
    <3>1. PageCovers(pr)'
      BY <1>3
    <3> QED
      BY <3>1 DEF PageCovers
  <2>1. CASE t = s
    BY <1>1, <1>4, <2>1
  <2>2. CASE t # s
    <3>1. pr = procs[t] /\ procs'[t] = procs[t] /\ procs[t].n \in Nat /\ active \in Nat
      BY <1>1, <2>2 DEF Types, Process
    <3>2. procs[t].n = active
      BY <1>4, <3>1
    <3> QED
      BY <1>4, <3>1, <3>2 DEF WalkSound
  <2> QED
    BY <2>1, <2>2
<1>5. \A p \in Posts : walk'[p] # {} => p \in Listed' /\ feed'[p] \in walk'[p]
  BY DEF WalkSound, Listed
<1>6. ASSUME platform' = "reddit"
      PROVE  /\ \A t \in Slots : procs'[t].pc = "ready" /\ procs'[t].n = active'
                   => PageCovers(procs[t])'
             /\ ck'.cursor # None => \A p \in Posts : Walked(p)' /\ p >= ck'.cursor => Covered(p)'
  <2>1. \A t \in Slots : procs'[t].pc = "ready" /\ procs'[t].n = active' => PageCovers(procs[t])'
    BY <1>4, <1>6
  <2>2. ck.cursor # None => \A p \in Posts : Walked(p) /\ p >= ck.cursor => Covered(p)
    BY <1>6 DEF WalkSound
  <2>3. ck'.cursor # None => \A p \in Posts : Walked(p)' /\ p >= ck'.cursor => Covered(p)'
    BY <1>2, <2>2
  <2> QED
    BY <2>1, <2>3
<1> QED
  BY <1>5, <1>6 DEF WalkSound

-----------------------------------------------------------------------------
(* Steps of the provider and of the approval *)

\* A change of the feed or of the approval at a new time keeps the invariant.
LEMMA FeedStep ==
    ASSUME IngestInv, Tick, UNCHANGED <<platform, store, ck, active, procs>>,
           feed' \in [Posts -> Raws], walk' \in [Posts -> SUBSET Served],
           approval' \in [id : Nat, active : BOOLEAN, lapsed : SUBSET Nat],
           \A p \in Posts : walk'[p] # {} => /\ walk[p] # {} /\ walk[p] \subseteq walk'[p]
                                             /\ feed'[p] \in walk'[p]
    PROVE  IngestInv'
<1>1. /\ Types /\ ProcsSound /\ Dated /\ VersionsSound /\ RowsSound /\ WalkSound
      /\ events' = events + 1 /\ events' \in 0 .. MaxEvents /\ events \in 0 .. MaxEvents
  BY IngestAssumption DEF IngestInv, Types, Tick, IngestAssumption
<1>2. Types'
  BY <1>1 DEF Types
<1>3. ProcsSound'
  <2>1. \A s \in Slots : PageSound(procs[s])' = PageSound(procs[s])
    BY DEF PageSound
  <2>2. \A s \in Slots : BelowCap(procs[s])' = BelowCap(procs[s])
    BY DEF BelowCap
  <2>3. \A s \in Slots : Timely(procs[s])' = Timely(procs[s])
    BY DEF Timely
  <2>4. \A s \in Slots : Leased(s)' = Leased(s)
    BY DEF Leased
  <2> QED
    BY <1>1, <2>1, <2>2, <2>3, <2>4 DEF ProcsSound
<1>4. Dated'
  <2>1. \A p, at, text : Knows(p, at, text)' = Knows(p, at, text)
    BY DEF Knows
  <2>2. \A p \in Posts, at \in 0 .. MaxEvents, text \in Texts : Knows(p, at, text) =>
           /\ at <= events' /\ at # events'
           /\ \A other \in Texts : Knows(p, at, other) => other = text
    BY <1>1 DEF Dated
  <2> QED
    BY <2>1, <2>2 DEF Dated
<1>5. VersionsSound' /\ RowsSound'
  BY <1>1, RowsStand
<1>6. WalkSound'
  <2>1. ASSUME NEW p \in Posts, Walked(p)'
        PROVE  Walked(p) /\ WalkTexts(p) \subseteq WalkTexts(p)' /\ (Covered(p) => Covered(p)')
    <3>1. walk[p] # {} /\ walk[p] \subseteq walk'[p]
      BY <2>1 DEF Walked
    <3> QED
      BY <2>1, <3>1, CoveredStands DEF Walked, WalkTexts
  <2>2. \A pr : PageCovers(pr) => PageCovers(pr)'
    BY <2>1 DEF PageCovers
  <2>3. ASSUME NEW p \in Posts, walk'[p] # {} PROVE p \in Listed' /\ feed'[p] \in walk'[p]
    <3>1. feed'[p] \in Served
      BY <2>3
    <3> QED
      BY <2>3, <3>1, IngestAssumption DEF Listed, IngestAssumption
  <2>4. ASSUME platform = "reddit"
        PROVE  /\ \A s \in Slots : procs[s].pc = "ready" /\ procs[s].n = active
                     => PageCovers(procs[s])'
               /\ ck.cursor # None => \A p \in Posts : Walked(p)' /\ p >= ck.cursor => Covered(p)'
    <3>1. ASSUME NEW s \in Slots, procs[s].pc = "ready", procs[s].n = active
          PROVE  PageCovers(procs[s])'
      <4>1. PICK pr : pr = procs[s]
        OBVIOUS
      <4>2. PageCovers(pr)'
        BY <1>1, <2>2, <2>4, <3>1, <4>1 DEF WalkSound
      <4> QED
        BY <4>1, <4>2 DEF PageCovers
    <3>2. ck.cursor # None => \A p \in Posts : Walked(p) /\ p >= ck.cursor => Covered(p)
      BY <1>1, <2>4 DEF WalkSound
    <3> QED
      BY <2>1, <3>1, <3>2
  <2> QED
    BY <2>3, <2>4 DEF WalkSound
<1> QED
  BY <1>2, <1>3, <1>4, <1>5, <1>6 DEF IngestInv

\* Each change of the feed or of the approval is such a step (Publish .. Approve).
LEMMA ProviderStep ==
    ASSUME IngestInv,
           \/ \E raw \in Served : Publish(raw)
           \/ \E p \in Posts, raw \in Served : Edit(p, raw)
           \/ \E p \in Posts : TakeDown(p)
           \/ Revoke \/ Lapse \/ Approve
    PROVE  IngestInv'
<1>1. /\ feed \in [Posts -> Raws] /\ walk \in [Posts -> SUBSET Served]
      /\ approval \in [id : Nat, active : BOOLEAN, lapsed : SUBSET Nat]
      /\ \A p \in Posts : walk[p] # {} => p \in Listed /\ feed[p] \in walk[p]
      /\ Served \subseteq Raws /\ "removed" \in Raws
  BY DEF IngestInv, Types, WalkSound, Raws
<1>2. ASSUME NEW raw \in Served, Publish(raw) PROVE IngestInv'
  <2>1. PICK q \in Posts : feed[q] = "unborn" /\ feed' = [feed EXCEPT ![q] = raw]
    BY <1>2 DEF Publish
  <2>2. walk[q] = {}
    BY <1>1, <2>1 DEF Listed
  <2>3. feed' \in [Posts -> Raws] /\ walk' = walk /\ approval' = approval
        /\ Tick /\ UNCHANGED <<platform, store, ck, active, procs>>
    BY <1>1, <1>2, <2>1 DEF Publish
  <2>4. \A p \in Posts : walk'[p] # {} => feed'[p] \in walk'[p]
    BY <1>1, <2>1, <2>2, <2>3
  <2> QED
    BY <1>1, <2>3, <2>4, FeedStep
<1>3. ASSUME NEW q \in Posts, NEW raw \in Served, Edit(q, raw) PROVE IngestInv'
  <2>1. feed' = [feed EXCEPT ![q] = raw]
        /\ walk' = [walk EXCEPT ![q] = IF @ = {} THEN {} ELSE @ \cup {raw}]
        /\ approval' = approval /\ Tick /\ UNCHANGED <<platform, store, ck, active, procs>>
    BY <1>3 DEF Edit
  <2>2. feed' \in [Posts -> Raws] /\ walk' \in [Posts -> SUBSET Served]
    BY <1>1, <2>1
  <2>3. \A p \in Posts : walk'[p] # {} => /\ walk[p] # {} /\ walk[p] \subseteq walk'[p]
                                          /\ feed'[p] \in walk'[p]
    BY <1>1, <2>1
  <2> QED
    BY <1>1, <2>1, <2>2, <2>3, FeedStep
<1>4. ASSUME NEW q \in Posts, TakeDown(q) PROVE IngestInv'
  <2>1. feed' = [feed EXCEPT ![q] = "removed"] /\ walk' = [walk EXCEPT ![q] = {}]
        /\ approval' = approval /\ Tick /\ UNCHANGED <<platform, store, ck, active, procs>>
    BY <1>4 DEF TakeDown
  <2>2. feed' \in [Posts -> Raws] /\ walk' \in [Posts -> SUBSET Served]
    BY <1>1, <2>1
  <2>3. \A p \in Posts : walk'[p] # {} => /\ walk[p] # {} /\ walk[p] \subseteq walk'[p]
                                          /\ feed'[p] \in walk'[p]
    BY <1>1, <2>1
  <2> QED
    BY <1>1, <2>1, <2>2, <2>3, FeedStep
<1>5. ASSUME Revoke \/ Lapse \/ Approve PROVE IngestInv'
  <2>1. feed' = feed /\ walk' = walk /\ Tick /\ UNCHANGED <<platform, store, ck, active, procs>>
    BY <1>5 DEF Revoke, Lapse, Approve
  <2>2. approval' \in [id : Nat, active : BOOLEAN, lapsed : SUBSET Nat]
    <3>1. PICK yes \in BOOLEAN, no \in BOOLEAN : yes = TRUE /\ no = FALSE
      OBVIOUS
    <3>2. \/ approval' = [approval EXCEPT !.active = no]
          \/ approval' = [approval EXCEPT !.lapsed = @ \cup {approval.id}]
          \/ approval' = [approval EXCEPT !.id = @ + 1, !.active = yes]
      BY <1>5, <3>1 DEF Revoke, Lapse, Approve
    <3>3. PICK lapsed \in SUBSET Nat, next \in Nat :
             lapsed = approval.lapsed \cup {approval.id} /\ next = approval.id + 1
      <4>1. approval.id \in Nat /\ approval.lapsed \in SUBSET Nat
        BY <1>1
      <4>2. approval.lapsed \cup {approval.id} \in SUBSET Nat
        BY <4>1
      <4>3. approval.id + 1 \in Nat
        BY <4>1
      <4> QED
        BY <4>2, <4>3
    <3>4. \/ approval' = [approval EXCEPT !.active = no]
          \/ approval' = [approval EXCEPT !.lapsed = lapsed]
          \/ approval' = [approval EXCEPT !.id = next, !.active = yes]
      BY <3>2, <3>3
    <3> QED
      BY <1>1, <3>4
  <2> QED
    BY <1>1, <2>1, <2>2, FeedStep
<1> QED
  BY <1>2, <1>3, <1>4, <1>5

-----------------------------------------------------------------------------
(* A process ends, begins, or gets its page *)

\* The states in which a process is over.
LEMMA OverIs ==
    ASSUME NEW how \in {"idle", "cap", "content"}, NEW X, X = [Idle EXCEPT !.pc = how]
    PROVE  X \in Process /\ X.n = 0 /\ ~Live(X) /\ X.page = NewPage
<1>1. X \in Process /\ X.pc = how /\ X.n = Idle.n /\ X.page = Idle.page
  BY IdleIs DEF Process
<1> QED
  BY <1>1, IdleIs DEF Live

\* A process without items takes nothing from the other invariants.
LEMMA BareProcess ==
    ASSUME Types, NEW X \in Process, X.page = NewPage, X.pc \notin {"view", "ready"},
           X.pc = "fetch" => X.so < PostCap, X.rev <= ck.rev
    PROVE  PageSound(X) /\ BelowCap(X) /\ Timely(X)
<1>1. X.page.items = {}
  BY NewPageIs
<1> QED
  BY <1>1, FS_EmptySet DEF PageSound, BelowCap, Timely

\* A process that ends, for whatever reason, keeps the invariant (End, Fail).
LEMMA EndStep ==
    ASSUME IngestInv, NEW s \in Slots, NEW how \in {"idle", "cap", "content"}, End(s, how),
           UNCHANGED <<platform, feed, approval, events, store, ck, active, walk>>
    PROVE  IngestInv'
<1>1. PICK X : X = [Idle EXCEPT !.pc = how]
  OBVIOUS
<1>2. X \in Process /\ X.n = 0 /\ ~Live(X) /\ X.page = NewPage /\ X.rev = 0
  BY <1>1, OverIs, IdleIs DEF Process
<1>3. procs' = [procs EXCEPT ![s] = X] /\ X.page.items = {}
  BY <1>1, <1>2, NewPageIs DEF End
<1>4. Types /\ ProcsSound /\ Dated /\ VersionsSound /\ RowsSound /\ WalkSound
  BY DEF IngestInv
<1>5. PageSound(X) /\ BelowCap(X) /\ Timely(X)
  <2>1. X.pc \notin {"view", "ready", "fetch"} /\ 0 <= ck.rev
    BY <1>2, <1>4 DEF Live, Types, Process
  <2> QED
    BY <1>2, <1>4, <2>1, BareProcess
<1>6. Types'
  BY <1>2, <1>3, <1>4 DEF Types
<1>7. ProcsSound'
  BY <1>2, <1>3, <1>4, <1>5, OneProcess DEF Continues
<1>8. Dated'
  BY <1>2, <1>3, <1>4, OneProcessDated
<1>9. VersionsSound' /\ RowsSound'
  BY <1>4, RowsStand
<1>10. WalkSound'
  BY <1>2, <1>3, <1>4, OneProcessWalk DEF Live
<1> QED
  BY <1>6, <1>7, <1>8, <1>9, <1>10 DEF IngestInv

\* A claim that takes the lease keeps the invariant (Begin).
LEMMA BeginStep ==
    ASSUME IngestInv, NEW s \in Slots, Begin(s)
    PROVE  IngestInv'
<1>1. PICK X : X = [Idle EXCEPT !.n = active + 1, !.pc = "fetch", !.auth = approval.id,
                                !.rev = ck.rev, !.cursor = ck.cursor]
  OBVIOUS
<1>2. /\ procs' = [procs EXCEPT ![s] = X] /\ active' = active + 1 /\ active < MaxRuns
      /\ UNCHANGED <<platform, feed, approval, events, store, ck, walk>>
  BY <1>1 DEF Begin
<1>3. Types /\ ProcsSound /\ Dated /\ VersionsSound /\ RowsSound /\ WalkSound
  BY DEF IngestInv
<1>4. /\ active + 1 \in 0 .. MaxRuns /\ active \in Nat
      /\ approval.id \in Nat /\ ck.rev \in Nat /\ ck.cursor \in Cursors
  BY <1>2, <1>3, IngestAssumption DEF Types, IngestAssumption
<1>5. /\ X \in Process /\ X.n = active + 1 /\ X.pc = "fetch" /\ X.page = NewPage
      /\ X.rev = ck.rev /\ X.cursor = ck.cursor /\ X.so = 0
  BY <1>1, <1>4, IdleIs DEF Process
<1>6. Types'
  BY <1>2, <1>3, <1>4, <1>5 DEF Types
<1>7. /\ procs'[s] = X /\ \A t \in Slots : t # s => procs'[t] = procs[t]
      /\ X.page.items = {}
  BY <1>2, <1>3, <1>5, NewPageIs DEF Types
<1>8. PageSound(X) /\ BelowCap(X) /\ Timely(X)
  <2>1. 0 < PostCap
    BY IngestAssumption DEF IngestAssumption
  <2> QED
    BY <1>3, <1>4, <1>5, <2>1, BareProcess
<1>9. \A t \in Slots : Leased(t) /\ procs[t].n <= active /\ procs[t].n \in Nat
  BY <1>3 DEF ProcsSound, Leased, Types, Process
<1>10. ProcsSound'
  <2>1. ASSUME NEW t \in Slots
        PROVE  PageSound(procs[t])' /\ BelowCap(procs[t])' /\ Timely(procs[t])'
    <3>1. PICK pr : pr = procs'[t]
      OBVIOUS
    <3>2. PageSound(pr) /\ BelowCap(pr) /\ Timely(pr)
      BY <1>3, <1>7, <1>8, <3>1 DEF ProcsSound
    <3>3. PageSound(procs[t])'
      BY <1>2, <3>1, <3>2 DEF PageSound
    <3>4. BelowCap(procs[t])'
      BY <3>1, <3>2 DEF BelowCap
    <3>5. Timely(procs[t])'
      BY <1>2, <3>1, <3>2 DEF Timely
    <3> QED
      BY <3>3, <3>4, <3>5
  <2>2. ASSUME NEW t \in Slots PROVE Leased(t)'
    <3>1. CASE t = s
      BY <1>2, <1>4, <1>5, <1>7, <1>9, <3>1 DEF Leased, Live
    <3>2. CASE t # s
      BY <1>2, <1>4, <1>5, <1>7, <1>9, <3>2 DEF Leased, Live
    <3> QED
      BY <3>1, <3>2
  <2> QED
    BY <2>1, <2>2 DEF ProcsSound
<1>11. Dated'
  BY <1>2, <1>3, <1>5, <1>7, OneProcessDated
<1>12. VersionsSound' /\ RowsSound'
  BY <1>2, <1>3, RowsStand
<1>13. WalkSound'
  BY <1>2, <1>3, <1>5, <1>9, OneProcessWalk
<1> QED
  BY <1>6, <1>10, <1>11, <1>12, <1>13 DEF IngestInv

\* A process whose page grew by posts it did not have.
LEMMA GrownPage ==
    ASSUME IngestInv, NEW s \in Slots, NEW S \in SUBSET Posts,
           NEW X \in Process, Extends(X.page.items, procs[s].page.items, S)
    PROVE  /\ procs[s].rev = X.rev => Timely(X)
           /\ \A it \in X.page.items :
                 it \in procs[s].page.items \/ (it.at = events /\ it.text = Text(feed[it.id]))
<1>1. /\ Types /\ Timely(procs[s]) /\ Dated
  BY DEF IngestInv, ProcsSound
<1>2. \A p \in S : Item(p).at = events /\ Item(p).id = p /\ Item(p).text = Text(feed[p])
  BY <1>1, ItemIs
<1>3. ASSUME NEW v \in store.versions PROVE v.at <= events
  <2>1. v.id \in Posts /\ v.at \in 0 .. MaxEvents /\ v.text \in Texts
    BY <1>1 DEF Types, Version
  <2>2. Knows(v.id, v.at, v.text)
    BY DEF Knows
  <2> QED
    BY <1>1, <2>1, <2>2 DEF Dated
<1> QED
  BY <1>1, <1>2, <1>3 DEF Timely, Extends

-----------------------------------------------------------------------------
(* The first request of a page *)

\* A Reddit page that goes on is below the post cap (the adapter's termination).
LEMMA TerminationIs ==
    ASSUME NEW so \in Nat, NEW accepted \in Nat, NEW paused \in BOOLEAN, NEW after
    PROVE  /\ RedditTermination(so, accepted, paused, after) \in Terms
           /\ RedditTermination(so, accepted, paused, after)
                 \notin {"exhausted", "post_cap", "byte_cap", "pause"} => so + accepted < PostCap
<1>1. so + accepted \in Nat /\ PostCap \in Nat
  BY IngestAssumption DEF IngestAssumption
<1> QED
  BY <1>1 DEF RedditTermination, Terms

\* The posts a listing shows are those from its last one up, or all.
LEMMA ListingIs ==
    ASSUME Types, NEW from, NEW limit \in Nat, limit # 0
    PROVE  /\ RedditListing(from, limit) \in SUBSET Posts
           /\ RedditListing(from, limit) \subseteq Below(from)
           /\ RedditAfter(from, limit) \in Cursors
           /\ \A p \in Below(from) :
                 RedditAfter(from, limit) = None \/ p >= RedditAfter(from, limit)
                    => p \in RedditListing(from, limit)
<1> DEFINE L == RedditListing(from, limit)
<1>1. Below(from) \in SUBSET Posts
  BY DEF Below, Listed
<1>2. /\ L \subseteq Below(from)
      /\ Below(from) # {} => L # {}
      /\ \A p \in L : \A q \in Below(from) : q >= p => q \in L
  BY <1>1, NewestFacts DEF RedditListing
<1>3. RedditAfter(from, limit) = IF L = Below(from) THEN None ELSE Min(L)
  BY DEF RedditAfter
<1> HIDE DEF L
<1>4. CASE L = Below(from)
  BY <1>1, <1>3, <1>4 DEF L, Cursors
<1>5. CASE L # Below(from)
  <2>1. L # {} /\ L \subseteq Nat /\ L \subseteq Posts
    BY <1>1, <1>2, <1>5, PostNumbers
  <2>2. Min(L) \in L
    BY <2>1, MinFacts
  <2>3. Min(L) # None
    BY <2>1, <2>2, PostNumbers DEF None
  <2> QED
    BY <1>1, <1>2, <1>3, <1>5, <2>1, <2>2, <2>3 DEF L, Cursors
<1> QED
  BY <1>4, <1>5

\* The page of a Reddit listing: its items, its cursor and its termination.
LEMMA RedditPageIs ==
    ASSUME Types, NEW so \in Nat, so < PostCap, NEW from, NEW paused \in BOOLEAN,
           NEW pg, pg = RedditPage(so, from, paused)
    PROVE  /\ pg \in Page /\ pg.next = RedditAfter(from, PostCap - so)
           /\ pg.items = {Item(p) : p \in RedditListing(from, PostCap - so)}
           /\ pg.term \notin {"exhausted", "post_cap", "byte_cap", "pause"}
                 => so + Cardinality(Accepted(pg.items)) < PostCap
<1> DEFINE L == RedditListing(from, PostCap - so)
<1>1. PICK limit \in Nat : limit = PostCap - so /\ limit # 0
  <2>1. PostCap \in Nat
    BY IngestAssumption DEF IngestAssumption
  <2> QED
    BY <2>1
<1>2. L \in SUBSET Posts /\ RedditAfter(from, PostCap - so) \in Cursors
  BY <1>1, ListingIs
<1>3. PICK q : q = Add(NewPage, L)
  OBVIOUS
<1> HIDE DEF L
<1>4. q \in Page /\ q.items = NewPage.items \cup {Item(p) : p \in L}
  BY <1>2, <1>3, AddIs, NewPageIs
<1>5. q.items = {Item(p) : p \in L}
  BY <1>4, NewPageIs
<1>6. IsFiniteSet(q.items)
  <2>1. PICK old : old = {}
    OBVIOUS
  <2>2. q.items = old \cup {Item(p) : p \in L} /\ IsFiniteSet(old)
    BY <1>5, <2>1, FS_EmptySet
  <2>3. \A it \in old : it \notin old
    BY <2>1
  <2> QED
    BY <1>2, <2>2, <2>3, ItemsDistinct
<1>7. Cardinality(Accepted(q.items)) \in Nat
  BY <1>6, FS_Subset, FS_CardinalityType DEF Accepted
<1>8. PICK term \in Terms :
        /\ term = RedditTermination(so, Cardinality(Accepted(q.items)), paused,
                                    RedditAfter(from, PostCap - so))
        /\ term \notin {"exhausted", "post_cap", "byte_cap", "pause"}
              => so + Cardinality(Accepted(q.items)) < PostCap
  BY <1>7, TerminationIs
<1>9. PICK next \in Cursors : next = RedditAfter(from, PostCap - so)
  BY <1>2
<1>10. pg = [q EXCEPT !.next = next, !.term = term]
  BY <1>3, <1>8, <1>9 DEF RedditPage, L
<1>11. pg \in Page /\ pg.next = next /\ pg.items = q.items /\ pg.term = term
  BY <1>4, <1>10 DEF Page
<1> QED
  BY <1>5, <1>8, <1>9, <1>11 DEF L

\* What FetchPage makes of a process.
LEMMA FetchedIs ==
    ASSUME Types, NEW s \in Slots, NEW pg \in Page, NEW X, X = Fetched(s, pg)
    PROVE  /\ X \in Process /\ X.pc = "ready" /\ X.page = pg
           /\ X.n = procs[s].n /\ X.rev = procs[s].rev /\ X.cursor = procs[s].cursor
           /\ X.so = procs[s].so
<1>1. procs[s] \in Process
  BY DEF Types
<1>2. {} \in SUBSET Posts
  OBVIOUS
<1> QED
  BY <1>1, <1>2 DEF Fetched, Process

\* The page shows every listed post between its two cursors as it is now.
Shows(pr) ==
    \A p \in Listed : /\ pr.cursor = None \/ p < pr.cursor
                      /\ pr.page.next = None \/ p >= pr.page.next
        => Item(p) \in pr.page.items

\* A walk that starts with the page in hand, or goes on.
LEMMA WalkStarts ==
    ASSUME IngestInv, NEW s \in Slots, NEW X \in Process, Live(procs[s]),
           procs' = [procs EXCEPT ![s] = X], UNCHANGED <<platform, feed, store, ck, active>>,
           X.n = procs[s].n, X.pc = "ready", Shows(X),
           StartsWalk(s),
           walk' = [p \in Posts |-> IF p \in Listed THEN {feed[p]} ELSE {}]
    PROVE  WalkSound'
<1>1. /\ Types /\ Leased(s) /\ ProcsSound
      /\ procs'[s] = X /\ \A t \in Slots : t # s => procs'[t] = procs[t]
  BY DEF IngestInv, ProcsSound, Types
<1>2. ck.cursor = None /\ procs[s].n = active
  BY <1>1 DEF StartsWalk, Leased
<1>3. \A p \in Posts : walk'[p] # {} => p \in Listed /\ walk'[p] = {feed[p]}
  OBVIOUS
<1>4. ASSUME NEW t \in Slots, procs'[t].pc = "ready", procs'[t].n = active
      PROVE  t = s
  <2>1. CASE t # s
    BY <1>1, <1>2, <1>4, <2>1 DEF Leased, Live
  <2> QED
    BY <2>1
<1>5. PageCovers(procs[s])'
  <2>1. ASSUME NEW p \in Posts, Walked(p)',
               X.cursor = None \/ p < X.cursor, X.page.next = None \/ p >= X.page.next
        PROVE  \E it \in X.page.items : it.id = p /\ it.kind = "post" /\ it.text \in WalkTexts(p)'
    <3>1. p \in Listed /\ walk'[p] = {feed[p]} /\ feed[p] # "oversize"
      BY <1>3, <2>1 DEF Walked
    <3>2. Item(p) \in X.page.items
      BY <2>1, <3>1 DEF Shows
    <3>3. Item(p).id = p /\ Item(p).kind = "post" /\ Item(p).text = Text(feed[p])
      BY <1>1, <3>1, ItemIs
    <3>4. Text(feed[p]) \in WalkTexts(p)'
      BY <3>1 DEF WalkTexts
    <3> QED
      BY <3>2, <3>3, <3>4
  <2> QED
    BY <1>1, <2>1 DEF PageCovers
<1>6. \A t \in Slots : procs'[t].pc = "ready" /\ procs'[t].n = active' => PageCovers(procs[t])'
  BY <1>4, <1>5
<1>7. \A p \in Posts : walk'[p] # {} => p \in Listed' /\ feed'[p] \in walk'[p]
  BY <1>3 DEF Listed
<1>8. ck'.cursor = None
  BY <1>2
<1> QED
  BY <1>6, <1>7, <1>8 DEF WalkSound

\* A page that shows all listed posts it passes covers the walk over them.
LEMMA ShownCovers ==
    ASSUME IngestInv, NEW X, Shows(X)
    PROVE  PageCovers(X)
<1>1. /\ Types
      /\ \A p \in Posts : walk[p] # {} => p \in Listed /\ feed[p] \in walk[p]
  BY DEF IngestInv, WalkSound
<1>2. ASSUME NEW p \in Posts, Walked(p),
             X.cursor = None \/ p < X.cursor, X.page.next = None \/ p >= X.page.next
      PROVE  \E it \in X.page.items : it.id = p /\ it.kind = "post" /\ it.text \in WalkTexts(p)
  <2>1. p \in Listed /\ feed[p] \in walk[p] /\ feed[p] # "oversize"
    BY <1>1, <1>2 DEF Walked
  <2>2. Item(p) \in X.page.items
    BY <1>2, <2>1 DEF Shows
  <2>3. Item(p).id = p /\ Item(p).kind = "post" /\ Item(p).text = Text(feed[p])
    BY <1>1, <2>1, ItemIs
  <2>4. Text(feed[p]) \in WalkTexts(p)
    BY <2>1 DEF WalkTexts
  <2> QED
    BY <2>2, <2>3, <2>4
<1> QED
  BY <1>2 DEF PageCovers

\* The page a first request completes, and the requests that are left of it.
LEMMA WholePageIs ==
    ASSUME IngestInv, NEW s \in Slots, procs[s].pc = "fetch", Preflight(procs[s])
    PROVE  /\ platform = "reddit" => WholePage(procs[s]) # {}
           /\ platform = "dcinside" \/ platform = "manifold" \/ platform = "reddit"
           /\ \A pg \in WholePage(procs[s]) :
                IF platform = "reddit"
                THEN \E paused \in BOOLEAN :
                        pg = RedditPage(procs[s].so, procs[s].cursor, paused)
                ELSE pg = Ready(NewPage, "exhausted")
           /\ FirstRequests(procs[s]) \in SUBSET Posts
<1>1. platform = "dcinside" \/ platform = "manifold" \/ platform = "reddit"
  BY DEF Preflight, PreflightFinance
<1>2. Listed \in SUBSET Posts /\ PostCap \in Nat /\ procs[s].so \in 0 .. PostCap
  BY IngestAssumption DEF Listed, IngestAssumption, IngestInv, Types, Process
<1>3. FirstRequests(procs[s]) \in SUBSET Posts
  <2>1. ManifoldMarkets \in SUBSET Posts
    BY <1>2 DEF ManifoldMarkets
  <2>2. DcinsideIds(procs[s].so) \in SUBSET Posts
    <3>1. PICK limit \in Nat : limit = PostCap - procs[s].so
      BY <1>2
    <3>2. Newest(Listed, limit) \subseteq Listed
      BY <1>2, NewestFacts
    <3> QED
      BY <1>2, <3>1, <3>2 DEF DcinsideIds
  <2> QED
    BY <2>1, <2>2 DEF FirstRequests
<1>4. CASE platform = "reddit"
  <2>1. WholePage(procs[s]) =
          {RedditPage(procs[s].so, procs[s].cursor, paused) : paused \in BOOLEAN}
    BY <1>4 DEF WholePage
  <2>2. TRUE \in BOOLEAN
    OBVIOUS
  <2>3. RedditPage(procs[s].so, procs[s].cursor, TRUE) \in WholePage(procs[s])
    BY <2>1, <2>2
  <2> QED
    BY <1>1, <1>3, <1>4, <2>1, <2>3
<1>5. CASE platform = "dcinside" \/ platform = "manifold"
  <2>1. platform # "reddit"
    BY <1>5
  <2>2. WholePage(procs[s]) = {} \/ WholePage(procs[s]) = {Ready(NewPage, "exhausted")}
    BY <1>5 DEF WholePage
  <2> QED
    BY <1>3, <1>5, <2>1, <2>2
<1> QED
  BY <1>1, <1>4, <1>5

\* A step in which one process got on and kept its lease.
LEMMA ProcessStep ==
    ASSUME IngestInv, NEW s \in Slots, NEW X \in Process, Live(procs[s]),
           procs' = [procs EXCEPT ![s] = X],
           UNCHANGED <<platform, feed, approval, events, store, ck, active>>,
           X.n = procs[s].n, X.rev = procs[s].rev, X.cursor = procs[s].cursor,
           PageSound(X), BelowCap(X), Timely(X),
           \A it \in X.page.items :
              it \in procs[s].page.items \/ (it.at = events /\ it.text = Text(feed[it.id])),
           WalkSound', walk' \in [Posts -> SUBSET Served]
    PROVE  IngestInv'
<1>1. Types /\ ProcsSound /\ Dated /\ VersionsSound /\ RowsSound
  BY DEF IngestInv
<1>2. Types'
  BY <1>1 DEF Types
<1>3. ProcsSound'
  BY <1>1, OneProcess DEF Continues
<1>4. Dated'
  BY <1>1, OneProcessDated
<1>5. VersionsSound' /\ RowsSound'
  BY <1>1, RowsStand
<1> QED
  BY <1>2, <1>3, <1>4, <1>5 DEF IngestInv

\* A Reddit page, complete with its first request.
LEMMA RedditFetched ==
    ASSUME IngestInv, NEW s \in Slots, procs[s].pc = "fetch", platform = "reddit",
           NEW paused \in BOOLEAN, NEW pg, pg = RedditPage(procs[s].so, procs[s].cursor, paused),
           NEW X, X = Fetched(s, pg)
    PROVE  /\ X \in Process /\ X.pc = "ready"
           /\ X.n = procs[s].n /\ X.rev = procs[s].rev /\ X.cursor = procs[s].cursor
           /\ PageSound(X) /\ BelowCap(X) /\ Timely(X) /\ Shows(X)
           /\ \A it \in X.page.items :
                it \in procs[s].page.items \/ (it.at = events /\ it.text = Text(feed[it.id]))
<1>1. /\ Types /\ PageSound(procs[s]) /\ BelowCap(procs[s])
      /\ procs[s].so \in Nat /\ procs[s].so < PostCap /\ procs[s].cursor \in Cursors
  <2>1. Types /\ PageSound(procs[s]) /\ BelowCap(procs[s])
    BY DEF IngestInv, ProcsSound
  <2>2. /\ procs[s].so \in 0 .. PostCap /\ procs[s].so < PostCap
        /\ procs[s].cursor \in Cursors
    BY <2>1 DEF Types, Process, BelowCap
  <2> QED
    BY <2>1, <2>2
<1>2. PICK so \in Nat, from \in Cursors :
         so = procs[s].so /\ from = procs[s].cursor /\ so < PostCap
  BY <1>1
<1>3. PICK limit \in Nat : limit = PostCap - so /\ limit # 0
  <2>1. PostCap \in Nat
    BY IngestAssumption DEF IngestAssumption
  <2> QED
    BY <1>2, <2>1
<1>4. PICK L \in SUBSET Posts : L = RedditListing(from, limit)
  BY <1>1, <1>3, ListingIs
<1>5. /\ L \subseteq Below(from)
      /\ \A p \in Below(from) :
            RedditAfter(from, limit) = None \/ p >= RedditAfter(from, limit) => p \in L
  BY <1>1, <1>3, <1>4, ListingIs
<1>6. /\ pg \in Page /\ pg.next = RedditAfter(from, limit)
      /\ pg.items = {Item(p) : p \in L}
      /\ pg.term \notin {"exhausted", "post_cap", "byte_cap", "pause"}
             => so + Cardinality(Accepted(pg.items)) < PostCap
  <2>1. pg = RedditPage(so, from, paused)
    BY <1>2
  <2> QED
    BY <1>1, <1>2, <1>3, <1>4, <2>1, RedditPageIs
<1>7. /\ X \in Process /\ X.pc = "ready" /\ X.page = pg
      /\ X.n = procs[s].n /\ X.rev = procs[s].rev /\ X.cursor = from /\ X.so = so
  BY <1>1, <1>2, <1>6, FetchedIs
<1>8. /\ IsFiniteSet(pg.items) /\ \A i, j \in pg.items : i.id = j.id => i = j
      /\ Extends(pg.items, procs[s].page.items, L)
  <2>1. PICK old : old = {} /\ old = procs[s].page.items
    BY <1>1, NewPageIs DEF PageSound
  <2>2. pg.items = old \cup {Item(p) : p \in L} /\ IsFiniteSet(old)
    BY <1>6, <2>1, FS_EmptySet
  <2>3. \A it \in old : it \notin old
    BY <2>1
  <2> QED
    BY <1>1, <2>1, <2>2, <2>3, ItemsDistinct
<1>9. PageSound(X)
  <2>1. ASSUME NEW it \in pg.items, from # None PROVE it.id < from
    <3>1. PICK p \in L : it = Item(p)
      BY <1>6
    <3>2. p < from
      BY <1>5, <2>1 DEF Below
    <3> QED
      BY <1>1, <3>1, <3>2, ItemIs
  <2> QED
    BY <1>7, <1>8, <2>1 DEF PageSound
<1>10. BelowCap(X)
  BY <1>6, <1>7 DEF BelowCap
<1>11. Timely(X) /\ \A it \in X.page.items :
          it \in procs[s].page.items \/ (it.at = events /\ it.text = Text(feed[it.id]))
  BY <1>7, <1>8, GrownPage
<1>12. Shows(X)
  BY <1>5, <1>6, <1>7 DEF Shows, Below
<1> QED
  BY <1>2, <1>7, <1>9, <1>10, <1>11, <1>12

\* The first request of a page keeps the invariant (FetchPage).
LEMMA FetchStep ==
    ASSUME IngestInv, NEW s \in Slots, FetchPage(s)
    PROVE  IngestInv'
<1>1. /\ procs[s].pc = "fetch" /\ Live(procs[s])
      /\ UNCHANGED <<platform, feed, approval, events, store, ck, active>>
  BY DEF FetchPage, Live
<1>2. /\ Types /\ ProcsSound /\ Dated /\ VersionsSound /\ RowsSound /\ WalkSound
      /\ PageSound(procs[s]) /\ BelowCap(procs[s]) /\ Timely(procs[s]) /\ procs[s] \in Process
  BY DEF IngestInv, ProcsSound, Types
<1>3. CASE /\ Preflight(procs[s])
           /\ \E pg \in WholePage(procs[s]) : procs' = [procs EXCEPT ![s] = Fetched(s, pg)]
           /\ walk' = IF StartsWalk(s) THEN [p \in Posts |-> IF p \in Listed THEN {feed[p]} ELSE {}]
                      ELSE walk
  <2>1. PICK pg \in WholePage(procs[s]) : procs' = [procs EXCEPT ![s] = Fetched(s, pg)]
    BY <1>3
  <2>2. PICK X : X = Fetched(s, pg)
    OBVIOUS
  <2>3. walk' \in [Posts -> SUBSET Served]
    <3>1. \A p \in Listed : feed[p] \in Served
      BY <1>2 DEF Types, Listed, Raws
    <3> QED
      BY <1>2, <1>3, <3>1 DEF Types
  <2>4. CASE platform = "reddit"
    <3>1. PICK paused \in BOOLEAN : pg = RedditPage(procs[s].so, procs[s].cursor, paused)
      BY <1>1, <1>3, <2>4, WholePageIs
    <3>2. /\ X \in Process /\ X.pc = "ready"
          /\ X.n = procs[s].n /\ X.rev = procs[s].rev /\ X.cursor = procs[s].cursor
          /\ PageSound(X) /\ BelowCap(X) /\ Timely(X) /\ Shows(X)
          /\ \A it \in X.page.items :
                it \in procs[s].page.items \/ (it.at = events /\ it.text = Text(feed[it.id]))
      BY <1>1, <2>2, <2>4, <3>1, RedditFetched
    <3>3. WalkSound'
      <4>1. CASE StartsWalk(s)
        BY <1>1, <1>3, <2>1, <2>2, <3>2, <4>1, WalkStarts
      <4>2. CASE ~StartsWalk(s)
        BY <1>1, <1>2, <1>3, <2>1, <2>2, <3>2, <4>2, ShownCovers, OneProcessWalk
      <4> QED
        BY <4>1, <4>2
    <3> QED
      BY <1>1, <2>1, <2>2, <2>3, <3>2, <3>3, ProcessStep
  <2>5. CASE platform # "reddit"
    <3>1. pg = Ready(NewPage, "exhausted")
      BY <1>1, <1>3, <2>5, WholePageIs
    <3>2. pg \in Page /\ pg.items = {} /\ pg.term = "exhausted"
      BY <3>1, ReadyIs, NewPageIs DEF Terms
    <3>3. /\ X \in Process /\ X.pc = "ready" /\ X.page = pg
          /\ X.n = procs[s].n /\ X.rev = procs[s].rev /\ X.cursor = procs[s].cursor
      BY <1>2, <2>2, <3>2, FetchedIs
    <3>4. PageSound(X) /\ BelowCap(X) /\ Timely(X)
      BY <1>2, <2>5, <3>2, <3>3, FS_EmptySet DEF PageSound, BelowCap, Timely
    <3>5. walk' = walk
      BY <1>3, <2>5 DEF StartsWalk
    <3>6. WalkSound'
      BY <1>1, <1>2, <2>1, <2>2, <2>5, <3>3, <3>5, OneProcessWalk
    <3> QED
      BY <1>1, <2>1, <2>2, <2>3, <3>2, <3>3, <3>4, <3>6, ProcessStep
  <2> QED
    BY <2>4, <2>5
<1>4. CASE /\ Preflight(procs[s]) /\ WholePage(procs[s]) = {}
           /\ procs' = [procs EXCEPT
                 ![s] = [procs[s] EXCEPT !.pc = "view", !.todo = FirstRequests(procs[s])]]
           /\ walk' = IF StartsWalk(s) THEN [p \in Posts |-> IF p \in Listed THEN {feed[p]} ELSE {}]
                      ELSE walk
  <2>1. platform # "reddit" /\ FirstRequests(procs[s]) \in SUBSET Posts
    BY <1>1, <1>4, WholePageIs
  <2>2. PICK X : X = [procs[s] EXCEPT !.pc = "view", !.todo = FirstRequests(procs[s])]
    OBVIOUS
  <2>3. /\ X \in Process /\ X.pc = "view" /\ X.page = procs[s].page /\ X.so = procs[s].so
        /\ X.n = procs[s].n /\ X.rev = procs[s].rev /\ X.cursor = procs[s].cursor
    BY <1>2, <2>1, <2>2 DEF Process
  <2>4. procs[s].page = NewPage /\ procs[s].so < PostCap
    BY <1>1, <1>2 DEF PageSound, BelowCap
  <2>5. PageSound(X) /\ BelowCap(X) /\ Timely(X)
    BY <1>2, <2>1, <2>3, <2>4, NewPageIs DEF PageSound, BelowCap, Timely
  <2>6. walk' = walk /\ walk' \in [Posts -> SUBSET Served]
    BY <1>2, <1>4, <2>1 DEF StartsWalk, Types
  <2>7. WalkSound'
    BY <1>1, <1>2, <1>4, <2>1, <2>2, <2>3, <2>6, OneProcessWalk
  <2> QED
    BY <1>1, <1>4, <2>2, <2>3, <2>5, <2>6, <2>7, ProcessStep
<1>5. CASE End(s, "idle") /\ UNCHANGED walk
  BY <1>1, <1>5, EndStep
<1> QED
  BY <1>3, <1>4, <1>5 DEF FetchPage

-----------------------------------------------------------------------------
(* Views *)

\* What a view makes of the page: posts it did not have, at their present text.
LEMMA ViewedIs ==
    ASSUME IngestInv, NEW s \in Slots, procs[s].pc = "view", NEW x \in procs[s].todo,
           NEW pg, pg = Viewed(procs[s], x)
    PROVE  /\ pg \in Page /\ IsFiniteSet(pg.items)
           /\ \A i, j \in pg.items : i.id = j.id => i = j
           /\ \E S \in SUBSET Posts : Extends(pg.items, procs[s].page.items, S)
           /\ platform = "dcinside" =>
                 \A it \in pg.items : it.id \notin procs[s].todo \ {x}
           /\ pg.term \in {"none", "post_cap", "byte_cap"}
<1>1. /\ Types /\ PageSound(procs[s]) /\ procs[s] \in Process
      /\ procs[s].page \in Page /\ procs[s].page.term = "none" /\ x \in Posts
  BY DEF IngestInv, ProcsSound, Types, Process, PageSound
<1>2. PICK old \in Page : old = procs[s].page
  BY <1>1
<1>3. IsFiniteSet(old.items) /\ \A i, j \in old.items : i.id = j.id => i = j
  BY <1>1, <1>2 DEF PageSound
<1>4. ASSUME NEW S \in SUBSET Posts, \A it \in old.items : it.id \notin S,
             NEW q, q = Add(old, S)
      PROVE  /\ q \in Page /\ q.term = old.term
             /\ q.items = old.items \cup {Item(p) : p \in S}
             /\ IsFiniteSet(q.items) /\ Extends(q.items, old.items, S)
             /\ \A i, j \in q.items : i.id = j.id => i = j
  <2>1. /\ q \in Page /\ q.term = old.term
        /\ q.items = old.items \cup {Item(p) : p \in S}
    BY <1>1, <1>4, AddIs
  <2> QED
    BY <1>1, <1>3, <1>4, <2>1, ItemsDistinct
<1>5. CASE platform = "dcinside"
  <2>1. pg = Add(old, {x})
    BY <1>2, <1>5 DEF Viewed, DcinsideView
  <2>2. PICK S \in SUBSET Posts : S = {x}
    BY <1>1
  <2>3. \A it \in old.items : it.id \notin procs[s].todo
    BY <1>1, <1>2, <1>5 DEF PageSound
  <2>4. \A it \in old.items : it.id \notin S
    BY <2>2, <2>3
  <2>5. /\ pg \in Page /\ pg.term = old.term
        /\ IsFiniteSet(pg.items) /\ Extends(pg.items, old.items, S)
        /\ \A i, j \in pg.items : i.id = j.id => i = j
    BY <1>4, <2>1, <2>2, <2>4
  <2>6. \A it \in pg.items : it.id \notin procs[s].todo \ {x}
    <3>1. Item(x).id = x
      BY <1>1, ItemIs
    <3> QED
      BY <2>2, <2>3, <2>5, <3>1 DEF Extends
  <2> QED
    BY <1>1, <1>2, <2>2, <2>5, <2>6
<1>6. CASE platform # "dcinside"
  <2> DEFINE m == Market(x)
             limit == PostCap - procs[s].so
             fresh == ManifoldFresh(old, m)
             kept == ManifoldAdd(old, fresh, limit)
  <2>1. fresh \subseteq Posts /\ \A it \in old.items : it.id \notin fresh
    <3>1. ManifoldComments(m) \subseteq Posts
      BY DEF ManifoldComments, Newest, Listed
    <3> QED
      BY <3>1 DEF ManifoldFresh
  <2>2. kept \subseteq fresh
    BY DEF ManifoldAdd
  <2>3. PICK q : q = Add(old, kept)
    OBVIOUS
  <2>4. PICK term : term = IF ~FitsPosts(q, limit) THEN "post_cap"
                           ELSE IF kept # fresh THEN "byte_cap" ELSE "none"
    OBVIOUS
  <2>5. term \in {"none", "post_cap", "byte_cap"} /\ term \in Terms
    BY <2>4 DEF Terms
  <2>6. pg = Ready(q, term)
    BY <1>2, <1>6, <2>3, <2>4 DEF Viewed, ManifoldMarketPage
  <2> HIDE DEF kept, fresh
  <2>7. /\ q \in Page /\ IsFiniteSet(q.items) /\ Extends(q.items, old.items, kept)
        /\ \A i, j \in q.items : i.id = j.id => i = j
    BY <1>4, <2>1, <2>2, <2>3
  <2>8. pg \in Page /\ pg.items = q.items /\ pg.term = term
    BY <2>5, <2>6, <2>7, ReadyIs
  <2> QED
    BY <1>2, <1>6, <2>1, <2>2, <2>5, <2>7, <2>8
<1> QED
  BY <1>5, <1>6

\* A view or a market's comments keep the invariant (View).
LEMMA ViewStep ==
    ASSUME IngestInv, NEW s \in Slots, View(s)
    PROVE  IngestInv'
<1>1. /\ procs[s].pc = "view" /\ Live(procs[s])
      /\ UNCHANGED <<platform, feed, approval, events, store, ck, active, walk>>
  BY DEF View, Live
<1>2. /\ Types /\ ProcsSound /\ Dated /\ VersionsSound /\ RowsSound /\ WalkSound
      /\ PageSound(procs[s]) /\ BelowCap(procs[s]) /\ Timely(procs[s]) /\ procs[s] \in Process
  BY DEF IngestInv, ProcsSound, Types
<1>3. PICK x \in procs[s].todo :
         \/ End(s, "idle")
         \/ procs' = [procs EXCEPT ![s] =
               IF Viewed(procs[s], x).term # "none" THEN Fetched(s, Viewed(procs[s], x))
               ELSE IF procs[s].todo = {x}
                    THEN Fetched(s, Ready(Viewed(procs[s], x), "exhausted"))
               ELSE [procs[s] EXCEPT !.todo = @ \ {x}, !.page = Viewed(procs[s], x)]]
  BY DEF View
<1>4. PICK pg : pg = Viewed(procs[s], x)
  OBVIOUS
<1>5. /\ pg \in Page /\ IsFiniteSet(pg.items)
      /\ \A i, j \in pg.items : i.id = j.id => i = j
      /\ \E S \in SUBSET Posts : Extends(pg.items, procs[s].page.items, S)
      /\ platform = "dcinside" => \A it \in pg.items : it.id \notin procs[s].todo \ {x}
      /\ pg.term \in {"none", "post_cap", "byte_cap"}
  BY <1>1, <1>4, ViewedIs
<1>6. platform # "reddit"
  BY <1>1, <1>2 DEF PageSound
<1>7. ASSUME NEW X \in Process, procs' = [procs EXCEPT ![s] = X],
             X.page.items = pg.items, PageSound(X), BelowCap(X),
             X.n = procs[s].n, X.rev = procs[s].rev, X.cursor = procs[s].cursor
      PROVE  IngestInv'
  <2>1. PICK S \in SUBSET Posts : Extends(X.page.items, procs[s].page.items, S)
    BY <1>5, <1>7
  <2>2. Timely(X) /\ \A it \in X.page.items :
          it \in procs[s].page.items \/ (it.at = events /\ it.text = Text(feed[it.id]))
    BY <1>7, <2>1, GrownPage
  <2>3. WalkSound'
    BY <1>1, <1>2, <1>6, <1>7, OneProcessWalk
  <2>4. walk' \in [Posts -> SUBSET Served]
    BY <1>1, <1>2 DEF Types
  <2> QED
    BY <1>1, <1>7, <2>2, <2>3, <2>4, ProcessStep
<1>8. ASSUME NEW q \in Page, q.items = pg.items,
             q.term \in {"exhausted", "post_cap", "byte_cap"},
             procs' = [procs EXCEPT ![s] = Fetched(s, q)]
      PROVE  IngestInv'
  <2>1. PICK X : X = Fetched(s, q)
    OBVIOUS
  <2>2. /\ X \in Process /\ X.pc = "ready" /\ X.page = q
        /\ X.n = procs[s].n /\ X.rev = procs[s].rev /\ X.cursor = procs[s].cursor
    BY <1>2, <2>1, FetchedIs
  <2>3. PageSound(X) /\ BelowCap(X)
    BY <1>5, <1>6, <1>8, <2>2 DEF PageSound, BelowCap
  <2> QED
    BY <1>7, <1>8, <2>1, <2>2, <2>3
<1>9. CASE End(s, "idle")
  BY <1>1, <1>9, EndStep
<1>10. CASE pg.term # "none" /\ procs' = [procs EXCEPT ![s] = Fetched(s, pg)]
  BY <1>5, <1>8, <1>10
<1>11. CASE procs' = [procs EXCEPT ![s] = Fetched(s, Ready(pg, "exhausted"))]
  <2>1. PICK q : q = Ready(pg, "exhausted")
    OBVIOUS
  <2>2. q \in Page /\ q.items = pg.items /\ q.term = "exhausted"
    BY <1>5, <2>1, ReadyIs DEF Terms
  <2> QED
    BY <1>8, <1>11, <2>1, <2>2
<1>12. CASE /\ pg.term = "none"
            /\ procs' = [procs EXCEPT ![s] = [procs[s] EXCEPT !.todo = @ \ {x}, !.page = pg]]
  <2>1. PICK X : X = [procs[s] EXCEPT !.todo = @ \ {x}, !.page = pg]
    OBVIOUS
  <2>2. procs[s].todo \ {x} \in SUBSET Posts
    BY <1>2 DEF Process
  <2>3. /\ X \in Process /\ X.pc = "view" /\ X.page = pg /\ X.so = procs[s].so
        /\ X.todo = procs[s].todo \ {x}
        /\ X.n = procs[s].n /\ X.rev = procs[s].rev /\ X.cursor = procs[s].cursor
    BY <1>1, <1>2, <1>5, <2>1, <2>2 DEF Process
  <2>4. PageSound(X) /\ BelowCap(X)
    BY <1>1, <1>2, <1>5, <1>6, <1>12, <2>3 DEF PageSound, BelowCap
  <2> QED
    BY <1>7, <1>12, <2>1, <2>3, <2>4
<1> QED
  BY <1>3, <1>4, <1>9, <1>10, <1>11, <1>12

-----------------------------------------------------------------------------
(* A page is committed *)

\* A post's revisions are finitely many, and counted.
LEMMA RevisionIs ==
    ASSUME Types, NEW p
    PROVE  /\ IsFiniteSet(Versions(p)) /\ Revision(p) \in Nat
           /\ Versions(p) # {} => Revision(p) # 0
<1>1. IsFiniteSet(Versions(p))
  <2>1. IsFiniteSet(store.versions)
    BY DEF Types
  <2> QED
    BY <2>1, FS_Subset DEF Versions
<1> QED
  BY <1>1, FS_CardinalityType, FS_EmptySet DEF Revision

\* A stored post has a current version, numbered last.
LEMMA CurrentIs ==
    ASSUME Types, VersionsSound, NEW p \in Posts, Versions(p) # {}
    PROVE  Current(p) \in Versions(p) /\ Current(p).rev = Revision(p)
<1>1. Revision(p) \in Nat /\ Revision(p) # 0
  BY RevisionIs
<1>2. {v.rev : v \in Versions(p)} = 1 .. Revision(p)
  BY DEF VersionsSound
<1>3. \E v \in Versions(p) : v.rev = Revision(p)
  <2>1. Revision(p) \in 1 .. Revision(p)
    BY <1>1
  <2> QED
    BY <1>2, <2>1
<1> QED
  BY <1>3, Zenon DEF Current

\* The three results an item can get, and what each says (classify_page_items).
LEMMA DispositionIs ==
    ASSUME NEW it
    PROVE  /\ Disposition(it) \in {"rejected", "duplicate", "accepted"}
           /\ Disposition(it) = "rejected" => it.kind = "oversize"
           /\ Disposition(it) = "accepted" =>
                 /\ it.kind # "oversize"
                 /\ Versions(it.id) = {} \/ Current(it.id).text # it.text
           /\ Disposition(it) = "duplicate" =>
                 Versions(it.id) # {} /\ Current(it.id).text = it.text
  BY DEF Disposition

\* The page transaction of a process, as it commits.
Committing(s) ==
    LET pr == procs[s] IN
    /\ pr.pc = "ready" /\ pr.n = active /\ pr.rev = ck.rev
    /\ ContentUnique(pr.page.items)
    /\ store' = PersistPageItems(pr.page.items, pr.n)
    /\ ck' = AdvanceCheckpoint(pr.page.items, pr.page.next)
    /\ procs' = [procs EXCEPT ![s] = NextState(pr)]
    /\ UNCHANGED <<platform, feed, approval, events, active, walk>>

AcceptedOf(s) == ClassifyPageItems(procs[s].page.items, "accepted")

\* The page a commit is given: the lease holder's, at the stored position.
LEMMA PageOfCommit ==
    ASSUME IngestInv, NEW s \in Slots, Committing(s)
    PROVE  /\ procs[s] \in Process /\ procs[s].page \in Page /\ procs[s].page.items \subseteq Items
           /\ PageSound(procs[s]) /\ BelowCap(procs[s]) /\ Live(procs[s])
           /\ AcceptedOf(s) \subseteq procs[s].page.items
           /\ \A i, j \in procs[s].page.items : i.id = j.id => i = j
           /\ \A it \in procs[s].page.items, v \in store.versions : v.at <= it.at
           /\ ck.rev \in Nat /\ procs[s].n = active /\ procs[s].rev = ck.rev
           /\ procs[s].cursor = ck.cursor
<1>1. /\ Types /\ PageSound(procs[s]) /\ BelowCap(procs[s]) /\ Timely(procs[s]) /\ Leased(s)
  BY DEF IngestInv, ProcsSound
<1>2. procs[s].pc = "ready" /\ procs[s].n = active /\ procs[s].rev = ck.rev /\ Live(procs[s])
  BY DEF Committing, Live
<1>3. procs[s] \in Process /\ procs[s].page \in Page /\ procs[s].page.items \subseteq Items
      /\ ck.rev \in Nat
  BY <1>1 DEF Types, Process, Page
<1> QED
  BY <1>1, <1>2, <1>3 DEF PageSound, Timely, Leased, AcceptedOf, ClassifyPageItems

\* An accepted item becomes the next revision of its post, with a text of its own
\* and no earlier time.
LEMMA NewVersionIs ==
    ASSUME IngestInv, NEW s \in Slots, Committing(s), NEW it \in AcceptedOf(s)
    PROVE  /\ NewVersion(it) \in Version
           /\ NewVersion(it).id = it.id /\ NewVersion(it).text = it.text
           /\ NewVersion(it).at = it.at /\ NewVersion(it).rev = Revision(it.id) + 1
           /\ NewVersion(it).rev <= it.at + 1 /\ NewVersion(it).rev = RevisionOf(it)
           /\ \A v \in Versions(it.id) :
                 v.text # it.text /\ v.rev \in 1 .. Revision(it.id) /\ v.at <= it.at
<1>1. /\ Types /\ VersionsSound /\ Dated
  BY DEF IngestInv
<1>2. /\ it \in procs[s].page.items /\ it \in Items
      /\ \A v \in store.versions : v.at <= it.at
  BY PageOfCommit
<1>3. it.id \in Posts /\ it.text \in Texts /\ it.at \in 0 .. MaxEvents
  BY <1>2 DEF Items
<1>4. Disposition(it) = "accepted"
  BY DEF AcceptedOf, ClassifyPageItems
<1>5. Revision(it.id) \in Nat
  BY <1>1, RevisionIs
<1>6. ASSUME NEW v \in Versions(it.id)
      PROVE  v.text # it.text /\ v.rev \in 1 .. Revision(it.id) /\ v.at <= it.at
  <2>1. v.text # it.text
    BY DEF Committing, ContentUnique, AcceptedOf
  <2>2. v.rev \in 1 .. Revision(it.id)
    BY <1>1, <1>3 DEF VersionsSound
  <2> QED
    BY <1>2, <2>1, <2>2 DEF Versions
<1>7. Revision(it.id) <= it.at
  <2>1. CASE Versions(it.id) = {}
    <3>1. Revision(it.id) = 0
      BY <2>1, FS_EmptySet DEF Revision
    <3> QED
      BY <1>3, <3>1
  <2>2. CASE Versions(it.id) # {}
    <3>1. PICK c \in Versions(it.id) : c.rev = Revision(it.id)
      BY <1>1, <1>3, <2>2, CurrentIs
    <3>2. c \in store.versions /\ c.id = it.id
      BY DEF Versions
    <3>3. c.rev <= c.at + 1 /\ c.at \in 0 .. MaxEvents /\ c.text \in Texts
      BY <1>1, <3>2 DEF VersionsSound, Types, Version
    <3>4. c.at # it.at
      <4>1. ASSUME c.at = it.at PROVE FALSE
        <5>1. Knows(it.id, it.at, c.text) /\ Knows(it.id, it.at, it.text)
          BY <1>2, <3>2, <4>1 DEF Knows
        <5>2. c.text = it.text
          BY <1>1, <1>3, <3>3, <5>1 DEF Dated
        <5> QED
          BY <1>6, <5>2
      <4> QED
        BY <4>1
    <3> QED
      BY <1>3, <1>6, <3>1, <3>3, <3>4
  <2> QED
    BY <2>1, <2>2
<1>8. PICK rev \in Nat : rev = Revision(it.id) + 1 /\ rev = RevisionOf(it)
  BY <1>4, <1>5 DEF RevisionOf
<1>9. NewVersion(it) = [id |-> it.id, rev |-> rev, text |-> it.text, at |-> it.at]
  BY <1>8 DEF NewVersion
<1>10. rev \in 1 .. MaxEvents + 1 /\ rev <= it.at + 1
  <2>1. MaxEvents \in Nat
    BY IngestAssumption DEF IngestAssumption
  <2> QED
    BY <1>3, <1>5, <1>7, <1>8, <2>1
<1> QED
  BY <1>3, <1>6, <1>8, <1>9, <1>10 DEF Version

\* The versions of a post after the commit.
LEMMA VersionsAfter ==
    ASSUME IngestInv, NEW s \in Slots, Committing(s), NEW p \in Posts
    PROVE  /\ \A it \in AcceptedOf(s) : it.id = p =>
                 /\ Versions(p)' = Versions(p) \cup {NewVersion(it)}
                 /\ Revision(p)' = Revision(p) + 1
           /\ (\A it \in AcceptedOf(s) : it.id # p) =>
                 Versions(p)' = Versions(p) /\ Revision(p)' = Revision(p)
<1>1. store'.versions = store.versions \cup {NewVersion(it) : it \in AcceptedOf(s)}
  BY DEF Committing, PersistPageItems, AcceptedOf
<1>2. \A it \in AcceptedOf(s) : NewVersion(it).id = it.id
  BY NewVersionIs
<1>3. ASSUME NEW it \in AcceptedOf(s), it.id = p
      PROVE  /\ Versions(p)' = Versions(p) \cup {NewVersion(it)}
             /\ Revision(p)' = Revision(p) + 1
  <2>1. \A other \in AcceptedOf(s) : other.id = p => other = it
    BY <1>3, PageOfCommit
  <2>2. Versions(p)' = Versions(p) \cup {NewVersion(it)}
    BY <1>1, <1>2, <1>3, <2>1 DEF Versions
  <2>3. NewVersion(it) \notin Versions(p)
    BY <1>3, NewVersionIs
  <2>4. IsFiniteSet(Versions(p))
    BY RevisionIs DEF IngestInv
  <2> QED
    BY <2>2, <2>3, <2>4, FS_AddElement DEF Revision
<1>4. ASSUME \A it \in AcceptedOf(s) : it.id # p
      PROVE  Versions(p)' = Versions(p) /\ Revision(p)' = Revision(p)
  <2>1. Versions(p)' = Versions(p)
    BY <1>1, <1>2, <1>4 DEF Versions
  <2> QED
    BY <2>1 DEF Revision
<1> QED
  BY <1>3, <1>4

\* The versions a commit adds continue each post's numbering and its times.
LEMMA CommitVersions ==
    ASSUME IngestInv, NEW s \in Slots, Committing(s)
    PROVE  /\ VersionsSound'
           /\ store'.versions \subseteq Version /\ IsFiniteSet(store'.versions)
<1>1. /\ Types /\ VersionsSound
      /\ store'.versions = store.versions \cup {NewVersion(it) : it \in AcceptedOf(s)}
  BY DEF IngestInv, Committing, PersistPageItems, AcceptedOf
<1>2. \A it \in AcceptedOf(s) :
        /\ NewVersion(it) \in Version
        /\ NewVersion(it).id = it.id /\ NewVersion(it).text = it.text
        /\ NewVersion(it).at = it.at /\ NewVersion(it).rev = Revision(it.id) + 1
        /\ NewVersion(it).rev <= it.at + 1
        /\ \A v \in Versions(it.id) :
              v.text # it.text /\ v.rev \in 1 .. Revision(it.id) /\ v.at <= it.at
  BY NewVersionIs
<1>3. /\ \A i, j \in AcceptedOf(s) : i.id = j.id => i = j
      /\ \A it \in AcceptedOf(s) : it.id \in Posts /\ it.at \in 0 .. MaxEvents
  BY PageOfCommit DEF Items
<1>4. \A p \in Posts : Revision(p) \in Nat
  BY <1>1, RevisionIs
<1>5. store'.versions \subseteq Version /\ IsFiniteSet(store'.versions)
  <2>1. IsFiniteSet(store.versions) /\ store.versions \subseteq Version
    BY <1>1 DEF Types
  <2> DEFINE T == {NewVersion(it) : it \in AcceptedOf(s)}
             f == [it \in AcceptedOf(s) |-> NewVersion(it)]
  <2>2. IsFiniteSet(AcceptedOf(s))
    BY PageOfCommit, FS_Subset DEF PageSound
  <2>3. f \in Surjection(AcceptedOf(s), T)
    BY DEF Surjection
  <2>4. store'.versions = store.versions \cup T /\ T \subseteq Version
    BY <1>1, <1>2
  <2> HIDE DEF T, f
  <2>5. IsFiniteSet(T)
    BY <2>2, <2>3, FS_Surjection
  <2> QED
    BY <2>1, <2>4, <2>5, FS_Union
<1>6. ASSUME NEW p \in Posts PROVE {v.rev : v \in Versions(p)'} = 1 .. Revision(p)'
  <2>1. {v.rev : v \in Versions(p)} = 1 .. Revision(p)
    BY <1>1 DEF VersionsSound
  <2>2. CASE \A it \in AcceptedOf(s) : it.id # p
    BY <2>1, <2>2, VersionsAfter
  <2>3. ASSUME NEW it \in AcceptedOf(s), it.id = p
        PROVE  {v.rev : v \in Versions(p)'} = 1 .. Revision(p)'
    <3>1. PICK n : n = NewVersion(it)
      OBVIOUS
    <3>2. Versions(p)' = Versions(p) \cup {n} /\ Revision(p)' = Revision(p) + 1
      BY <2>3, <3>1, VersionsAfter
    <3>3. n.rev = Revision(p) + 1
      BY <1>2, <2>3, <3>1
    <3>4. {v.rev : v \in Versions(p)'} = {v.rev : v \in Versions(p)} \cup {n.rev}
      BY <3>2
    <3>5. PICK k \in Nat : k = Revision(p)
      BY <1>4
    <3>6. 1 .. (k + 1) = (1 .. k) \cup {k + 1}
      OBVIOUS
    <3> QED
      BY <2>1, <3>2, <3>3, <3>4, <3>5, <3>6
  <2> QED
    BY <2>2, <2>3
\* Two versions of a post: both stored before, or one of them new.
<1>7. ASSUME NEW v \in store'.versions, NEW w \in store'.versions, v.id = w.id
      PROVE  /\ v.text = w.text \/ v.rev = w.rev => v = w
             /\ v.rev < w.rev => v.at <= w.at
  <2>1. ASSUME NEW it \in AcceptedOf(s), NEW n, n = NewVersion(it),
               NEW u \in store.versions, u.id = n.id
        PROVE  /\ u.text # n.text /\ u.rev < n.rev /\ u.at <= n.at
               /\ u.rev \in Nat /\ n.rev \in Nat
    <3>1. u \in Versions(it.id)
      BY <1>2, <2>1 DEF Versions
    <3>2. Revision(it.id) \in Nat
      BY <1>3, <1>4
    <3> QED
      BY <1>2, <2>1, <3>1, <3>2
  <2>2. CASE v \in store.versions /\ w \in store.versions
    BY <1>1, <1>7, <2>2 DEF VersionsSound
  <2>3. CASE v \in store.versions /\ w \notin store.versions
    <3>1. PICK it \in AcceptedOf(s) : w = NewVersion(it)
      BY <1>1, <2>3
    <3> QED
      BY <1>7, <2>1, <2>3, <3>1
  <2>4. CASE v \notin store.versions /\ w \in store.versions
    <3>1. PICK it \in AcceptedOf(s) : v = NewVersion(it)
      BY <1>1, <2>4
    <3>2. w.text # v.text /\ w.rev < v.rev /\ w.rev \in Nat /\ v.rev \in Nat
      BY <1>7, <2>1, <2>4, <3>1
    <3> QED
      BY <3>2
  <2>5. CASE v \notin store.versions /\ w \notin store.versions
    <3>1. PICK i \in AcceptedOf(s), j \in AcceptedOf(s) :
             v = NewVersion(i) /\ w = NewVersion(j)
      BY <1>1, <2>5
    <3>2. v = w
      BY <1>2, <1>3, <1>7, <3>1
    <3>3. v.rev \in Nat
      BY <1>5 DEF Version
    <3> QED
      BY <3>2, <3>3
  <2> QED
    BY <2>2, <2>3, <2>4, <2>5
<1>8. \A v \in store'.versions : v.rev <= v.at + 1
  BY <1>1, <1>2 DEF VersionsSound
<1> QED
  BY <1>5, <1>6, <1>7, <1>8 DEF VersionsSound

\* The queue, items and watermark a commit writes name the versions it stored.
LEMMA CommitRows ==
    ASSUME IngestInv, NEW s \in Slots, Committing(s)
    PROVE  /\ RowsSound' /\ ck'.mark \in {0} \cup Posts
           /\ \A it \in store'.items : it.id \in Posts
<1> DEFINE items == procs[s].page.items
           shown == Shown(items)
           row(it) == [c |-> ck.rev + 1, id |-> it.id, rev |-> RevisionOf(it),
                       text |-> it.text]
<1>1. /\ Types /\ VersionsSound /\ RowsSound
      /\ store'.versions = store.versions \cup {NewVersion(it) : it \in AcceptedOf(s)}
      /\ store'.queue = store.queue
            \cup {[id |-> it.id, rev |-> RevisionOf(it)] : it \in AcceptedOf(s)}
      /\ store'.items = store.items \cup {row(it) : it \in shown}
      /\ ck'.mark = Max({ck.mark} \cup {it.id : it \in shown})
  BY DEF IngestInv, Committing, PersistPageItems, AdvanceCheckpoint, AcceptedOf
<1>2. \A it \in shown : it \in items /\ it.id \in Posts
  BY PageOfCommit DEF Shown, Items
<1>3. store'.queue = {[id |-> v.id, rev |-> v.rev] : v \in store'.versions}
  <2>1. store.queue = {[id |-> v.id, rev |-> v.rev] : v \in store.versions}
    BY <1>1 DEF RowsSound
  <2>2. \A it \in AcceptedOf(s) :
          NewVersion(it).id = it.id /\ NewVersion(it).rev = RevisionOf(it)
    BY NewVersionIs
  <2> QED
    BY <1>1, <2>1, <2>2
<1>4. ASSUME NEW it \in shown
      PROVE  \E v \in store'.versions : /\ v.id = row(it).id /\ v.rev = row(it).rev
                                        /\ v.text = row(it).text
  <2>1. row(it).id = it.id /\ row(it).rev = RevisionOf(it) /\ row(it).text = it.text
    OBVIOUS
  <2>2. Disposition(it) # "rejected" /\ it \in items
    BY DEF Shown, ClassifyPageItems
  <2>3. CASE Disposition(it) = "accepted"
    <3>1. it \in AcceptedOf(s)
      BY <2>2, <2>3 DEF AcceptedOf, ClassifyPageItems
    <3>2. NewVersion(it).id = it.id /\ NewVersion(it).rev = RevisionOf(it)
          /\ NewVersion(it).text = it.text
      BY <3>1, NewVersionIs
    <3> QED
      BY <1>1, <2>1, <3>1, <3>2
  <2>4. CASE Disposition(it) = "duplicate"
    <3>1. Current(it.id) \in Versions(it.id) /\ Current(it.id).rev = Revision(it.id)
          /\ Current(it.id).text = it.text
      BY <1>1, <1>2, <2>4, CurrentIs, DispositionIs
    <3>2. RevisionOf(it) = Revision(it.id)
      <4>1. Revision(it.id) \in Nat
        BY <1>1, RevisionIs
      <4> QED
        BY <2>4, <4>1 DEF RevisionOf
    <3>3. Current(it.id) \in store'.versions /\ Current(it.id).id = it.id
      BY <1>1, <3>1 DEF Versions
    <3> QED
      BY <2>1, <3>1, <3>2, <3>3
  <2> QED
    BY <2>2, <2>3, <2>4, DispositionIs
<1>5. \A it \in shown : row(it).id = it.id
  OBVIOUS
<1> DEFINE ids == {it.id : it \in store.items}
           new == {it.id : it \in shown}
<1>6. {it.id : it \in store'.items} = ids \cup new
  <2> HIDE DEF shown, items
  <2>1. ASSUME NEW it \in store'.items PROVE it.id \in ids \cup new
    <3>1. CASE it \in store.items
      BY <3>1
    <3>2. CASE it \notin store.items
      <4>1. PICK x \in shown : it = row(x)
        BY <1>1, <3>2
      <4>2. it.id = x.id
        BY <1>5, <4>1
      <4> QED
        BY <4>2
    <3> QED
      BY <3>1, <3>2
  <2>2. \A it \in store.items : it \in store'.items
    BY <1>1
  <2>3. \A x \in shown : row(x) \in store'.items /\ row(x).id = x.id
    BY <1>1, <1>5
  <2>4. ids \subseteq {it.id : it \in store'.items}
    BY <2>2
  <2>5. new \subseteq {it.id : it \in store'.items}
    <3> HIDE DEF row
    <3>1. ASSUME NEW x \in shown PROVE x.id \in {it.id : it \in store'.items}
      BY <2>3
    <3> QED
      BY <3>1
  <2>6. {it.id : it \in store'.items} \subseteq ids \cup new
    BY <2>1
  <2> QED
    BY <2>4, <2>5, <2>6
<1> HIDE DEF shown, items
<1>7. ids \subseteq Posts /\ new \subseteq Posts
  BY <1>1, <1>2 DEF Types
<1> HIDE DEF row
<1>8. /\ \A it \in store'.items : it.id \in Posts
      /\ \A it \in store'.items : \E v \in store'.versions :
            v.id = it.id /\ v.rev = it.rev /\ v.text = it.text
  <2>1. ASSUME NEW it \in store'.items
        PROVE  /\ it.id \in Posts
               /\ \E v \in store'.versions : v.id = it.id /\ v.rev = it.rev /\ v.text = it.text
    <3>1. CASE it \in store.items
      BY <1>1, <3>1 DEF Types, RowsSound
    <3>2. CASE it \notin store.items
      <4>1. PICK shownItem \in shown : it = row(shownItem)
        BY <1>1, <3>2
      <4> QED
        BY <1>2, <1>4, <1>5, <4>1
    <3> QED
      BY <3>1, <3>2
  <2> QED
    BY <2>1
<1> HIDE DEF ids, new
<1>9. ck'.mark = Max({0} \cup ids \cup new) /\ ck'.mark \in {0} \cup Posts
  <2>1. ck.mark = Max({0} \cup ids)
    BY <1>1 DEF RowsSound, ids
  <2>2. {0} \cup Posts \subseteq Nat
    BY PostNumbers
  <2>3. ck.mark \in {0} \cup ids /\ \A y \in {0} \cup ids : y <= ck.mark
    BY <1>7, <2>1, LargestPost
  <2>4. PICK m : m = Max({ck.mark} \cup new)
    OBVIOUS
  <2>5. m \in {ck.mark} \cup new /\ \A y \in {ck.mark} \cup new : y <= m
    BY <1>7, <2>3, <2>4, LargestPost
  <2>6. m \in {0} \cup ids \cup new
    BY <2>3, <2>5
  <2>7. ASSUME NEW y \in {0} \cup ids \cup new PROVE y <= m
    <3>1. y \in Nat /\ m \in Nat /\ ck.mark \in Nat /\ ck.mark <= m
      BY <1>7, <2>2, <2>3, <2>5, <2>6
    <3>2. y <= ck.mark \/ y <= m
      BY <2>3, <2>5, <2>7
    <3> QED
      BY <3>1, <3>2
  <2>8. Max({0} \cup ids \cup new) = m
    BY <1>7, <2>2, <2>6, <2>7, LargestIs
  <2>9. ck'.mark = m
    BY <1>1, <2>4 DEF new
  <2> QED
    BY <1>7, <2>6, <2>8, <2>9
<1>10. ck'.mark = Max({0} \cup {it.id : it \in store'.items})
  <2>1. {0} \cup (ids \cup new) = {0} \cup ids \cup new
    OBVIOUS
  <2> QED
    BY <1>6, <1>9, <2>1
<1> QED
  BY <1>3, <1>8, <1>9, <1>10 DEF RowsSound

\* The state a process goes on in after its commit.
LEMMA NextStateIs ==
    ASSUME IngestInv, NEW s \in Slots, Committing(s), NEW X, X = NextState(procs[s])
    PROVE  /\ X \in Process /\ X.page = NewPage
           /\ \/ X = Idle
              \/ /\ X.pc = "fetch" /\ X.n = procs[s].n /\ X.rev = ck.rev + 1
                 /\ X.cursor = procs[s].page.next /\ X.so < PostCap
<1>1. /\ procs[s] \in Process /\ procs[s].page \in Page /\ procs[s].page.items \subseteq Items
      /\ PageSound(procs[s]) /\ BelowCap(procs[s]) /\ procs[s].pc = "ready"
      /\ procs[s].rev = ck.rev /\ ck.rev \in Nat
  BY PageOfCommit DEF Committing
<1>2. CASE X = Idle
  BY <1>2, IdleIs
<1>3. CASE X # Idle
  <2>1. /\ procs[s].page.term \notin {"exhausted", "post_cap", "byte_cap", "pause"}
        /\ X = [Idle EXCEPT !.n = procs[s].n, !.pc = "fetch", !.auth = procs[s].auth,
                            !.rev = procs[s].rev + 1, !.cursor = procs[s].page.next,
                            !.pages = procs[s].pages + 1,
                            !.so = procs[s].so + Cardinality(AcceptedOf(s))]
    <3>1. ~(TerminalReason(procs[s]) # "none" \/ procs[s].page.term = "pause")
      BY <1>3 DEF NextState
    <3> QED
      BY <3>1 DEF NextState, TerminalReason, AcceptedOf
  <2>2. AcceptedOf(s) \subseteq Accepted(procs[s].page.items)
    <3>1. ASSUME NEW it \in AcceptedOf(s) PROVE it.kind = "post" /\ it \in procs[s].page.items
      <4>1. it \in procs[s].page.items /\ Disposition(it) = "accepted"
        BY DEF AcceptedOf, ClassifyPageItems
      <4>2. it.kind \in {"post", "oversize"} /\ it.kind # "oversize"
        BY <1>1, <4>1, DispositionIs DEF Items
      <4> QED
        BY <4>1, <4>2
    <3> QED
      BY <3>1 DEF Accepted
  <2>3. IsFiniteSet(Accepted(procs[s].page.items))
    BY <1>1, FS_Subset DEF PageSound, Accepted
  <2>4. /\ Cardinality(AcceptedOf(s)) <= Cardinality(Accepted(procs[s].page.items))
        /\ Cardinality(AcceptedOf(s)) \in Nat
        /\ Cardinality(Accepted(procs[s].page.items)) \in Nat
    BY <2>2, <2>3, FS_Subset, FS_CardinalityType
  <2>5. procs[s].so + Cardinality(Accepted(procs[s].page.items)) < PostCap
    BY <1>1, <2>1 DEF BelowCap
  <2>6. PICK so \in 0 .. PostCap :
           so = procs[s].so + Cardinality(AcceptedOf(s)) /\ so < PostCap
    <3>1. procs[s].so \in Nat /\ PostCap \in Nat
      BY <1>1, IngestAssumption DEF Process, IngestAssumption
    <3> QED
      BY <2>4, <2>5, <3>1
  <2>7. /\ procs[s].n \in 0 .. MaxRuns /\ procs[s].auth \in Nat /\ procs[s].rev + 1 \in Nat
        /\ procs[s].page.next \in Cursors /\ procs[s].pages + 1 \in Nat
    BY <1>1 DEF Process, Page
  <2>8. /\ X \in Process /\ X.page = Idle.page /\ X.pc = "fetch" /\ X.n = procs[s].n
        /\ X.rev = procs[s].rev + 1 /\ X.cursor = procs[s].page.next /\ X.so = so
    BY <2>1, <2>6, <2>7, IdleIs DEF Process
  <2> QED
    BY <1>1, <2>6, <2>8, IdleIs
<1> QED
  BY <1>2, <1>3

\* After a commit its process goes on from the receipt; the others hold nothing new.
LEMMA CommitProcesses ==
    ASSUME IngestInv, NEW s \in Slots, Committing(s)
    PROVE  ProcsSound' /\ Dated' /\ procs' \in [Slots -> Process]
<1>1. PICK X : X = NextState(procs[s])
  OBVIOUS
<1>2. /\ X \in Process /\ X.page = NewPage /\ X.page.items = {}
      /\ \/ X = Idle
         \/ /\ X.pc = "fetch" /\ X.n = procs[s].n /\ X.rev = ck.rev + 1
            /\ X.cursor = procs[s].page.next /\ X.so < PostCap
  BY <1>1, NextStateIs, NewPageIs
<1>3. /\ Types /\ ProcsSound /\ Dated
      /\ ck.rev \in Nat /\ ck'.rev = ck.rev + 1 /\ ck'.cursor = procs[s].page.next
      /\ active' = active /\ platform' = platform /\ events' = events /\ feed' = feed
      /\ procs[s].n = active /\ Live(procs[s]) /\ active \in Nat
  <2>1. ck.rev \in Nat /\ procs[s].n = active /\ Live(procs[s])
    BY PageOfCommit
  <2>2. /\ ck'.rev = ck.rev + 1 /\ ck'.cursor = procs[s].page.next
        /\ active' = active /\ platform' = platform /\ events' = events /\ feed' = feed
    BY DEF Committing, AdvanceCheckpoint
  <2>3. Types /\ ProcsSound /\ Dated
    BY DEF IngestInv
  <2>4. active \in Nat
    <3>1. active \in 0 .. MaxRuns
      BY <2>3 DEF Types
    <3> QED
      BY <3>1
  <2> QED
    BY <2>1, <2>2, <2>3, <2>4
<1>4. /\ procs'[s] = X /\ \A t \in Slots : t # s => procs'[t] = procs[t]
      /\ procs' \in [Slots -> Process]
  BY <1>1, <1>2, <1>3 DEF Committing, Types
<1>5. PageSound(X) /\ BelowCap(X)
  BY <1>2, IdleIs, FS_EmptySet DEF PageSound, BelowCap
<1>6. ASSUME NEW t \in Slots PROVE PageSound(procs[t])' /\ BelowCap(procs[t])'
  <2>1. PICK pr : pr = procs'[t]
    OBVIOUS
  <2>2. PageSound(pr) /\ BelowCap(pr)
    BY <1>3, <1>4, <1>5, <2>1 DEF ProcsSound
  <2>3. PageSound(procs[t])'
    BY <1>3, <2>1, <2>2 DEF PageSound
  <2>4. BelowCap(procs[t])'
    BY <2>1, <2>2 DEF BelowCap
  <2> QED
    BY <2>3, <2>4
<1>7. ASSUME NEW t \in Slots PROVE Timely(procs[t])' /\ Leased(t)'
  <2>1. /\ Timely(procs[t]) /\ Leased(t) /\ procs[t] \in Process
        /\ Timely(procs[s]) /\ Leased(s)
    BY <1>3 DEF ProcsSound, Types
  <2>2. procs[t].rev \in Nat /\ procs[t].rev <= ck.rev /\ procs[t].n <= active
    BY <2>1 DEF Timely, Leased, Process
  <2>3. CASE t = s
    <3>1. Timely(procs[t])'
      BY <1>2, <1>3, <1>4, <2>3, IdleIs DEF Timely
    <3>2. X.n <= active /\ (Live(X) => /\ X.n = active /\ X.rev = ck'.rev
                                       /\ X.cursor = ck'.cursor)
      BY <1>2, <1>3, IdleIs DEF Live
    <3>3. \A u \in Slots : Live(procs'[u]) /\ procs'[u].n = active => u = s
      BY <1>3, <1>4, <2>1 DEF Leased
    <3>4. Live(X) => procs[s].n # 0
      BY <1>3, <2>1 DEF Leased
    <3> QED
      BY <1>3, <1>4, <2>3, <3>1, <3>2, <3>3, <3>4 DEF Leased, Live
  <2>4. CASE t # s
    <3>1. procs'[t] = procs[t]
      BY <1>4, <2>4
    <3>2. Timely(procs[t])'
      BY <1>3, <2>2, <3>1 DEF Timely
    <3>3. Live(procs[t]) => procs[t].n # active
      BY <1>3, <2>1, <2>4 DEF Leased
    <3>4. \A u \in Slots : Live(procs'[u]) =>
             Live(procs[u]) /\ procs'[u].n = procs[u].n
      BY <1>2, <1>3, <1>4, IdleIs DEF Live
    <3> QED
      BY <1>3, <2>1, <3>1, <3>2, <3>3, <3>4 DEF Leased, Live
  <2> QED
    BY <2>3, <2>4
<1>8. Dated'
  <2>1. ASSUME NEW p \in Posts, NEW at \in 0 .. MaxEvents, NEW text \in Texts,
               Knows(p, at, text)'
        PROVE  Knows(p, at, text)
    <3>1. CASE \E v \in store'.versions : v.id = p /\ v.at = at /\ v.text = text
      <4>1. PICK v \in store'.versions : v.id = p /\ v.at = at /\ v.text = text
        BY <3>1
      <4>2. CASE v \in store.versions
        BY <4>1, <4>2 DEF Knows
      <4>3. CASE v \notin store.versions
        <5>1. PICK it \in AcceptedOf(s) : v = NewVersion(it)
          BY <4>3 DEF Committing, PersistPageItems, AcceptedOf
        <5>2. it \in procs[s].page.items /\ it.id = p /\ it.at = at /\ it.text = text
          BY <4>1, <5>1, NewVersionIs, PageOfCommit
        <5> QED
          BY <5>2 DEF Knows
      <4> QED
        BY <4>2, <4>3
    <3>2. CASE \E t \in Slots : \E it \in procs'[t].page.items :
                  it.id = p /\ it.at = at /\ it.text = text
      BY <1>2, <1>4, <3>2 DEF Knows
    <3> QED
      BY <2>1, <3>1, <3>2 DEF Knows
  <2> QED
    BY <1>3, <2>1, DatedStands
<1> QED
  BY <1>4, <1>6, <1>7, <1>8 DEF ProcsSound

\* What a Reddit page passes is stored once the page is committed: above the page it
\* was, and the page itself holds the rest.
LEMMA PassedIsCovered ==
    ASSUME IngestInv, NEW s \in Slots, Committing(s), platform = "reddit",
           NEW p \in Posts, Walked(p),
           procs[s].page.next = None \/ p >= procs[s].page.next
    PROVE  Covered(p)'
<1>1. /\ Types /\ VersionsSound /\ WalkSound /\ PageSound(procs[s])
      /\ procs[s].page.items \subseteq Items /\ procs[s].cursor = ck.cursor
      /\ procs[s].n = active /\ procs[s].cursor \in Cursors
      /\ AcceptedOf(s) \subseteq procs[s].page.items
      /\ \A i, j \in procs[s].page.items : i.id = j.id => i = j
  BY PageOfCommit DEF IngestInv, Process
<1>2. procs[s].pc = "ready" /\ walk' = walk
  BY DEF Committing
<1>3. WalkTexts(p)' = WalkTexts(p)
  BY <1>2 DEF WalkTexts
<1>4. CASE procs[s].cursor # None /\ p >= procs[s].cursor
  <2>1. Covered(p)
    BY <1>1, <1>4 DEF WalkSound
  <2>2. \A it \in AcceptedOf(s) : it.id # p
    <3>1. ASSUME NEW it \in AcceptedOf(s), it.id = p PROVE FALSE
      <4>1. it.id < procs[s].cursor
        BY <1>1, <1>4 DEF PageSound
      <4>2. Posts \subseteq Nat /\ Cursors \subseteq Nat
        BY PostNumbers DEF Cursors, None
      <4>3. p \in Nat /\ procs[s].cursor \in Nat
        BY <1>1, <4>2
      <4> QED
        BY <1>4, <3>1, <4>1, <4>3
    <3> QED
      BY <3>1
  <2>3. Versions(p)' = Versions(p) /\ Revision(p)' = Revision(p)
    BY <2>2, VersionsAfter
  <2> QED
    BY <1>3, <2>1, <2>3 DEF Covered
<1>5. CASE ~(procs[s].cursor # None /\ p >= procs[s].cursor)
  <2>1. procs[s].cursor = None \/ p < procs[s].cursor
    BY <1>1, <1>5, PostNumbers DEF Cursors, None
  <2>2. PageCovers(procs[s])
    BY <1>1, <1>2 DEF WalkSound
  <2>3. PICK it \in procs[s].page.items : it.id = p /\ it.kind = "post" /\ it.text \in WalkTexts(p)
    BY <2>1, <2>2 DEF PageCovers
  <2>4. CASE Disposition(it) = "accepted"
    <3>1. it \in AcceptedOf(s)
      BY <2>3, <2>4 DEF AcceptedOf, ClassifyPageItems
    <3>2. /\ Versions(p)' = Versions(p) \cup {NewVersion(it)}
          /\ Revision(p)' = Revision(p) + 1
      BY <2>3, <3>1, VersionsAfter
    <3>3. NewVersion(it).text = it.text /\ NewVersion(it).rev = Revision(p) + 1
      BY <2>3, <3>1, NewVersionIs
    <3> QED
      BY <1>3, <2>3, <3>2, <3>3 DEF Covered
  <2>5. CASE Disposition(it) = "duplicate"
    <3>1. /\ Current(p) \in Versions(p) /\ Current(p).rev = Revision(p)
          /\ Current(p).text = it.text
      BY <1>1, <2>3, <2>5, DispositionIs, CurrentIs
    <3>2. \A j \in AcceptedOf(s) : j.id # p
      <4>1. ASSUME NEW j \in AcceptedOf(s), j.id = p PROVE FALSE
        <5>1. j = it /\ Disposition(j) = "accepted"
          BY <1>1, <2>3, <4>1 DEF AcceptedOf, ClassifyPageItems
        <5> QED
          BY <2>5, <5>1
      <4> QED
        BY <4>1
    <3>3. Versions(p)' = Versions(p) /\ Revision(p)' = Revision(p)
      BY <3>2, VersionsAfter
    <3> QED
      BY <1>3, <2>3, <3>1, <3>3 DEF Covered
  <2> QED
    BY <2>3, <2>4, <2>5, DispositionIs
<1> QED
  BY <1>4, <1>5

\* A commit moves a Reddit walk past the posts of its page, which are stored.
LEMMA CommitWalk ==
    ASSUME IngestInv, NEW s \in Slots, Committing(s)
    PROVE  WalkSound'
<1>1. /\ WalkSound /\ Leased(s) /\ procs \in [Slots -> Process]
      /\ UNCHANGED <<platform, feed, active, walk>>
      /\ procs[s].n = active /\ Live(procs[s])
  BY PageOfCommit DEF IngestInv, ProcsSound, Committing, Types
<1>2. ck'.cursor = procs[s].page.next
  BY DEF Committing, AdvanceCheckpoint
<1>3. \A p \in Posts : walk'[p] # {} => p \in Listed' /\ feed'[p] \in walk'[p]
  BY <1>1 DEF WalkSound, Listed
<1>4. \A t \in Slots : ~(procs'[t].pc = "ready" /\ procs'[t].n = active')
  <2>1. PICK X : X = NextState(procs[s])
    OBVIOUS
  <2>2. X.pc # "ready"
    BY <2>1, NextStateIs, IdleIs
  <2>3. procs'[s] = X /\ \A t \in Slots : t # s => procs'[t] = procs[t]
    BY <1>1, <2>1 DEF Committing
  <2>4. ASSUME NEW t \in Slots, t # s, procs[t].pc = "ready", procs[t].n = active
        PROVE  FALSE
    BY <1>1, <2>4 DEF Leased, Live
  <2> QED
    BY <1>1, <2>2, <2>3, <2>4
<1>5. ASSUME platform = "reddit", ck'.cursor # None, NEW p \in Posts, Walked(p)',
             p >= ck'.cursor
      PROVE  Covered(p)'
  <2>1. Walked(p)
    BY <1>1, <1>5 DEF Walked
  <2> QED
    BY <1>2, <1>5, <2>1, PassedIsCovered
<1> QED
  BY <1>1, <1>3, <1>4, <1>5 DEF WalkSound

\* The transaction as the code takes it: it commits, or one of its checks ends the
\* process.
LEMMA CommitOrEnd ==
    ASSUME NEW s \in Slots, CommitPage(s)
    PROVE  \/ Committing(s)
           \/ /\ \E how \in {"idle", "cap", "content"} : End(s, how)
              /\ UNCHANGED <<platform, feed, approval, events, store, ck, active, walk>>
  BY DEF CommitPage, Committing, ValidNewPageCommit

\* The page transaction keeps the invariant (CommitPage).
LEMMA CommitStep ==
    ASSUME IngestInv, NEW s \in Slots, CommitPage(s)
    PROVE  IngestInv'
<1>1. CASE Committing(s)
  <2>1. /\ Types /\ UNCHANGED <<platform, feed, approval, events, active, walk>>
        /\ ck' = AdvanceCheckpoint(procs[s].page.items, procs[s].page.next)
    BY <1>1 DEF IngestInv, Committing
  <2>2. /\ VersionsSound' /\ RowsSound' /\ ProcsSound' /\ Dated' /\ WalkSound'
        /\ store'.versions \subseteq Version /\ IsFiniteSet(store'.versions)
        /\ \A it \in store'.items : it.id \in Posts
        /\ ck'.mark \in {0} \cup Posts /\ procs' \in [Slots -> Process]
    BY <1>1, CommitVersions, CommitRows, CommitProcesses, CommitWalk
  <2>3. ck' \in [rev : Nat, cursor : Cursors, mark : {0} \cup Posts]
    <3>1. procs[s].page.next \in Cursors /\ ck.rev + 1 \in Nat
      BY <1>1, PageOfCommit DEF Page
    <3>2. PICK mark : mark = Max({ck.mark} \cup {it.id : it \in Shown(procs[s].page.items)})
      OBVIOUS
    <3>3. ck' = [rev |-> ck.rev + 1, cursor |-> procs[s].page.next, mark |-> mark]
      BY <2>1, <3>2 DEF AdvanceCheckpoint
    <3>4. mark \in {0} \cup Posts
      BY <2>2, <3>3
    <3> QED
      BY <3>1, <3>3, <3>4
  <2>4. Types'
    BY <2>1, <2>2, <2>3 DEF Types
  <2> QED
    BY <2>2, <2>4 DEF IngestInv
<1>2. CASE ~Committing(s)
  BY <1>2, CommitOrEnd, EndStep
<1> QED
  BY <1>1, <1>2

-----------------------------------------------------------------------------
(* The theorems *)

\* The invariant holds at the start.
LEMMA IngestInit == Init => IngestInv
<1> SUFFICES ASSUME Init PROVE IngestInv
  OBVIOUS
<1>1. /\ platform \in Platforms
      /\ \E k \in {0} \cup Posts : feed = [p \in Posts |-> IF p <= k THEN "x" ELSE "unborn"]
      /\ approval = [id |-> 1, active |-> TRUE, lapsed |-> {}]
      /\ events = 0
      /\ store = [versions |-> {}, queue |-> {}, seen |-> {}, items |-> {}]
      /\ ck = [rev |-> 0, cursor |-> None, mark |-> 0]
      /\ active = 0
      /\ procs = [t \in Slots |-> Idle]
      /\ walk = [p \in Posts |-> {}]
  BY DEF Init
<1>2. MaxEvents \in Nat /\ MaxRuns \in Nat /\ PostCap \in Nat \ {0} /\ "x" \in Served
  BY IngestAssumption DEF IngestAssumption
<1>3. /\ store.versions = {} /\ store.queue = {} /\ store.items = {}
      /\ ck.rev = 0 /\ ck.cursor = None /\ ck.mark = 0
  BY <1>1
<1>4. \A t \in Slots : procs[t] = Idle
  BY <1>1
<1>5. \A p \in Posts : walk[p] = {}
  BY <1>1
<1>6. Types
  <2>1. feed \in [Posts -> Raws]
    BY <1>1, <1>2 DEF Raws
  <2>2. approval \in [id : Nat, active : BOOLEAN, lapsed : SUBSET Nat]
    <3>1. PICK b \in BOOLEAN : b = TRUE
      OBVIOUS
    <3>2. approval = [id |-> 1, active |-> b, lapsed |-> {}]
      BY <1>1, <3>1
    <3> QED
      BY <3>2
  <2>3. ck \in [rev : Nat, cursor : Cursors, mark : {0} \cup Posts]
    BY <1>1 DEF Cursors
  <2>4. procs \in [Slots -> Process]
    BY <1>1, IdleIs
  <2>5. walk \in [Posts -> SUBSET Served]
    BY <1>1
  <2>6. IsFiniteSet(store.versions)
    BY <1>3, FS_EmptySet
  <2> QED
    BY <1>1, <1>2, <1>3, <2>1, <2>2, <2>3, <2>4, <2>5, <2>6 DEF Types
<1>7. ProcsSound
  <2>1. PICK X : X = Idle
    OBVIOUS
  <2>2. X \in Process /\ X.n = 0 /\ X.pc = "idle" /\ X.page = NewPage /\ X.rev = 0
    BY <2>1, IdleIs
  <2>3. PageSound(X) /\ BelowCap(X) /\ Timely(X)
    BY <1>3, <1>6, <2>2, BareProcess
  <2>4. \A t \in Slots : procs[t] = X
    BY <1>4, <2>1
  <2>5. \A t \in Slots : Leased(t)
    BY <1>1, <2>2, <2>4 DEF Leased, Live
  <2> QED
    BY <2>3, <2>4, <2>5 DEF ProcsSound
<1>8. Dated
  <2>1. \A p, at, text : ~Knows(p, at, text)
    <3>1. Idle.page.items = {}
      BY IdleIs, NewPageIs
    <3> QED
      BY <1>3, <1>4, <3>1 DEF Knows
  <2> QED
    BY <2>1 DEF Dated
<1>9. \A p : Versions(p) = {} /\ Revision(p) = 0
  BY <1>3, FS_EmptySet DEF Versions, Revision
<1>10. VersionsSound
  BY <1>3, <1>9 DEF VersionsSound
<1>11. RowsSound
  <2>1. {0} \cup {it.id : it \in store.items} = {0}
    BY <1>3
  <2>2. Max({0}) = 0
    BY LargestIs
  <2> QED
    BY <1>3, <2>1, <2>2 DEF RowsSound
<1>12. WalkSound
  BY <1>3, <1>4, <1>5, IdleIs DEF WalkSound
<1> QED
  BY <1>6, <1>7, <1>8, <1>10, <1>11, <1>12 DEF IngestInv

\* The invariant is about the ingestion's variables only.
LEMMA IngestStutters ==
    ASSUME IngestInv, UNCHANGED vars
    PROVE  IngestInv'
<1> USE DEF vars
<1>1. Types' /\ ProcsSound' /\ Dated'
  <2>1. Types'
    BY DEF IngestInv, Types
  <2>2. ProcsSound'
    BY DEF IngestInv, ProcsSound, PageSound, BelowCap, Timely, Leased
  <2>3. Dated'
    BY DEF IngestInv, Dated, Knows
  <2> QED
    BY <2>1, <2>2, <2>3
<1>2. VersionsSound' /\ RowsSound'
  BY RowsStand DEF IngestInv
<1>3. WalkSound'
  BY DEF IngestInv, WalkSound, Listed, PageCovers, Walked, WalkTexts, Covered, Versions, Revision
<1> QED
  BY <1>1, <1>2, <1>3 DEF IngestInv

\* Every step keeps the invariant.
LEMMA IngestKeeps == IngestInv /\ [Next]_vars => IngestInv'
<1> SUFFICES ASSUME IngestInv, [Next]_vars PROVE IngestInv'
  OBVIOUS
<1>1. CASE \/ \E raw \in Served : Publish(raw)
           \/ \E p \in Posts, raw \in Served : Edit(p, raw)
           \/ \E p \in Posts : TakeDown(p)
           \/ Revoke \/ Lapse \/ Approve
  BY <1>1, ProviderStep
<1>2. CASE \E s \in Slots : Begin(s)
  BY <1>2, BeginStep
<1>3. CASE \E s \in Slots : FetchPage(s)
  BY <1>3, FetchStep
<1>4. CASE \E s \in Slots : View(s)
  BY <1>4, ViewStep
<1>5. CASE \E s \in Slots : Fail(s)
  BY <1>5, EndStep DEF Fail
<1>6. CASE \E s \in Slots : CommitPage(s)
  BY <1>6, CommitStep
<1>7. CASE UNCHANGED vars
  BY <1>7, IngestStutters
<1> QED
  BY <1>1, <1>2, <1>3, <1>4, <1>5, <1>6, <1>7 DEF Next

(* The strengthened invariant: what the pages under way, the stored rows and    *)
(* the lease know of one another in every reachable state.                      *)
THEOREM IngestInvariant == Spec => []IngestInv
<1> QED
  BY IngestInit, IngestKeeps, PTL DEF Spec

(* A page transaction's rows are one record, for any feed, caps and number of   *)
(* processes (classify_page_items, persist_page_items, advance_checkpoint).     *)
THEOREM RowsAreOneRecord == Spec => []RowsAgree
<1>1. IngestInv => RowsAgree
  <2> SUFFICES ASSUME IngestInv PROVE RowsAgree
    OBVIOUS
  <2>1. Types /\ ProcsSound /\ VersionsSound /\ RowsSound
    BY DEF IngestInv
  <2>2. ck \in [rev : Nat, cursor : Cursors, mark : {0} \cup Posts]
    BY <2>1 DEF Types
  <2>3. \A v \in store.versions : v.id \in Posts /\ v.rev \in 1 .. MaxEvents + 1
    BY <2>1 DEF Types, Version
  <2>4. ASSUME NEW s \in Slots PROVE procs[s].n \in 0 .. active /\ procs[s].so \in 0 .. PostCap
    <3>1. procs[s] \in Process /\ Leased(s) /\ active \in 0 .. MaxRuns
      BY <2>1 DEF Types, ProcsSound
    <3>2. procs[s].n \in 0 .. MaxRuns /\ procs[s].n <= active /\ procs[s].so \in 0 .. PostCap
      BY <3>1 DEF Process, Leased
    <3>3. MaxRuns \in Nat
      BY IngestAssumption DEF IngestAssumption
    <3> QED
      BY <3>1, <3>2, <3>3
  <2>5. TypeOK
    <3>1. feed \in [Posts -> Served \cup {"unborn", "removed"}]
      BY <2>1 DEF Types, Raws
    <3> QED
      BY <2>1, <2>2, <2>3, <2>4, <3>1 DEF TypeOK, Types, Cursors
  <2>6. \A p \in Posts : \A v, w \in Versions(p) : v.text = w.text => v = w
    BY <2>1 DEF VersionsSound, Versions
  <2> QED
    BY <2>1, <2>5, <2>6 DEF RowsAgree, VersionsSound, RowsSound
<1> QED
  BY <1>1, IngestInvariant, PTL

(* No page of a superseded process becomes a revision after a later text of the *)
(* post was stored (validate_new_page_commit).                                  *)
THEOREM RevisionsAreInOrder == Spec => []RevisionsInOrder
<1>1. IngestInv => RevisionsInOrder
  BY DEF IngestInv, VersionsSound, RevisionsInOrder
<1> QED
  BY <1>1, IngestInvariant, PTL

(* A Reddit walk that is over has stored each post that stayed listed from its  *)
(* first page on, across runs, failures, caps and pauses (the adapter's cursor  *)
(* and advance_checkpoint).                                                     *)
THEOREM WalkIsCovered == Spec => WalkCovers
<1> DEFINE Past ==
        (platform = "reddit" /\ ck'.rev # ck.rev /\ ck'.cursor = None) =>
            \A p \in Posts : walk[p] # {} /\ "oversize" \notin walk[p] =>
                \E v \in store'.versions :
                    /\ v.id = p /\ v.text \in {Text(raw) : raw \in walk[p]}
                    /\ \A w \in store'.versions : w.id = p => w.rev <= v.rev
<1>1. IngestInv /\ [Next]_vars => [Past]_vars
  <2> SUFFICES ASSUME IngestInv, Next, platform = "reddit", ck'.rev # ck.rev, ck'.cursor = None,
                      NEW p \in Posts, walk[p] # {}, "oversize" \notin walk[p]
               PROVE  \E v \in store'.versions :
                        /\ v.id = p /\ v.text \in {Text(raw) : raw \in walk[p]}
                        /\ \A w \in store'.versions : w.id = p => w.rev <= v.rev
    BY DEF vars
  <2>1. PICK s \in Slots : CommitPage(s)
    <3>1. \/ \E raw \in Served : Publish(raw)
          \/ \E q \in Posts, raw \in Served : Edit(q, raw)
          \/ \E q \in Posts : TakeDown(q)
          \/ Revoke \/ Lapse \/ Approve
          => ck' = ck
      BY DEF Publish, Edit, TakeDown, Revoke, Lapse, Approve
    <3>2. \A t \in Slots : Begin(t) \/ FetchPage(t) \/ View(t) \/ Fail(t) => ck' = ck
      <4>1. ASSUME NEW t \in Slots
            PROVE  /\ Begin(t) => ck' = ck
                   /\ FetchPage(t) => ck' = ck
                   /\ View(t) => ck' = ck
                   /\ Fail(t) => ck' = ck
        BY Zenon DEF Begin, FetchPage, View, Fail
      <4> QED
        BY <4>1
    <3> QED
      BY <3>1, <3>2 DEF Next
  <2>2. Committing(s)
    BY <2>1, CommitOrEnd
  <2>3. ck'.cursor = procs[s].page.next /\ walk' = walk
    BY <2>2 DEF Committing, AdvanceCheckpoint
  <2>4. Covered(p)'
    BY <2>2, <2>3, PassedIsCovered DEF Walked
  <2>5. PICK v \in Versions(p)' : v.rev = Revision(p)' /\ v.text \in WalkTexts(p)'
    BY <2>4 DEF Covered
  <2>6. v \in store'.versions /\ v.id = p /\ v.text \in {Text(raw) : raw \in walk[p]}
    BY <2>3, <2>5 DEF Versions, WalkTexts
  <2>7. ASSUME NEW w \in store'.versions, w.id = p PROVE w.rev <= v.rev
    <3>1. VersionsSound'
      BY <2>2, CommitVersions
    <3>2. w \in Versions(p)'
      BY <2>7 DEF Versions
    <3>3. w.rev \in 1 .. Revision(p)'
      BY <3>1, <3>2 DEF VersionsSound
    <3> QED
      BY <2>5, <3>3
  <2> QED
    BY <2>6, <2>7
<1> QED
  BY <1>1, IngestInvariant, PTL DEF Spec, WalkCovers
=============================================================================
