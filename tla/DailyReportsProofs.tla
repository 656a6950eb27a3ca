------------------------ MODULE DailyReportsProofs -------------------------
(***************************************************************************)
(* The daily jobs are sound for every number of invocations and dates: a   *)
(* job's lease has one holder, a report job that succeeded left a report,  *)
(* the dates that succeeded have no gap, corrections never go back in      *)
(* time; and the report histories grow as the reference repository's do.   *)
(***************************************************************************)
EXTENDS DailyReports, FiniteSetTheorems, SequenceTheorems, WellFoundedInduction, TLAPS

Snap == [hash : Hashes \cup {"none"}, ver : 0..MaxChanges, seen : Nat]
Invocation ==
    [pc : Stage, last : Nat, reportNext : Nat, retentionNext : Nat, date : Nat, end : Nat,
     reportOk : BOOLEAN, retentionOk : BOOLEAN, held : Nat, snap : Snap,
     ok : BOOLEAN, trigger : Nat, failed : BOOLEAN]

Columns ==
    /\ latest \in Dates
    /\ job \in [Kinds -> [Dates -> Job]]
    /\ trigger \in Seq(Job)
    /\ inputs \in [Dates -> Version]
    /\ history \in [Dates -> Seq(Version)]
    /\ cron \in [Crons -> Invocation]
    /\ faults \in 0..MaxFaults

-----------------------------------------------------------------------------
(* The largest and the smallest of some numbers *)

\* A set of numbers has a smallest one.
LEMMA MinFacts ==
    ASSUME NEW T, T \subseteq Nat, T # {}
    PROVE  Min(T) \in T /\ \A y \in T : Min(T) <= y
<1> DEFINE R == OpToRel(<, Nat)
<1>1. \A x, y \in Nat : x < y => <<x, y>> \in R BY DEF OpToRel
<1>2. IsWellFoundedOn(R, Nat) BY NatLessThanWellFounded
<1>3. T \subseteq Nat /\ T # {} OBVIOUS
<1> HIDE DEF R
<1>4. PICK x \in T : \A y \in T : ~(<<y, x>> \in R) BY <1>2, <1>3, WFMin
<1>5. ASSUME NEW y \in T PROVE x <= y
  <2>1. x \in Nat /\ y \in Nat /\ ~(y < x) BY <1>1, <1>3, <1>4
  <2> QED BY <2>1
<1> QED BY <1>5 DEF Min

\* A bounded set of numbers has a largest one.
LEMMA MaxFacts ==
    ASSUME NEW n \in Nat, NEW S, S \subseteq 0..n, S # {}
    PROVE  Max(S) \in S /\ \A y \in S : y <= Max(S)
<1> DEFINE T == {n - x : x \in S}
<1>0. \A x \in S : x \in Nat /\ x <= n /\ n - x \in Nat /\ n - x \in T OBVIOUS
<1>1. T \subseteq Nat /\ T # {} BY <1>0
<1>2. \E m \in T : \A y \in T : m <= y
  <2> HIDE DEF T
  <2> QED BY <1>1, MinFacts
<1>3. PICK x \in S : \A y \in S : n - x <= n - y BY <1>2
<1>4. \A y \in S : y <= x BY <1>3
<1> QED BY <1>4 DEF Max

\* The later of the first date and another one.
LEMMA FirstOrLater ==
    ASSUME NEW n \in Nat, n >= 1, NEW x \in Int, x <= n
    PROVE  Max({1, x}) \in 1..n
<1>1. \E m \in {1, x} : \A y \in {1, x} : m >= y OBVIOUS
<1>2. Max({1, x}) \in {1, x} /\ \A y \in {1, x} : Max({1, x}) >= y BY <1>1 DEF Max
<1> QED BY <1>2

-----------------------------------------------------------------------------
(* Claims *)

\* What a claim does to a row, by its disposition.
LEMMA ClaimFacts ==
    ASSUME NEW j \in Job
    PROVE  LET claim == ClaimLocked(j) IN
           /\ claim.job \in Job /\ claim.job.attempt \in Nat /\ claim.job.attempt >= j.attempt
           /\ j.attempt \in Nat /\ j.attempt >= 1
           /\ claim.job.st = "succeeded" <=> j.st = "succeeded"
           /\ claim.job.st # "queued"
           /\ claim.disposition = "succeeded" => j.st = "succeeded"
           /\ claim.disposition = "run" /\ j.st # "queued" =>
                 claim.job.attempt = j.attempt + 1
<1> DEFINE claim == ClaimLocked(j)
           attempt == IF j.st = "queued" THEN j.attempt ELSE j.attempt + 1
           over == [j EXCEPT !.st = "terminal"]
           taken == [st |-> "running", attempt |-> attempt, fresh |-> TRUE]
<1>0. j.attempt \in 1..MaxAttempts /\ MaxAttempts \in Nat /\ j.st \in JobStatus
  BY DailyAssumption DEF Job
<1>1. "terminal" \in JobStatus /\ "running" \in JobStatus BY DEF JobStatus
<1>2. over \in Job /\ over.st = "terminal" /\ over.attempt = j.attempt
  BY <1>1 DEF Job
<1> HIDE DEF over
<1>3. CASE j.st \in Settled
  <2>1. claim = [job |-> j, disposition |-> j.st] BY <1>3 DEF ClaimLocked
  <2>2. j.st = "succeeded" \/ j.st = "terminal" BY <1>3 DEF Settled
  <2> HIDE DEF claim
  <2>3. claim.job = j /\ claim.disposition = j.st BY <2>1
  <2> QED BY <1>0, <2>2, <2>3 DEF claim
<1>4. CASE j.st \notin Settled /\ j.st = "running" /\ j.fresh
  <2>1. claim = [job |-> j, disposition |-> "busy"] BY <1>4 DEF ClaimLocked
  <2> HIDE DEF claim
  <2>2. claim.job = j /\ claim.disposition = "busy" BY <2>1
  <2> QED BY <1>0, <1>4, <2>2 DEF claim
<1>5. CASE j.st \notin Settled /\ ~(j.st = "running" /\ j.fresh) /\ attempt > MaxAttempts
  <2>1. claim = [job |-> over, disposition |-> "terminal"] BY <1>5 DEF ClaimLocked, over
  <2>2. j.st # "succeeded" BY <1>5 DEF Settled
  <2> HIDE DEF claim
  <2>3. claim.job = over /\ claim.disposition = "terminal" BY <2>1
  <2> QED BY <1>0, <1>2, <2>2, <2>3 DEF claim
<1>6. CASE j.st \notin Settled /\ ~(j.st = "running" /\ j.fresh) /\ ~(attempt > MaxAttempts)
  <2>1. claim = [job |-> taken, disposition |-> "run"] BY <1>6 DEF ClaimLocked
  <2>2. j.st # "succeeded" BY <1>6 DEF Settled
  <2>3. attempt \in 1..MaxAttempts BY <1>0, <1>6
  <2>4. taken \in Job BY <2>3, <1>1 DEF Job
  <2>5. taken.st = "running" /\ taken.attempt = attempt OBVIOUS
  <2> HIDE DEF claim, taken
  <2>6. claim.job = taken /\ claim.disposition = "run" BY <2>1
  <2> QED BY <1>0, <2>2, <2>4, <2>5, <2>6 DEF claim
<1> QED BY <1>3, <1>4, <1>5, <1>6

\* What finish does to a row that its holder still has.
LEMMA FinishFacts ==
    ASSUME NEW j \in Job, NEW ok \in BOOLEAN, j.st = "running"
    PROVE  LET done == Finished(j, ok) IN
           /\ done \in Job /\ done.attempt = j.attempt /\ done.st # "queued"
           /\ done.st = "succeeded" <=> ok
<1> DEFINE st == FinishedStatus(ok, j.attempt)
           done == [j EXCEPT !.st = st, !.fresh = FALSE]
<1>1. st \in JobStatus /\ st # "queued" /\ (st = "succeeded" <=> ok)
  BY DEF FinishedStatus, JobStatus
<1>2. Finished(j, ok) = done BY DEF Finished
<1> HIDE DEF st
<1>3. done \in Job /\ done.attempt = j.attempt /\ done.st = st BY <1>1 DEF Job
<1> QED BY <1>1, <1>2, <1>3

-----------------------------------------------------------------------------
(* What the steps do to their invocation *)

\* One invocation becomes another; the others are left alone.
Becomes(c, pc, last, reportNext, retentionNext, date, end, reportOk, retentionOk, held, snap,
        ok, requested) ==
    /\ cron' \in [Crons -> Invocation]
    /\ cron'[c].pc = pc /\ cron'[c].last = last
    /\ cron'[c].reportNext = reportNext /\ cron'[c].retentionNext = retentionNext
    /\ cron'[c].date = date /\ cron'[c].end = end
    /\ (cron'[c].reportOk <=> reportOk) /\ (cron'[c].retentionOk <=> retentionOk)
    /\ cron'[c].held = held /\ cron'[c].snap = snap
    /\ (cron'[c].ok <=> ok) /\ cron'[c].trigger = requested
    /\ \A u \in Crons : u # c => cron'[u] = cron[u]

\* Rewriting one invocation changes that one only.
LEMMA Rewritten ==
    ASSUME cron \in [Crons -> Invocation], NEW c \in Crons, NEW q \in Invocation,
           cron' = [cron EXCEPT ![c] = q]
    PROVE  Becomes(c, q.pc, q.last, q.reportNext, q.retentionNext, q.date, q.end, q.reportOk,
                   q.retentionOk, q.held, q.snap, q.ok, q.trigger)
  BY DEF Becomes

\* The types of the fields of an invocation.
LEMMA InvocationFields ==
    ASSUME NEW w \in Invocation
    PROVE  /\ w.pc \in Stage /\ w.last \in Nat /\ w.reportNext \in Nat
           /\ w.retentionNext \in Nat /\ w.date \in Nat /\ w.end \in Nat
           /\ w.reportOk \in BOOLEAN /\ w.retentionOk \in BOOLEAN /\ w.held \in Nat
           /\ w.snap \in Snap /\ w.ok \in BOOLEAN /\ w.trigger \in Nat
           /\ w.failed \in BOOLEAN
  BY DEF Invocation

\* The fields of an invocation that is not running.
LEMMA OffRow ==
    /\ Off \in Invocation /\ Off.pc = "off" /\ Off.last = 0 /\ Off.reportNext = 0
    /\ Off.retentionNext = 0 /\ Off.date = 0 /\ Off.end = 0 /\ Off.reportOk
    /\ Off.retentionOk /\ Off.held = 0 /\ Off.snap = NoSnap /\ Off.ok
    /\ Off.trigger = 0 /\ ~Off.failed /\ NoSnap \in Snap
<1>1. NoSnap \in Snap BY DailyAssumption DEF NoSnap, Snap
<1>2. "off" \in Stage BY DEF Stage
<1> HIDE DEF NoSnap, Snap, Stage
<1>3. Off \in Invocation BY <1>1, <1>2 DEF Off, Invocation
<1>4. /\ Off.pc = "off" /\ Off.last = 0 /\ Off.reportNext = 0
      /\ Off.retentionNext = 0 /\ Off.date = 0 /\ Off.end = 0 /\ Off.reportOk
      /\ Off.retentionOk /\ Off.held = 0 /\ Off.snap = NoSnap /\ Off.ok
      /\ Off.trigger = 0 /\ ~Off.failed
  BY DEF Off
<1> QED BY <1>1, <1>3, <1>4

\* An invocation that dies leaves nothing.
LEMMA DieEffect ==
    ASSUME Columns, NEW c \in Crons, Die(c)
    PROVE  Becomes(c, "off", 0, 0, 0, 0, 0, TRUE, TRUE, 0, NoSnap, TRUE, 0)
<1>1. cron' = [cron EXCEPT ![c] = Off] /\ cron \in [Crons -> Invocation]
  BY DEF Die, Columns
<1> QED BY <1>1, OffRow, Rewritten DEF Becomes

\* Only the step changes, or with it the held lease.
LEMMA HeldEffect ==
    ASSUME Columns, NEW c \in Crons, NEW pc \in Stage, NEW held \in Nat,
           \/ held = cron[c].held /\ Goto(c, pc)
           \/ cron' = [cron EXCEPT ![c].pc = pc, ![c].held = held]
    PROVE  LET w == cron[c] IN
           Becomes(c, pc, w.last, w.reportNext, w.retentionNext, w.date, w.end, w.reportOk,
                   w.retentionOk, held, w.snap, w.ok, w.trigger)
<1> DEFINE w == cron[c]
           p == [w EXCEPT !.pc = pc]
           q == [w EXCEPT !.pc = pc, !.held = held]
<1>0. cron \in [Crons -> Invocation] /\ w \in Invocation BY DEF Columns
<1>1. CASE held = w.held /\ Goto(c, pc)
  <2>1. cron' = [cron EXCEPT ![c] = p] BY <1>0, <1>1 DEF Goto
  <2>2. p \in Invocation BY <1>0 DEF Invocation
  <2>3. /\ p.pc = pc /\ p.last = w.last /\ p.reportNext = w.reportNext
        /\ p.retentionNext = w.retentionNext /\ p.date = w.date /\ p.end = w.end
        /\ (p.reportOk <=> w.reportOk) /\ (p.retentionOk <=> w.retentionOk)
        /\ p.held = w.held /\ p.snap = w.snap /\ (p.ok <=> w.ok) /\ p.trigger = w.trigger
    BY <1>0 DEF Invocation
  <2> HIDE DEF p
  <2> QED BY <1>0, <1>1, <2>1, <2>2, <2>3, Rewritten DEF Becomes
<1>2. CASE cron' = [cron EXCEPT ![c].pc = pc, ![c].held = held]
  <2>1. cron' = [cron EXCEPT ![c] = q] BY <1>0, <1>2
  <2>2. q \in Invocation BY <1>0 DEF Invocation
  <2>3. /\ q.pc = pc /\ q.last = w.last /\ q.reportNext = w.reportNext
        /\ q.retentionNext = w.retentionNext /\ q.date = w.date /\ q.end = w.end
        /\ (q.reportOk <=> w.reportOk) /\ (q.retentionOk <=> w.retentionOk)
        /\ q.held = held /\ q.snap = w.snap /\ (q.ok <=> w.ok) /\ q.trigger = w.trigger
    BY <1>0 DEF Invocation
  <2> HIDE DEF q
  <2> QED BY <1>0, <2>1, <2>2, <2>3, Rewritten DEF Becomes
<1> QED BY <1>1, <1>2

\* An invocation that has read its cursors begins its walk.
LEMMA CursorsRow ==
    ASSUME Columns, NEW c \in Crons, NEW d \in Nat, NEW e \in Nat, NEW rn \in Nat, NEW tn \in Nat,
           cron' = [cron EXCEPT ![c].pc = "report", ![c].date = d, ![c].end = e,
                                ![c].reportNext = rn, ![c].retentionNext = tn]
    PROVE  LET w == cron[c] IN
           Becomes(c, "report", w.last, rn, tn, d, e, w.reportOk, w.retentionOk, w.held, w.snap,
                   w.ok, w.trigger)
<1> DEFINE w == cron[c]
           q == [w EXCEPT !.pc = "report", !.date = d, !.end = e, !.reportNext = rn,
                          !.retentionNext = tn]
<1>0. cron \in [Crons -> Invocation] /\ w \in Invocation /\ "report" \in Stage
  BY DEF Columns, Stage
<1>1. cron' = [cron EXCEPT ![c] = q] BY <1>0
<1>2. q \in Invocation BY <1>0 DEF Invocation
<1>3. /\ q.pc = "report" /\ q.last = w.last /\ q.reportNext = rn
      /\ q.retentionNext = tn /\ q.date = d /\ q.end = e
      /\ (q.reportOk <=> w.reportOk) /\ (q.retentionOk <=> w.retentionOk)
      /\ q.held = w.held /\ q.snap = w.snap /\ (q.ok <=> w.ok) /\ q.trigger = w.trigger
  BY <1>0 DEF Invocation
<1> HIDE DEF q
<1> QED BY <1>0, <1>1, <1>2, <1>3, Rewritten DEF Becomes

\* A started invocation knows the date of its start.
LEMMA StartedRow ==
    ASSUME Columns, NEW c \in Crons, cron' = [cron EXCEPT ![c] = [Off EXCEPT !.last = latest, !.pc = "cursors"]]
    PROVE  Becomes(c, "cursors", latest, 0, 0, 0, 0, TRUE, TRUE, 0, NoSnap, TRUE, 0)
<1> DEFINE q == [Off EXCEPT !.last = latest, !.pc = "cursors"]
<1>0. cron \in [Crons -> Invocation] /\ latest \in Nat /\ "cursors" \in Stage
  BY DailyAssumption DEF Columns, Stage, Dates
<1>1. cron' = [cron EXCEPT ![c] = q] OBVIOUS
<1>2. q \in Invocation BY <1>0, OffRow DEF Invocation
<1>3. /\ q.pc = "cursors" /\ q.last = latest /\ q.reportNext = 0
      /\ q.retentionNext = 0 /\ q.date = 0 /\ q.end = 0
      /\ q.reportOk /\ q.retentionOk
      /\ q.held = 0 /\ q.snap = NoSnap /\ q.ok /\ q.trigger = 0
  BY <1>0, OffRow DEF Invocation
<1> HIDE DEF q
<1> QED BY <1>0, <1>1, <1>2, <1>3, Rewritten DEF Becomes

\* An invocation for a request goes to its first date at once.
LEMMA RequestedRow ==
    ASSUME Columns, NEW c \in Crons, NEW t \in Nat, NEW held \in Nat, NEW d \in Nat,
           cron' = [cron EXCEPT ![c] =
                       [[Off EXCEPT !.last = latest, !.pc = "cursors"]
                            EXCEPT !.pc = "snapshot", !.trigger = t, !.held = held, !.date = d]]
    PROVE  Becomes(c, "snapshot", latest, 0, 0, d, 0, TRUE, TRUE, held, NoSnap, TRUE, t)
<1> DEFINE r == [Off EXCEPT !.last = latest, !.pc = "cursors"]
           q == [r EXCEPT !.pc = "snapshot", !.trigger = t, !.held = held, !.date = d]
<1>0. cron \in [Crons -> Invocation] /\ latest \in Nat /\ "cursors" \in Stage /\ "snapshot" \in Stage
  BY DailyAssumption DEF Columns, Stage, Dates
<1>1. cron' = [cron EXCEPT ![c] = q] OBVIOUS
<1>2. r \in Invocation BY <1>0, OffRow DEF Invocation
<1>3. /\ r.last = latest /\ r.reportNext = 0 /\ r.retentionNext = 0 /\ r.end = 0
      /\ r.reportOk /\ r.retentionOk /\ r.snap = NoSnap /\ r.ok
  BY <1>0, OffRow DEF Invocation
<1> HIDE DEF r
<1>4. q \in Invocation BY <1>0, <1>2 DEF Invocation
<1>5. /\ q.pc = "snapshot" /\ q.last = r.last /\ q.reportNext = r.reportNext
      /\ q.retentionNext = r.retentionNext /\ q.date = d /\ q.end = r.end
      /\ (q.reportOk <=> r.reportOk) /\ (q.retentionOk <=> r.retentionOk)
      /\ q.held = held /\ q.snap = r.snap /\ (q.ok <=> r.ok) /\ q.trigger = t
  BY <1>0, <1>2 DEF Invocation
<1> HIDE DEF q
<1> QED BY <1>0, <1>1, <1>3, <1>4, <1>5, Rewritten DEF Becomes

\* Where an invocation goes after the report of a date.
LEMMA ReportDoneEffect ==
    ASSUME Columns, NEW c \in Crons, NEW ok \in BOOLEAN, ReportDone(c, ok)
    PROVE  LET w == cron[c]
               forced == w.trigger # 0
           IN  Becomes(c, IF ~forced THEN "retention" ELSE IF w.date = w.last THEN "retain"
                          ELSE "snapshot",
                       w.last, w.reportNext, w.retentionNext,
                       IF forced /\ w.date < w.last THEN w.date + 1 ELSE w.date,
                       w.end, w.reportOk /\ ok, w.retentionOk, IF forced THEN w.held ELSE 0,
                       NoSnap, TRUE, w.trigger)
<1> DEFINE w == cron[c]
           forced == w.trigger # 0
           pc == IF ~forced THEN "retention" ELSE IF w.date = w.last THEN "retain" ELSE "snapshot"
           d == IF forced /\ w.date < w.last THEN w.date + 1 ELSE w.date
           held == IF forced THEN w.held ELSE 0
           rok == w.reportOk /\ ok
           failed == w.failed \/ (forced /\ ~ok)
           q == [w EXCEPT !.reportOk = rok, !.held = held, !.snap = NoSnap, !.ok = TRUE,
                          !.failed = failed, !.pc = pc, !.date = d]
<1>0. cron \in [Crons -> Invocation] /\ w \in Invocation BY DEF Columns
<1>1. cron' = [cron EXCEPT ![c] = q]
  <2>1. cron' = [cron EXCEPT ![c].reportOk = @ /\ ok, ![c].held = IF w.trigger # 0 THEN @ ELSE 0,
                             ![c].snap = NoSnap, ![c].ok = TRUE,
                             ![c].failed = @ \/ (w.trigger # 0 /\ ~ok),
                             ![c].pc = IF w.trigger = 0 THEN "retention"
                                       ELSE IF w.date = w.last THEN "retain" ELSE "snapshot",
                             ![c].date = IF w.trigger # 0 /\ w.date < w.last THEN @ + 1 ELSE @]
    BY DEF ReportDone
  <2> QED BY <1>0, <2>1 DEF Invocation
<1>2. pc \in Stage BY DEF Stage
<1>3. d \in Nat /\ held \in Nat BY <1>0, InvocationFields
<1>4. rok \in BOOLEAN /\ failed \in BOOLEAN OBVIOUS
<1>5. NoSnap \in Snap BY OffRow
<1>6. Becomes(c, pc, w.last, w.reportNext, w.retentionNext, d, w.end, rok, w.retentionOk, held,
              NoSnap, TRUE, w.trigger)
  <2> HIDE DEF pc, d, held, rok, failed
  <2>1. q \in Invocation BY <1>0, <1>2, <1>3, <1>4, <1>5 DEF Invocation
  <2>2. /\ q.pc = pc /\ q.last = w.last /\ q.reportNext = w.reportNext
        /\ q.retentionNext = w.retentionNext /\ q.date = d /\ q.end = w.end
        /\ (q.reportOk <=> rok) /\ (q.retentionOk <=> w.retentionOk)
        /\ q.held = held /\ q.snap = NoSnap /\ q.ok /\ q.trigger = w.trigger
    BY <1>0 DEF Invocation
  <2> HIDE DEF q
  <2> QED BY <1>0, <1>1, <2>1, <2>2, Rewritten DEF Becomes
<1> QED BY <1>6

\* A snapshot is kept until it is appended.
LEMMA SnapshotRow ==
    ASSUME Columns, NEW c \in Crons, NEW snap \in Snap,
           cron' = [cron EXCEPT ![c].pc = "append", ![c].snap = snap]
    PROVE  LET w == cron[c] IN
           Becomes(c, "append", w.last, w.reportNext, w.retentionNext, w.date, w.end, w.reportOk,
                   w.retentionOk, w.held, snap, w.ok, w.trigger)
<1> DEFINE w == cron[c]
           q == [w EXCEPT !.pc = "append", !.snap = snap]
<1>0. cron \in [Crons -> Invocation] /\ w \in Invocation /\ "append" \in Stage
  BY DEF Columns, Stage
<1>1. cron' = [cron EXCEPT ![c] = q] BY <1>0
<1>2. q \in Invocation BY <1>0 DEF Invocation
<1>3. /\ q.pc = "append" /\ q.last = w.last /\ q.reportNext = w.reportNext
      /\ q.retentionNext = w.retentionNext /\ q.date = w.date /\ q.end = w.end
      /\ (q.reportOk <=> w.reportOk) /\ (q.retentionOk <=> w.retentionOk)
      /\ q.held = w.held /\ q.snap = snap /\ (q.ok <=> w.ok) /\ q.trigger = w.trigger
  BY <1>0 DEF Invocation
<1> HIDE DEF q
<1> QED BY <1>0, <1>1, <1>2, <1>3, Rewritten DEF Becomes

\* Work under a lease of its own is finished, other work is done.
LEMMA WorkedEffect ==
    ASSUME Columns, NEW c \in Crons, NEW ok \in BOOLEAN, Worked(c, ok)
    PROVE  LET w == cron[c] IN
           \/ /\ w.held # 0 /\ w.trigger = 0
              /\ Becomes(c, "finish", w.last, w.reportNext, w.retentionNext, w.date, w.end,
                         w.reportOk, w.retentionOk, w.held, w.snap, ok, w.trigger)
           \/ (w.held = 0 \/ w.trigger # 0) /\ ReportDone(c, ok)
<1> DEFINE w == cron[c]
           q == [w EXCEPT !.pc = "finish", !.ok = ok]
<1>0. cron \in [Crons -> Invocation] /\ w \in Invocation /\ "finish" \in Stage
  BY DEF Columns, Stage
<1>1. CASE w.held # 0 /\ w.trigger = 0
  <2>1. cron' = [cron EXCEPT ![c] = q] BY <1>0, <1>1 DEF Worked
  <2>2. q \in Invocation BY <1>0 DEF Invocation
  <2>3. /\ q.pc = "finish" /\ q.last = w.last /\ q.reportNext = w.reportNext
        /\ q.retentionNext = w.retentionNext /\ q.date = w.date /\ q.end = w.end
        /\ (q.reportOk <=> w.reportOk) /\ (q.retentionOk <=> w.retentionOk)
        /\ q.held = w.held /\ q.snap = w.snap /\ (q.ok <=> ok) /\ q.trigger = w.trigger
    BY <1>0 DEF Invocation
  <2> HIDE DEF q
  <2>4. Becomes(c, "finish", w.last, w.reportNext, w.retentionNext, w.date, w.end, w.reportOk,
                w.retentionOk, w.held, w.snap, ok, w.trigger)
    BY <1>0, <2>1, <2>2, <2>3, Rewritten DEF Becomes
  <2> QED BY <1>1, <2>4
<1>2. CASE ~(w.held # 0 /\ w.trigger = 0) BY <1>2 DEF Worked
<1> QED BY <1>1, <1>2

\* Where an invocation goes after the retention of a date.
LEMMA RetentionDoneEffect ==
    ASSUME Columns, NEW c \in Crons, NEW ok \in BOOLEAN, RetentionDone(c, ok)
    PROVE  LET w == cron[c] IN
           \/ /\ w.date < w.end
              /\ Becomes(c, "report", w.last, w.reportNext, w.retentionNext, w.date + 1, w.end,
                         w.reportOk, w.retentionOk /\ ok, 0, w.snap, TRUE, w.trigger)
           \/ Becomes(c, "off", 0, 0, 0, 0, 0, TRUE, TRUE, 0, NoSnap, TRUE, 0)
<1> DEFINE w == cron[c]
           d == w.date + 1
           tok == w.retentionOk /\ ok
           q == [w EXCEPT !.pc = "report", !.date = d, !.held = 0, !.ok = TRUE,
                          !.retentionOk = tok]
<1>0. cron \in [Crons -> Invocation] /\ w \in Invocation /\ "report" \in Stage
  BY DEF Columns, Stage
<1>1. d \in Nat /\ tok \in BOOLEAN BY <1>0, InvocationFields
<1>2. CASE w.date < w.end
  <2>1. cron' = [cron EXCEPT ![c] = q] BY <1>0, <1>2 DEF RetentionDone, Invocation
  <2> HIDE DEF d, tok
  <2>2. q \in Invocation BY <1>0, <1>1 DEF Invocation
  <2>3. /\ q.pc = "report" /\ q.last = w.last /\ q.reportNext = w.reportNext
        /\ q.retentionNext = w.retentionNext /\ q.date = d /\ q.end = w.end
        /\ (q.reportOk <=> w.reportOk) /\ (q.retentionOk <=> tok)
        /\ q.held = 0 /\ q.snap = w.snap /\ q.ok /\ q.trigger = w.trigger
    BY <1>0 DEF Invocation
  <2> HIDE DEF q
  <2>4. Becomes(c, "report", w.last, w.reportNext, w.retentionNext, d, w.end, w.reportOk, tok, 0,
                w.snap, TRUE, w.trigger)
    BY <1>0, <2>1, <2>2, <2>3, Rewritten DEF Becomes
  <2> QED BY <1>2, <2>4 DEF d, tok
<1>3. CASE ~(w.date < w.end)
  <2>1. Die(c) BY <1>3 DEF RetentionDone, Die
  <2> QED BY <2>1, DieEffect
<1> QED BY <1>2, <1>3

\* A retention pass ends well or not.
LEMMA RetainEffect ==
    ASSUME Columns, NEW c \in Crons, Retain(c)
    PROVE  LET w == cron[c] IN
           /\ w.pc = "retain"
           /\ \E ok \in BOOLEAN :
                 Becomes(c, "finishRetention", w.last, w.reportNext, w.retentionNext, w.date, w.end,
                         w.reportOk, w.retentionOk, w.held, w.snap, ok, w.trigger)
<1> DEFINE w == cron[c]
           p == [w EXCEPT !.pc = "finishRetention", !.ok = TRUE]
           failed == w.trigger # 0
           q == [w EXCEPT !.pc = "finishRetention", !.ok = FALSE, !.failed = failed]
<1>0. cron \in [Crons -> Invocation] /\ w \in Invocation /\ "finishRetention" \in Stage
  BY DEF Columns, Stage
<1>a. failed \in BOOLEAN OBVIOUS
<1>1. w.pc = "retain" BY DEF Retain
<1>2. \/ cron' = [cron EXCEPT ![c] = p]
      \/ cron' = [cron EXCEPT ![c] = q]
  BY <1>0 DEF Retain
<1> HIDE DEF failed
<1>3. p \in Invocation /\ q \in Invocation BY <1>0, <1>a DEF Invocation
<1>4. /\ p.pc = "finishRetention" /\ p.last = w.last /\ p.reportNext = w.reportNext
      /\ p.retentionNext = w.retentionNext /\ p.date = w.date /\ p.end = w.end
      /\ (p.reportOk <=> w.reportOk) /\ (p.retentionOk <=> w.retentionOk)
      /\ p.held = w.held /\ p.snap = w.snap /\ p.ok /\ p.trigger = w.trigger
  BY <1>0 DEF Invocation
<1>5. /\ q.pc = "finishRetention" /\ q.last = w.last /\ q.reportNext = w.reportNext
      /\ q.retentionNext = w.retentionNext /\ q.date = w.date /\ q.end = w.end
      /\ (q.reportOk <=> w.reportOk) /\ (q.retentionOk <=> w.retentionOk)
      /\ q.held = w.held /\ q.snap = w.snap /\ ~q.ok /\ q.trigger = w.trigger
  BY <1>0 DEF Invocation
<1> HIDE DEF p, q
<1>6. \E ok \in BOOLEAN :
          Becomes(c, "finishRetention", w.last, w.reportNext, w.retentionNext, w.date, w.end,
                  w.reportOk, w.retentionOk, w.held, w.snap, ok, w.trigger)
  <2>1. CASE cron' = [cron EXCEPT ![c] = p]
    <3>1. Becomes(c, "finishRetention", w.last, w.reportNext, w.retentionNext, w.date, w.end,
                  w.reportOk, w.retentionOk, w.held, w.snap, TRUE, w.trigger)
      BY <1>0, <1>3, <1>4, <2>1, Rewritten DEF Becomes
    <3> QED BY <3>1
  <2>2. CASE cron' = [cron EXCEPT ![c] = q]
    <3>1. Becomes(c, "finishRetention", w.last, w.reportNext, w.retentionNext, w.date, w.end,
                  w.reportOk, w.retentionOk, w.held, w.snap, FALSE, w.trigger)
      BY <1>0, <1>3, <1>5, <2>2, Rewritten DEF Becomes
    <3> QED BY <3>1
  <2> QED BY <1>2, <2>1, <2>2
<1> QED BY <1>1, <1>6

-----------------------------------------------------------------------------
(* The invariant *)

\* The job of kind k and date d succeeded, in these rows.
Done(rows, k, d) == d \in Dates /\ rows[k][d].st = "succeeded"

\* The date d may succeed without leaving a gap: it or the date before it has
\* succeeded, or it is the last date of a walk that saw no success, and the
\* only ones since are of the walks that cross midnight with it.
Fits(rows, k, last, d) ==
    \/ Done(rows, k, d - 1) \/ Done(rows, k, d)
    \/ d = last /\ (Done(rows, k, d + 1) \/ \A e \in Dates : ~Done(rows, k, e))

NextOf(c, k) == IF k = "report" THEN cron[c].reportNext ELSE cron[c].retentionNext
OkOf(c, k)   == IF k = "report" THEN cron[c].reportOk ELSE cron[c].retentionOk

Working(k) == IF k = "report" THEN {"snapshot", "append", "finish"} ELSE {"retain", "finishRetention"}

\* The invocation has a claim of this job.
HoldsJob(c, k, d) ==
    /\ cron[c].trigger = 0 /\ cron[c].held # 0 /\ cron[c].date = d
    /\ cron[c].pc \in Working(k)

\* An invocation walks the dates of the day it started, which is today or
\* yesterday, and has a lease exactly between a claim and its finish.
Placed(c) ==
    /\ cron[c].pc = "off" => cron[c].last = 0
    /\ cron[c].pc # "off" =>
          cron[c].last \in Dates /\ (cron[c].last = latest \/ cron[c].last = latest - 1)
    /\ cron[c].pc \in {"off", "cursors"} =>
          cron[c].date = 0 /\ cron[c].held = 0 /\ cron[c].trigger = 0
    /\ cron[c].pc \notin {"off", "cursors"} =>
          cron[c].date >= 1 /\ cron[c].date <= cron[c].last /\ cron[c].end <= cron[c].last
    /\ cron[c].trigger # 0 =>
          /\ cron[c].trigger <= Len(trigger) /\ cron[c].held # 0
          /\ cron[c].pc \in {"snapshot", "append", "retain", "finishRetention"}
    /\ cron[c].pc \in {"report", "retention"} => cron[c].held = 0
    /\ cron[c].pc \in {"finish", "retain", "finishRetention"} => cron[c].held # 0
    /\ cron[c].held <= MaxAttempts

\* A row keeps the attempt of a lease or has a later one.
Leased(c) ==
    /\ \A k \in Kinds, d \in Dates : HoldsJob(c, k, d) =>
          cron[c].held <= job[k][d].attempt /\ job[k][d].st # "queued"
    /\ cron[c].trigger # 0 =>
          /\ cron[c].held <= trigger[cron[c].trigger].attempt
          /\ trigger[cron[c].trigger].st # "queued"

\* Two invocations never have the same lease.
Apart(c, u) ==
    /\ \A k \in Kinds, d \in Dates :
          HoldsJob(c, k, d) /\ HoldsJob(u, k, d) => cron[c].held # cron[u].held
    /\ cron[c].trigger # 0 /\ cron[c].trigger = cron[u].trigger => cron[c].held # cron[u].held

\* The report job of the date is settled for this walk.
PastReport(c) ==
    \/ cron[c].pc \in {"retention", "retain", "finishRetention"}
    \/ cron[c].pc \in {"snapshot", "append"} /\ cron[c].held = 0

\* A walk claims a job only of a date that fits, and goes on to the next date
\* only after this one has succeeded.
Follows(c) ==
    cron[c].trigger = 0 /\ cron[c].pc \notin {"off", "cursors"} =>
        /\ \A k \in Kinds :
              /\ Fits(job, k, cron[c].last, NextOf(c, k))
              /\ OkOf(c, k) /\ cron[c].date >= NextOf(c, k)
                    => Fits(job, k, cron[c].last, cron[c].date)
              /\ HoldsJob(c, k, cron[c].date) => OkOf(c, k) /\ cron[c].date >= NextOf(c, k)
        /\ PastReport(c) /\ cron[c].reportOk /\ cron[c].date >= cron[c].reportNext =>
              Done(job, "report", cron[c].date)

\* One projection was read no later than another.
NotNewer(a, b) == a.ver <= b.ver /\ (a.ver = b.ver => a.hash = b.hash)

\* What a reconciliation read was so when it read it.
Read(c) ==
    /\ cron[c].pc = "append" =>
          /\ cron[c].snap.hash \in Hashes
          /\ cron[c].snap.seen <= Len(history[cron[c].date])
          /\ \A n \in 1..cron[c].snap.seen : NotNewer(history[cron[c].date][n], cron[c].snap)
          /\ NotNewer(cron[c].snap, inputs[cron[c].date])
    /\ cron[c].pc = "finish" /\ cron[c].ok => history[cron[c].date] # <<>>

DoneByNow == \A k \in Kinds, d \in Dates : Done(job, k, d) => d <= latest

Projected == \A d \in Dates : \A n \in 1..Len(history[d]) : NotNewer(history[d][n], inputs[d])

JobsInv    == DoneByNow /\ NoGap /\ SucceededIsReported
HistoryInv == Projected /\ RevisionsAdvance
RowsInv(c) == Placed(c) /\ Leased(c) /\ Follows(c) /\ Read(c)
CronsInv ==
    /\ \A c \in Crons : RowsInv(c)
    /\ \A c, u \in Crons : c # u => Apart(c, u)

DailyInv == Columns /\ JobsInv /\ HistoryInv /\ CronsInv

\* What the columns' domains say of the numbers in them.
Numbers ==
    /\ latest \in Nat /\ latest >= 1 /\ latest <= LastDate
    /\ \A k \in Kinds, d \in Dates :
          job[k][d] \in Job /\ job[k][d].attempt \in Nat /\ job[k][d].attempt >= 1
    /\ Len(trigger) \in Nat /\ DOMAIN trigger = 1..Len(trigger)
    /\ \A t \in 1..Len(trigger) : trigger[t] \in Job /\ trigger[t].attempt \in Nat
    /\ \A d \in Dates : inputs[d] \in Version /\ inputs[d].ver \in Nat
    /\ \A d \in Dates :
          /\ history[d] \in Seq(Version)
          /\ Len(history[d]) \in Nat /\ DOMAIN history[d] = 1..Len(history[d])
          /\ \A n \in 1..Len(history[d]) :
                history[d][n] \in Version /\ history[d][n].ver \in Nat
    /\ \A c \in Crons :
          /\ cron[c] \in Invocation
          /\ cron[c].last \in Nat /\ cron[c].reportNext \in Nat /\ cron[c].retentionNext \in Nat
          /\ cron[c].date \in Nat /\ cron[c].end \in Nat /\ cron[c].held \in Nat
          /\ cron[c].trigger \in Nat /\ cron[c].snap \in Snap
          /\ cron[c].snap.seen \in Nat /\ cron[c].snap.ver \in Nat
          /\ cron[c].reportOk \in BOOLEAN /\ cron[c].retentionOk \in BOOLEAN
          /\ cron[c].ok \in BOOLEAN /\ cron[c].failed \in BOOLEAN

\* The domains of dates, attempts and versions.
LEMMA DomainFacts ==
    /\ LastDate \in Nat
    /\ \A j \in Job : j.attempt \in Nat /\ j.attempt >= 1
    /\ \A v \in Version : v.ver \in Nat
    /\ \A v \in Snap : v.seen \in Nat /\ v.ver \in Nat
    /\ \A d \in Nat : d \in Dates <=> 1 <= d /\ d <= LastDate
<1>1. \A j \in Job : j.attempt \in Nat /\ j.attempt >= 1 BY DailyAssumption DEF Job
<1>2. \A v \in Version : v.ver \in Nat BY DailyAssumption DEF Version
<1>3. \A v \in Snap : v.seen \in Nat /\ v.ver \in Nat BY DailyAssumption DEF Snap
<1> QED BY <1>1, <1>2, <1>3, DailyAssumption DEF Dates

\* The columns are numbers in their ranges.
LEMMA NumberFacts ==
    ASSUME Columns
    PROVE  Numbers
<1>1. latest \in Nat /\ latest >= 1 /\ latest <= LastDate BY DomainFacts DEF Columns, Dates
<1>2. \A k \in Kinds, d \in Dates : job[k][d] \in Job BY DEF Columns
<1>3. /\ Len(trigger) \in Nat /\ DOMAIN trigger = 1..Len(trigger)
      /\ \A t \in 1..Len(trigger) : trigger[t] \in Job
  BY LenProperties, ElementOfSeq DEF Columns
<1>4. \A d \in Dates : inputs[d] \in Version /\ history[d] \in Seq(Version) BY DEF Columns
<1>5. ASSUME NEW d \in Dates
      PROVE  /\ Len(history[d]) \in Nat /\ DOMAIN history[d] = 1..Len(history[d])
             /\ \A n \in 1..Len(history[d]) : history[d][n] \in Version
  BY <1>4, LenProperties, ElementOfSeq
<1>6. \A c \in Crons : cron[c] \in Invocation BY DEF Columns
<1> QED BY <1>1, <1>2, <1>3, <1>4, <1>5, <1>6, DomainFacts, InvocationFields DEF Numbers

\* The same after a step.
LEMMA NumbersAfter ==
    ASSUME Columns'
    PROVE  Numbers'
<1>1. latest' \in Nat /\ latest' >= 1 /\ latest' <= LastDate BY DomainFacts DEF Columns, Dates
<1>2. \A k \in Kinds, d \in Dates : job'[k][d] \in Job BY DEF Columns
<1>3. /\ Len(trigger') \in Nat /\ DOMAIN trigger' = 1..Len(trigger')
      /\ \A t \in 1..Len(trigger') : trigger'[t] \in Job
  BY LenProperties, ElementOfSeq DEF Columns
<1>4. \A d \in Dates : inputs'[d] \in Version /\ history'[d] \in Seq(Version) BY DEF Columns
<1>5. ASSUME NEW d \in Dates
      PROVE  /\ Len(history'[d]) \in Nat /\ DOMAIN (history'[d]) = 1..Len(history'[d])
             /\ \A n \in 1..Len(history'[d]) : history'[d][n] \in Version
  BY <1>4, LenProperties, ElementOfSeq
<1>6. \A c \in Crons : cron'[c] \in Invocation BY DEF Columns
<1> QED BY <1>1, <1>2, <1>3, <1>4, <1>5, <1>6, DomainFacts, InvocationFields DEF Numbers

-----------------------------------------------------------------------------
(* What every step does to jobs, triggers, histories and facts *)

JobsGrow ==
    \A k \in Kinds, d \in Dates :
        /\ job'[k][d].attempt >= job[k][d].attempt
        /\ job[k][d].st # "queued" => job'[k][d].st # "queued"
        /\ job[k][d].st = "succeeded" => job'[k][d].st = "succeeded"

TriggersGrow ==
    /\ Len(trigger') >= Len(trigger)
    /\ \A t \in 1..Len(trigger) :
          /\ trigger'[t].attempt >= trigger[t].attempt
          /\ trigger[t].st # "queued" => trigger'[t].st # "queued"

HistoriesGrow ==
    \A d \in Dates :
        /\ Len(history'[d]) >= Len(history[d])
        /\ history[d] # <<>> => history'[d] # <<>>
        /\ \A n \in 1..Len(history[d]) : history'[d][n] = history[d][n]

InputsGrow == \A d \in Dates : inputs'[d] = inputs[d] \/ inputs'[d].ver > inputs[d].ver

\* What fits goes on to fit, for the walks there can be.
FitsKept ==
    \A k \in Kinds, last \in Dates, d \in Nat :
        (last = latest \/ last = latest - 1) /\ Fits(job, k, last, d) => Fits(job', k, last, d)

Grows == JobsGrow /\ TriggersGrow /\ HistoriesGrow /\ InputsGrow /\ FitsKept

\* A step within one day that keeps the columns in their domains.
Within == DailyInv /\ Columns' /\ latest' = latest /\ Grows /\ JobsInv' /\ HistoryInv'

\* Nothing but the invocation and the counter of faults changes.
LEMMA QuietGrows ==
    ASSUME DailyInv, UNCHANGED <<latest, job, trigger, inputs, history>>
    PROVE  Grows /\ JobsInv' /\ HistoryInv'
<1>0. Numbers BY NumberFacts DEF DailyInv
<1>1. JobsGrow /\ TriggersGrow /\ HistoriesGrow /\ InputsGrow
  BY <1>0 DEF Numbers, JobsGrow, TriggersGrow, HistoriesGrow, InputsGrow
<1>2. FitsKept BY DEF FitsKept
<1>3. JobsInv' BY DEF DailyInv, JobsInv, DoneByNow, Done, NoGap, SucceededIsReported
<1>4. HistoryInv' BY DEF DailyInv, HistoryInv, Projected, RevisionsAdvance
<1> QED BY <1>1, <1>2, <1>3, <1>4 DEF Grows

\* The invocation claims nothing.
KeepsLease(c) ==
    /\ \A k \in Kinds, d \in Dates :
          HoldsJob(c, k, d)' => HoldsJob(c, k, d) /\ cron'[c].held = cron[c].held
    /\ cron'[c].trigger # 0 => cron'[c].trigger = cron[c].trigger /\ cron'[c].held = cron[c].held

\* A lease an invocation keeps stays below its row.
LEMMA LeaseKept ==
    ASSUME Within, NEW c \in Crons, KeepsLease(c)
    PROVE  Leased(c)'
<1> DEFINE w == cron[c]
<1>0. Placed(c) /\ Leased(c) /\ Numbers /\ Numbers' /\ JobsGrow /\ TriggersGrow
  BY NumberFacts, NumbersAfter DEF Within, DailyInv, CronsInv, RowsInv, Grows
<1>1. w.held \in Nat /\ w.trigger \in Nat BY <1>0 DEF Numbers
<1>2. ASSUME NEW k \in Kinds, NEW d \in Dates, HoldsJob(c, k, d)'
      PROVE  cron'[c].held <= job'[k][d].attempt /\ job'[k][d].st # "queued"
  <2>1. HoldsJob(c, k, d) /\ cron'[c].held = w.held BY <1>2 DEF KeepsLease
  <2>2. w.held <= job[k][d].attempt /\ job[k][d].st # "queued" BY <1>0, <2>1 DEF Leased
  <2>3. job[k][d].attempt \in Nat /\ job'[k][d].attempt \in Nat BY <1>0 DEF Numbers
  <2>4. job'[k][d].attempt >= job[k][d].attempt /\ job'[k][d].st # "queued"
    BY <1>0, <2>2 DEF JobsGrow
  <2> QED BY <1>1, <2>1, <2>2, <2>3, <2>4
<1>3. ASSUME cron'[c].trigger # 0
      PROVE  /\ cron'[c].held <= trigger'[cron'[c].trigger].attempt
             /\ trigger'[cron'[c].trigger].st # "queued"
  <2>0. cron'[c].trigger = w.trigger /\ cron'[c].held = w.held BY <1>3 DEF KeepsLease
  <2>1. w.trigger \in 1..Len(trigger) /\ Len(trigger) \in Nat /\ Len(trigger') \in Nat
    BY <1>0, <1>1, <1>3, <2>0 DEF Placed, Numbers
  <2>2. w.held <= trigger[w.trigger].attempt /\ trigger[w.trigger].st # "queued"
    BY <1>0, <1>3, <2>0 DEF Leased
  <2>3. /\ Len(trigger') >= Len(trigger)
        /\ trigger'[w.trigger].attempt >= trigger[w.trigger].attempt
        /\ trigger'[w.trigger].st # "queued"
    BY <1>0, <2>1, <2>2 DEF TriggersGrow
  <2>4. trigger[w.trigger].attempt \in Nat BY <1>0, <2>1 DEF Numbers
  <2>5. w.trigger \in 1..Len(trigger') BY <2>1, <2>3
  <2>6. trigger'[w.trigger].attempt \in Nat BY <1>0, <2>5 DEF Numbers
  <2> QED BY <1>1, <2>0, <2>2, <2>3, <2>4, <2>6
<1> QED BY <1>2, <1>3 DEF Leased

\* An invocation that does not move keeps what is said of it.
LEMMA StaysGood ==
    ASSUME Within, NEW u \in Crons, cron'[u] = cron[u]
    PROVE  RowsInv(u)'
<1> DEFINE w == cron[u]
<1>0. Placed(u) /\ Leased(u) /\ Follows(u) /\ Read(u) /\ Numbers /\ Numbers' /\ LastDate \in Nat
  BY NumberFacts, NumbersAfter, DomainFacts DEF Within, DailyInv, CronsInv, RowsInv
<1>a. latest' = latest /\ JobsGrow /\ TriggersGrow /\ HistoriesGrow /\ InputsGrow /\ FitsKept
  BY DEF Within, Grows
<1>b. /\ w.last \in Nat /\ w.date \in Nat /\ w.held \in Nat /\ w.trigger \in Nat
      /\ w.reportNext \in Nat /\ w.retentionNext \in Nat /\ w.snap.seen \in Nat
      /\ w.snap.ver \in Nat
  BY <1>0 DEF Numbers
<1>1. Placed(u)'
  <2>1. Len(trigger) \in Nat /\ Len(trigger') \in Nat /\ Len(trigger') >= Len(trigger)
    BY <1>0, <1>a DEF Numbers, TriggersGrow
  <2> QED BY <1>0, <1>a, <1>b, <2>1 DEF Placed
<1>2. Leased(u)' BY LeaseKept DEF KeepsLease, HoldsJob
<1>3. Follows(u)'
  <2> SUFFICES ASSUME w.trigger = 0, w.pc \notin {"off", "cursors"} PROVE Follows(u)'
    BY DEF Follows
  <2>1. w.last \in Dates /\ (w.last = latest \/ w.last = latest - 1) BY <1>0 DEF Placed
  <2>2. ASSUME NEW k \in Kinds
        PROVE  /\ NextOf(u, k)' = NextOf(u, k) /\ (OkOf(u, k)' <=> OkOf(u, k))
               /\ NextOf(u, k) \in Nat
               /\ (HoldsJob(u, k, cron[u].date)' <=> HoldsJob(u, k, cron[u].date))
    BY <1>b DEF NextOf, OkOf, HoldsJob
  <2>3. \A k \in Kinds, d \in Nat : Fits(job, k, w.last, d) => Fits(job', k, w.last, d)
    BY <1>a, <2>1 DEF FitsKept
  <2>4. \A k \in Kinds :
           /\ Fits(job, k, cron[u].last, NextOf(u, k))
           /\ OkOf(u, k) /\ cron[u].date >= NextOf(u, k)
                 => Fits(job, k, cron[u].last, cron[u].date)
           /\ HoldsJob(u, k, cron[u].date) => OkOf(u, k) /\ cron[u].date >= NextOf(u, k)
    BY <1>0 DEF Follows
  <2>5. PastReport(u) /\ w.reportOk /\ w.date >= w.reportNext => Done(job, "report", w.date)
    BY <1>0 DEF Follows
  <2>6. Done(job, "report", w.date) => Done(job', "report", w.date)
    BY <1>a DEF Done, JobsGrow, Kinds
  <2>7. PastReport(u)' <=> PastReport(u) BY DEF PastReport
  <2>8. /\ \A k \in Kinds :
              /\ Fits(job', k, cron'[u].last, NextOf(u, k)')
              /\ OkOf(u, k)' /\ cron'[u].date >= NextOf(u, k)'
                    => Fits(job', k, cron'[u].last, cron'[u].date)
              /\ HoldsJob(u, k, cron[u].date)' => OkOf(u, k)' /\ cron'[u].date >= NextOf(u, k)'
    BY <1>b, <2>2, <2>3, <2>4
  <2>9. PastReport(u)' /\ cron'[u].reportOk /\ cron'[u].date >= cron'[u].reportNext =>
            Done(job', "report", cron'[u].date)
    BY <2>5, <2>6, <2>7
  <2> QED BY <2>8, <2>9 DEF Follows
<1>4. Read(u)'
  <2> DEFINE d == w.date
             snap == w.snap
  <2>0. w.pc \in {"append", "finish"} => d \in Dates
    BY <1>0, <1>b, DomainFacts DEF Placed
  <2>1. ASSUME w.pc = "append"
        PROVE  /\ snap.hash \in Hashes /\ snap.seen <= Len(history'[d])
               /\ \A n \in 1..snap.seen : NotNewer(history'[d][n], snap)
               /\ NotNewer(snap, inputs'[d])
    <3>1. /\ snap.hash \in Hashes /\ snap.seen <= Len(history[d])
          /\ \A n \in 1..snap.seen : NotNewer(history[d][n], snap)
          /\ NotNewer(snap, inputs[d])
      BY <1>0, <2>1 DEF Read
    <3>2. /\ Len(history[d]) \in Nat /\ Len(history'[d]) \in Nat
          /\ inputs[d].ver \in Nat /\ inputs'[d].ver \in Nat
      BY <1>0, <2>0, <2>1 DEF Numbers
    <3>3. /\ Len(history'[d]) >= Len(history[d])
          /\ \A n \in 1..Len(history[d]) : history'[d][n] = history[d][n]
      BY <1>a, <2>0, <2>1 DEF HistoriesGrow
    <3>4. inputs'[d] = inputs[d] \/ inputs'[d].ver > inputs[d].ver
      BY <1>a, <2>0, <2>1 DEF InputsGrow
    <3>5. NotNewer(snap, inputs'[d]) BY <1>b, <3>1, <3>2, <3>4 DEF NotNewer
    <3>6. \A n \in 1..snap.seen : n \in 1..Len(history[d]) BY <1>b, <3>1, <3>2
    <3>7. \A n \in 1..snap.seen : NotNewer(history'[d][n], snap) BY <3>1, <3>3, <3>6
    <3>8. snap.seen <= Len(history'[d]) BY <1>b, <3>1, <3>2, <3>3
    <3> QED BY <3>1, <3>5, <3>7, <3>8
  <2>2. ASSUME w.pc = "finish", w.ok PROVE history'[d] # <<>>
    BY <1>0, <1>a, <2>0, <2>2 DEF Read, HistoriesGrow
  <2> QED BY <2>1, <2>2 DEF Read
<1> QED BY <1>1, <1>2, <1>3, <1>4 DEF RowsInv

-----------------------------------------------------------------------------
(* Who holds what after a step *)

OthersRest(c) == \A u \in Crons : u # c => cron'[u] = cron[u]

\* An invocation moved without a claim.
LEMMA NoClaim ==
    ASSUME Within, NEW c \in Crons, OthersRest(c), KeepsLease(c),
           Placed(c)', Follows(c)', Read(c)'
    PROVE  CronsInv'
<1>1. \A u \in Crons : RowsInv(u)'
  BY StaysGood, LeaseKept DEF OthersRest, RowsInv
<1>2. ASSUME NEW a \in Crons, NEW b \in Crons, a # b PROVE Apart(a, b)'
  <2>1. Apart(a, b) BY <1>2 DEF Within, DailyInv, CronsInv
  <2>2. \A u \in Crons : KeepsLease(u) BY DEF KeepsLease, OthersRest, HoldsJob
  <2> QED BY <2>1, <2>2 DEF Apart, KeepsLease
<1> QED BY <1>1, <1>2 DEF CronsInv

\* An invocation claimed a job: its attempt is a new one.
LEMMA Claimed ==
    ASSUME Within, NEW c \in Crons, OthersRest(c), NEW K \in Kinds, NEW D \in Dates,
           cron'[c].trigger = 0,
           \A k \in Kinds, d \in Dates : HoldsJob(c, k, d)' => k = K /\ d = D,
           cron'[c].held = job'[K][D].attempt, job'[K][D].st # "queued",
           job[K][D].st # "queued" => job[K][D].attempt < job'[K][D].attempt,
           Placed(c)', Follows(c)', Read(c)'
    PROVE  CronsInv'
<1>0. Numbers /\ Numbers' BY NumberFacts, NumbersAfter DEF Within, DailyInv
<1>1. Leased(c)' BY <1>0 DEF Leased, Numbers
<1>2. \A u \in Crons : RowsInv(u)' BY <1>1, StaysGood DEF OthersRest, RowsInv
<1>3. ASSUME NEW u \in Crons, u # c, NEW k \in Kinds, NEW d \in Dates,
             HoldsJob(c, k, d)', HoldsJob(u, k, d)'
      PROVE  cron'[c].held # cron'[u].held
  <2>1. k = K /\ d = D /\ HoldsJob(u, K, D) /\ cron'[u].held = cron[u].held
    BY <1>3 DEF HoldsJob, OthersRest
  <2>2. cron[u].held <= job[K][D].attempt /\ job[K][D].st # "queued"
    BY <2>1 DEF Within, DailyInv, CronsInv, RowsInv, Leased
  <2>3. job[K][D].attempt \in Nat /\ job'[K][D].attempt \in Nat /\ cron[u].held \in Nat
    BY <1>0 DEF Numbers
  <2> QED BY <2>1, <2>2, <2>3
<1>4. ASSUME NEW a \in Crons, NEW b \in Crons, a # b PROVE Apart(a, b)'
  <2>1. CASE a = c BY <1>3, <1>4, <2>1 DEF Apart
  <2>2. CASE b = c BY <1>3, <1>4, <2>2 DEF Apart
  <2>3. CASE a # c /\ b # c
    <3>1. Apart(a, b) /\ cron'[a] = cron[a] /\ cron'[b] = cron[b]
      BY <1>4, <2>3 DEF Within, DailyInv, CronsInv, OthersRest
    <3> QED BY <3>1 DEF Apart, HoldsJob
  <2> QED BY <2>1, <2>2, <2>3
<1> QED BY <1>2, <1>4 DEF CronsInv

\* An invocation claimed an administrator trigger.
LEMMA RequestClaimed ==
    ASSUME Within, NEW c \in Crons, OthersRest(c), NEW t \in 1..Len(trigger),
           cron'[c].trigger = t,
           cron'[c].held = trigger'[t].attempt, trigger'[t].st # "queued",
           trigger[t].st # "queued" => trigger[t].attempt < trigger'[t].attempt,
           Placed(c)', Follows(c)', Read(c)'
    PROVE  CronsInv'
<1>0. Numbers /\ Numbers' /\ TriggersGrow
  BY NumberFacts, NumbersAfter DEF Within, DailyInv, Grows
<1>a. t \in Nat /\ t # 0 /\ t \in 1..Len(trigger') BY <1>0 DEF Numbers, TriggersGrow
<1>b. trigger[t].attempt \in Nat /\ trigger'[t].attempt \in Nat BY <1>0, <1>a DEF Numbers
<1>1. Leased(c)'
  <2>1. \A k \in Kinds, d \in Dates : ~HoldsJob(c, k, d)' BY <1>a DEF HoldsJob
  <2> QED BY <1>b, <2>1 DEF Leased
<1>2. \A u \in Crons : RowsInv(u)' BY <1>1, StaysGood DEF OthersRest, RowsInv
<1>3. ASSUME NEW u \in Crons, u # c, cron'[u].trigger = t
      PROVE  cron'[c].held # cron'[u].held
  <2>1. cron[u].trigger = t /\ cron'[u].held = cron[u].held BY <1>3 DEF OthersRest
  <2>2. cron[u].held <= trigger[t].attempt /\ trigger[t].st # "queued"
    BY <1>a, <2>1 DEF Within, DailyInv, CronsInv, RowsInv, Leased
  <2>3. cron[u].held \in Nat BY <1>0 DEF Numbers
  <2> QED BY <1>b, <2>1, <2>2, <2>3
<1>4. ASSUME NEW a \in Crons, NEW b \in Crons, a # b PROVE Apart(a, b)'
  <2>0. \A k \in Kinds, d \in Dates : ~HoldsJob(c, k, d)' BY <1>a DEF HoldsJob
  <2>1. CASE a = c BY <1>3, <1>4, <2>0, <2>1 DEF Apart
  <2>2. CASE b = c BY <1>3, <1>4, <2>0, <2>2 DEF Apart
  <2>3. CASE a # c /\ b # c
    <3>1. Apart(a, b) /\ cron'[a] = cron[a] /\ cron'[b] = cron[b]
      BY <1>4, <2>3 DEF Within, DailyInv, CronsInv, OthersRest
    <3> QED BY <3>1 DEF Apart, HoldsJob
  <2> QED BY <2>1, <2>2, <2>3
<1> QED BY <1>2, <1>4 DEF CronsInv

-----------------------------------------------------------------------------
(* Where an invocation is after its step *)

\* The walk and its date are the same.
SameWalk(c) ==
    /\ cron'[c].last = cron[c].last /\ cron'[c].date = cron[c].date
    /\ cron'[c].end = cron[c].end /\ cron'[c].trigger = cron[c].trigger
    /\ cron'[c].reportNext = cron[c].reportNext
    /\ cron'[c].retentionNext = cron[c].retentionNext
    /\ cron'[c].reportOk => cron[c].reportOk
    /\ cron'[c].retentionOk => cron[c].retentionOk

\* An invocation on the same walk stays placed.
LEMMA SamePlace ==
    ASSUME Within, NEW c \in Crons, SameWalk(c),
           cron[c].pc \notin {"off", "cursors"}, cron'[c].pc \notin {"off", "cursors"},
           cron'[c].held <= MaxAttempts,
           cron[c].trigger # 0 =>
               /\ cron'[c].held # 0
               /\ cron'[c].pc \in {"snapshot", "append", "retain", "finishRetention"},
           cron'[c].pc \in {"report", "retention"} => cron'[c].held = 0,
           cron'[c].pc \in {"finish", "retain", "finishRetention"} => cron'[c].held # 0
    PROVE  Placed(c)'
<1>1. Numbers /\ Numbers' /\ Placed(c) /\ latest' = latest /\ TriggersGrow
  BY NumberFacts, NumbersAfter DEF Within, DailyInv, CronsInv, RowsInv, Grows
<1>2. /\ Len(trigger) \in Nat /\ Len(trigger') \in Nat /\ Len(trigger') >= Len(trigger)
      /\ cron[c].trigger \in Nat
  BY <1>1 DEF Numbers, TriggersGrow
<1> QED BY <1>1, <1>2 DEF Placed, SameWalk

\* An invocation on the same date goes on to follow its walk.
LEMMA SameDate ==
    ASSUME Within, NEW c \in Crons, SameWalk(c),
           cron[c].pc \notin {"off", "cursors"},
           cron[c].trigger = 0 =>
               \A k \in Kinds : HoldsJob(c, k, cron[c].date)' =>
                   OkOf(c, k)' /\ cron[c].date >= NextOf(c, k),
           cron[c].trigger = 0 /\ PastReport(c)' /\ cron'[c].reportOk
               /\ cron[c].date >= cron[c].reportNext => Done(job', "report", cron[c].date)
    PROVE  Follows(c)'
<1> SUFFICES ASSUME cron[c].trigger = 0 PROVE Follows(c)' BY DEF Follows, SameWalk
<1>1. Numbers /\ Placed(c) /\ Follows(c) /\ latest' = latest /\ FitsKept
  BY NumberFacts DEF Within, DailyInv, CronsInv, RowsInv, Grows
<1>2. /\ cron[c].last \in Dates /\ (cron[c].last = latest \/ cron[c].last = latest - 1)
      /\ cron[c].reportNext \in Nat /\ cron[c].retentionNext \in Nat /\ cron[c].date \in Nat
  BY <1>1 DEF Placed, Numbers
<1>3. \A k \in Kinds, x \in Nat : Fits(job, k, cron[c].last, x) => Fits(job', k, cron[c].last, x)
  BY <1>1, <1>2 DEF FitsKept
<1>4. ASSUME NEW k \in Kinds
      PROVE  /\ Fits(job', k, cron'[c].last, NextOf(c, k)')
             /\ OkOf(c, k)' /\ cron'[c].date >= NextOf(c, k)'
                   => Fits(job', k, cron'[c].last, cron'[c].date)
             /\ HoldsJob(c, k, cron[c].date)' => OkOf(c, k)' /\ cron'[c].date >= NextOf(c, k)'
  <2>1. NextOf(c, k)' = NextOf(c, k) /\ (OkOf(c, k)' => OkOf(c, k)) /\ NextOf(c, k) \in Nat
    BY <1>2 DEF NextOf, OkOf, SameWalk
  <2>2. /\ Fits(job, k, cron[c].last, NextOf(c, k))
        /\ OkOf(c, k) /\ cron[c].date >= NextOf(c, k)
              => Fits(job, k, cron[c].last, cron[c].date)
    BY <1>1 DEF Follows
  <2>3. cron'[c].last = cron[c].last /\ cron'[c].date = cron[c].date BY DEF SameWalk
  <2> QED BY <1>2, <1>3, <2>1, <2>2, <2>3
<1>5. PastReport(c)' /\ cron'[c].reportOk /\ cron'[c].date >= cron'[c].reportNext
          => Done(job', "report", cron'[c].date)
  BY DEF SameWalk
<1> QED BY <1>4, <1>5 DEF Follows

\* A death keeps the invocations in order.
LEMMA DieMoves ==
    ASSUME Within, NEW c \in Crons, Die(c)
    PROVE  CronsInv'
<1>1. Becomes(c, "off", 0, 0, 0, 0, 0, TRUE, TRUE, 0, NoSnap, TRUE, 0)
  BY DieEffect DEF Within, DailyInv
<1>2. KeepsLease(c) BY <1>1 DEF KeepsLease, HoldsJob, Becomes
<1>3. Placed(c)' BY <1>1, DailyAssumption DEF Placed, Becomes
<1>4. Follows(c)' BY <1>1 DEF Follows, Becomes
<1>5. Read(c)' BY <1>1 DEF Read, Becomes
<1> QED BY <1>1, <1>2, <1>3, <1>4, <1>5, NoClaim DEF OthersRest, Becomes

\* The end of a report keeps the invocations in order.
LEMMA ReportDoneMoves ==
    ASSUME Within, NEW c \in Crons, NEW ok \in BOOLEAN, ReportDone(c, ok),
           cron[c].pc \in {"report", "snapshot", "append", "finish"},
           cron[c].trigger = 0 /\ ok /\ cron[c].reportOk /\ cron[c].date >= cron[c].reportNext
               => Done(job', "report", cron[c].date)
    PROVE  CronsInv'
<1> DEFINE w == cron[c]
           forced == w.trigger # 0
           pc == IF ~forced THEN "retention" ELSE IF w.date = w.last THEN "retain" ELSE "snapshot"
           d == IF forced /\ w.date < w.last THEN w.date + 1 ELSE w.date
           held == IF forced THEN w.held ELSE 0
           rok == w.reportOk /\ ok
<1>1. Becomes(c, pc, w.last, w.reportNext, w.retentionNext, d, w.end, rok, w.retentionOk, held,
              NoSnap, TRUE, w.trigger)
  BY ReportDoneEffect DEF Within, DailyInv
<1>2. Numbers /\ Placed(c) /\ Follows(c) /\ latest' = latest /\ FitsKept /\ TriggersGrow
      /\ Numbers'
  BY NumberFacts, NumbersAfter DEF Within, DailyInv, CronsInv, RowsInv, Grows
<1>3. /\ w.last \in Nat /\ w.date \in Nat /\ w.end \in Nat /\ w.held \in Nat /\ w.trigger \in Nat
      /\ w.reportNext \in Nat /\ w.retentionNext \in Nat /\ MaxAttempts \in Nat
  BY <1>2, DailyAssumption DEF Numbers
<1>4. /\ w.last \in Dates /\ (w.last = latest \/ w.last = latest - 1)
      /\ w.date >= 1 /\ w.date <= w.last /\ w.end <= w.last /\ w.held <= MaxAttempts
  BY <1>2 DEF Placed
<1>5. Placed(c)'
  <2>1. Len(trigger) \in Nat /\ Len(trigger') \in Nat /\ Len(trigger') >= Len(trigger)
    BY <1>2 DEF Numbers, TriggersGrow
  <2>2. CASE forced
    <3>1. w.trigger <= Len(trigger) /\ w.held # 0 BY <1>2, <2>2 DEF Placed
    <3>2. pc \in {"retain", "snapshot"} /\ d >= 1 /\ d <= w.last /\ held = w.held
      BY <1>3, <1>4, <2>2
    <3> HIDE DEF pc, d, held
    <3> QED BY <1>1, <1>2, <1>3, <1>4, <2>1, <3>1, <3>2 DEF Placed, Becomes
  <2>3. CASE ~forced
    <3>1. pc = "retention" /\ d = w.date /\ held = 0 BY <2>3
    <3> HIDE DEF pc, d, held
    <3> QED BY <1>1, <1>2, <1>3, <1>4, <2>3, <3>1 DEF Placed, Becomes
  <2> QED BY <2>2, <2>3
<1>6. Follows(c)'
  <2> SUFFICES ASSUME ~forced PROVE Follows(c)' BY <1>1 DEF Follows, Becomes
  <2>1. pc = "retention" /\ d = w.date /\ held = 0 OBVIOUS
  <2> HIDE DEF pc, d, held
  <2>2. SameWalk(c) BY <1>1, <2>1 DEF Becomes, SameWalk
  <2>3. \A k \in Kinds : ~HoldsJob(c, k, cron[c].date)' BY <1>1, <2>1 DEF HoldsJob, Becomes
  <2>4. (cron'[c].reportOk <=> rok) BY <1>1 DEF Becomes
  <2>5. w.pc \notin {"off", "cursors"} OBVIOUS
  <2> QED BY <2>2, <2>3, <2>4, <2>5, SameDate
<1>7. Read(c)'
  <2>1. cron'[c].pc = pc BY <1>1 DEF Becomes
  <2> QED BY <2>1 DEF Read
<1>8. KeepsLease(c)
  <2> HIDE DEF pc, d
  <2>1. \A k \in Kinds, x \in Dates : ~HoldsJob(c, k, x)' BY <1>1 DEF HoldsJob, Becomes
  <2>2. cron'[c].trigger # 0 => cron'[c].trigger = w.trigger /\ cron'[c].held = w.held
    BY <1>1 DEF Becomes
  <2> QED BY <2>1, <2>2 DEF KeepsLease
<1>9. OthersRest(c) BY <1>1 DEF OthersRest, Becomes
<1> QED BY <1>5, <1>6, <1>7, <1>8, <1>9, NoClaim

\* The end of work keeps the invocations in order.
LEMMA WorkedMoves ==
    ASSUME Within, NEW c \in Crons, NEW ok \in BOOLEAN, Worked(c, ok),
           cron[c].pc \in {"snapshot", "append"},
           ok => history'[cron[c].date] # <<>>
    PROVE  CronsInv'
<1> DEFINE w == cron[c]
<1>1. Numbers /\ Placed(c) /\ Follows(c) /\ JobsGrow
  BY NumberFacts DEF Within, DailyInv, CronsInv, RowsInv, Grows
<1>2. CASE /\ w.held # 0 /\ w.trigger = 0
           /\ Becomes(c, "finish", w.last, w.reportNext, w.retentionNext, w.date, w.end,
                      w.reportOk, w.retentionOk, w.held, w.snap, ok, w.trigger)
  <2>1. SameWalk(c) BY <1>2 DEF SameWalk, Becomes
  <2>2. Placed(c)' BY <1>1, <1>2, <2>1, SamePlace DEF Becomes, Placed
  <2>3. \A k \in Kinds, x \in Dates : HoldsJob(c, k, x)' => HoldsJob(c, k, x)
    BY <1>2 DEF HoldsJob, Working, Becomes, Kinds
  <2>4. KeepsLease(c) BY <1>2, <2>3 DEF KeepsLease, Becomes
  <2>5. \A k \in Kinds : HoldsJob(c, k, w.date)' => HoldsJob(c, k, w.date)
    BY <1>2 DEF HoldsJob, Working, Becomes, Kinds
  <2>6. \A k \in Kinds : HoldsJob(c, k, w.date) => OkOf(c, k) /\ w.date >= NextOf(c, k)
    BY <1>1, <1>2 DEF Follows
  <2>7. \A k \in Kinds : OkOf(c, k)' <=> OkOf(c, k) BY <1>2 DEF OkOf, Becomes
  <2>8. ~PastReport(c)' BY <1>2 DEF PastReport, Becomes
  <2>9. Follows(c)' BY <2>1, <2>5, <2>6, <2>7, <2>8, SameDate
  <2>10. Read(c)' BY <1>2 DEF Read, Becomes
  <2>11. OthersRest(c) BY <1>2 DEF OthersRest, Becomes
  <2> QED BY <2>2, <2>4, <2>9, <2>10, <2>11, NoClaim
<1>3. CASE (w.held = 0 \/ w.trigger # 0) /\ ReportDone(c, ok)
  <2>1. w.date \in Dates BY <1>1, DomainFacts DEF Placed, Numbers
  <2>2. w.trigger = 0 /\ w.reportOk /\ w.date >= w.reportNext => Done(job, "report", w.date)
    BY <1>1, <1>3 DEF Follows, PastReport
  <2>3. Done(job, "report", w.date) => Done(job', "report", w.date)
    BY <1>1, <2>1 DEF Done, JobsGrow, Kinds
  <2> QED BY <1>3, <2>2, <2>3, ReportDoneMoves
<1> QED BY <1>2, <1>3, WorkedEffect DEF Within, DailyInv

\* A retention pass keeps the invocations in order.
LEMMA RetainMoves ==
    ASSUME Within, NEW c \in Crons, Retain(c)
    PROVE  CronsInv'
<1> DEFINE w == cron[c]
<1>1. Numbers /\ Placed(c) /\ Follows(c) /\ JobsGrow
  BY NumberFacts DEF Within, DailyInv, CronsInv, RowsInv, Grows
<1>2. w.pc = "retain" /\ \E ok \in BOOLEAN :
          Becomes(c, "finishRetention", w.last, w.reportNext, w.retentionNext, w.date, w.end,
                  w.reportOk, w.retentionOk, w.held, w.snap, ok, w.trigger)
  BY RetainEffect DEF Within, DailyInv
<1>3. PICK ok \in BOOLEAN :
          Becomes(c, "finishRetention", w.last, w.reportNext, w.retentionNext, w.date, w.end,
                  w.reportOk, w.retentionOk, w.held, w.snap, ok, w.trigger)
  BY <1>2
<1>4. SameWalk(c) BY <1>3 DEF SameWalk, Becomes
<1>5. Placed(c)' BY <1>1, <1>2, <1>3, <1>4, SamePlace DEF Becomes, Placed
<1>6. \A k \in Kinds, x \in Dates : HoldsJob(c, k, x)' => HoldsJob(c, k, x)
  BY <1>2, <1>3 DEF HoldsJob, Working, Becomes, Kinds
<1>7. KeepsLease(c) BY <1>3, <1>6 DEF KeepsLease, Becomes
<1>8. Follows(c)'
  <2>1. \A k \in Kinds : HoldsJob(c, k, w.date)' => HoldsJob(c, k, w.date)
    BY <1>2, <1>3 DEF HoldsJob, Working, Becomes, Kinds
  <2>2. w.trigger = 0 =>
            \A k \in Kinds : HoldsJob(c, k, w.date) => OkOf(c, k) /\ w.date >= NextOf(c, k)
    BY <1>1, <1>2 DEF Follows
  <2>3. \A k \in Kinds : OkOf(c, k)' <=> OkOf(c, k) BY <1>3 DEF OkOf, Becomes
  <2>4. w.date \in Dates BY <1>1, <1>2, DomainFacts DEF Placed, Numbers
  <2>5. w.trigger = 0 /\ w.reportOk /\ w.date >= w.reportNext => Done(job, "report", w.date)
    BY <1>1, <1>2 DEF Follows, PastReport
  <2>6. Done(job, "report", w.date) => Done(job', "report", w.date)
    BY <1>1, <2>4 DEF Done, JobsGrow, Kinds
  <2>7. (cron'[c].reportOk <=> w.reportOk) BY <1>3 DEF Becomes
  <2> QED BY <1>2, <1>4, <2>1, <2>2, <2>3, <2>5, <2>6, <2>7, SameDate
<1>9. Read(c)' BY <1>3 DEF Read, Becomes
<1>10. OthersRest(c) BY <1>3 DEF OthersRest, Becomes
<1> QED BY <1>5, <1>7, <1>8, <1>9, <1>10, NoClaim

\* A snapshot keeps the invocations in order.
LEMMA SnapshotMoves ==
    ASSUME Within, NEW c \in Crons, NEW snap \in Snap, cron[c].pc = "snapshot",
           cron' = [cron EXCEPT ![c].pc = "append", ![c].snap = snap],
           snap.hash \in Hashes, snap.seen = Len(history[cron[c].date]),
           snap.ver = inputs[cron[c].date].ver, snap.hash = inputs[cron[c].date].hash,
           UNCHANGED <<history, inputs>>
    PROVE  CronsInv'
<1> DEFINE w == cron[c]
<1>1. Numbers /\ Placed(c) /\ Follows(c) /\ JobsGrow /\ Projected
  BY NumberFacts DEF Within, DailyInv, CronsInv, RowsInv, Grows, HistoryInv
<1>2. Becomes(c, "append", w.last, w.reportNext, w.retentionNext, w.date, w.end, w.reportOk,
              w.retentionOk, w.held, snap, w.ok, w.trigger)
  BY SnapshotRow DEF Within, DailyInv
<1>3. SameWalk(c) BY <1>2 DEF SameWalk, Becomes
<1>4. Placed(c)' BY <1>1, <1>2, <1>3, SamePlace DEF Becomes, Placed
<1>5. \A k \in Kinds, x \in Dates : HoldsJob(c, k, x)' => HoldsJob(c, k, x)
  BY <1>2 DEF HoldsJob, Working, Becomes, Kinds
<1>6. KeepsLease(c) BY <1>2, <1>5 DEF KeepsLease, Becomes
<1>7. w.date \in Dates BY <1>1, DomainFacts DEF Placed, Numbers
<1>8. Follows(c)'
  <2>1. \A k \in Kinds : HoldsJob(c, k, w.date)' => HoldsJob(c, k, w.date)
    BY <1>2 DEF HoldsJob, Working, Becomes, Kinds
  <2>2. w.trigger = 0 =>
            \A k \in Kinds : HoldsJob(c, k, w.date) => OkOf(c, k) /\ w.date >= NextOf(c, k)
    BY <1>1 DEF Follows
  <2>3. \A k \in Kinds : OkOf(c, k)' <=> OkOf(c, k) BY <1>2 DEF OkOf, Becomes
  <2>4. PastReport(c)' => PastReport(c) BY <1>2 DEF PastReport, Becomes
  <2>5. w.trigger = 0 /\ PastReport(c) /\ w.reportOk /\ w.date >= w.reportNext
            => Done(job, "report", w.date)
    BY <1>1 DEF Follows
  <2>6. Done(job, "report", w.date) => Done(job', "report", w.date)
    BY <1>1, <1>7 DEF Done, JobsGrow, Kinds
  <2>7. (cron'[c].reportOk <=> w.reportOk) BY <1>2 DEF Becomes
  <2> QED BY <1>3, <2>1, <2>2, <2>3, <2>4, <2>5, <2>6, <2>7, SameDate
<1>9. Read(c)'
  <2> DEFINE d == w.date
  <2>1. /\ inputs[d].ver \in Nat /\ Len(history[d]) \in Nat
        /\ \A n \in 1..Len(history[d]) : NotNewer(history[d][n], inputs[d])
    BY <1>1, <1>7 DEF Numbers, Projected
  <2>2. NotNewer(snap, inputs[d]) BY <2>1 DEF NotNewer
  <2>3. \A n \in 1..snap.seen : NotNewer(history[d][n], snap) BY <2>1 DEF NotNewer
  <2>4. cron'[c].pc = "append" /\ cron'[c].date = d /\ cron'[c].snap = snap
    BY <1>2 DEF Becomes
  <2>5. /\ snap.hash \in Hashes /\ snap.seen <= Len(history'[d])
        /\ \A n \in 1..snap.seen : NotNewer(history'[d][n], snap)
        /\ NotNewer(snap, inputs'[d])
    BY <2>1, <2>2, <2>3
  <2> HIDE DEF d
  <2> QED BY <2>4, <2>5 DEF Read
<1>10. OthersRest(c) BY <1>2 DEF OthersRest, Becomes
<1> QED BY <1>4, <1>6, <1>8, <1>9, <1>10, NoClaim

\* The end of a retention job keeps the invocations in order.
LEMMA RetentionDoneMoves ==
    ASSUME Within, NEW c \in Crons, NEW ok \in BOOLEAN, RetentionDone(c, ok),
           cron[c].pc \in {"retention", "finishRetention"}, cron[c].trigger = 0,
           ok /\ cron[c].retentionOk /\ cron[c].date >= cron[c].retentionNext
               => Done(job', "retention", cron[c].date)
    PROVE  CronsInv'
<1> DEFINE w == cron[c]
           d == w.date + 1
<1>1. Numbers /\ Placed(c) /\ Follows(c) /\ latest' = latest /\ FitsKept /\ JobsGrow
  BY NumberFacts DEF Within, DailyInv, CronsInv, RowsInv, Grows
<1>2. /\ w.last \in Nat /\ w.date \in Nat /\ w.end \in Nat
      /\ w.reportNext \in Nat /\ w.retentionNext \in Nat /\ MaxAttempts \in Nat
      /\ w.last \in Dates /\ (w.last = latest \/ w.last = latest - 1)
      /\ w.date >= 1 /\ w.date <= w.last /\ w.end <= w.last
  BY <1>1, DailyAssumption DEF Numbers, Placed
<1>3. CASE Becomes(c, "off", 0, 0, 0, 0, 0, TRUE, TRUE, 0, NoSnap, TRUE, 0)
  <2>1. KeepsLease(c) BY <1>3 DEF KeepsLease, HoldsJob, Becomes
  <2>2. Placed(c)' BY <1>3, DailyAssumption DEF Placed, Becomes
  <2>3. Follows(c)' BY <1>3 DEF Follows, Becomes
  <2>4. Read(c)' BY <1>3 DEF Read, Becomes
  <2> QED BY <1>3, <2>1, <2>2, <2>3, <2>4, NoClaim DEF OthersRest, Becomes
<1>4. CASE /\ w.date < w.end
           /\ Becomes(c, "report", w.last, w.reportNext, w.retentionNext, w.date + 1, w.end,
                      w.reportOk, w.retentionOk /\ ok, 0, w.snap, TRUE, w.trigger)
  <2>0. /\ cron'[c].pc = "report" /\ cron'[c].last = w.last /\ cron'[c].date = d
        /\ cron'[c].end = w.end /\ cron'[c].held = 0 /\ cron'[c].trigger = 0
        /\ cron'[c].reportNext = w.reportNext /\ cron'[c].retentionNext = w.retentionNext
        /\ (cron'[c].reportOk <=> w.reportOk)
        /\ (cron'[c].retentionOk <=> w.retentionOk /\ ok)
    BY <1>4 DEF Becomes
  <2>1. KeepsLease(c) BY <2>0 DEF KeepsLease, HoldsJob
  <2>2. Placed(c)' BY <1>1, <1>2, <1>4, <2>0 DEF Placed
  <2>3. Follows(c)'
    <3>1. \A k \in Kinds, x \in Nat : Fits(job, k, w.last, x) => Fits(job', k, w.last, x)
      BY <1>1, <1>2 DEF FitsKept
    <3>2. /\ \A k \in Kinds : Fits(job, k, w.last, NextOf(c, k))
          /\ w.reportOk /\ w.date >= w.reportNext => Done(job, "report", w.date)
      BY <1>1 DEF Follows, PastReport
    <3>3. w.date \in Dates BY <1>2, DomainFacts
    <3>4. Done(job, "report", w.date) => Done(job', "report", w.date)
      BY <1>1, <3>3 DEF Done, JobsGrow, Kinds
    <3>5. ASSUME NEW k \in Kinds
          PROVE  /\ Fits(job', k, cron'[c].last, NextOf(c, k)')
                 /\ OkOf(c, k)' /\ cron'[c].date >= NextOf(c, k)'
                       => Fits(job', k, cron'[c].last, cron'[c].date)
                 /\ ~HoldsJob(c, k, cron[c].date)'
      <4>1. NextOf(c, k)' = NextOf(c, k) /\ NextOf(c, k) \in Nat BY <1>2, <2>0 DEF NextOf
      <4>2. Fits(job', k, w.last, NextOf(c, k)) BY <3>1, <3>2, <4>1
      <4>3. OkOf(c, k)' /\ w.date >= NextOf(c, k) => Done(job', k, w.date)
        BY <2>0, <3>2, <3>4 DEF OkOf, NextOf, Kinds
      <4>4. Done(job', k, w.date) => Fits(job', k, w.last, d)
        <5>1. d - 1 = w.date BY <1>2
        <5> HIDE DEF d
        <5> QED BY <5>1 DEF Fits
      <4>5. d >= NextOf(c, k) => d = NextOf(c, k) \/ w.date >= NextOf(c, k) BY <1>2, <4>1
      <4>6. ~HoldsJob(c, k, cron[c].date)' BY <2>0 DEF HoldsJob
      <4> HIDE DEF d
      <4> QED BY <2>0, <4>1, <4>2, <4>3, <4>4, <4>5, <4>6
    <3>6. ~PastReport(c)' BY <2>0 DEF PastReport
    <3> QED BY <3>5, <3>6 DEF Follows
  <2>4. Read(c)' BY <2>0 DEF Read
  <2> QED BY <1>4, <2>1, <2>2, <2>3, <2>4, NoClaim DEF OthersRest, Becomes
<1> QED BY <1>3, <1>4, RetentionDoneEffect DEF Within, DailyInv

-----------------------------------------------------------------------------
(* The catch-up cursor *)

\* The latest date that succeeded is one, or zero.
LEMMA LatestFacts ==
    ASSUME NEW k, NEW last \in Nat
    PROVE  LET r == LatestSucceeded(k, last) IN
           /\ r \in 0..last
           /\ r # 0 => job[k][r].st = "succeeded"
           /\ \A d \in 1..last : job[k][d].st = "succeeded" => d <= r
<1> DEFINE S == {d \in 1..last : job[k][d].st = "succeeded"} \cup {0}
<1>1. S \subseteq 0..last /\ S # {} OBVIOUS
<1>2. \A d \in S : d # 0 => job[k][d].st = "succeeded" OBVIOUS
<1>3. \A d \in 1..last : job[k][d].st = "succeeded" => d \in S OBVIOUS
<1>4. LatestSucceeded(k, last) = Max(S) BY DEF LatestSucceeded
<1> HIDE DEF S
<1>5. Max(S) \in S /\ \A y \in S : y <= Max(S) BY <1>1, MaxFacts
<1> QED BY <1>1, <1>2, <1>3, <1>4, <1>5

\* The cursor of a walk is a date that fits.
LEMMA NextFits ==
    ASSUME DailyInv, NEW k \in Kinds, NEW last \in Dates, last = latest \/ last = latest - 1
    PROVE  LET n == NextDate(LatestSucceeded(k, last), last) IN
           n \in 1..last /\ Fits(job, k, last, n)
<1> DEFINE r == LatestSucceeded(k, last)
           n == NextDate(r, last)
<1>0. /\ Numbers /\ DoneByNow /\ last \in Nat /\ last >= 1 /\ LastDate \in Nat
      /\ \A d \in Nat : d \in Dates <=> 1 <= d /\ d <= LastDate
  BY NumberFacts, DomainFacts DEF DailyInv, JobsInv, Dates
<1>1. /\ r \in 0..last /\ (r # 0 => job[k][r].st = "succeeded")
      /\ \A d \in 1..last : job[k][d].st = "succeeded" => d <= r
  BY <1>0, LatestFacts
<1>2. last <= LastDate /\ latest \in Nat BY <1>0 DEF Numbers
<1> SUFFICES n \in 1..last /\ Fits(job, k, last, n) OBVIOUS
<1> HIDE DEF r
<1>3. CASE r = 0
  <2>1. n = last BY <1>3 DEF NextDate
  <2>2. \A e \in Dates : Done(job, k, e) => e = last + 1
    <3> SUFFICES ASSUME NEW e \in Dates, Done(job, k, e) PROVE e = last + 1 OBVIOUS
    <3>1. e \in Nat /\ e >= 1 /\ e <= latest BY <1>0 DEF DoneByNow, Dates
    <3>2. ~(e \in 1..last) BY <1>1, <1>3, <3>1 DEF Done
    <3> QED BY <1>0, <1>2, <3>1, <3>2
  <2>3. Fits(job, k, last, last) BY <2>2 DEF Fits
  <2> HIDE DEF n
  <2> QED BY <1>0, <2>1, <2>3
<1>4. CASE r # 0 /\ r = last
  <2>1. \E m \in {r + 1, last} : \A y \in {r + 1, last} : m <= y BY <1>0, <1>4
  <2>2. Min({r + 1, last}) \in {r + 1, last} /\ \A y \in {r + 1, last} : Min({r + 1, last}) <= y
    BY <2>1 DEF Min
  <2>3. n = last BY <1>0, <1>4, <2>2 DEF NextDate
  <2>4. Done(job, k, last) BY <1>1, <1>4 DEF Done
  <2>5. Fits(job, k, last, last) BY <2>4 DEF Fits
  <2> HIDE DEF n
  <2> QED BY <1>0, <2>3, <2>5
<1>5. CASE r # 0 /\ r # last
  <2>0. r \in Nat /\ r + 1 <= last /\ r \in Dates BY <1>0, <1>1, <1>2, <1>5
  <2>1. \E m \in {r + 1, last} : \A y \in {r + 1, last} : m <= y BY <1>0, <2>0
  <2>2. Min({r + 1, last}) \in {r + 1, last} /\ \A y \in {r + 1, last} : Min({r + 1, last}) <= y
    BY <2>1 DEF Min
  <2>3. n = r + 1 BY <1>0, <1>5, <2>0, <2>2 DEF NextDate
  <2>4. Done(job, k, r) BY <1>1, <1>5, <2>0 DEF Done
  <2>5. (r + 1) - 1 = r BY <2>0
  <2>6. Fits(job, k, last, r + 1) BY <2>4, <2>5 DEF Fits
  <2> HIDE DEF n
  <2>7. r + 1 \in 1..last BY <2>0, <1>0
  <2> QED BY <2>3, <2>6, <2>7
<1> QED BY <1>3, <1>4, <1>5

-----------------------------------------------------------------------------
(* Rows that a claim or a finish rewrites *)

\* A stretch of numbers with a neighbour of it is a stretch.
LEMMA StretchGrows ==
    ASSUME NEW S \in SUBSET Int, NEW n \in Int,
           \A a, b \in S, y \in Int : a <= y /\ y <= b => y \in S,
           n - 1 \in S \/ n \in S \/ n + 1 \in S \/ S = {}
    PROVE  \A a, b \in S \cup {n}, y \in Int : a <= y /\ y <= b => y \in S \cup {n}
<1> SUFFICES ASSUME NEW a \in S \cup {n}, NEW b \in S \cup {n}, NEW y \in Int,
                    a <= y, y <= b, y # n
             PROVE  y \in S
  OBVIOUS
<1>1. CASE a \in S /\ b \in S BY <1>1
<1>2. CASE a = n /\ b \in S /\ a \notin S
  <2>1. b \in Int /\ n + 1 <= y BY <1>2
  <2>2. n - 1 \in S \/ n + 1 \in S BY <1>2
  <2> QED BY <1>2, <2>1, <2>2
<1>3. CASE b = n /\ a \in S /\ b \notin S
  <2>1. a \in Int /\ y <= n - 1 BY <1>3
  <2>2. n - 1 \in S \/ n + 1 \in S BY <1>3
  <2> QED BY <1>3, <2>1, <2>2
<1>4. CASE a = n /\ b = n BY <1>4
<1> QED BY <1>1, <1>2, <1>3, <1>4

Rewrites(k, d, j) == job' = [job EXCEPT ![k][d] = j]

\* A job row changes: it succeeds only where its date fits and is reported.
LEMMA JobRewritten ==
    ASSUME DailyInv, NEW K \in Kinds, NEW D \in Dates, NEW j \in Job,
           Rewrites(K, D, j), UNCHANGED <<latest, trigger, inputs, history>>,
           j.attempt >= job[K][D].attempt,
           job[K][D].st # "queued" => j.st # "queued",
           job[K][D].st = "succeeded" => j.st = "succeeded",
           NEW last \in Dates, last = latest \/ last = latest - 1,
           j.st = "succeeded" => D <= last /\ Fits(job, K, last, D),
           j.st = "succeeded" /\ K = "report" => history[D] # <<>>
    PROVE  /\ job' \in [Kinds -> [Dates -> Job]] /\ job'[K][D] = j
           /\ Grows /\ JobsInv' /\ HistoryInv'
<1>1. Numbers /\ JobsInv /\ HistoryInv /\ job \in [Kinds -> [Dates -> Job]]
  BY NumberFacts DEF DailyInv, Columns
<1>2. /\ job' \in [Kinds -> [Dates -> Job]] /\ job'[K][D] = j
      /\ \A k \in Kinds, d \in Dates : (k # K \/ d # D) => job'[k][d] = job[k][d]
  BY <1>1 DEF Rewrites
<1>3. LastDate \in Nat /\ latest \in Nat /\ latest <= LastDate /\ last \in Nat /\ last <= latest
      /\ \A d \in Nat : d \in Dates <=> 1 <= d /\ d <= LastDate
  BY <1>1, DomainFacts DEF Numbers, Dates
<1>4. /\ \A k \in Kinds, d \in Int : Done(job, k, d) => Done(job', k, d)
      /\ \A k \in Kinds, d \in Int :
            Done(job', k, d) => Done(job, k, d) \/ (k = K /\ d = D /\ j.st = "succeeded")
  BY <1>2 DEF Done
<1>b. \A d \in Dates : d \in Int /\ d \in Nat BY <1>3 DEF Dates
<1>5. JobsGrow
  <2> SUFFICES ASSUME NEW k \in Kinds, NEW d \in Dates
               PROVE  /\ job'[k][d].attempt >= job[k][d].attempt
                      /\ job[k][d].st # "queued" => job'[k][d].st # "queued"
                      /\ job[k][d].st = "succeeded" => job'[k][d].st = "succeeded"
    BY DEF JobsGrow
  <2>1. CASE k = K /\ d = D BY <1>2, <2>1
  <2>2. CASE ~(k = K /\ d = D)
    <3>1. job'[k][d] = job[k][d] /\ job[k][d].attempt \in Nat BY <1>1, <1>2, <2>2 DEF Numbers
    <3> QED BY <3>1
  <2> QED BY <2>1, <2>2
<1>6. TriggersGrow /\ HistoriesGrow /\ InputsGrow
  BY <1>1 DEF Numbers, TriggersGrow, HistoriesGrow, InputsGrow
<1>7. FitsKept
  <2> SUFFICES ASSUME NEW k \in Kinds, NEW l \in Dates, NEW d \in Nat,
                      l = latest \/ l = latest - 1, Fits(job, k, l, d)
               PROVE  Fits(job', k, l, d)
    BY DEF FitsKept
  <2>0. d - 1 \in Int /\ d + 1 \in Int /\ d \in Int OBVIOUS
  <2>1. CASE Done(job, k, d - 1) \/ Done(job, k, d) BY <1>4, <2>0, <2>1 DEF Fits
  <2>2. CASE d = l /\ Done(job, k, d + 1) BY <1>4, <2>0, <2>2 DEF Fits
  <2>3. CASE d = l /\ \A e \in Dates : ~Done(job, k, e)
    <3>1. CASE \A e \in Dates : ~Done(job', k, e) BY <2>3, <3>1 DEF Fits
    <3>2. CASE \E e \in Dates : Done(job', k, e)
      <4>1. PICK e \in Dates : Done(job', k, e) BY <3>2
      <4>2. k = K /\ e = D /\ j.st = "succeeded" BY <1>b, <1>4, <2>3, <4>1
      <4>3. Fits(job, k, last, D) BY <4>2
      <4>4. \A x \in Int : ~Done(job, k, x) BY <2>3 DEF Done
      <4>5. D = last BY <4>3, <4>4 DEF Fits, Dates
      <4>6. Done(job', k, D) BY <4>1, <4>2
      <4>7. D \in Nat /\ (D = d \/ D = d - 1 \/ D = d + 1) BY <1>3, <2>3, <4>5
      <4>8. CASE D = d BY <4>6, <4>8 DEF Fits
      <4>9. CASE D = d - 1 BY <4>6, <4>9 DEF Fits
      <4>10. CASE D = d + 1 BY <2>3, <4>6, <4>10 DEF Fits
      <4> QED BY <4>7, <4>8, <4>9, <4>10
    <3> QED BY <3>1, <3>2
  <2> QED BY <2>1, <2>2, <2>3 DEF Fits
<1>8. DoneByNow' 
  <2> SUFFICES ASSUME NEW k \in Kinds, NEW d \in Dates, Done(job', k, d) PROVE d <= latest
    BY DEF DoneByNow
  <2>1. CASE Done(job, k, d) BY <1>1, <2>1 DEF JobsInv, DoneByNow
  <2>2. CASE d = D /\ j.st = "succeeded" BY <1>3, <2>2 DEF Dates
  <2> QED BY <1>b, <1>4, <2>1, <2>2
<1>9. NoGap'
  <2> SUFFICES ASSUME NEW k \in Kinds, NEW d \in Dates, NEW e \in Dates,
                      job'[k][d].st = "succeeded", job'[k][e].st = "succeeded",
                      NEW x \in d..e
               PROVE  job'[k][x].st = "succeeded"
    BY DEF NoGap
  <2> DEFINE S == {y \in Dates : job[k][y].st = "succeeded"}
  <2>0. d \in Int /\ e \in Int /\ x \in Int /\ D \in Int /\ x \in Dates /\ d <= x /\ x <= e
    BY <1>b, <1>3
  <2>1. S \in SUBSET Int BY <1>b
  <2>2. \A a, b \in S, y \in Int : a <= y /\ y <= b => y \in S
    <3> SUFFICES ASSUME NEW a \in S, NEW b \in S, NEW y \in Int, a <= y, y <= b
                 PROVE  y \in S
      OBVIOUS
    <3>1. a \in Dates /\ b \in Dates /\ y \in a..b /\ y \in Dates BY <1>b, <1>3
    <3>2. job[k][y].st = "succeeded" BY <1>1, <3>1 DEF JobsInv, NoGap
    <3> QED BY <3>1, <3>2
  <2>3. CASE k = K /\ j.st = "succeeded"
    <3>1. \A y \in Int : Done(job, k, y) <=> y \in S BY DEF Done
    <3>2. Fits(job, k, last, D) BY <2>3
    <3>3. D - 1 \in S \/ D \in S \/ D + 1 \in S \/ S = {}
      <4>1. D - 1 \in Int /\ D + 1 \in Int BY <2>0
      <4>2. (\A y \in Dates : ~Done(job, k, y)) => S = {} BY DEF Done
      <4> QED BY <2>0, <3>1, <3>2, <4>1, <4>2 DEF Fits
    <3>4. \A y \in Dates : job'[k][y].st = "succeeded" <=> y \in S \cup {D}
      BY <1>2, <2>3
    <3>5. d \in S \cup {D} /\ e \in S \cup {D} BY <3>4
    <3> HIDE DEF S
    <3>6. x \in S \cup {D} BY <2>0, <2>1, <2>2, <3>3, <3>5, StretchGrows
    <3> QED BY <2>0, <3>4, <3>6
  <2>4. CASE ~(k = K /\ j.st = "succeeded")
    <3>1. \A y \in Dates : job'[k][y].st = "succeeded" <=> y \in S BY <1>2, <2>4
    <3>2. d \in S /\ e \in S BY <3>1
    <3> HIDE DEF S
    <3> QED BY <2>0, <2>2, <3>1, <3>2
  <2> QED BY <2>3, <2>4
<1>10. SucceededIsReported'
  BY <1>1, <1>2 DEF JobsInv, SucceededIsReported, Kinds
<1>11. HistoryInv' BY <1>1 DEF HistoryInv, Projected, RevisionsAdvance
<1> QED BY <1>2, <1>5, <1>6, <1>7, <1>8, <1>9, <1>10, <1>11 DEF Grows, JobsInv

\* A trigger row changes.
LEMMA TriggerRewritten ==
    ASSUME DailyInv, NEW t \in 1..Len(trigger), NEW j \in Job,
           trigger' = [trigger EXCEPT ![t] = j], UNCHANGED <<latest, job, inputs, history>>,
           j.attempt >= trigger[t].attempt,
           trigger[t].st # "queued" => j.st # "queued"
    PROVE  /\ trigger' \in Seq(Job) /\ trigger'[t] = j /\ Len(trigger') = Len(trigger)
           /\ Grows /\ JobsInv' /\ HistoryInv'
<1>1. Numbers /\ JobsInv /\ HistoryInv /\ trigger \in Seq(Job)
  BY NumberFacts DEF DailyInv, Columns
<1>2. /\ trigger' \in Seq(Job) /\ Len(trigger') = Len(trigger)
      /\ \A x \in 1..Len(trigger) : trigger'[x] = IF x = t THEN j ELSE trigger[x]
  BY <1>1, ExceptSeq
<1>3. TriggersGrow BY <1>1, <1>2 DEF TriggersGrow, Numbers
<1>4. JobsGrow /\ HistoriesGrow /\ InputsGrow
  BY <1>1 DEF Numbers, JobsGrow, HistoriesGrow, InputsGrow
<1>5. FitsKept BY DEF FitsKept
<1>6. JobsInv' BY <1>1 DEF JobsInv, DoneByNow, Done, NoGap, SucceededIsReported
<1>7. HistoryInv' BY <1>1 DEF HistoryInv, Projected, RevisionsAdvance
<1> QED BY <1>2, <1>3, <1>4, <1>5, <1>6, <1>7 DEF Grows

-----------------------------------------------------------------------------
(* The steps that leave the rows and the histories alone *)

\* A step that leaves all tables alone stays within them.
LEMMA QuietWithin ==
    ASSUME DailyInv, UNCHANGED <<latest, job, trigger, inputs, history>>,
           faults' \in 0..MaxFaults, cron' \in [Crons -> Invocation]
    PROVE  Within
<1>1. Columns' BY DEF DailyInv, Columns
<1> QED BY <1>1, QuietGrows DEF Within

\* What the tables and the invocations need is the invariant.
LEMMA Concluded ==
    ASSUME Within, CronsInv'
    PROVE  DailyInv'
  BY DEF Within, DailyInv

\* Reading the cursors keeps the invariant.
LEMMA CursorsKeeps ==
    ASSUME DailyInv, NEW c \in Crons, Cursors(c)
    PROVE  DailyInv'
<1> DEFINE w == cron[c]
           last == w.last
           reports == LatestSucceeded("report", last)
           rn == NextDate(reports, last)
           tn == NextDate(LatestSucceeded("retention", last), last)
           trailing == IF reports = last THEN {Max({1, last - CatchUp + 1})} ELSE {}
           T == {rn, tn} \cup trailing
           first == Min(T)
           end == WalkEnd(first, last)
<1>1. Numbers /\ Placed(c) /\ latest' = latest /\ job' = job
  BY NumberFacts DEF DailyInv, CronsInv, RowsInv, Cursors
<1>2. /\ last \in Dates /\ (last = latest \/ last = latest - 1) /\ last \in Nat /\ last >= 1
      /\ w.pc = "cursors" /\ w.held = 0 /\ w.trigger = 0
  BY <1>1, DomainFacts DEF Placed, Numbers, Cursors, Dates
<1>3. "report" \in Kinds /\ "retention" \in Kinds BY DEF Kinds
<1>4. /\ rn \in 1..last /\ Fits(job, "report", last, rn)
      /\ tn \in 1..last /\ Fits(job, "retention", last, tn)
  BY <1>2, <1>3, NextFits
<1>5. trailing \subseteq 1..last
  BY <1>2, FirstOrLater, DailyAssumption
<1>6. cron' = [cron EXCEPT ![c].pc = "report", ![c].date = first, ![c].end = end,
                           ![c].reportNext = rn, ![c].retentionNext = tn]
  BY DEF Cursors
<1> HIDE DEF rn, tn, trailing
<1>7. T \subseteq Nat /\ T # {} /\ T \subseteq 1..last /\ rn \in T /\ tn \in T BY <1>4, <1>5
<1> HIDE DEF T
<1>8. first \in 1..last /\ first <= rn /\ first <= tn BY <1>7, MinFacts
<1> HIDE DEF first
<1>9. end \in Nat /\ end <= last
  <2>1. first + CatchUp - 1 \in Nat BY <1>8, DailyAssumption
  <2>2. \E m \in {first + CatchUp - 1, last} : \A y \in {first + CatchUp - 1, last} : m <= y
    BY <1>2, <2>1
  <2>3. /\ end \in {first + CatchUp - 1, last}
        /\ \A y \in {first + CatchUp - 1, last} : end <= y
    BY <2>2 DEF Min, WalkEnd
  <2> QED BY <1>2, <2>1, <2>3
<1> HIDE DEF end
<1>10. Becomes(c, "report", last, rn, tn, first, end, w.reportOk, w.retentionOk, w.held, w.snap,
               w.ok, w.trigger)
  <2>1. first \in Nat /\ rn \in Nat /\ tn \in Nat BY <1>4, <1>8
  <2> QED BY <1>6, <1>9, <2>1, CursorsRow DEF DailyInv
<1>a. Within BY <1>10, QuietWithin DEF Cursors, DailyInv, Columns, Becomes
<1>11. KeepsLease(c) BY <1>2, <1>10 DEF KeepsLease, HoldsJob, Becomes
<1>12. Placed(c)' BY <1>1, <1>2, <1>8, <1>9, <1>10, DailyAssumption DEF Placed, Becomes
<1>13. Follows(c)'
  <2>1. /\ cron'[c].pc = "report" /\ cron'[c].last = last /\ cron'[c].date = first
        /\ cron'[c].reportNext = rn /\ cron'[c].retentionNext = tn /\ cron'[c].held = 0
    BY <1>2, <1>10 DEF Becomes
  <2>2. ASSUME NEW k \in Kinds
        PROVE  /\ Fits(job', k, cron'[c].last, NextOf(c, k)')
               /\ cron'[c].date >= NextOf(c, k)' => Fits(job', k, cron'[c].last, cron'[c].date)
               /\ ~HoldsJob(c, k, cron[c].date)'
    <3>1. NextOf(c, k)' \in 1..last /\ Fits(job, k, last, NextOf(c, k)') /\ first <= NextOf(c, k)'
      BY <1>4, <1>8, <2>1 DEF NextOf, Kinds
    <3>2. ~HoldsJob(c, k, cron[c].date)' BY <2>1 DEF HoldsJob
    <3>3. first >= NextOf(c, k)' => first = NextOf(c, k)' BY <1>8, <3>1
    <3> QED BY <1>1, <2>1, <3>1, <3>2, <3>3
  <2>3. ~PastReport(c)' BY <2>1 DEF PastReport
  <2> QED BY <2>2, <2>3 DEF Follows
<1>14. Read(c)' BY <1>10 DEF Read, Becomes
<1>15. OthersRest(c) BY <1>10 DEF OthersRest, Becomes
<1> QED BY <1>a, <1>11, <1>12, <1>13, <1>14, <1>15, NoClaim, Concluded

\* Reading facts and versions keeps the invariant.
LEMMA SnapshotKeeps ==
    ASSUME DailyInv, NEW c \in Crons, Snapshot(c)
    PROVE  DailyInv'
<1> DEFINE d == cron[c].date
           snap == [hash |-> inputs[d].hash, ver |-> inputs[d].ver, seen |-> Len(history[d])]
<1>1. Numbers /\ Placed(c) /\ cron[c].pc = "snapshot"
  BY NumberFacts DEF DailyInv, CronsInv, RowsInv, Snapshot
<1>2. d \in Dates BY <1>1, DomainFacts DEF Placed, Numbers
<1>3. inputs[d].hash \in Hashes /\ inputs[d].ver \in 0..MaxChanges /\ Len(history[d]) \in Nat
  BY <1>1, <1>2 DEF Numbers, Version
<1>4. /\ snap \in Snap /\ snap.hash = inputs[d].hash /\ snap.ver = inputs[d].ver
      /\ snap.seen = Len(history[d])
  BY <1>3 DEF Snap
<1>5. cron' = [cron EXCEPT ![c].pc = "append", ![c].snap = snap] BY DEF Snapshot
<1> HIDE DEF snap
<1>6. cron' \in [Crons -> Invocation] BY <1>4, <1>5, SnapshotRow DEF DailyInv, Becomes
<1>7. Within BY <1>6, QuietWithin DEF Snapshot, DailyInv, Columns
<1>8. UNCHANGED <<history, inputs>> BY DEF Snapshot
<1> QED BY <1>1, <1>3, <1>4, <1>5, <1>7, <1>8, SnapshotMoves, Concluded

\* Work keeps the types of the invocations.
LEMMA WorkedType ==
    ASSUME Columns, NEW c \in Crons, NEW ok \in BOOLEAN, Worked(c, ok)
    PROVE  cron' \in [Crons -> Invocation]
  BY WorkedEffect, ReportDoneEffect DEF Becomes

\* A failing report keeps the invariant.
LEMMA ReportFailsKeeps ==
    ASSUME DailyInv, NEW c \in Crons, ReportFails(c)
    PROVE  DailyInv'
<1>1. Worked(c, FALSE) /\ cron[c].pc \in {"snapshot", "append"} BY DEF ReportFails
<1>2. cron' \in [Crons -> Invocation] BY <1>1, WorkedType DEF DailyInv
<1>3. faults' \in 0..MaxFaults BY DailyAssumption DEF ReportFails, DailyInv, Columns
<1>4. Within BY <1>2, <1>3, QuietWithin DEF ReportFails
<1> QED BY <1>1, <1>4, WorkedMoves, Concluded

\* A retention pass keeps the invariant.
LEMMA RetainKeeps ==
    ASSUME DailyInv, NEW c \in Crons, Retain(c)
    PROVE  DailyInv'
<1>1. cron' \in [Crons -> Invocation] BY RetainEffect DEF DailyInv, Becomes
<1>2. faults' \in 0..MaxFaults BY DailyAssumption DEF Retain, DailyInv, Columns
<1>3. Within BY <1>1, <1>2, QuietWithin DEF Retain
<1> QED BY <1>3, RetainMoves, Concluded

\* A crash keeps the invariant.
LEMMA CrashKeeps ==
    ASSUME DailyInv, NEW c \in Crons, Crash(c)
    PROVE  DailyInv'
<1>1. Die(c) BY DEF Crash
<1>2. cron' \in [Crons -> Invocation] BY <1>1, DieEffect DEF DailyInv, Becomes
<1>3. faults' \in 0..MaxFaults BY DailyAssumption DEF Crash, DailyInv, Columns
<1>4. Within BY <1>2, <1>3, QuietWithin DEF Crash
<1> QED BY <1>1, <1>4, DieMoves, Concluded

-----------------------------------------------------------------------------
(* The steps that claim *)

\* A start keeps the invariant.
LEMMA StartKeeps ==
    ASSUME DailyInv, NEW c \in Crons, Start(c)
    PROVE  DailyInv'
<1> DEFINE t == Oldest
           claim == ClaimLocked(trigger[t])
           started == [Off EXCEPT !.last = latest, !.pc = "cursors"]
           d == Max({1, latest - CatchUp + 1})
<1>1. Numbers /\ latest \in Dates /\ LastDate \in Nat /\ MaxAttempts \in Nat
  BY NumberFacts, DailyAssumption DEF DailyInv, Columns
<1>2. UNCHANGED <<latest, job, inputs, history, faults>> /\ cron[c].pc = "off" BY DEF Start
<1>3. ASSUME Within, cron' = [cron EXCEPT ![c] = started] PROVE DailyInv'
  <2>1. Becomes(c, "cursors", latest, 0, 0, 0, 0, TRUE, TRUE, 0, NoSnap, TRUE, 0)
    BY <1>3, StartedRow DEF DailyInv
  <2>2. KeepsLease(c) BY <2>1 DEF KeepsLease, HoldsJob, Becomes
  <2>3. Placed(c)' BY <1>1, <1>2, <2>1 DEF Placed, Becomes
  <2>4. Follows(c)' BY <2>1 DEF Follows, Becomes
  <2>5. Read(c)' BY <2>1 DEF Read, Becomes
  <2> QED BY <1>3, <2>1, <2>2, <2>3, <2>4, <2>5, NoClaim, Concluded DEF OthersRest, Becomes
<1>4. cron' = [cron EXCEPT ![c] = started] => cron' \in [Crons -> Invocation]
  BY StartedRow DEF DailyInv, Becomes
<1>5. CASE t = 0
  <2>1. trigger' = trigger /\ cron' = [cron EXCEPT ![c] = started] BY <1>5 DEF Start
  <2>2. Within BY <1>2, <1>4, <2>1, QuietWithin DEF DailyInv, Columns
  <2> QED BY <1>3, <2>1, <2>2
<1>6. CASE t # 0
  <2>0. t \in 1..Len(trigger) /\ t \in Nat
    <3>1. Due # {} /\ t = Min(Due) BY <1>6 DEF Oldest
    <3>2. Due \subseteq Nat /\ Due \subseteq 1..Len(trigger) BY <1>1 DEF Due, Numbers
    <3>3. Min(Due) \in Due BY <3>1, <3>2, MinFacts
    <3> QED BY <3>1, <3>2, <3>3
  <2>1. trigger' = [trigger EXCEPT ![t] = claim.job] BY <1>6 DEF Start
  <2>2. \/ cron' = [cron EXCEPT ![c] = started]
        \/ /\ claim.disposition = "run"
           /\ cron' = [cron EXCEPT ![c] = [started EXCEPT !.pc = "snapshot", !.trigger = t,
                                               !.held = claim.job.attempt, !.date = d]]
    BY <1>6 DEF Start
  <2> HIDE DEF t
  <2>3. trigger[t] \in Job BY <1>1, <2>0 DEF Numbers
  <2>4. /\ claim.job \in Job /\ claim.job.attempt \in Nat
        /\ claim.job.attempt >= trigger[t].attempt
        /\ trigger[t].attempt \in Nat /\ trigger[t].attempt >= 1
        /\ claim.job.st # "queued"
        /\ claim.disposition = "run" /\ trigger[t].st # "queued" =>
              claim.job.attempt = trigger[t].attempt + 1
    BY <2>3, ClaimFacts
  <2> HIDE DEF claim, started
  <2>5. /\ trigger' \in Seq(Job) /\ trigger'[t] = claim.job /\ Len(trigger') = Len(trigger)
        /\ Grows /\ JobsInv' /\ HistoryInv'
    BY <1>2, <2>0, <2>1, <2>4, TriggerRewritten
  <2>6. cron' \in [Crons -> Invocation] => Within
    <3>1. cron' \in [Crons -> Invocation] => Columns' BY <1>2, <2>5 DEF DailyInv, Columns
    <3> QED BY <1>2, <2>5, <3>1 DEF Within
  <2>7. CASE cron' = [cron EXCEPT ![c] = started] BY <1>3, <1>4, <2>6, <2>7
  <2>8. CASE /\ claim.disposition = "run"
             /\ cron' = [cron EXCEPT ![c] = [started EXCEPT !.pc = "snapshot", !.trigger = t,
                                                 !.held = claim.job.attempt, !.date = d]]
    <3>1. d \in 1..latest BY <1>1, FirstOrLater, DailyAssumption DEF Numbers
    <3>2. d \in Nat BY <3>1
    <3> HIDE DEF d
    <3>3. Becomes(c, "snapshot", latest, 0, 0, d, 0, TRUE, TRUE, claim.job.attempt, NoSnap, TRUE,
                  t)
      BY <2>0, <2>4, <2>8, <3>2, RequestedRow DEF DailyInv, started
    <3>4. Within BY <2>6, <3>3 DEF Becomes
    <3>5. claim.job.attempt <= MaxAttempts BY <1>1, <2>4 DEF Job
    <3>6. Placed(c)' BY <1>1, <1>2, <2>0, <2>4, <2>5, <3>1, <3>3, <3>5 DEF Placed, Becomes, Numbers
    <3>7. Follows(c)' BY <2>0, <3>3 DEF Follows, Becomes
    <3>8. Read(c)' BY <3>3 DEF Read, Becomes
    <3>9. /\ cron'[c].trigger = t /\ cron'[c].held = trigger'[t].attempt /\ trigger'[t].st # "queued"
          /\ trigger[t].st # "queued" => trigger[t].attempt < trigger'[t].attempt
          /\ OthersRest(c)
      BY <2>4, <2>5, <2>8, <3>3 DEF Becomes, OthersRest
    <3> QED BY <2>0, <3>4, <3>6, <3>7, <3>8, <3>9, RequestClaimed, Concluded
  <2> QED BY <2>2, <2>7, <2>8
<1> QED BY <1>5, <1>6

\* What a claim does to the rows of the jobs.
LEMMA ClaimGrows ==
    ASSUME DailyInv, NEW K \in Kinds, NEW last \in Dates, last = latest \/ last = latest - 1,
           NEW D \in Dates, D <= last, UNCHANGED <<latest, trigger, inputs, history>>,
           NEW claim, claim = ClaimLocked(job[K][D]),
           Rewrites(K, D, claim.job)
    PROVE  /\ job' \in [Kinds -> [Dates -> Job]] /\ Grows /\ JobsInv' /\ HistoryInv'
           /\ claim.job \in Job /\ claim.job.attempt \in Nat /\ claim.job.attempt >= 1
           /\ claim.disposition = "succeeded" => Done(job', K, D)
           /\ claim.disposition = "run" =>
                 /\ claim.job.attempt = job'[K][D].attempt /\ job'[K][D].st # "queued"
                 /\ job[K][D].st # "queued" => job[K][D].attempt < job'[K][D].attempt
<1>1. Numbers /\ JobsInv BY NumberFacts DEF DailyInv
<1>2. job[K][D] \in Job BY <1>1 DEF Numbers
<1>3. /\ claim.job \in Job /\ claim.job.attempt \in Nat
      /\ claim.job.attempt >= job[K][D].attempt
      /\ job[K][D].attempt \in Nat /\ job[K][D].attempt >= 1
      /\ claim.job.st = "succeeded" <=> job[K][D].st = "succeeded"
      /\ claim.job.st # "queued"
      /\ claim.disposition = "succeeded" => job[K][D].st = "succeeded"
      /\ claim.disposition = "run" /\ job[K][D].st # "queued" =>
            claim.job.attempt = job[K][D].attempt + 1
  BY <1>2, ClaimFacts
<1>4. /\ claim.job.st = "succeeded" => D <= last /\ Fits(job, K, last, D)
      /\ claim.job.st = "succeeded" /\ K = "report" => history[D] # <<>>
  BY <1>1, <1>3 DEF Fits, Done, JobsInv, SucceededIsReported
<1>5. PICK j \in Job : j = claim.job BY <1>3
<1>6. /\ job' \in [Kinds -> [Dates -> Job]] /\ job'[K][D] = j
      /\ Grows /\ JobsInv' /\ HistoryInv'
  <2>1. Rewrites(K, D, j) BY <1>5 DEF Rewrites
  <2>2. /\ j.attempt >= job[K][D].attempt
        /\ job[K][D].st # "queued" => j.st # "queued"
        /\ job[K][D].st = "succeeded" => j.st = "succeeded"
        /\ j.st = "succeeded" => D <= last /\ Fits(job, K, last, D)
        /\ j.st = "succeeded" /\ K = "report" => history[D] # <<>>
    BY <1>3, <1>4, <1>5
  <2> QED BY <2>1, <2>2, JobRewritten
<1> QED BY <1>3, <1>5, <1>6 DEF Done

\* The claim of a report job keeps the invariant.
LEMMA ReportKeeps ==
    ASSUME DailyInv, NEW c \in Crons, Report(c)
    PROVE  DailyInv'
<1> DEFINE w == cron[c]
           D == w.date
           claim == ClaimLocked(job["report"][D])
           claims == D >= w.reportNext /\ w.reportOk
<1>1. /\ Numbers /\ Placed(c) /\ Follows(c) /\ JobsInv /\ w.pc = "report" /\ faults \in 0..MaxFaults
      /\ UNCHANGED <<latest, trigger, inputs, history, faults>>
  BY NumberFacts DEF DailyInv, CronsInv, RowsInv, Report, Columns
<1>2. /\ w.last \in Dates /\ (w.last = latest \/ w.last = latest - 1)
      /\ D \in Dates /\ D \in Nat /\ D <= w.last /\ w.trigger = 0 /\ w.held = 0
      /\ w.reportNext \in Nat /\ w.retentionNext \in Nat
  BY <1>1, DomainFacts DEF Placed, Numbers
<1>3. "report" \in Kinds BY DEF Kinds
<1>4. /\ job' \in [Kinds -> [Dates -> Job]] /\ Grows /\ JobsInv' /\ HistoryInv'
      /\ claims /\ claim.disposition = "succeeded" => Done(job', "report", D)
      /\ claims /\ claim.disposition = "run" =>
            /\ claim.job.attempt \in Nat /\ claim.job.attempt >= 1
            /\ claim.job.attempt <= MaxAttempts
            /\ claim.job.attempt = job'["report"][D].attempt /\ job'["report"][D].st # "queued"
            /\ job["report"][D].st # "queued" =>
                  job["report"][D].attempt < job'["report"][D].attempt
  <2>1. CASE claims
    <3>1. Rewrites("report", D, claim.job) BY <2>1 DEF Rewrites, Report
    <3>2. claim.job \in Job => claim.job.attempt <= MaxAttempts BY DailyAssumption DEF Job
    <3>3. claim = ClaimLocked(job["report"][D]) OBVIOUS
    <3> HIDE DEF claim
    <3>4. /\ job' \in [Kinds -> [Dates -> Job]] /\ Grows /\ JobsInv' /\ HistoryInv'
          /\ claim.job \in Job /\ claim.job.attempt \in Nat /\ claim.job.attempt >= 1
          /\ claim.disposition = "succeeded" => Done(job', "report", D)
          /\ claim.disposition = "run" =>
                /\ claim.job.attempt = job'["report"][D].attempt /\ job'["report"][D].st # "queued"
                /\ job["report"][D].st # "queued" =>
                      job["report"][D].attempt < job'["report"][D].attempt
      BY <1>1, <1>2, <1>3, <3>1, <3>3, ClaimGrows
    <3> QED BY <3>2, <3>4
  <2>2. CASE ~claims
    <3>1. job' = job BY <2>2 DEF Report
    <3> QED BY <1>1, <2>2, <3>1, QuietGrows DEF DailyInv, Columns
  <2> QED BY <2>1, <2>2
<1>5. \/ (D < w.reportNext \/ (claims /\ claim.disposition = "succeeded")) /\ Goto(c, "snapshot")
      \/ /\ claims /\ claim.disposition = "run"
         /\ cron' = [cron EXCEPT ![c].pc = "snapshot", ![c].held = claim.job.attempt]
      \/ ReportDone(c, FALSE)
  BY DEF Report
<1>6. cron' \in [Crons -> Invocation] => Within
  BY <1>1, <1>4 DEF DailyInv, Columns, Within
<1> HIDE DEF claim
<1>s. "snapshot" \in Stage BY DEF Stage
<1>7. CASE (D < w.reportNext \/ (claims /\ claim.disposition = "succeeded")) /\ Goto(c, "snapshot")
  <2>1. Becomes(c, "snapshot", w.last, w.reportNext, w.retentionNext, w.date, w.end, w.reportOk,
                w.retentionOk, w.held, w.snap, w.ok, w.trigger)
    BY <1>1, <1>7, <1>s, HeldEffect DEF DailyInv, Numbers
  <2>2. Within BY <1>6, <2>1 DEF Becomes
  <2>3. SameWalk(c) BY <2>1 DEF SameWalk, Becomes
  <2>4. Placed(c)' BY <1>1, <1>2, <2>1, <2>2, <2>3, SamePlace DEF Becomes, Placed
  <2>5. \A k \in Kinds, x \in Dates : ~HoldsJob(c, k, x)' BY <1>2, <2>1 DEF HoldsJob, Becomes
  <2>6. KeepsLease(c) BY <1>2, <2>1, <2>5 DEF KeepsLease, Becomes
  <2>7. w.reportOk /\ D >= w.reportNext => Done(job', "report", D) BY <1>2, <1>4, <1>7
  <2>8. (cron'[c].reportOk <=> w.reportOk) BY <2>1 DEF Becomes
  <2>9. \A k \in Kinds : ~HoldsJob(c, k, cron[c].date)' BY <1>2, <2>1 DEF HoldsJob, Becomes
  <2>10. Follows(c)' BY <1>1, <2>2, <2>3, <2>7, <2>8, <2>9, SameDate
  <2>11. Read(c)' BY <2>1 DEF Read, Becomes
  <2>12. OthersRest(c) BY <2>1 DEF OthersRest, Becomes
  <2> QED BY <2>2, <2>4, <2>6, <2>10, <2>11, <2>12, NoClaim, Concluded
<1>8. CASE /\ claims /\ claim.disposition = "run"
           /\ cron' = [cron EXCEPT ![c].pc = "snapshot", ![c].held = claim.job.attempt]
  <2> DEFINE held == claim.job.attempt
  <2>0. held \in Nat /\ held >= 1 /\ held <= MaxAttempts BY <1>4, <1>8
  <2>1. Becomes(c, "snapshot", w.last, w.reportNext, w.retentionNext, w.date, w.end, w.reportOk,
                w.retentionOk, held, w.snap, w.ok, w.trigger)
    BY <1>8, <1>s, <2>0, HeldEffect DEF DailyInv
  <2>2. Within BY <1>6, <2>1 DEF Becomes
  <2>3. SameWalk(c) BY <2>1 DEF SameWalk, Becomes
  <2>4. Placed(c)' BY <1>1, <1>2, <2>0, <2>1, <2>2, <2>3, SamePlace DEF Becomes
  <2>5. \A k \in Kinds, x \in Dates : HoldsJob(c, k, x)' => k = "report" /\ x = D
    BY <2>1 DEF HoldsJob, Becomes, Working, Kinds
  <2>6. \A k \in Kinds : HoldsJob(c, k, cron[c].date)' => k = "report"
    BY <2>1 DEF HoldsJob, Becomes, Working, Kinds
  <2>7. OkOf(c, "report")' /\ D >= NextOf(c, "report") BY <1>8, <2>1 DEF OkOf, NextOf, Becomes
  <2>8. ~PastReport(c)' BY <2>0, <2>1 DEF PastReport, Becomes
  <2>9. Follows(c)' BY <1>1, <2>2, <2>3, <2>6, <2>7, <2>8, SameDate
  <2>10. Read(c)' BY <2>1 DEF Read, Becomes
  <2>11. OthersRest(c) /\ cron'[c].trigger = 0 /\ cron'[c].held = job'["report"][D].attempt
    BY <1>2, <1>4, <1>8, <2>1 DEF OthersRest, Becomes
  <2> QED BY <1>2, <1>3, <1>4, <1>8, <2>2, <2>4, <2>5, <2>9, <2>10, <2>11, Claimed, Concluded
<1>9. CASE ReportDone(c, FALSE)
  <2>1. cron' \in [Crons -> Invocation] BY <1>9, ReportDoneEffect DEF DailyInv, Becomes
  <2> QED BY <1>1, <1>6, <1>9, <2>1, ReportDoneMoves, Concluded
<1> QED BY <1>5, <1>7, <1>8, <1>9

\* The claim of a retention job keeps the invariant.
LEMMA RetentionKeeps ==
    ASSUME DailyInv, NEW c \in Crons, Retention(c)
    PROVE  DailyInv'
<1> DEFINE w == cron[c]
           D == w.date
           claim == ClaimLocked(job["retention"][D])
           claims == D >= w.retentionNext /\ w.retentionOk
           ok == D < w.retentionNext \/ (claims /\ claim.disposition = "succeeded")
<1>1. /\ Numbers /\ Placed(c) /\ Follows(c) /\ w.pc = "retention" /\ faults \in 0..MaxFaults
      /\ UNCHANGED <<latest, trigger, inputs, history, faults>>
  BY NumberFacts DEF DailyInv, CronsInv, RowsInv, Retention, Columns
<1>2. /\ w.last \in Dates /\ (w.last = latest \/ w.last = latest - 1)
      /\ D \in Dates /\ D \in Nat /\ D <= w.last /\ w.trigger = 0 /\ w.held = 0
      /\ w.reportNext \in Nat /\ w.retentionNext \in Nat
  BY <1>1, DomainFacts DEF Placed, Numbers
<1>3. "retention" \in Kinds BY DEF Kinds
<1>4. /\ job' \in [Kinds -> [Dates -> Job]] /\ Grows /\ JobsInv' /\ HistoryInv'
      /\ claims /\ claim.disposition = "succeeded" => Done(job', "retention", D)
      /\ claims /\ claim.disposition = "run" =>
            /\ claim.job.attempt \in Nat /\ claim.job.attempt >= 1
            /\ claim.job.attempt <= MaxAttempts
            /\ claim.job.attempt = job'["retention"][D].attempt
            /\ job'["retention"][D].st # "queued"
            /\ job["retention"][D].st # "queued" =>
                  job["retention"][D].attempt < job'["retention"][D].attempt
  <2>1. CASE claims
    <3>1. Rewrites("retention", D, claim.job) BY <2>1 DEF Rewrites, Retention
    <3>2. claim.job \in Job => claim.job.attempt <= MaxAttempts BY DailyAssumption DEF Job
    <3>3. claim = ClaimLocked(job["retention"][D]) OBVIOUS
    <3> HIDE DEF claim
    <3>4. /\ job' \in [Kinds -> [Dates -> Job]] /\ Grows /\ JobsInv' /\ HistoryInv'
          /\ claim.job \in Job /\ claim.job.attempt \in Nat /\ claim.job.attempt >= 1
          /\ claim.disposition = "succeeded" => Done(job', "retention", D)
          /\ claim.disposition = "run" =>
                /\ claim.job.attempt = job'["retention"][D].attempt /\ job'["retention"][D].st # "queued"
                /\ job["retention"][D].st # "queued" =>
                      job["retention"][D].attempt < job'["retention"][D].attempt
      BY <1>1, <1>2, <1>3, <3>1, <3>3, ClaimGrows
    <3> QED BY <3>2, <3>4
  <2>2. CASE ~claims
    <3>1. job' = job BY <2>2 DEF Retention
    <3> QED BY <1>1, <2>2, <3>1, QuietGrows DEF DailyInv, Columns
  <2> QED BY <2>1, <2>2
<1>5. \/ /\ claims /\ claim.disposition = "run"
         /\ cron' = [cron EXCEPT ![c].pc = "retain", ![c].held = claim.job.attempt]
      \/ RetentionDone(c, ok)
  BY DEF Retention
<1>6. cron' \in [Crons -> Invocation] => Within
  BY <1>1, <1>4 DEF DailyInv, Columns, Within
<1>o. ok \in BOOLEAN OBVIOUS
<1> HIDE DEF claim
<1>7. CASE /\ claims /\ claim.disposition = "run"
           /\ cron' = [cron EXCEPT ![c].pc = "retain", ![c].held = claim.job.attempt]
  <2> DEFINE held == claim.job.attempt
  <2>0. held \in Nat /\ held >= 1 /\ held <= MaxAttempts /\ "retain" \in Stage
    BY <1>4, <1>7 DEF Stage
  <2>1. Becomes(c, "retain", w.last, w.reportNext, w.retentionNext, w.date, w.end, w.reportOk,
                w.retentionOk, held, w.snap, w.ok, w.trigger)
    BY <1>7, <2>0, HeldEffect DEF DailyInv
  <2>2. Within BY <1>6, <2>1 DEF Becomes
  <2>3. SameWalk(c) BY <2>1 DEF SameWalk, Becomes
  <2>4. Placed(c)' BY <1>1, <1>2, <2>0, <2>1, <2>2, <2>3, SamePlace DEF Becomes
  <2>5. \A k \in Kinds, x \in Dates : HoldsJob(c, k, x)' => k = "retention" /\ x = D
    BY <2>1 DEF HoldsJob, Becomes, Working, Kinds
  <2>6. \A k \in Kinds : HoldsJob(c, k, cron[c].date)' => k = "retention"
    BY <2>1 DEF HoldsJob, Becomes, Working, Kinds
  <2>7. OkOf(c, "retention")' /\ D >= NextOf(c, "retention")
    BY <1>7, <2>1 DEF OkOf, NextOf, Becomes
  <2>8. w.reportOk /\ D >= w.reportNext => Done(job', "report", D)
    <3>1. w.reportOk /\ D >= w.reportNext => Done(job, "report", D)
      BY <1>1, <1>2 DEF Follows, PastReport
    <3>2. JobsGrow /\ "report" \in Kinds BY <1>4 DEF Grows, Kinds
    <3> QED BY <1>2, <3>1, <3>2 DEF Done, JobsGrow
  <2>9. (cron'[c].reportOk <=> w.reportOk) BY <2>1 DEF Becomes
  <2>10. Follows(c)' BY <1>1, <2>2, <2>3, <2>6, <2>7, <2>8, <2>9, SameDate
  <2>11. Read(c)' BY <2>1 DEF Read, Becomes
  <2>12. OthersRest(c) /\ cron'[c].trigger = 0 /\ cron'[c].held = job'["retention"][D].attempt
    BY <1>2, <1>4, <1>7, <2>1 DEF OthersRest, Becomes
  <2> QED BY <1>2, <1>3, <1>4, <1>7, <2>2, <2>4, <2>5, <2>10, <2>11, <2>12, Claimed, Concluded
<1>8. CASE RetentionDone(c, ok)
  <2>1. cron' \in [Crons -> Invocation] BY <1>8, <1>o, RetentionDoneEffect DEF DailyInv, Becomes
  <2>2. ok /\ w.retentionOk /\ D >= w.retentionNext => Done(job', "retention", D)
    BY <1>2, <1>4
  <2> HIDE DEF ok
  <2> QED BY <1>1, <1>2, <1>6, <1>8, <1>o, <2>1, <2>2, RetentionDoneMoves, Concluded
<1> QED BY <1>5, <1>7, <1>8

-----------------------------------------------------------------------------
(* The steps that finish *)

\* What the finish of a held job does to the rows.
LEMMA FinishGrows ==
    ASSUME DailyInv, NEW c \in Crons, NEW K \in Kinds, NEW D \in Dates, D = cron[c].date,
           HoldsJob(c, K, D), NEW ok \in BOOLEAN, job[K][D].st = "running",
           K = "report" /\ ok => history[D] # <<>>,
           UNCHANGED <<latest, trigger, inputs, history>>,
           Rewrites(K, D, Finished(job[K][D], ok))
    PROVE  /\ job' \in [Kinds -> [Dates -> Job]] /\ Grows /\ JobsInv' /\ HistoryInv'
           /\ ok => Done(job', K, D)
<1>1. Numbers /\ Placed(c) /\ Follows(c) BY NumberFacts DEF DailyInv, CronsInv, RowsInv
<1>2. job[K][D] \in Job BY <1>1 DEF Numbers
<1>3. PICK j \in Job : j = Finished(job[K][D], ok) /\ j.attempt = job[K][D].attempt
                       /\ j.st # "queued" /\ (j.st = "succeeded" <=> ok)
  BY <1>2, FinishFacts
<1>4. cron[c].trigger = 0 /\ cron[c].pc \notin {"off", "cursors"}
  BY DEF HoldsJob, Working
<1>5. PICK last \in Dates : last = cron[c].last /\ (last = latest \/ last = latest - 1)
  BY <1>1, <1>4 DEF Placed
<1>6. D <= last /\ Fits(job, K, last, D) BY <1>1, <1>4, <1>5 DEF Follows, Placed
<1>7. job[K][D].attempt \in Nat BY <1>1 DEF Numbers
<1>8. /\ job' \in [Kinds -> [Dates -> Job]] /\ job'[K][D] = j
      /\ Grows /\ JobsInv' /\ HistoryInv'
  <2>1. Rewrites(K, D, j) BY <1>3
  <2>2. j.attempt >= job[K][D].attempt BY <1>3, <1>7
  <2>3. job[K][D].st = "succeeded" => j.st = "succeeded" OBVIOUS
  <2>4. j.st = "succeeded" => D <= last /\ Fits(job, K, last, D) BY <1>6
  <2>5. j.st = "succeeded" /\ K = "report" => history[D] # <<>> BY <1>3
  <2>6. job[K][D].st # "queued" => j.st # "queued" BY <1>3
  <2>7. last = latest \/ last = latest - 1 BY <1>5
  <2> QED BY <2>1, <2>2, <2>3, <2>4, <2>5, <2>6, <2>7, JobRewritten
<1>9. ok => Done(job', K, D) BY <1>3, <1>8 DEF Done
<1> QED BY <1>8, <1>9

\* Finishing a report job keeps the invariant.
LEMMA FinishReportKeeps ==
    ASSUME DailyInv, NEW c \in Crons, FinishReport(c)
    PROVE  DailyInv'
<1> DEFINE w == cron[c]
           D == w.date
           j == job["report"][D]
<1>1. /\ Numbers /\ Placed(c) /\ Read(c) /\ w.pc = "finish" /\ faults \in 0..MaxFaults
      /\ UNCHANGED <<latest, trigger, inputs, history, faults>>
  BY NumberFacts DEF DailyInv, CronsInv, RowsInv, FinishReport, Columns
<1>2. D \in Dates /\ w.trigger = 0 /\ w.held # 0 /\ w.ok \in BOOLEAN /\ "report" \in Kinds
  BY <1>1, DomainFacts DEF Placed, Numbers, Kinds
<1>3. CASE ~Holds(j, w.held)
  <2>1. job' = job /\ Die(c) BY <1>3 DEF FinishReport
  <2>2. cron' \in [Crons -> Invocation] BY <2>1, DieEffect DEF DailyInv, Becomes
  <2>3. Within BY <1>1, <2>1, <2>2, QuietWithin
  <2> QED BY <2>1, <2>3, DieMoves, Concluded
<1>4. CASE Holds(j, w.held)
  <2>1. Rewrites("report", D, Finished(j, w.ok)) /\ ReportDone(c, w.ok)
    BY <1>4 DEF FinishReport, Rewrites
  <2>2. HoldsJob(c, "report", D) BY <1>1, <1>2 DEF HoldsJob, Working
  <2>3. w.ok => history[D] # <<>> BY <1>1 DEF Read
  <2>4. j.st = "running" BY <1>4 DEF Holds
  <2>5. /\ job' \in [Kinds -> [Dates -> Job]] /\ Grows /\ JobsInv' /\ HistoryInv'
        /\ w.ok => Done(job', "report", D)
    BY <1>1, <1>2, <2>1, <2>2, <2>3, <2>4, FinishGrows
  <2>6. cron' \in [Crons -> Invocation] BY <1>2, <2>1, ReportDoneEffect DEF DailyInv, Becomes
  <2>7. Within BY <1>1, <2>5, <2>6 DEF DailyInv, Columns, Within
  <2> QED BY <1>1, <1>2, <2>1, <2>5, <2>7, ReportDoneMoves, Concluded
<1> QED BY <1>3, <1>4

\* Finishing a retention job keeps the invariant.
LEMMA FinishRetentionKeeps ==
    ASSUME DailyInv, NEW c \in Crons, FinishRetention(c)
    PROVE  DailyInv'
<1> DEFINE w == cron[c]
           D == w.date
           t == w.trigger
<1>1. /\ Numbers /\ Placed(c) /\ w.pc = "finishRetention" /\ faults \in 0..MaxFaults
      /\ UNCHANGED <<latest, inputs, history, faults>>
  BY NumberFacts DEF DailyInv, CronsInv, RowsInv, FinishRetention, Columns
<1>2. /\ D \in Dates /\ w.held # 0 /\ w.ok \in BOOLEAN /\ w.failed \in BOOLEAN
      /\ "retention" \in Kinds /\ t \in Nat
  BY <1>1, DomainFacts DEF Placed, Numbers, Kinds
<1>3. CASE UNCHANGED <<job, trigger>> /\ Die(c)
  <2>1. cron' \in [Crons -> Invocation] BY <1>3, DieEffect DEF DailyInv, Becomes
  <2>2. Within BY <1>1, <1>3, <2>1, QuietWithin
  <2> QED BY <1>3, <2>2, DieMoves, Concluded
<1>4. CASE t # 0 /\ Holds(trigger[t], w.held)
           /\ trigger' = [trigger EXCEPT ![t] = Finished(trigger[t], ~w.failed)]
           /\ job' = job /\ Die(c)
  <2>1. t \in 1..Len(trigger) BY <1>1, <1>2, <1>4 DEF Placed, Numbers
  <2>2. trigger[t] \in Job /\ trigger[t].attempt \in Nat /\ trigger[t].st = "running"
    BY <1>1, <1>4, <2>1 DEF Numbers, Holds
  <2>3. (~w.failed) \in BOOLEAN OBVIOUS
  <2>4. PICK j \in Job : j = Finished(trigger[t], ~w.failed) /\ j.attempt = trigger[t].attempt
                         /\ j.st # "queued"
    BY <2>2, <2>3, FinishFacts
  <2>5. trigger' = [trigger EXCEPT ![t] = j] BY <1>4, <2>4
  <2>6. j.attempt >= trigger[t].attempt BY <2>2, <2>4
  <2>7. trigger' \in Seq(Job) /\ Grows /\ JobsInv' /\ HistoryInv'
    BY <1>1, <1>4, <2>1, <2>4, <2>5, <2>6, TriggerRewritten
  <2>8. cron' \in [Crons -> Invocation] BY <1>4, DieEffect DEF DailyInv, Becomes
  <2>9. Within BY <1>1, <1>4, <2>7, <2>8 DEF DailyInv, Columns, Within
  <2> QED BY <1>4, <2>9, DieMoves, Concluded
<1>5. CASE t = 0 /\ Holds(job["retention"][D], w.held)
           /\ job' = [job EXCEPT !["retention"][D] = Finished(job["retention"][D], w.ok)]
           /\ trigger' = trigger /\ RetentionDone(c, w.ok)
  <2>1. Rewrites("retention", D, Finished(job["retention"][D], w.ok))
    BY <1>5 DEF Rewrites
  <2>2. HoldsJob(c, "retention", D) BY <1>1, <1>2, <1>5 DEF HoldsJob, Working
  <2>3. job["retention"][D].st = "running" BY <1>5 DEF Holds
  <2>4. /\ job' \in [Kinds -> [Dates -> Job]] /\ Grows /\ JobsInv' /\ HistoryInv'
        /\ w.ok => Done(job', "retention", D)
    BY <1>1, <1>2, <1>5, <2>1, <2>2, <2>3, FinishGrows
  <2>5. cron' \in [Crons -> Invocation] BY <1>2, <1>5, RetentionDoneEffect DEF DailyInv, Becomes
  <2>6. Within BY <1>1, <1>5, <2>4, <2>5 DEF DailyInv, Columns, Within
  <2> QED BY <1>1, <1>2, <1>5, <2>4, <2>6, RetentionDoneMoves, Concluded
<1> QED BY <1>3, <1>4, <1>5 DEF FinishRetention

-----------------------------------------------------------------------------
(* Reports *)

\* Appending a version, or finding it there, keeps the invariant.
LEMMA AppendReportKeeps ==
    ASSUME DailyInv, NEW c \in Crons, AppendReport(c)
    PROVE  DailyInv'
<1> DEFINE w == cron[c]
           D == w.date
           version == [hash |-> w.snap.hash, ver |-> w.snap.ver]
<1>1. /\ Numbers /\ Placed(c) /\ Read(c) /\ HistoryInv /\ JobsInv /\ w.pc = "append"
      /\ faults \in 0..MaxFaults /\ history \in [Dates -> Seq(Version)]
      /\ UNCHANGED <<latest, job, trigger, inputs, faults>>
  BY NumberFacts DEF DailyInv, CronsInv, RowsInv, AppendReport, Columns
<1>2. D \in Dates BY <1>1, DomainFacts DEF Placed, Numbers
<1>3. CASE history' = history /\ \E ok \in BOOLEAN : Worked(c, ok) /\ (ok => SameIdentity(c))
  <2>1. PICK ok \in BOOLEAN : Worked(c, ok) /\ (ok => SameIdentity(c)) BY <1>3
  <2>2. cron' \in [Crons -> Invocation] BY <2>1, WorkedType DEF DailyInv
  <2>3. Within BY <1>1, <1>3, <2>2, QuietWithin
  <2>4. ok => history'[D] # <<>> BY <1>3, <2>1 DEF SameIdentity
  <2> QED BY <1>1, <2>1, <2>3, <2>4, WorkedMoves, Concluded
<1>4. CASE /\ Current(c) /\ ~SameIdentity(c) /\ Worked(c, TRUE)
           /\ history' = [history EXCEPT ![D] = Append(@, version)]
  <2> DEFINE n == Len(history[D])
  <2>1. /\ w.snap.hash \in Hashes /\ w.snap.seen = n
        /\ \A m \in 1..n : NotNewer(history[D][m], w.snap)
        /\ NotNewer(w.snap, inputs[D])
    BY <1>1, <1>4 DEF Read, Current
  <2>2. w.snap \in Snap /\ w.snap.ver \in 0..MaxChanges /\ w.snap.ver \in Nat /\ n \in Nat
    BY <1>1, <1>2, DomainFacts DEF Numbers, Snap
  <2>3. version \in Version /\ version.hash = w.snap.hash /\ version.ver = w.snap.ver
    BY <2>1, <2>2 DEF Version
  <2>4. history[D] \in Seq(Version) BY <1>1, <1>2
  <2> HIDE DEF version
  <2>5. /\ Append(history[D], version) \in Seq(Version)
        /\ Len(Append(history[D], version)) = n + 1
        /\ \A m \in 1..n : Append(history[D], version)[m] = history[D][m]
        /\ Append(history[D], version)[n + 1] = version
    BY <2>3, <2>4, AppendProperties
  <2>6. /\ history' \in [Dates -> Seq(Version)]
        /\ history'[D] \in Seq(Version) /\ Len(history'[D]) = n + 1
        /\ \A m \in 1..n : history'[D][m] = history[D][m]
        /\ history'[D][n + 1] = version
        /\ \A d \in Dates : d # D => history'[d] = history[d]
    BY <1>1, <1>2, <1>4, <2>5
  <2>7. history'[D] # <<>> BY <2>2, <2>6
  <2>8. HistoriesGrow
    <3> SUFFICES ASSUME NEW d \in Dates
                 PROVE  /\ Len(history'[d]) >= Len(history[d])
                        /\ history[d] # <<>> => history'[d] # <<>>
                        /\ \A m \in 1..Len(history[d]) : history'[d][m] = history[d][m]
      BY DEF HistoriesGrow
    <3>1. CASE d = D BY <2>2, <2>6, <2>7, <3>1
    <3>2. CASE d # D BY <1>1, <2>6, <3>2 DEF Numbers
    <3> QED BY <3>1, <3>2
  <2>9. JobsGrow /\ TriggersGrow /\ InputsGrow /\ FitsKept
    BY <1>1 DEF Numbers, JobsGrow, TriggersGrow, InputsGrow, FitsKept
  <2>10. JobsInv'
    BY <1>1, <2>8 DEF JobsInv, DoneByNow, Done, NoGap, SucceededIsReported, HistoriesGrow
  <2>11. Projected'
    <3> SUFFICES ASSUME NEW d \in Dates, NEW m \in 1..Len(history'[d])
                 PROVE  NotNewer(history'[d][m], inputs[d])
      BY <1>1 DEF Projected
    <3>1. CASE d # D BY <1>1, <2>6, <3>1 DEF HistoryInv, Projected
    <3>2. CASE d = D /\ m \in 1..n BY <1>1, <2>6, <3>2 DEF HistoryInv, Projected
    <3>3. CASE d = D /\ m = n + 1 BY <2>1, <2>3, <2>6, <3>3 DEF NotNewer
    <3> QED BY <2>2, <2>6, <3>1, <3>2, <3>3
  <2>12. RevisionsAdvance'
    <3> SUFFICES ASSUME NEW d \in Dates, NEW m \in 2..Len(history'[d])
                 PROVE  history'[d][m - 1].ver < history'[d][m].ver
      BY DEF RevisionsAdvance
    <3>1. CASE d # D BY <1>1, <2>6, <3>1 DEF HistoryInv, RevisionsAdvance
    <3>2. CASE d = D /\ m \in 2..n
      <4>1. m \in 1..n /\ m - 1 \in 1..n BY <2>2, <3>2
      <4> QED BY <1>1, <2>6, <3>2, <4>1 DEF HistoryInv, RevisionsAdvance
    <3>3. CASE d = D /\ m = n + 1
      <4>1. n \in 1..n /\ m - 1 = n BY <2>2, <3>3
      <4>2. NotNewer(history[D][n], w.snap) BY <2>1, <4>1
      <4>3. history[D] # <<>> BY <2>2, <4>1
      <4>4. history[D][n].hash # w.snap.hash BY <1>4, <4>3 DEF SameIdentity
      <4>5. history[D][n].ver \in Nat BY <1>1, <1>2, <4>1 DEF Numbers
      <4>6. history[D][n].ver < w.snap.ver BY <2>2, <4>2, <4>4, <4>5 DEF NotNewer
      <4> QED BY <2>3, <2>6, <3>3, <4>1, <4>6
    <3> QED BY <2>2, <2>6, <3>1, <3>2, <3>3
  <2>13. cron' \in [Crons -> Invocation] BY <1>4, WorkedType DEF DailyInv
  <2>14. Columns' BY <1>1, <2>6, <2>13 DEF DailyInv, Columns
  <2>15. Within BY <1>1, <2>8, <2>9, <2>10, <2>11, <2>12, <2>14 DEF Within, Grows, HistoryInv
  <2> QED BY <1>1, <1>4, <2>7, <2>15, WorkedMoves, Concluded
<1> QED BY <1>3, <1>4 DEF AppendReport

-----------------------------------------------------------------------------
(* The steps around the invocations *)

\* No invocation moves.
LEMMA NobodyMoves ==
    ASSUME Within, cron' = cron
    PROVE  DailyInv'
<1>1. \A u \in Crons : RowsInv(u)' BY StaysGood
<1>2. ASSUME NEW a \in Crons, NEW b \in Crons, a # b PROVE Apart(a, b)'
  <2>1. Apart(a, b) BY <1>2 DEF Within, DailyInv, CronsInv
  <2> QED BY <2>1 DEF Apart, HoldsJob
<1> QED BY <1>1, <1>2, Concluded DEF CronsInv

\* A request for reconciliation keeps the invariant.
LEMMA RequestKeeps ==
    ASSUME DailyInv, RequestReconciliation
    PROVE  DailyInv'
<1>1. /\ Numbers /\ JobsInv /\ HistoryInv /\ trigger \in Seq(Job)
      /\ UNCHANGED <<latest, job, inputs, history, cron, faults>>
      /\ trigger' = Append(trigger, Queued)
  BY NumberFacts DEF DailyInv, Columns, RequestReconciliation
<1>2. Queued \in Job BY DailyAssumption DEF Queued, Job, JobStatus
<1>3. /\ trigger' \in Seq(Job) /\ Len(trigger') = Len(trigger) + 1
      /\ \A t \in 1..Len(trigger) : trigger'[t] = trigger[t]
  BY <1>1, <1>2, AppendProperties
<1>4. TriggersGrow BY <1>1, <1>3 DEF Numbers, TriggersGrow
<1>5. JobsGrow /\ HistoriesGrow /\ InputsGrow /\ FitsKept
  BY <1>1 DEF Numbers, JobsGrow, HistoriesGrow, InputsGrow, FitsKept
<1>6. JobsInv' BY <1>1 DEF JobsInv, DoneByNow, Done, NoGap, SucceededIsReported
<1>7. HistoryInv' BY <1>1 DEF HistoryInv, Projected, RevisionsAdvance
<1>8. Columns' BY <1>1, <1>3 DEF DailyInv, Columns
<1>9. Within BY <1>1, <1>4, <1>5, <1>6, <1>7, <1>8 DEF Within, Grows
<1> QED BY <1>1, <1>9, NobodyMoves

\* New facts keep the invariant.
LEMMA ChangeInputsKeeps ==
    ASSUME DailyInv, NEW d \in Dates, NEW h \in Hashes, ChangeInputs(d, h)
    PROVE  DailyInv'
<1> DEFINE now == [hash |-> h, ver |-> inputs[d].ver + 1]
<1>1. /\ Numbers /\ JobsInv /\ HistoryInv /\ inputs \in [Dates -> Version]
      /\ UNCHANGED <<latest, job, trigger, history, cron, faults>>
      /\ inputs' = [inputs EXCEPT ![d] = [hash |-> h, ver |-> @.ver + 1]]
      /\ inputs[d].ver < MaxChanges
  BY NumberFacts DEF DailyInv, Columns, ChangeInputs
<1>2. inputs[d].ver \in Nat BY <1>1 DEF Numbers
<1>3. now \in Version /\ now.ver = inputs[d].ver + 1
  BY <1>1, <1>2, DailyAssumption DEF Version
<1>4. inputs' = [inputs EXCEPT ![d] = now] BY <1>1
<1> HIDE DEF now
<1>5. /\ inputs' \in [Dates -> Version] /\ inputs'[d].ver > inputs[d].ver
      /\ inputs'[d].ver \in Nat /\ \A e \in Dates : e # d => inputs'[e] = inputs[e]
  BY <1>1, <1>2, <1>3, <1>4
<1>6. InputsGrow BY <1>5 DEF InputsGrow
<1>7. JobsGrow /\ HistoriesGrow /\ TriggersGrow /\ FitsKept
  BY <1>1 DEF Numbers, JobsGrow, HistoriesGrow, TriggersGrow, FitsKept
<1>8. JobsInv' BY <1>1 DEF JobsInv, DoneByNow, Done, NoGap, SucceededIsReported
<1>9. HistoryInv'
  <2>1. ASSUME NEW e \in Dates, NEW n \in 1..Len(history[e])
        PROVE  NotNewer(history[e][n], inputs'[e])
    <3>1. NotNewer(history[e][n], inputs[e]) BY <1>1, <2>1 DEF HistoryInv, Projected
    <3>2. history[e][n].ver \in Nat BY <1>1, <2>1 DEF Numbers
    <3> QED BY <1>2, <1>5, <3>1, <3>2 DEF NotNewer
  <2> QED BY <1>1, <2>1 DEF HistoryInv, Projected, RevisionsAdvance
<1>10. Columns' BY <1>1, <1>5 DEF DailyInv, Columns
<1>11. Within BY <1>1, <1>6, <1>7, <1>8, <1>9, <1>10 DEF Within, Grows
<1> QED BY <1>1, <1>11, NobodyMoves

\* A lease that goes stale keeps the invariant.
LEMMA GoesStaleKeeps ==
    ASSUME DailyInv, GoesStale
    PROVE  DailyInv'
<1>1. /\ Numbers /\ JobsInv /\ Columns
      /\ UNCHANGED <<latest, inputs, history, cron, faults>>
  BY NumberFacts DEF DailyInv, GoesStale
<1>2. ASSUME NEW j \in Job
      PROVE  /\ [j EXCEPT !.fresh = FALSE] \in Job /\ [j EXCEPT !.fresh = FALSE].st = j.st
             /\ [j EXCEPT !.fresh = FALSE].attempt = j.attempt
  BY DEF Job
<1>3. CASE \E k \in Kinds, d \in Dates :
               job[k][d].fresh /\ job' = [job EXCEPT ![k][d].fresh = FALSE] /\ trigger' = trigger
  <2>1. PICK k \in Kinds, d \in Dates :
            job' = [job EXCEPT ![k][d].fresh = FALSE] /\ trigger' = trigger
    BY <1>3
  <2>2. job[k][d] \in Job /\ job[k][d].attempt \in Nat BY <1>1 DEF Numbers
  <2>3. PICK j \in Job : j = [job[k][d] EXCEPT !.fresh = FALSE] /\ j.st = job[k][d].st
                         /\ j.attempt = job[k][d].attempt
    BY <1>2, <2>2
  <2>4. Rewrites(k, d, j) BY <2>1, <2>3 DEF Rewrites
  <2>5. j.st = "succeeded" => d <= latest /\ Fits(job, k, latest, d)
    BY <1>1, <2>3 DEF JobsInv, DoneByNow, Done, Fits
  <2>6. j.st = "succeeded" /\ k = "report" => history[d] # <<>>
    BY <1>1, <2>3 DEF JobsInv, SucceededIsReported
  <2>7. latest \in Dates /\ j.attempt >= job[k][d].attempt
    BY <1>1, <2>2, <2>3 DEF Columns
  <2>8. job' \in [Kinds -> [Dates -> Job]] /\ Grows /\ JobsInv' /\ HistoryInv'
    <3>1. job[k][d].st # "queued" => j.st # "queued" BY <2>3
    <3>2. job[k][d].st = "succeeded" => j.st = "succeeded" BY <2>3
    <3>3. PICK last \in Dates : last = latest BY <2>7
    <3> QED BY <1>1, <2>1, <2>4, <2>5, <2>6, <2>7, <3>1, <3>2, <3>3, JobRewritten
  <2>9. Within BY <1>1, <2>1, <2>8 DEF Columns, Within
  <2> QED BY <1>1, <2>9, NobodyMoves
<1>4. CASE \E t \in DOMAIN trigger :
               trigger[t].fresh /\ trigger' = [trigger EXCEPT ![t].fresh = FALSE] /\ job' = job
  <2>1. PICK t \in 1..Len(trigger) :
            trigger' = [trigger EXCEPT ![t].fresh = FALSE] /\ job' = job
    BY <1>1, <1>4 DEF Numbers
  <2>2. trigger[t] \in Job /\ trigger[t].attempt \in Nat BY <1>1 DEF Numbers
  <2>3. PICK j \in Job : j = [trigger[t] EXCEPT !.fresh = FALSE] /\ j.st = trigger[t].st
                         /\ j.attempt = trigger[t].attempt
    BY <1>2, <2>2
  <2>4. trigger' = [trigger EXCEPT ![t] = j] BY <2>1, <2>3
  <2>5. j.attempt >= trigger[t].attempt BY <2>2, <2>3
  <2>6. trigger' \in Seq(Job) /\ Grows /\ JobsInv' /\ HistoryInv'
    BY <1>1, <2>1, <2>3, <2>4, <2>5, TriggerRewritten
  <2>7. Within BY <1>1, <2>1, <2>6 DEF Columns, Within
  <2> QED BY <1>1, <2>7, NobodyMoves
<1> QED BY <1>3, <1>4 DEF GoesStale

\* Midnight: whoever still walks walks the dates of yesterday.
LEMMA NextDayKeeps ==
    ASSUME DailyInv, NextDay
    PROVE  DailyInv'
<1>1. /\ Numbers /\ JobsInv /\ HistoryInv /\ CronsInv /\ Columns /\ LastDate \in Nat
      /\ latest' = latest + 1 /\ latest < LastDate
      /\ UNCHANGED <<job, trigger, inputs, history, cron, faults>>
  BY NumberFacts, DomainFacts DEF DailyInv, NextDay
<1>2. latest \in Nat /\ latest' \in Dates BY <1>1, DomainFacts DEF Numbers
<1>3. Columns' BY <1>1, <1>2 DEF Columns
<1>4. JobsInv'
  <2>1. \A k \in Kinds, d \in Dates : Done(job, k, d) => d <= latest'
    BY <1>1, <1>2, DomainFacts DEF JobsInv, DoneByNow, Dates
  <2> QED BY <1>1, <2>1 DEF JobsInv, DoneByNow, NoGap, SucceededIsReported
<1>5. HistoryInv' BY <1>1 DEF HistoryInv, Projected, RevisionsAdvance
<1>6. ASSUME NEW c \in Crons PROVE RowsInv(c)'
  <2>1. Placed(c) /\ Leased(c) /\ Follows(c) /\ Read(c) BY <1>1 DEF CronsInv, RowsInv
  <2>2. cron[c].last \in {0, latest} BY DEF NextDay
  <2>3. cron[c].pc # "off" => cron[c].last = latest' - 1
    BY <1>2, <1>1, <2>1, <2>2 DEF Placed, Dates
  <2>4. Placed(c)' BY <1>1, <2>1, <2>3 DEF Placed
  <2>5. Leased(c)' BY <1>1, <2>1 DEF Leased, HoldsJob
  <2>6. Follows(c)' BY <1>1, <2>1 DEF Follows, HoldsJob, NextOf, OkOf, PastReport
  <2>7. Read(c)' BY <1>1, <2>1 DEF Read
  <2> QED BY <2>4, <2>5, <2>6, <2>7 DEF RowsInv
<1>7. \A a, b \in Crons : a # b => Apart(a, b)' BY <1>1 DEF CronsInv, Apart, HoldsJob
<1> QED BY <1>3, <1>4, <1>5, <1>6, <1>7 DEF DailyInv, CronsInv

\* The invariant holds before the first invocation.
LEMMA InitHolds ==
    ASSUME Init
    PROVE  DailyInv
<1>1. Queued \in Job /\ Queued.st = "queued"
  BY DailyAssumption DEF Queued, Job, JobStatus
<1>2. Columns
  <2>1. inputs \in [Dates -> Version]
    <3>1. \A h \in Hashes : [hash |-> h, ver |-> 0] \in Version BY DailyAssumption DEF Version
    <3>2. inputs \in [Dates -> {[hash |-> h, ver |-> 0] : h \in Hashes}] BY DEF Init
    <3> QED BY <3>1, <3>2
  <2>2. latest \in Dates /\ faults \in 0..MaxFaults BY DailyAssumption DEF Init, Dates
  <2>3. job \in [Kinds -> [Dates -> Job]] BY <1>1 DEF Init
  <2>4. trigger \in Seq(Job) /\ history \in [Dates -> Seq(Version)] BY DEF Init
  <2>5. cron \in [Crons -> Invocation] BY OffRow DEF Init
  <2> QED BY <2>1, <2>2, <2>3, <2>4, <2>5 DEF Columns
<1>3. \A k \in Kinds, d \in Dates : job[k][d].st = "queued" BY <1>1 DEF Init
<1>4. JobsInv
  <2>1. \A k \in Kinds, d \in Dates : job[k][d].st # "succeeded" BY <1>3
  <2> QED BY <2>1 DEF JobsInv, DoneByNow, Done, NoGap, SucceededIsReported, Kinds
<1>5. \A d \in Dates : history[d] = <<>> /\ Len(history[d]) = 0 BY DEF Init
<1>6. HistoryInv BY <1>5 DEF HistoryInv, Projected, RevisionsAdvance
<1>7. \A c \in Crons : cron[c] = Off BY DEF Init
<1>8. ASSUME NEW c \in Crons PROVE RowsInv(c)
  <2>1. Placed(c) BY <1>7, OffRow, DailyAssumption DEF Placed
  <2>2. Leased(c) BY <1>7, OffRow DEF Leased, HoldsJob
  <2>3. Follows(c) BY <1>7, OffRow DEF Follows
  <2>4. Read(c) BY <1>7, OffRow DEF Read
  <2> QED BY <2>1, <2>2, <2>3, <2>4 DEF RowsInv
<1>9. \A a, b \in Crons : Apart(a, b) BY <1>7, OffRow DEF Apart, HoldsJob
<1> QED BY <1>2, <1>4, <1>6, <1>8, <1>9 DEF DailyInv, CronsInv

\* A stuttering step keeps the invariant.
LEMMA StutterKeeps ==
    ASSUME DailyInv, UNCHANGED vars
    PROVE  DailyInv'
<1>1. Within BY QuietWithin DEF vars, DailyInv, Columns
<1> QED BY <1>1, NobodyMoves DEF vars

-----------------------------------------------------------------------------
(* The theorems *)

\* However many invocations overlap, die between two transactions and outlive
\* their leases: DailyInv holds at every moment.
THEOREM DailyInvariant == Spec => []DailyInv
<1>1. Init => DailyInv BY InitHolds
<1>2. DailyInv /\ [Next]_vars => DailyInv'
  <2> SUFFICES ASSUME DailyInv, [Next]_vars PROVE DailyInv' OBVIOUS
  <2>1. ASSUME NEW c \in Crons, Start(c) PROVE DailyInv' BY <2>1, StartKeeps
  <2>2. ASSUME NEW c \in Crons, Step(c) PROVE DailyInv'
    BY <2>2, CursorsKeeps, ReportKeeps, SnapshotKeeps, AppendReportKeeps, FinishReportKeeps,
       RetentionKeeps, RetainKeeps, FinishRetentionKeeps DEF Step
  <2>3. ASSUME NEW c \in Crons, ReportFails(c) PROVE DailyInv' BY <2>3, ReportFailsKeeps
  <2>4. ASSUME NEW c \in Crons, Crash(c) PROVE DailyInv' BY <2>4, CrashKeeps
  <2>5. ASSUME NEW d \in Dates, NEW h \in Hashes, ChangeInputs(d, h) PROVE DailyInv'
    BY <2>5, ChangeInputsKeeps
  <2>6. CASE RequestReconciliation BY <2>6, RequestKeeps
  <2>7. CASE GoesStale BY <2>7, GoesStaleKeeps
  <2>8. CASE NextDay BY <2>8, NextDayKeeps
  <2>9. CASE UNCHANGED vars BY <2>9, StutterKeeps
  <2> QED BY <2>1, <2>2, <2>3, <2>4, <2>5, <2>6, <2>7, <2>8, <2>9 DEF Next
<1> QED BY <1>1, <1>2, PTL DEF Spec

\* The invariant says what the run checks.
LEMMA InvIsSound ==
    ASSUME DailyInv
    PROVE  DailyJobsSound
<1>1. /\ Numbers /\ Columns /\ LastDate \in Nat /\ JobsInv /\ HistoryInv
      /\ \A c \in Crons : Placed(c)
      /\ \A a, b \in Crons : a # b => Apart(a, b)
  BY NumberFacts, DomainFacts DEF DailyInv, CronsInv, RowsInv
<1>2. TypeOK
  <2>1. ASSUME NEW c \in Crons
        PROVE  /\ cron[c].pc \in Stage
               /\ cron[c].date \in 0..LastDate /\ cron[c].date <= cron[c].last
               /\ cron[c].held \in 0..MaxAttempts
    <3>1. /\ cron[c].pc \in Stage /\ cron[c].date \in Nat /\ cron[c].held \in Nat
          /\ cron[c].last \in Nat
      BY <1>1, InvocationFields DEF Numbers
    <3>2. cron[c].last <= LastDate /\ cron[c].date <= cron[c].last /\ cron[c].held <= MaxAttempts
      BY <1>1, <3>1, DailyAssumption DEF Placed, Dates
    <3> QED BY <1>1, <3>1, <3>2, DailyAssumption
  <2> QED BY <1>1, <2>1 DEF TypeOK, Columns
<1>3. LeaseExclusive
  <2> SUFFICES ASSUME NEW c \in Crons, NEW u \in Crons, c # u, HeldJob(c) # <<>>,
                      HeldJob(c) = HeldJob(u)
               PROVE  FALSE
    BY DEF LeaseExclusive
  <2>1. Apart(c, u) /\ Placed(c) /\ Placed(u) BY <1>1
  <2>2. cron[c].held # 0 /\ cron[u].held # 0 BY DEF HeldJob
  <2>3. cron[c].held = cron[u].held BY <2>2 DEF HeldJob
  <2>4. CASE cron[c].trigger # 0
    <3>1. cron[u].trigger = cron[c].trigger BY <2>2, <2>4 DEF HeldJob
    <3> QED BY <2>1, <2>3, <2>4, <3>1 DEF Apart
  <2>5. CASE cron[c].trigger = 0
    <3>1. cron[u].trigger = 0 BY <2>2, <2>5 DEF HeldJob
    <3>2. cron[c].date = cron[u].date
          /\ (cron[c].pc \in {"retain", "finishRetention"} <=>
              cron[u].pc \in {"retain", "finishRetention"})
      BY <2>2, <2>5, <3>1 DEF HeldJob
    <3>3. /\ cron[c].pc \in {"snapshot", "append", "finish", "retain", "finishRetention"}
          /\ cron[u].pc \in {"snapshot", "append", "finish", "retain", "finishRetention"}
          /\ cron[c].date \in Dates
      <4>1. /\ cron[c].pc \in Stage /\ cron[u].pc \in Stage /\ cron[c].date \in Nat
            /\ cron[c].last \in Nat
        BY <1>1, InvocationFields DEF Numbers
      <4> QED BY <1>1, <2>1, <2>2, <4>1, DomainFacts DEF Placed, Stage, Dates
    <3>4. CASE cron[c].pc \in {"retain", "finishRetention"}
      <4>1. HoldsJob(c, "retention", cron[c].date) /\ HoldsJob(u, "retention", cron[c].date)
        BY <2>2, <2>5, <3>1, <3>2, <3>4 DEF HoldsJob, Working
      <4> QED BY <2>1, <2>3, <3>3, <4>1 DEF Apart, Kinds
    <3>5. CASE cron[c].pc \in {"snapshot", "append", "finish"}
      <4>1. HoldsJob(c, "report", cron[c].date) /\ HoldsJob(u, "report", cron[c].date)
        BY <2>2, <2>5, <3>1, <3>2, <3>3, <3>5 DEF HoldsJob, Working
      <4> QED BY <2>1, <2>3, <3>3, <4>1 DEF Apart, Kinds
    <3> QED BY <3>3, <3>4, <3>5
  <2> QED BY <2>4, <2>5
<1> QED BY <1>1, <1>2, <1>3 DEF DailyJobsSound, JobsInv, HistoryInv

\* The dates that succeeded have no gap, a report job that succeeded left a
\* report, no lease has two holders, and corrections never go back in time.
THEOREM DailyJobsAreSound == Spec => []DailyJobsSound
  BY DailyInvariant, InvIsSound, PTL

-----------------------------------------------------------------------------
(* The repository *)

\* The identities of the versions of each date.
Identities == [d \in Dates |-> [n \in DOMAIN history[d] |-> history[d][n].hash]]

\* Only the append of a changed report touches the histories.
LEMMA OnlyAppendWrites ==
    ASSUME DailyInv, [Next]_vars
    PROVE  \/ history' = history
           \/ \E c \in Crons :
                 /\ cron[c].pc = "append" /\ Current(c) /\ ~SameIdentity(c)
                 /\ history' = [history EXCEPT ![cron[c].date] =
                        Append(@, [hash |-> cron[c].snap.hash, ver |-> cron[c].snap.ver])]
<1>1. ASSUME NEW c \in Crons, Start(c) PROVE history' = history BY <1>1 DEF Start
<1>2. ASSUME NEW c \in Crons, Step(c), ~AppendReport(c) PROVE history' = history
  BY <1>2 DEF Step, Cursors, Report, Snapshot, FinishReport, Retention, Retain, FinishRetention
<1>3. ASSUME NEW c \in Crons, ReportFails(c) PROVE history' = history BY <1>3 DEF ReportFails
<1>4. ASSUME NEW c \in Crons, Crash(c) PROVE history' = history BY <1>4 DEF Crash
<1>5. ASSUME NEW d \in Dates, NEW h \in Hashes, ChangeInputs(d, h) PROVE history' = history
  BY <1>5 DEF ChangeInputs
<1>6. RequestReconciliation \/ GoesStale \/ NextDay \/ UNCHANGED vars => history' = history
  BY DEF RequestReconciliation, GoesStale, NextDay, vars
<1>7. ASSUME NEW c \in Crons, AppendReport(c), history' # history
      PROVE  /\ cron[c].pc = "append" /\ Current(c) /\ ~SameIdentity(c)
             /\ history' = [history EXCEPT ![cron[c].date] =
                    Append(@, [hash |-> cron[c].snap.hash, ver |-> cron[c].snap.ver])]
  BY <1>7 DEF AppendReport
<1> QED BY <1>1, <1>2, <1>3, <1>4, <1>5, <1>6, <1>7 DEF Next

\* The append of a changed report is the reference's.
LEMMA AppendsVersion ==
    ASSUME DailyInv, NEW c \in Crons, cron[c].pc = "append", Current(c), ~SameIdentity(c),
           history' = [history EXCEPT ![cron[c].date] =
                           Append(@, [hash |-> cron[c].snap.hash, ver |-> cron[c].snap.ver])]
    PROVE  \E d \in Dates, h \in Hashes :
               /\ Identities[d] # <<>> => Identities[d][Len(Identities[d])] # h
               /\ Identities' = [Identities EXCEPT ![d] = Append(@, h)]
<1> DEFINE D == cron[c].date
           h == cron[c].snap.hash
           n == Len(history[D])
           version == [hash |-> h, ver |-> cron[c].snap.ver]
           old == Identities[D]
<1>1. /\ Numbers /\ Placed(c) /\ Read(c) /\ history \in [Dates -> Seq(Version)]
  BY NumberFacts DEF DailyInv, CronsInv, RowsInv, Columns
<1>2. D \in Dates BY <1>1, DomainFacts DEF Placed, Numbers
<1>3. h \in Hashes BY <1>1 DEF Read
<1>4. n \in Nat /\ DOMAIN history[D] = 1..n /\ history[D] \in Seq(Version)
  BY <1>1, <1>2 DEF Numbers
<1>5. version \in Version /\ version.hash = h
  <2>1. cron[c].snap \in Snap /\ cron[c].snap.ver \in 0..MaxChanges
    BY <1>1 DEF Numbers, Snap
  <2> QED BY <1>3, <2>1 DEF Version
<1> HIDE DEF version
<1>6. /\ history' \in [Dates -> Seq(Version)] /\ DOMAIN (history'[D]) = 1..(n + 1)
      /\ \A m \in 1..n : history'[D][m] = history[D][m]
      /\ history'[D][n + 1] = version
      /\ \A d \in Dates : d # D => history'[d] = history[d]
  <2>1. /\ Append(history[D], version) \in Seq(Version)
        /\ Len(Append(history[D], version)) = n + 1
        /\ \A m \in 1..n : Append(history[D], version)[m] = history[D][m]
        /\ Append(history[D], version)[n + 1] = version
    BY <1>4, <1>5, AppendProperties
  <2>2. DOMAIN Append(history[D], version) = 1..(n + 1) BY <2>1, LenProperties
  <2>3. history' = [history EXCEPT ![D] = Append(history[D], version)] BY DEF version
  <2> QED BY <1>1, <1>2, <2>1, <2>2, <2>3
<1>7. /\ old = [m \in 1..n |-> history[D][m].hash] /\ old \in Seq(Hashes) /\ Len(old) = n
  <2>1. old = [m \in 1..n |-> history[D][m].hash] BY <1>2, <1>4 DEF Identities
  <2>2. \A m \in 1..n : history[D][m].hash \in Hashes
    BY <1>1, <1>2 DEF Numbers, Version
  <2>3. old \in [1..n -> Hashes] BY <2>1, <2>2
  <2> QED BY <1>4, <2>1, <2>3
<1>8. old # <<>> => old[Len(old)] # h
  <2> SUFFICES ASSUME old # <<>> PROVE old[n] # h BY <1>7
  <2>1. n # 0 BY <1>7, EmptySeq
  <2>2. n \in 1..n /\ history[D] # <<>> BY <1>4, <2>1
  <2>3. history[D][n].hash # h BY <2>2 DEF SameIdentity
  <2> QED BY <1>7, <2>2, <2>3
<1>9. Identities' = [Identities EXCEPT ![D] = Append(old, h)]
  <2>1. Append(old, h) = [m \in 1..(n + 1) |-> IF m = n + 1 THEN h ELSE old[m]]
    <3>0. old \in Seq(Hashes) /\ Len(old) = n /\ h \in Hashes BY <1>3, <1>7
    <3> HIDE DEF old, n, h
    <3>1. /\ Append(old, h) \in Seq(Hashes) /\ Len(Append(old, h)) = n + 1
          /\ \A m \in 1..n : Append(old, h)[m] = old[m]
          /\ Append(old, h)[n + 1] = h
      BY <3>0, AppendProperties
    <3>2. Append(old, h) \in [1..(n + 1) -> Hashes] BY <3>1, LenProperties
    <3>3. \A m \in 1..(n + 1) : Append(old, h)[m] = IF m = n + 1 THEN h ELSE old[m]
      BY <1>4, <3>1
    <3> QED BY <3>2, <3>3
  <2>2. [m \in DOMAIN (history'[D]) |-> history'[D][m].hash] = Append(old, h)
    <3>1. \A m \in 1..(n + 1) : history'[D][m].hash = IF m = n + 1 THEN h ELSE old[m]
      BY <1>4, <1>5, <1>6, <1>7
    <3> HIDE DEF old, n, h, D
    <3> QED BY <1>6, <2>1, <3>1
  <2>3. \A d \in Dates : Identities'[d] = [m \in DOMAIN (history'[d]) |-> history'[d][m].hash]
    BY DEF Identities
  <2>4. \A d \in Dates : d # D => Identities'[d] = Identities[d] BY <1>6, <2>3 DEF Identities
  <2>5. Identities'[D] = Append(old, h) BY <1>2, <2>2, <2>3
  <2>6. /\ Identities' = [d \in Dates |-> Identities'[d]]
        /\ Identities = [d \in Dates |-> Identities[d]]
    BY DEF Identities
  <2> HIDE DEF old, h, D
  <2> QED BY <1>2, <2>4, <2>5, <2>6
<1> QED BY <1>2, <1>3, <1>8, <1>9

\* The SQL repository implements the reference adapter.
THEOREM RepositoryImplemented == Spec => ImplementsRepository
<1>1. Init => Reference!RepositoryInit
  <2> SUFFICES ASSUME Init PROVE Reference!RepositoryInit OBVIOUS
  <2>1. \A d \in Dates : [n \in DOMAIN history[d] |-> history[d][n].hash] = <<>> BY DEF Init
  <2> QED BY <2>1 DEF Reference!RepositoryInit
<1>2. DailyInv /\ [Next]_vars => [Reference!RepositoryNext]_Identities
  <2> SUFFICES ASSUME DailyInv, [Next]_vars, Identities' # Identities
               PROVE  Reference!RepositoryNext
    OBVIOUS
  <2>1. history' # history BY DEF Identities
  <2>2. \E d \in Dates, h \in Hashes :
            /\ Identities[d] # <<>> => Identities[d][Len(Identities[d])] # h
            /\ Identities' = [Identities EXCEPT ![d] = Append(@, h)]
    BY <2>1, OnlyAppendWrites, AppendsVersion
  <2> QED BY <2>2 DEF Reference!RepositoryNext, Reference!AppendVersion, Identities
<1> QED BY <1>1, <1>2, DailyInvariant, PTL
        DEF ImplementsRepository, Reference!RepositorySpec, Spec, Identities
=============================================================================
