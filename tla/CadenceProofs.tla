---------------------------- MODULE CadenceProofs ----------------------------
(***************************************************************************)
(* The cadence evidence is sound for every set of slots and runs, every    *)
(* window and every number of re-runs: a slot points to the one attempt    *)
(* that earned it in time, COMPLETE is reported only of earned slots, and  *)
(* what was recorded stays.                                                *)
(*                                                                         *)
(* What a run carries from its start to its post is RunSound; the verdict  *)
(* of a row carries everything its credit rested on (Timely, and for the   *)
(* recorder's rows Proved and Retriable), because a row is written once    *)
(* and a permitted predecessor never gains credit (RowsSound).             *)
(*                                                                         *)
(* The slots come from a walk whose arithmetic is exact (SlotsAreExact).   *)
(***************************************************************************)
EXTENDS Cadence, WellFoundedInduction, TLAPS

Phases == {"idle", "running", "finished", "done", "failed"}

RunType ==
    [phase : Phases, attempt : 0..MaxRunAttempts, slot : Slots \cup {None},
     mode : Modes \cup {None}, cadence : 0..2, pred : AttemptIds \cup {None},
     started : 0..MaxTime, completed : 0..MaxTime, outcome : Outcomes \cup {None},
     answer : Reasons \cup {"accepted", "refused", "error", None}]

CadenceOf(mode) == IF mode = "retry" THEN 2 ELSE 1

\* A run that started has its attempt and mode; one that ended has its outcome.
RunSound(p) ==
    /\ p \in RunType
    /\ p.phase # "idle" =>
          /\ p.attempt >= 1 /\ p.mode \in Modes /\ p.cadence = CadenceOf(p.mode)
    /\ p.phase \notin {"idle", "running"} => p.outcome \in Outcomes

RunsSound == runs \in [Runs -> RunType] /\ \A r \in Runs : RunSound(runs[r])

\* What earns a slot in time.
Timely(p) ==
    /\ p.outcome = "ok" /\ p.mode # "manual"
    /\ p.started >= Due[p.slot] /\ p.started < Due[p.slot] + StartLimit
    /\ p.completed < p.started + CompletionLimit

\* What the recorder lets one more attempt follow.
Retriable(p) ==
    /\ p.mode = "schedule" /\ p.cadence = 1 /\ p.outcome = "safe_terminal"
    /\ p.completed < Due[p.slot] + StartLimit

RowSound(row) ==
    /\ row \in RowType
    /\ row.accepted => Timely(row) /\ ~row.retry
    /\ ~DirectStore =>
          /\ row.retry => Retriable(row)
          /\ row.accepted /\ row.mode = "retry" => RetryProof(row)

RowsSound ==
    /\ attempts \in [AttemptIds -> RowType \cup {None}]
    /\ accepted \in [Slots -> AttemptIds \cup {None}]
    /\ \A a \in Recorded : RowSound(attempts[a])

ClockSound ==
    /\ now \in 0..MaxTime /\ contract \in {"none", "live", "invalidated"}
    /\ report \in {"none", "pending", "hold", "complete"}

CadenceInv == ClockSound /\ RunsSound /\ RowsSound /\ PointerAgrees /\ CompleteIsEarned

-----------------------------------------------------------------------------
(* Operators *)

\* A set of numbers with an element has a smallest one.
LEMMA MinFacts ==
    ASSUME NEW T, T \subseteq Nat, T # {}
    PROVE  \E m \in T : \A y \in T : m <= y
<1>1. PICK m \in T : \A y \in T : <<y, m>> \notin OpToRel(<, Nat)
  BY NatLessThanWellFounded, WFMin
<1>2. \A y \in T : ~(y < m)  BY <1>1 DEF OpToRel
<1> QED  BY <1>2

\* A scheduled run names a slot that is due, or none.
LEMMA ScheduledSlotFacts ==
    ASSUME CadenceAssumption, now \in Nat
    PROVE  ScheduledSlot \in Slots \cup {None}
<1> DEFINE due == {s \in Slots : Due[s] <= now}
           waits == {now - Due[s] : s \in due}
<1>1. CASE due = {}  BY <1>1 DEF ScheduledSlot
<1>2. CASE due # {}
  <2>1. \A s \in due : Due[s] \in Nat /\ Due[s] <= now /\ now - Due[s] \in Nat
    BY DEF CadenceAssumption
  <2>2. waits \subseteq Nat /\ waits # {}  BY <1>2, <2>1
  <2>3. \E m \in waits : \A y \in waits : m <= y
    <3> HIDE DEF waits
    <3> QED  BY <2>2, MinFacts
  <2>4. PICK s \in due : \A t \in due : now - Due[s] <= now - Due[t]  BY <2>3
  <2>5. \A t \in due : Due[t] <= Due[s]
    <3> TAKE t \in due
    <3> QED  BY <2>1, <2>4
  <2>6. (CHOOSE x \in due : \A t \in due : Due[t] <= Due[x]) \in due  BY <2>4, <2>5
  <2> QED  BY <1>2, <2>6 DEF ScheduledSlot
<1> QED  BY <1>1, <1>2

\* What the rules answer.
LEMMA ReasonFacts ==
    ASSUME CadenceAssumption, NEW p, NEW clock
    PROVE  /\ BasicReason(p) \in Reasons \cup {None} /\ BranchReason(p) \in Reasons \cup {None}
           /\ TimeReason(p, clock) \in Reasons \cup {None}
           /\ RejectionReason(p) \in Reasons \cup {None}
           /\ AttemptRejection(p) \in Reasons \cup {None}
<1>1. BasicReason(p) \in Reasons \cup {None}  BY DEF BasicReason, Reasons
<1>2. TimeReason(p, clock) \in Reasons \cup {None}  BY DEF TimeReason, Reasons
<1>3. LogicalDuplicate(p) \in Reasons \cup {None}  BY DEF LogicalDuplicate, Reasons
<1>4. BranchReason(p) \in Reasons \cup {None}  BY <1>3 DEF BranchReason, Reasons
<1>5. TimeReason(p, now) \in Reasons \cup {None} /\ TimeReason(p, MaxTime) \in Reasons \cup {None}
  BY DEF TimeReason, Reasons
<1>6. RejectionReason(p) \in Reasons \cup {None}  BY <1>1, <1>4, <1>5 DEF RejectionReason, Reasons
<1>7. AttemptRejection(p) \in Reasons \cup {None}  BY <1>5 DEF AttemptRejection, Reasons
<1> QED  BY <1>1, <1>2, <1>4, <1>6, <1>7

\* An attempt without a reason against its times is on time.
LEMMA TimelyFacts ==
    ASSUME CadenceAssumption, NEW p \in RunType, p.slot \in Slots, NEW clock,
           TimeReason(p, clock) = None, p.outcome = "ok", p.mode # "manual"
    PROVE  Timely(p)
<1>1. /\ p.started \in Nat /\ p.completed \in Nat /\ Due[p.slot] \in Nat
      /\ StartLimit \in Nat /\ CompletionLimit \in Nat
  BY DEF RunType, CadenceAssumption
<1>2. None \notin Reasons  BY DEF CadenceAssumption
<1>3. ~(p.started < Due[p.slot]) /\ ~(p.started >= Due[p.slot] + StartLimit)
      /\ ~(p.completed >= p.started + CompletionLimit)
  BY <1>2 DEF TimeReason, Reasons
<1> QED  BY <1>1, <1>3 DEF Timely

\* What the recorder credits was on time, in a live epoch and, if a retry, proved.
LEMMA RecorderCredit ==
    ASSUME CadenceAssumption, NEW p \in RunType, p.slot \in Slots,
           RejectionReason(p) = None
    PROVE  /\ Timely(p) /\ accepted[p.slot] = None /\ contract # "invalidated"
           /\ p.mode = "retry" => RetryProof(p)
<1>1. None \notin Reasons  BY DEF CadenceAssumption
<1>2. BasicReason(p) = None /\ accepted[p.slot] = None /\ BranchReason(p) = None
      /\ TimeReason(p, now) = None
  BY <1>1 DEF RejectionReason, Reasons
<1>3. contract # "invalidated" /\ p.outcome = "ok" /\ p.mode # "manual"
  BY <1>1, <1>2 DEF BasicReason, Reasons
<1>4. p.mode = "retry" => RetryProof(p)  BY <1>1, <1>2 DEF BranchReason, Reasons
<1> QED  BY <1>2, <1>3, <1>4, TimelyFacts

\* What the release scripts' store credits was on time.
LEMMA StoreCredit ==
    ASSUME CadenceAssumption, NEW p \in RunType, p.slot \in Slots,
           AttemptRejection(p) = None
    PROVE  Timely(p)
<1>1. None \notin Reasons  BY DEF CadenceAssumption
<1>2. p.mode # "manual" /\ p.outcome = "ok" /\ TimeReason(p, MaxTime) = None
  BY <1>1 DEF AttemptRejection, Reasons
<1> QED  BY <1>2, TimelyFacts

-----------------------------------------------------------------------------
(* Writing an attempt *)

\* The row an attempt leaves.
LEMMA RowFacts ==
    ASSUME NEW p \in RunType, p.slot \in Slots, p.mode \in Modes, p.outcome \in Outcomes,
           p.cadence \in {1, 2}, CadenceAssumption,
           NEW reason \in Reasons \cup {"accepted"}, NEW credited \in BOOLEAN,
           NEW retry \in BOOLEAN, NEW row, row = Row(p, reason, credited, retry)
    PROVE  /\ row \in RowType /\ row # None
           /\ row.slot = p.slot /\ row.mode = p.mode /\ row.cadence = p.cadence
           /\ row.pred = p.pred /\ row.started = p.started /\ row.completed = p.completed
           /\ row.outcome = p.outcome /\ row.accepted = credited /\ row.retry = retry
<1>1. row \in RowType  BY DEF Row, RowType, RunType
<1> QED  BY <1>1, NoneAssumption DEF Row

\* What an attempt may carry into its row.
Admissible(p, reason, retry) ==
    /\ p \in RunType /\ p.slot \in Slots /\ p.mode \in Modes /\ p.outcome \in Outcomes
    /\ p.cadence \in {1, 2}
    /\ reason \in Reasons \cup {None} /\ retry \in BOOLEAN
    /\ reason = None => Timely(p)
    /\ ~DirectStore =>
          /\ retry => Retriable(p)
          /\ reason = None /\ p.mode = "retry" => RetryProof(p)

\* Writing keeps what is recorded and earned; it earns at most the slot of the
\* attempt, which nobody had earned.
LEMMA WriteEffect ==
    ASSUME CadenceAssumption, RowsSound, NEW a \in AttemptIds, attempts[a] = None,
           NEW p, NEW reason, NEW retry, Admissible(p, reason, retry),
           WriteAttempt(a, p, reason, retry)
    PROVE  \E row, credited :
              /\ credited \in BOOLEAN /\ row \in RowType /\ row # None /\ RowSound(row)
              /\ row.slot = p.slot /\ row.accepted = credited
              /\ credited => reason = None /\ accepted[p.slot] = None
              /\ ~credited => reason # None \/ accepted[p.slot] # None
              /\ attempts' = [attempts EXCEPT ![a] = row]
              /\ accepted' = IF credited THEN [accepted EXCEPT ![p.slot] = a] ELSE accepted
<1> DEFINE credited == reason = None /\ accepted[p.slot] = None
           final == IF credited THEN "accepted"
                    ELSE IF reason = None THEN "duplicate_after_acceptance" ELSE reason
           again == retry /\ ~credited
           row == Row(p, final, credited, again)
<1>1. /\ attempts' = [attempts EXCEPT ![a] = row]
      /\ accepted' = IF credited THEN [accepted EXCEPT ![p.slot] = a] ELSE accepted
  BY DEF WriteAttempt, CasSlot
<1>2. final \in Reasons \cup {"accepted"} /\ credited \in BOOLEAN /\ again \in BOOLEAN
  BY DEF Admissible, Reasons
<1>3. /\ credited => reason = None /\ accepted[p.slot] = None
      /\ ~credited => reason # None \/ accepted[p.slot] # None
      /\ credited => ~again /\ Timely(p)
      /\ again => retry
  BY DEF Admissible
<1>4. PICK c \in BOOLEAN : c = credited  BY <1>2
<1>5. PICK g \in BOOLEAN : g = again  BY <1>2
<1>6. PICK f \in Reasons \cup {"accepted"} : f = final  BY <1>2
<1>7. PICK w : w = Row(p, f, c, g)  OBVIOUS
<1>8. w = row  BY <1>4, <1>5, <1>6, <1>7
<1>9. /\ c => reason = None /\ accepted[p.slot] = None
      /\ ~c => reason # None \/ accepted[p.slot] # None
      /\ c => ~g /\ Timely(p)
      /\ g => retry
  BY <1>3, <1>4, <1>5
<1>10. /\ attempts' = [attempts EXCEPT ![a] = w]
       /\ accepted' = IF c THEN [accepted EXCEPT ![p.slot] = a] ELSE accepted
  BY <1>1, <1>4, <1>8
<1> HIDE DEF credited, final, again, row
<1>11. /\ w \in RowType /\ w # None
       /\ w.slot = p.slot /\ w.mode = p.mode /\ w.cadence = p.cadence
       /\ w.pred = p.pred /\ w.started = p.started /\ w.completed = p.completed
       /\ w.outcome = p.outcome /\ w.accepted = c /\ w.retry = g
  BY <1>7, RowFacts DEF Admissible
<1>12. /\ Timely(p) => Timely(w)
       /\ Retriable(p) => Retriable(w)
       /\ RetryProof(p) => RetryProof(w)
  BY <1>11 DEF Timely, Retriable, RetryProof
<1>13. RowSound(w)  BY <1>9, <1>11, <1>12 DEF RowSound, Admissible
<1> QED  BY <1>4, <1>9, <1>10, <1>11, <1>13

\* The tables stay sound, and keep their evidence.
LEMMA WriteKeepsTables ==
    ASSUME CadenceAssumption, RowsSound, PointerAgrees,
           NEW a \in AttemptIds, attempts[a] = None,
           NEW p, NEW reason, NEW retry, Admissible(p, reason, retry),
           WriteAttempt(a, p, reason, retry)
    PROVE  /\ RowsSound' /\ PointerAgrees'
           /\ \A b \in Recorded : attempts'[b] = attempts[b]
           /\ \A s \in Slots : accepted[s] # None => accepted'[s] = accepted[s]
           /\ accepted' # accepted => reason = None
<1>1. PICK row, credited :
              /\ credited \in BOOLEAN /\ row \in RowType /\ row # None /\ RowSound(row)
              /\ row.slot = p.slot /\ row.accepted = credited
              /\ credited => reason = None /\ accepted[p.slot] = None
              /\ ~credited => reason # None \/ accepted[p.slot] # None
              /\ attempts' = [attempts EXCEPT ![a] = row]
              /\ accepted' = IF credited THEN [accepted EXCEPT ![p.slot] = a] ELSE accepted
  BY WriteEffect
<1>2. p.slot \in Slots  BY DEF Admissible
<1>3. /\ attempts' \in [AttemptIds -> RowType \cup {None}]
      /\ accepted' \in [Slots -> AttemptIds \cup {None}]
      /\ attempts'[a] = row
      /\ \A b \in AttemptIds : b # a => attempts'[b] = attempts[b]
      /\ \A s \in Slots : s # p.slot => accepted'[s] = accepted[s]
      /\ accepted'[p.slot] = IF credited THEN a ELSE accepted[p.slot]
  BY <1>1, <1>2 DEF RowsSound
<1>4. Recorded' = Recorded \cup {a}
  <2>1. \A b : b \in Recorded' <=> b \in AttemptIds /\ attempts'[b] # None  BY DEF Recorded
  <2>2. \A b : b \in Recorded <=> b \in AttemptIds /\ attempts[b] # None  BY DEF Recorded
  <2> QED  BY <1>1, <1>3, <2>1, <2>2
<1>5. a \notin Recorded  BY DEF Recorded
<1>6. \A b \in Recorded : attempts'[b] = attempts[b] /\ b \in AttemptIds /\ b # a
  BY <1>3, <1>5 DEF Recorded
<1>7. \A r : RetryProof(r) => RetryProof(r)'
  <2> SUFFICES ASSUME NEW r, RetryProof(r) PROVE RetryProof(r)'  OBVIOUS
  <2>1. r.pred \in Recorded  BY DEF RetryProof
  <2>2. r.pred \in Recorded' /\ attempts'[r.pred] = attempts[r.pred]  BY <1>4, <1>6, <2>1
  <2> QED  BY <2>2 DEF RetryProof
<1>8. \A r : RowSound(r) => RowSound(r)'
  <2> SUFFICES ASSUME NEW r, RowSound(r) PROVE RowSound(r)'  OBVIOUS
  <2> QED  BY <1>7 DEF RowSound, Timely, Retriable
<1>9. RowsSound'
  <2>1. \A b \in Recorded' : RowSound(attempts[b])'
    <3> SUFFICES ASSUME NEW b \in Recorded' PROVE RowSound(attempts[b])'  OBVIOUS
    <3>1. PICK r : r = attempts'[b]  OBVIOUS
    <3>2. RowSound(r)
      <4>1. CASE b = a  BY <1>1, <1>3, <3>1, <4>1
      <4>2. CASE b # a  BY <1>4, <1>6, <3>1, <4>2 DEF RowsSound
      <4> QED  BY <4>1, <4>2
    <3>3. RowSound(r)'  BY <1>8, <3>2
    <3> QED  BY <3>1, <3>3
  <2> QED  BY <1>3, <2>1 DEF RowsSound
<1>10. PointerAgrees'
  <2> SUFFICES ASSUME NEW b \in AttemptIds, NEW s \in Slots
               PROVE  accepted'[s] = b
                        <=> b \in Recorded' /\ attempts'[b].accepted /\ attempts'[b].slot = s
    BY DEF PointerAgrees
  <2>0. None \notin AttemptIds  BY DEF CadenceAssumption, AttemptIds
  <2>1. accepted[s] = b <=> b \in Recorded /\ attempts[b].accepted /\ attempts[b].slot = s
    BY DEF PointerAgrees
  <2>2. CASE b = a
    <3>1. accepted[s] # a  BY <1>5, <2>1, <2>2
    <3>2. accepted'[s] = a <=> credited /\ s = p.slot  BY <1>2, <1>3, <3>1
    <3>3. attempts'[b].accepted = credited /\ attempts'[b].slot = p.slot /\ b \in Recorded'
      BY <1>1, <1>3, <1>4, <2>2
    <3> QED  BY <1>1, <2>2, <3>2, <3>3
  <2>3. CASE b # a
    <3>1. b \in Recorded' <=> b \in Recorded  BY <1>4, <2>3
    <3>2. attempts'[b] = attempts[b]  BY <1>3, <2>3
    <3>3. accepted'[s] = b <=> accepted[s] = b
      <4>1. CASE credited /\ s = p.slot  BY <1>1, <1>3, <2>0, <2>3, <4>1
      <4>2. CASE ~(credited /\ s = p.slot)  BY <1>1, <1>3, <4>2
      <4> QED  BY <4>1, <4>2
    <3> QED  BY <2>1, <3>1, <3>2, <3>3
  <2> QED  BY <2>2, <2>3
<1>11. \A s \in Slots : accepted[s] # None => accepted'[s] = accepted[s]  BY <1>1, <1>3
<1>12. accepted' # accepted => reason = None  BY <1>1
<1> QED  BY <1>6, <1>9, <1>10, <1>11, <1>12

-----------------------------------------------------------------------------
(* The runs *)

\* A write to one run's row keeps the others sound.
LEMMA RunUpdate ==
    ASSUME RunsSound, NEW r \in Runs, NEW p, RunSound(p), runs' = [runs EXCEPT ![r] = p]
    PROVE  RunsSound'
<1>1. p \in RunType  BY DEF RunSound
<1>2. runs' \in [Runs -> RunType]  BY <1>1 DEF RunsSound
<1>3. \A q \in Runs : runs'[q] = IF q = r THEN p ELSE runs[q]  BY DEF RunsSound
<1>4. \A q \in Runs : RunSound(runs'[q])  BY <1>3 DEF RunsSound
<1> QED  BY <1>2, <1>4 DEF RunsSound, RunSound

\* A run that begins.
LEMMA BeginKeeps ==
    ASSUME CadenceAssumption, RunsSound, now \in 0..MaxTime, NEW r \in Runs,
           NEW attempt \in 1..MaxRunAttempts, NEW mode \in Modes, NEW slot \in Slots \cup {None},
           NEW pred \in AttemptIds \cup {None}, Begin(r, attempt, mode, slot, pred)
    PROVE  RunsSound'
<1>1. PICK q : q = [phase |-> "running", attempt |-> attempt, slot |-> slot, mode |-> mode,
                    cadence |-> CadenceOf(mode), pred |-> pred, started |-> now,
                    completed |-> 0, outcome |-> None, answer |-> None]
  OBVIOUS
<1>2. runs' = [runs EXCEPT ![r] = q]  BY <1>1 DEF Begin, CadenceOf
<1>3. CadenceOf(mode) \in 0..2  BY DEF CadenceOf
<1>4. q \in RunType  BY <1>1, <1>3 DEF RunType, Phases, CadenceAssumption
<1>5. q.phase = "running" /\ q.attempt = attempt /\ q.mode = mode
      /\ q.cadence = CadenceOf(mode)
  BY <1>1
<1>6. RunSound(q)  BY <1>4, <1>5 DEF RunSound
<1> QED  BY <1>2, <1>6, RunUpdate

\* A run that ends.
LEMMA FinishKeeps ==
    ASSUME CadenceAssumption, RunsSound, now \in 0..MaxTime, NEW r \in Runs,
           NEW outcome \in Outcomes, FinishRun(r, outcome)
    PROVE  RunsSound'
<1>1. PICK q : q = [runs[r] EXCEPT !.phase = "finished", !.completed = now, !.outcome = outcome]
  OBVIOUS
<1>2. runs[r] \in RunType /\ RunSound(runs[r]) /\ runs[r].phase = "running"
  BY DEF RunsSound, FinishRun
<1>3. runs' = [runs EXCEPT ![r] = q]  BY <1>1, <1>2 DEF FinishRun, RunsSound
<1>4. q \in RunType  BY <1>1, <1>2 DEF RunType, Phases
<1>5. /\ q.phase = "finished" /\ q.attempt = runs[r].attempt /\ q.mode = runs[r].mode
      /\ q.cadence = runs[r].cadence /\ q.outcome = outcome
  BY <1>1, <1>2 DEF RunType
<1>6. RunSound(q)  BY <1>2, <1>4, <1>5 DEF RunSound
<1> QED  BY <1>3, <1>6, RunUpdate

\* A run that posts.
LEMMA AnswerKeeps ==
    ASSUME RunsSound, NEW r \in Runs, runs[r].phase \notin {"idle", "running"},
           NEW ok \in BOOLEAN, NEW answer \in Reasons \cup {"accepted", "refused", "error", None},
           Answer(r, ok, answer)
    PROVE  RunsSound'
<1> DEFINE phase == IF ok THEN "done" ELSE "failed"
<1>0. phase \in {"done", "failed"}  OBVIOUS
<1>1. PICK q : q = [runs[r] EXCEPT !.phase = phase, !.answer = answer]
  OBVIOUS
<1>2. runs[r] \in RunType /\ RunSound(runs[r])  BY DEF RunsSound
<1>3. runs' = [runs EXCEPT ![r] = q]  BY <1>1, <1>2 DEF Answer, RunsSound
<1> HIDE DEF phase
<1>4. q \in RunType  BY <1>0, <1>1, <1>2 DEF RunType, Phases
<1>5. /\ q.phase = phase /\ q.attempt = runs[r].attempt /\ q.mode = runs[r].mode
      /\ q.cadence = runs[r].cadence /\ q.outcome = runs[r].outcome
  BY <1>1, <1>2 DEF RunType
<1>6. RunSound(q)  BY <1>0, <1>2, <1>4, <1>5 DEF RunSound
<1> QED  BY <1>3, <1>6, RunUpdate

\* What a run that ended may write.
LEMMA EndedRun ==
    ASSUME CadenceAssumption, RunsSound, NEW r \in Runs, runs[r].phase \notin {"idle", "running"}
    PROVE  /\ runs[r] \in RunType /\ runs[r].mode \in Modes /\ runs[r].outcome \in Outcomes
           /\ runs[r].cadence = CadenceOf(runs[r].mode) /\ runs[r].cadence \in {1, 2}
           /\ runs[r].slot \in Slots \cup {None} /\ AttemptId(r) \in AttemptIds
<1>1. RunSound(runs[r]) /\ runs[r] \in RunType  BY DEF RunsSound
<1>2. runs[r].attempt \in 1..MaxRunAttempts
  BY <1>1 DEF RunSound, RunType, CadenceAssumption
<1>3. CadenceOf(runs[r].mode) \in {1, 2}  BY DEF CadenceOf
<1>4. AttemptId(r) \in AttemptIds  BY <1>2 DEF AttemptId, AttemptIds
<1> QED  BY <1>1, <1>3, <1>4 DEF RunSound, RunType

-----------------------------------------------------------------------------
(* The steps *)

\* What every step owes the tables.
TablesKept ==
    /\ RowsSound' /\ PointerAgrees'
    /\ \A a \in Recorded : attempts'[a] = attempts[a]
    /\ \A s \in Slots : accepted[s] # None => accepted'[s] = accepted[s]
    /\ contract = "invalidated" => accepted' = accepted

\* A step that writes no evidence row keeps what the tables hold.
LEMMA TablesUnchanged ==
    ASSUME RowsSound, PointerAgrees, UNCHANGED <<accepted, attempts>>
    PROVE  TablesKept
<1>1. Recorded' = Recorded  BY DEF Recorded
<1>2. \A r : RetryProof(r) => RetryProof(r)'
  <2> SUFFICES ASSUME NEW r, RetryProof(r) PROVE RetryProof(r)'  OBVIOUS
  <2> QED  BY <1>1 DEF RetryProof
<1>3. \A r : RowSound(r) => RowSound(r)'
  <2> SUFFICES ASSUME NEW r, RowSound(r) PROVE RowSound(r)'  OBVIOUS
  <2> QED  BY <1>2 DEF RowSound, Timely, Retriable
<1>4. \A a \in Recorded' : RowSound(attempts[a])'
  <2> SUFFICES ASSUME NEW a \in Recorded' PROVE RowSound(attempts[a])'  OBVIOUS
  <2>1. PICK r : r = attempts[a]  OBVIOUS
  <2>2. RowSound(r)'  BY <1>1, <1>3, <2>1 DEF RowsSound
  <2>3. attempts'[a] = r  BY <2>1
  <2> QED  BY <2>2, <2>3
<1>5. RowsSound'  BY <1>4 DEF RowsSound
<1>6. PointerAgrees'  BY <1>1 DEF PointerAgrees
<1> QED  BY <1>5, <1>6 DEF TablesKept

\* The recorder's transaction.
LEMMA RecordKeeps ==
    ASSUME CadenceAssumption, RunsSound, RowsSound, PointerAgrees,
           NEW r \in Runs, NEW lost \in BOOLEAN, Record(r, lost)
    PROVE  RunsSound' /\ TablesKept
<1>1. runs[r].phase \notin {"idle", "running"}  BY DEF Record
<1>2. PICK p : p = runs[r]  OBVIOUS
<1>3. PICK a : a = AttemptId(r)  OBVIOUS
<1>4. PICK reason : reason = IF p.slot = None THEN None ELSE RejectionReason(p)  OBVIOUS
<1>5. /\ p \in RunType /\ p.mode \in Modes /\ p.outcome \in Outcomes /\ a \in AttemptIds
      /\ p.cadence = CadenceOf(p.mode) /\ p.cadence \in {1, 2} /\ p.slot \in Slots \cup {None}
  BY <1>1, <1>2, <1>3, EndedRun
<1>6. reason \in Reasons \cup {None}  BY <1>4, ReasonFacts
<1>7. \/ /\ attempts[a] # None
         /\ Answer(r, ~lost /\ SameAttempt(p, attempts[a])
                      /\ ReceiptOk(p, attempts[a].accepted), attempts[a].reason)
         /\ UNCHANGED <<accepted, attempts>>
      \/ /\ \/ Answer(r, FALSE, "refused")
            \/ Answer(r, FALSE, "error")
         /\ UNCHANGED <<accepted, attempts>>
      \/ /\ attempts[a] = None /\ p.slot # None
         /\ WriteAttempt(a, p, reason, RetryPermitted(p, reason))
         /\ Answer(r, ~lost /\ ReceiptOk(p, reason = None),
                   IF reason = None THEN "accepted" ELSE reason)
  BY <1>2, <1>3, <1>4 DEF Record
<1>8. CASE /\ attempts[a] # None
           /\ Answer(r, ~lost /\ SameAttempt(p, attempts[a])
                        /\ ReceiptOk(p, attempts[a].accepted), attempts[a].reason)
           /\ UNCHANGED <<accepted, attempts>>
  <2>1. attempts[a].reason \in Reasons \cup {"accepted"} /\ attempts[a].accepted \in BOOLEAN
    <3>1. attempts[a] \in RowType  BY <1>5, <1>8 DEF RowsSound
    <3> QED  BY <3>1 DEF RowType
  <2>2. (~lost /\ SameAttempt(p, attempts[a]) /\ ReceiptOk(p, attempts[a].accepted)) \in BOOLEAN
    OBVIOUS
  <2>3. RunsSound'  BY <1>1, <1>8, <2>1, <2>2, AnswerKeeps
  <2> QED  BY <1>8, <2>3, TablesUnchanged
<1>9. CASE /\ \/ Answer(r, FALSE, "refused")
              \/ Answer(r, FALSE, "error")
           /\ UNCHANGED <<accepted, attempts>>
  <2>1. RunsSound'  BY <1>1, <1>9, AnswerKeeps
  <2> QED  BY <1>9, <2>1, TablesUnchanged
<1>10. CASE /\ attempts[a] = None /\ p.slot # None
            /\ WriteAttempt(a, p, reason, RetryPermitted(p, reason))
            /\ Answer(r, ~lost /\ ReceiptOk(p, reason = None),
                      IF reason = None THEN "accepted" ELSE reason)
  <2>1. p.slot \in Slots  BY <1>5, <1>10
  <2>2. reason = None => Timely(p) /\ contract # "invalidated" /\ (p.mode = "retry" => RetryProof(p))
    BY <1>4, <1>5, <1>10, <2>1, RecorderCredit
  <2>3. RetryPermitted(p, reason) \in BOOLEAN /\ (RetryPermitted(p, reason) => Retriable(p))
    BY DEF RetryPermitted, Retriable
  <2>4. PICK retry \in BOOLEAN : retry = RetryPermitted(p, reason)  BY <2>3
  <2>5. Admissible(p, reason, retry)  BY <1>5, <1>6, <2>1, <2>2, <2>3, <2>4 DEF Admissible
  <2>6. WriteAttempt(a, p, reason, retry)  BY <1>10, <2>4
  <2>7. TablesKept
    BY <1>5, <1>10, <2>2, <2>5, <2>6, WriteKeepsTables DEF TablesKept
  <2>8. (IF reason = None THEN "accepted" ELSE reason)
            \in Reasons \cup {"accepted", "refused", "error", None}
    BY <1>6
  <2>9. (~lost /\ ReceiptOk(p, reason = None)) \in BOOLEAN  OBVIOUS
  <2>10. RunsSound'  BY <1>1, <1>10, <2>8, <2>9, AnswerKeeps
  <2> QED  BY <2>7, <2>10
<1> QED  BY <1>7, <1>8, <1>9, <1>10

\* The release scripts' store.
LEMMA StoreRecordKeeps ==
    ASSUME CadenceAssumption, RunsSound, RowsSound, PointerAgrees,
           NEW r \in Runs, StoreRecord(r)
    PROVE  RunsSound' /\ TablesKept
<1>1. runs[r].phase \notin {"idle", "running"} /\ DirectStore  BY DEF StoreRecord
<1>2. PICK p : p = runs[r]  OBVIOUS
<1>3. PICK a : a = AttemptId(r)  OBVIOUS
<1>4. PICK reason : reason = IF p.slot # None /\ accepted[p.slot] # None
                               THEN "duplicate_after_acceptance" ELSE AttemptRejection(p)
  OBVIOUS
<1>5. /\ p \in RunType /\ p.mode \in Modes /\ p.outcome \in Outcomes /\ a \in AttemptIds
      /\ p.cadence = CadenceOf(p.mode) /\ p.cadence \in {1, 2} /\ p.slot \in Slots \cup {None}
  BY <1>1, <1>2, <1>3, EndedRun
<1>6. reason \in Reasons \cup {None}  BY <1>4, ReasonFacts DEF Reasons
<1>7. \/ /\ contract = "live" /\ p.slot # None /\ attempts[a] = None
         /\ WriteAttempt(a, p, reason, reason # None /\ RetryAllowed(p, reason))
         /\ Answer(r, TRUE, IF reason = None THEN "accepted" ELSE reason)
      \/ Answer(r, FALSE, "refused") /\ UNCHANGED <<accepted, attempts>>
  BY <1>2, <1>3, <1>4 DEF StoreRecord, ContractAgrees
<1>8. CASE Answer(r, FALSE, "refused") /\ UNCHANGED <<accepted, attempts>>
  <2>1. RunsSound'  BY <1>1, <1>8, AnswerKeeps
  <2> QED  BY <1>8, <2>1, TablesUnchanged
<1>9. CASE /\ contract = "live" /\ p.slot # None /\ attempts[a] = None
           /\ WriteAttempt(a, p, reason, reason # None /\ RetryAllowed(p, reason))
           /\ Answer(r, TRUE, IF reason = None THEN "accepted" ELSE reason)
  <2>1. p.slot \in Slots  BY <1>5, <1>9
  <2>2. reason = None => Timely(p)
    <3> SUFFICES ASSUME reason = None PROVE Timely(p)  OBVIOUS
    <3>1. None \notin Reasons /\ "duplicate_after_acceptance" \in Reasons
      BY CadenceAssumption DEF CadenceAssumption, Reasons
    <3>2. AttemptRejection(p) = None  BY <1>4, <3>1
    <3> QED  BY <1>5, <2>1, <3>2, StoreCredit
  <2>3. PICK retry \in BOOLEAN : retry = (reason # None /\ RetryAllowed(p, reason))
    BY DEF RetryAllowed
  <2>4. Admissible(p, reason, retry)  BY <1>1, <1>5, <1>6, <2>1, <2>2 DEF Admissible
  <2>5. WriteAttempt(a, p, reason, retry)  BY <1>9, <2>3
  <2>6. TablesKept
    BY <1>5, <1>9, <2>4, <2>5, WriteKeepsTables DEF TablesKept
  <2>7. (IF reason = None THEN "accepted" ELSE reason)
            \in Reasons \cup {"accepted", "refused", "error", None}
    BY <1>6
  <2>8. RunsSound'  BY <1>1, <1>9, <2>7, AnswerKeeps
  <2> QED  BY <2>6, <2>8
<1> QED  BY <1>7, <1>8, <1>9

\* A step of a run: its start, its end, its re-run and its posts.
LEMMA RunStepKeeps ==
    ASSUME CadenceAssumption, CadenceInv, NEW r \in Runs,
           \/ \E m \in Modes : StartRun(r, m)
           \/ \E o \in Outcomes : FinishRun(r, o)
           \/ \E lost \in BOOLEAN : Record(r, lost)
           \/ StoreRecord(r)
           \/ Rerun(r)
    PROVE  RunsSound' /\ TablesKept /\ UNCHANGED <<now, contract, current, prior, report>>
<1>0. RunsSound /\ RowsSound /\ PointerAgrees /\ now \in 0..MaxTime /\ now \in Nat
  BY DEF CadenceInv, ClockSound, CadenceAssumption
<1>1. ASSUME NEW m \in Modes, StartRun(r, m)
      PROVE  RunsSound' /\ TablesKept /\ UNCHANGED <<now, contract, current, prior, report>>
  <2>1. CASE m = "retry"
    <3>1. PICK a \in Recorded : Begin(r, 1, m, attempts[a].slot, a)
      BY <1>1, <2>1 DEF StartRun
    <3>2. a \in AttemptIds /\ attempts[a] \in RowType
      BY <1>0 DEF Recorded, RowsSound, RowSound
    <3>3. attempts[a].slot \in Slots \cup {None} /\ 1 \in 1..MaxRunAttempts
      BY <3>2 , CadenceAssumption DEF RowType, CadenceAssumption
    <3>4. RunsSound'  BY <1>0, <3>1, <3>2, <3>3, BeginKeeps
    <3> QED  BY <1>0, <1>1, <3>4, TablesUnchanged DEF StartRun
  <2>2. CASE m # "retry"
    <3>1. Begin(r, 1, m, ScheduledSlot, None)  BY <1>1, <2>2 DEF StartRun
    <3>2. ScheduledSlot \in Slots \cup {None} /\ 1 \in 1..MaxRunAttempts
      BY <1>0, ScheduledSlotFacts DEF CadenceAssumption
    <3>3. RunsSound'  BY <1>0, <3>1, <3>2, BeginKeeps
    <3> QED  BY <1>0, <1>1, <3>3, TablesUnchanged DEF StartRun
  <2> QED  BY <2>1, <2>2
<1>2. ASSUME NEW o \in Outcomes, FinishRun(r, o)
      PROVE  RunsSound' /\ TablesKept /\ UNCHANGED <<now, contract, current, prior, report>>
  <2>1. RunsSound'  BY <1>0, <1>2, FinishKeeps
  <2> QED  BY <1>0, <1>2, <2>1, TablesUnchanged DEF FinishRun
<1>3. ASSUME NEW lost \in BOOLEAN, Record(r, lost)
      PROVE  RunsSound' /\ TablesKept /\ UNCHANGED <<now, contract, current, prior, report>>
  <2>1. RunsSound' /\ TablesKept  BY <1>0, <1>3, RecordKeeps
  <2> QED  BY <1>3, <2>1 DEF Record
<1>4. ASSUME StoreRecord(r)
      PROVE  RunsSound' /\ TablesKept /\ UNCHANGED <<now, contract, current, prior, report>>
  <2>1. RunsSound' /\ TablesKept  BY <1>0, <1>4, StoreRecordKeeps
  <2> QED  BY <1>4, <2>1 DEF StoreRecord
<1>5. ASSUME Rerun(r)
      PROVE  RunsSound' /\ TablesKept /\ UNCHANGED <<now, contract, current, prior, report>>
  <2>1. runs[r].phase # "idle"  BY <1>5 DEF Rerun
  <2>2. RunSound(runs[r]) /\ runs[r] \in RunType  BY <1>0 DEF RunsSound
  <2>3. /\ runs[r].attempt \in 0..MaxRunAttempts /\ runs[r].slot \in Slots \cup {None}
        /\ runs[r].pred \in AttemptIds \cup {None} /\ runs[r].mode \in Modes
    BY <2>1, <2>2 DEF RunSound, RunType
  <2>4. runs[r].attempt + 1 \in 1..MaxRunAttempts
    BY <1>5, <2>3 DEF Rerun, CadenceAssumption
  <2>5. PICK slot : slot = IF runs[r].mode = "retry" THEN runs[r].slot ELSE ScheduledSlot
    OBVIOUS
  <2>6. slot \in Slots \cup {None}  BY <1>0, <2>3, <2>5, ScheduledSlotFacts
  <2>7. Begin(r, runs[r].attempt + 1, runs[r].mode, slot, runs[r].pred)
    BY <1>5, <2>5 DEF Rerun
  <2>8. RunsSound'  BY <1>0, <2>3, <2>4, <2>6, <2>7, BeginKeeps
  <2> QED  BY <1>0, <1>5, <2>8, TablesUnchanged DEF Rerun
<1> QED  BY <1>1, <1>2, <1>3, <1>4, <1>5

\* The other steps: the clock, the epoch and the gate, which write no evidence.
EpochStep == Tick \/ Materialize \/ Invalidate \/ Status \/ Acceptance

\* Each step of an epoch keeps the invariant and the evidence.
LEMMA EpochStepKeeps ==
    ASSUME CadenceAssumption, CadenceInv, EpochStep
    PROVE  CadenceInv' /\ TablesKept
<1>0. /\ RunsSound /\ RowsSound /\ PointerAgrees /\ CompleteIsEarned
      /\ now \in 0..MaxTime /\ now \in Nat /\ MaxTime \in Nat /\ ClosesAt \in Nat
      /\ contract \in {"none", "live", "invalidated"}
      /\ report \in {"none", "pending", "hold", "complete"}
  BY DEF CadenceInv, ClockSound, CadenceAssumption
<1>1. UNCHANGED <<accepted, attempts, runs>>
  BY DEF EpochStep, Tick, Materialize, Invalidate, Status, Acceptance
<1>2. TablesKept  BY <1>0, <1>1, TablesUnchanged
<1>3. RunsSound'  BY <1>0, <1>1 DEF RunsSound, RunSound
<1>4. ClockSound' /\ CompleteIsEarned'
  <2>1. CASE Tick  BY <1>0, <2>1 DEF Tick, ClockSound, CompleteIsEarned
  <2>2. CASE Materialize  BY <1>0, <2>2 DEF Materialize, ClockSound, CompleteIsEarned
  <2>3. CASE Invalidate  BY <1>0, <2>3 DEF Invalidate, ClockSound, CompleteIsEarned
  <2>4. CASE Status  BY <1>0, <2>4 DEF Status, ClockSound, CompleteIsEarned
  <2>5. CASE Acceptance  BY <1>0, <2>5 DEF Acceptance, ClockSound, CompleteIsEarned, Complete
  <2> QED  BY <2>1, <2>2, <2>3, <2>4, <2>5 DEF EpochStep
<1> QED  BY <1>2, <1>3, <1>4 DEF CadenceInv, TablesKept

\* Every step keeps the invariant and the evidence.
LEMMA StepKeeps ==
    ASSUME CadenceAssumption, CadenceInv, [Next]_vars
    PROVE  CadenceInv' /\ TablesKept
<1>1. CASE UNCHANGED vars
  <2>0. RunsSound /\ RowsSound /\ PointerAgrees  BY DEF CadenceInv
  <2>1. TablesKept  BY <1>1, <2>0, TablesUnchanged DEF vars
  <2>2. ClockSound' /\ CompleteIsEarned' /\ RunsSound'
    BY <1>1 DEF vars, CadenceInv, ClockSound, CompleteIsEarned, RunsSound, RunSound
  <2> QED  BY <2>1, <2>2 DEF CadenceInv, TablesKept
<1>2. CASE EpochStep  BY <1>2, EpochStepKeeps
<1>3. CASE \E r \in Runs :
              \/ \E m \in Modes : StartRun(r, m)
              \/ \E o \in Outcomes : FinishRun(r, o)
              \/ \E lost \in BOOLEAN : Record(r, lost)
              \/ StoreRecord(r)
              \/ Rerun(r)
  <2>1. RunsSound' /\ TablesKept /\ UNCHANGED <<now, contract, current, prior, report>>
    BY <1>3, RunStepKeeps
  <2>2. ClockSound'  BY <2>1 DEF CadenceInv, ClockSound
  <2>3. CompleteIsEarned'  BY <2>1 DEF CadenceInv, CompleteIsEarned, TablesKept
  <2> QED  BY <2>1, <2>2, <2>3 DEF CadenceInv, TablesKept
<1> QED  BY <1>1, <1>2, <1>3 DEF Next, EpochStep

-----------------------------------------------------------------------------
(* The theorems *)

\* The inductive invariant: what a run carries, what a row's verdict rests on, and
\* that pointers and verdicts agree, through every recorder call, store call,
\* re-run, lost answer and invalidation.
THEOREM CadenceInvariant == Spec => []CadenceInv
<1>1. Init => CadenceInv
  <2> SUFFICES ASSUME Init PROVE CadenceInv  OBVIOUS
  <2>1. Recorded = {}  BY DEF Init, Recorded
  <2>2. RowsSound  BY <2>1 DEF Init, RowsSound
  <2>3. PointerAgrees
    <3>1. None \notin AttemptIds  BY CadenceAssumption DEF CadenceAssumption, AttemptIds
    <3>2. \A s \in Slots : accepted[s] = None  BY DEF Init
    <3> QED  BY <2>1, <3>1, <3>2 DEF PointerAgrees
  <2>4. Idle \in RunType /\ RunSound(Idle)
    BY CadenceAssumption DEF Idle, RunType, RunSound, Phases, CadenceAssumption
  <2>5. RunsSound  BY <2>4 DEF Init, RunsSound
  <2>6. ClockSound /\ CompleteIsEarned
    BY CadenceAssumption DEF Init, ClockSound, CompleteIsEarned, CadenceAssumption
  <2> QED  BY <2>2, <2>3, <2>5, <2>6 DEF CadenceInv
<1>2. CadenceInv /\ [Next]_vars => CadenceInv'  BY StepKeeps, CadenceAssumption
<1> QED  BY <1>1, <1>2, PTL DEF Spec

\* Evidence is append-only, whichever recorder writes: a recorded attempt keeps its
\* verdict, an earned slot its attempt, and no slot is earned after the epoch's
\* invalidation.
THEOREM EvidenceIsKept == Spec => EvidenceKept
<1>1. CadenceInv /\ [Next]_vars => EvidenceStep
  BY StepKeeps, CadenceAssumption DEF TablesKept, EvidenceStep
<1> QED  BY <1>1, CadenceInvariant, PTL DEF Spec, EvidenceKept

\* A slot's credit is one and timely and COMPLETE is earned, even when the release
\* scripts' store writes beside the recorder.
THEOREM CreditIsOneAndTimely ==
    Spec => [](TypeOK /\ PointerAgrees /\ CreditIsTimely /\ CompleteIsEarned)
<1>1. CadenceInv => TypeOK /\ PointerAgrees /\ CreditIsTimely /\ CompleteIsEarned
  <2> SUFFICES ASSUME CadenceInv
               PROVE  TypeOK /\ CreditIsTimely
    BY DEF CadenceInv
  <2>1. TypeOK  BY DEF CadenceInv, ClockSound, RowsSound, RowSound, TypeOK
  <2>2. CreditIsTimely
    <3> SUFFICES ASSUME NEW s \in Slots, accepted[s] # None
                 PROVE  LET row == attempts[accepted[s]]
                        IN /\ row.outcome = "ok" /\ row.mode # "manual"
                           /\ row.started >= Due[s] /\ row.started < Due[s] + StartLimit
                           /\ row.completed < row.started + CompletionLimit
      BY DEF CreditIsTimely
    <3>1. accepted[s] \in AttemptIds  BY DEF CadenceInv, RowsSound
    <3>2. /\ accepted[s] \in Recorded /\ attempts[accepted[s]].accepted
          /\ attempts[accepted[s]].slot = s
      BY <3>1 DEF CadenceInv, PointerAgrees
    <3>3. Timely(attempts[accepted[s]])  BY <3>2 DEF CadenceInv, RowsSound, RowSound
    <3> QED  BY <3>2, <3>3 DEF Timely
  <2> QED  BY <2>1, <2>2
<1> QED  BY <1>1, CadenceInvariant, PTL

\* Where the recorder alone writes, a credited retry moreover follows a first
\* attempt that failed safely in time (SqlCadenceWorkflowRecorder).
THEOREM CreditIsSound ==
    ASSUME ~DirectStore
    PROVE  Spec => []CreditSound
<1>1. CadenceInv => CreditedRetryIsProved
  <2> SUFFICES ASSUME CadenceInv, NEW s \in Slots, accepted[s] # None,
                      attempts[accepted[s]].mode = "retry"
               PROVE  LET pred == attempts[attempts[accepted[s]].pred]
                      IN /\ pred # None /\ pred.slot = s /\ ~pred.accepted /\ pred.cadence = 1
                         /\ pred.outcome = "safe_terminal"
                         /\ pred.completed < Due[s] + StartLimit
    BY DEF CreditedRetryIsProved
  <2>1. accepted[s] \in AttemptIds  BY DEF CadenceInv, RowsSound
  <2>2. /\ accepted[s] \in Recorded /\ attempts[accepted[s]].accepted
        /\ attempts[accepted[s]].slot = s
    BY <2>1 DEF CadenceInv, PointerAgrees
  <2>3. PICK row : row = attempts[accepted[s]]  OBVIOUS
  <2>4. RowSound(row)  BY <2>2, <2>3 DEF CadenceInv, RowsSound
  <2>5. RetryProof(row)  BY <2>2, <2>3, <2>4 DEF RowSound
  <2>6. PICK pred : pred = attempts[row.pred]  OBVIOUS
  <2>7. /\ row.pred \in Recorded /\ ~pred.accepted /\ pred.retry /\ pred.slot = s /\ pred # None
    BY <2>2, <2>3, <2>5, <2>6 DEF RetryProof, Recorded
  <2>8. Retriable(pred)  BY <2>6, <2>7 DEF CadenceInv, RowsSound, RowSound
  <2> QED  BY <2>3, <2>6, <2>7, <2>8 DEF Retriable
<1> QED  BY <1>1, CadenceInvariant, CreditIsOneAndTimely, PTL DEF CreditSound
-----------------------------------------------------------------------------
(* The slots themselves: the walk of CadenceSlots from any anchor hour over any
   window that the expected counts fill. *)

CONSTANTS AnchorHours, Window, Expected        \* those of CadenceSlots
VARIABLES anchor, kind, cursor, count, last    \* those of CadenceSlots
EpochWindow == INSTANCE CadenceSlots

\* The walk is a multiple of the interval past its first slot, which is the first of
\* the kind's grid after the anchor.
Interval(k) == EpochWindow!Interval(k)
Grid(k, n) == IF k = "collection" THEN 180 * n + 17 ELSE 15 * n

WalkInv ==
    /\ kind \in {"collection", "verifier"} /\ count \in Nat /\ anchor \in Nat /\ anchor >= 180
    /\ \E first \in Nat :
          /\ anchor <= Grid(kind, first) /\ Grid(kind, first) < anchor + Interval(kind)
          /\ cursor = Grid(kind, first + count)
          /\ last = IF count = 0 THEN 0 ELSE Grid(kind, first + count - 1)
    /\ last < anchor + Window

\* A full hour: the first collection slot is the next one on the three-hour grid, the
\* first verifier slot the hour itself.
LEMMA FirstSlot ==
    ASSUME NEW n \in Nat, NEW k \in {"collection", "verifier"}
    PROVE  \E first \in Nat : /\ EpochWindow!FirstCursor(k, 60 * n) = Grid(k, first)
                              /\ 60 * n <= Grid(k, first)
                              /\ Grid(k, first) < 60 * n + Interval(k)
<1>1. CASE k = "verifier"
  <2>1. 4 * n \in Nat /\ Grid(k, 4 * n) = 60 * n  BY <1>1 DEF Grid
  <2> QED  BY <1>1, <2>1 DEF EpochWindow!FirstCursor, Interval, EpochWindow!Interval
<1>2. CASE k = "collection"
  <2> DEFINE slots == {60 * n + EpochWindow!CollectionMinute + 60 * h : h \in 0..2}
             aligned == {t \in slots : EpochWindow!Hour(t) % 3 = 0}
  <2>1. PICK first \in Nat : 60 * n <= 180 * first + 17 /\ 180 * first + 17 < 60 * n + 180
    <3>1. PICK q \in Nat, r \in 0..2 : n = 3 * q + r
      BY n = 3 * (n \div 3) + (n % 3), n \div 3 \in Nat, n % 3 \in 0..2
    <3>2. CASE r = 0  BY <3>1, <3>2
    <3>3. CASE r # 0
      <4>1. q + 1 \in Nat /\ 60 * n <= 180 * (q + 1) + 17 /\ 180 * (q + 1) + 17 < 60 * n + 180
        BY <3>1, <3>3
      <4> QED  BY <4>1
    <3> QED  BY <3>1, <3>2, <3>3
  <2>2. \A h \in 0..2 : EpochWindow!Hour(60 * n + 17 + 60 * h) = (n + h) % 24
    BY DEF EpochWindow!Hour
  <2>3. \A t \in aligned : t = 180 * first + 17
    <3> SUFFICES ASSUME NEW h \in 0..2, (n + h) % 3 = 0
                 PROVE  60 * n + 17 + 60 * h = 180 * first + 17
      <4>1. \A h \in 0..2 : ((n + h) % 24) % 3 = (n + h) % 3  OBVIOUS
      <4> QED  BY <2>2, <4>1 DEF EpochWindow!CollectionMinute
    <3> QED  BY <2>1
  <2>4. 180 * first + 17 \in aligned
    <3>1. PICK h \in 0..2 : n + h = 3 * first  BY <2>1
    <3>2. ((n + h) % 24) % 3 = 0  BY <3>1
    <3> QED  BY <2>2, <3>1, <3>2 DEF EpochWindow!CollectionMinute
  <2>5. EpochWindow!FirstCursor(k, 60 * n) = CHOOSE t \in aligned : \A u \in aligned : t <= u
    BY <1>2 DEF EpochWindow!FirstCursor
  <2>6. \A u \in aligned : 180 * first + 17 <= u  BY <2>3
  <2> HIDE DEF aligned
  <2>7. (CHOOSE t \in aligned : \A u \in aligned : t <= u) \in aligned  BY <2>4, <2>6
  <2>8. EpochWindow!FirstCursor(k, 60 * n) = 180 * first + 17  BY <2>3, <2>5, <2>7
  <2> QED  BY <1>2, <2>1, <2>8 DEF Grid, Interval, EpochWindow!Interval
<1> QED  BY <1>1, <1>2

\* A run that starts between two slots of the grid names the earlier one.
LEMMA SlotNamed ==
    ASSUME NEW k \in {"collection", "verifier"}, NEW n \in Nat,
           NEW t \in Grid(k, n) .. (Grid(k, n) + Interval(k) - 1)
    PROVE  EpochWindow!ScheduledSlot(k, t) = Grid(k, n)
<1>1. CASE k = "verifier"
  <2>1. t \in Nat /\ 15 * n <= t /\ t < 15 * n + 15  BY <1>1 DEF Grid, Interval, EpochWindow!Interval
  <2>2. t % 15 = t - 15 * n  BY <2>1
  <2> QED  BY <1>1, <2>1, <2>2 DEF Grid, EpochWindow!ScheduledSlot
<1>2. CASE k = "collection"
  <2>1. t \in Nat /\ 180 * n + 17 <= t /\ t < 180 * n + 197
    BY <1>2 DEF Grid, Interval, EpochWindow!Interval
  <2>2. CASE t < 180 * n + 180
    <3>1. t % 180 = t - 180 * n  BY <2>1, <2>2
    <3> QED  BY <1>2, <2>1, <3>1 DEF Grid, EpochWindow!ScheduledSlot, EpochWindow!CollectionMinute
  <2>3. CASE t >= 180 * n + 180
    <3>1. t % 180 = t - 180 * n - 180  BY <2>1, <2>3
    <3> QED  BY <1>2, <2>1, <3>1 DEF Grid, EpochWindow!ScheduledSlot, EpochWindow!CollectionMinute
  <2> QED  BY <2>1, <2>2, <2>3
<1> QED  BY <1>1, <1>2

\* The walk starts at the first slot and moves one interval at a time.
THEOREM WalkInvariant == ASSUME EpochWindow!SlotsAssumption PROVE EpochWindow!Spec => []WalkInv
<1>1. EpochWindow!Init => WalkInv
  <2> SUFFICES ASSUME EpochWindow!Init PROVE WalkInv  OBVIOUS
  <2>1. PICK h \in AnchorHours : anchor = 24 * 60 + 60 * h  BY DEF EpochWindow!Init
  <2>2. h \in 0..23 /\ Window \in Nat  BY DEF EpochWindow!SlotsAssumption
  <2>3. 24 + h \in Nat /\ anchor = 60 * (24 + h) /\ anchor >= 180  BY <2>1, <2>2
  <2>4. kind \in {"collection", "verifier"} /\ count = 0 /\ last = 0
    BY DEF EpochWindow!Init, EpochWindow!Kinds
  <2>5. PICK first \in Nat : /\ EpochWindow!FirstCursor(kind, anchor) = Grid(kind, first)
                             /\ anchor <= Grid(kind, first)
                             /\ Grid(kind, first) < anchor + Interval(kind)
    BY <2>3, <2>4, FirstSlot
  <2>6. cursor = Grid(kind, first + count)  BY <2>4, <2>5 DEF EpochWindow!Init
  <2>7. last < anchor + Window  BY <2>2, <2>3, <2>4
  <2> QED  BY <2>3, <2>4, <2>5, <2>6, <2>7 DEF WalkInv
<1>2. WalkInv /\ [EpochWindow!Walk]_(EpochWindow!vars) => WalkInv'
  <2> SUFFICES ASSUME WalkInv, EpochWindow!Walk PROVE WalkInv'
    BY DEF WalkInv, Interval, EpochWindow!Interval, Grid, EpochWindow!vars
  <2>1. PICK first \in Nat :
          /\ anchor <= Grid(kind, first) /\ Grid(kind, first) < anchor + Interval(kind)
          /\ cursor = Grid(kind, first + count)
    BY DEF WalkInv
  <2>2. /\ cursor < anchor + Window /\ count' = count + 1 /\ last' = cursor
        /\ cursor' = cursor + Interval(kind) /\ anchor' = anchor /\ kind' = kind
    BY DEF EpochWindow!Walk, Interval
  <2>3. kind \in {"collection", "verifier"} /\ count \in Nat /\ anchor \in Nat /\ anchor >= 180
    BY DEF WalkInv
  <2>4. cursor' = Grid(kind, first + (count + 1))
    BY <2>1, <2>2, <2>3 DEF Grid, Interval, EpochWindow!Interval
  <2>5. last' = Grid(kind, first + (count + 1) - 1)  BY <2>1, <2>2, <2>3, first + (count + 1) - 1 = first + count
  <2>6. \E f \in Nat : /\ anchor' <= Grid(kind', f) /\ Grid(kind', f) < anchor' + Interval(kind')
                       /\ cursor' = Grid(kind', f + count')
                       /\ last' = IF count' = 0 THEN 0 ELSE Grid(kind', f + count' - 1)
    BY <2>1, <2>2, <2>3, <2>4, <2>5
  <2> QED  BY <2>2, <2>3, <2>6 DEF WalkInv, Interval, EpochWindow!Interval, Grid
<1> QED  BY <1>1, <1>2, PTL DEF EpochWindow!Spec

\* The walk of materialize_epoch, EXPECTED_COUNTS and the slot arithmetic of the
\* workflow runs agree, for every anchor hour and every window its counts fill.
THEOREM SlotsAreExact ==
    ASSUME EpochWindow!SlotsAssumption
    PROVE  EpochWindow!Spec => []EpochWindow!SlotsSound
<1>1. WalkInv => EpochWindow!SlotsSound
  <2> SUFFICES ASSUME WalkInv PROVE EpochWindow!SlotsSound  OBVIOUS
  <2>1. PICK first \in Nat :
          /\ anchor <= Grid(kind, first) /\ Grid(kind, first) < anchor + Interval(kind)
          /\ cursor = Grid(kind, first + count)
          /\ last = IF count = 0 THEN 0 ELSE Grid(kind, first + count - 1)
    BY DEF WalkInv
  <2>2. /\ kind \in {"collection", "verifier"} /\ count \in Nat /\ anchor \in Nat /\ anchor >= 180
        /\ last < anchor + Window
    BY DEF WalkInv
  <2>3. PICK size \in Nat : /\ size = Expected[kind]
                            /\ Window = IF kind = "collection" THEN 180 * size ELSE 15 * size
    <3>1. Expected[kind] \in Nat /\ Expected[kind] * Interval(kind) = Window
      BY <2>2 DEF EpochWindow!SlotsAssumption, EpochWindow!Kinds, Interval
    <3> QED  BY <2>2, <3>1 DEF Interval, EpochWindow!Interval
  <2>4. EpochWindow!TypeOK
    <3>1. cursor \in Nat /\ last \in Nat  BY <2>1, <2>2 DEF Grid
    <3>2. count <= size
      BY <2>1, <2>2, <2>3 DEF Grid, Interval, EpochWindow!Interval
    <3>3. Window \in Nat  BY DEF EpochWindow!SlotsAssumption
    <3> QED  BY <2>2, <2>3, <3>1, <3>2, <3>3 DEF EpochWindow!TypeOK, EpochWindow!Kinds
  <2>5. EpochWindow!ExactCount
    <3> SUFFICES ASSUME cursor >= anchor + Window PROVE count = size
      BY <2>3 DEF EpochWindow!ExactCount
    <3>1. count >= size
      BY <2>1, <2>2, <2>3 DEF Grid, Interval, EpochWindow!Interval
    <3> QED  BY <2>2, <2>3, <2>4, <3>1 DEF EpochWindow!TypeOK
  <2>6. EpochWindow!RunNamesItsSlot
    <3> SUFFICES ASSUME count > 0
                 PROVE  /\ \A t \in last .. (last + Interval(kind) - 1) :
                              EpochWindow!ScheduledSlot(kind, t) = last
                        /\ EpochWindow!StartTolerance(kind) <= Interval(kind)
      BY DEF EpochWindow!RunNamesItsSlot, Interval
    <3>1. first + count - 1 \in Nat /\ last = Grid(kind, first + count - 1)  BY <2>1, <2>2
    <3>2. EpochWindow!StartTolerance(kind) <= Interval(kind)
      BY <2>2 DEF EpochWindow!StartTolerance, Interval, EpochWindow!Interval
    <3> QED  BY <2>2, <3>1, <3>2, SlotNamed
  <2>7. EpochWindow!RunNamesEpochSlot
    <3> SUFFICES ASSUME count = 0, NEW t \in anchor .. (cursor - 1)
                 PROVE  EpochWindow!ScheduledSlot(kind, t) < anchor
      BY DEF EpochWindow!RunNamesEpochSlot
    <3>1. cursor = Grid(kind, first)  BY <2>1, <2>2
    <3>2. /\ t \in Int /\ anchor <= t /\ t < Grid(kind, first)
          /\ Grid(kind, first) < anchor + Interval(kind)
      BY <2>1, <2>2, <3>1 DEF Grid
    <3>3. first - 1 \in Nat  BY <2>1, <2>2 DEF Grid
    <3>4. Grid(kind, first - 1) = Grid(kind, first) - Interval(kind)
      BY <2>2, <3>3 DEF Grid, Interval, EpochWindow!Interval
    <3>5. t \in Grid(kind, first - 1) .. (Grid(kind, first - 1) + Interval(kind) - 1)
      BY <2>2, <3>2, <3>3, <3>4 DEF Grid, Interval, EpochWindow!Interval
    <3>6. EpochWindow!ScheduledSlot(kind, t) = Grid(kind, first - 1)  BY <2>2, <3>3, <3>5, SlotNamed
    <3> QED  BY <2>2, <3>2, <3>3, <3>4, <3>6 DEF Grid, Interval, EpochWindow!Interval
  <2> QED  BY <2>4, <2>5, <2>6, <2>7 DEF EpochWindow!SlotsSound
<1> QED  BY <1>1, WalkInvariant, PTL
=============================================================================
