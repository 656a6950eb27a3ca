------------------------------ MODULE Verifier ------------------------------
(* The independent freshness verifier: verify.yml's command reads a snapshot  *)
(* of what the collector published, derives each source's verdict for the     *)
(* quarter-hour slot and posts it; the API stores the snapshot, recomputes    *)
(* the verdict and writes it together with a "missing" row for every slot     *)
(* that was skipped.                                                          *)
(*                                                                            *)
(* Both server calls are REPEATABLE READ transactions: they read at their     *)
(* begin and write at their end, and others commit in between.  A completion  *)
(* likewise stamps its run with a clock it read before it commits, so a        *)
(* snapshot may miss a run that had finished by its own clock.  A request      *)
(* that the client gave up on may still be running.  Snapshots have distinct   *)
(* clock readings; the runner's clock may differ by Skews.                     *)
EXTENDS Integers, Sequences, FiniteSets, FiniteSetsExt

CONSTANTS
    Sources,   \* the sources of the scope
    SlotLen,   \* VERIFICATION_INTERVAL in clock units
    Fresh,     \* MAX_FRESHNESS_SECONDS in clock units
    Skews,     \* runner clock minus database clock
    MaxClock,  \* bound: clock units
    MaxFinish, \* bound: successful runs of a source
    MaxTx,     \* bound: server transactions open at one time
    MaxCalls   \* bound: verifier runs

ASSUME VerifierAssumption ==
    /\ SlotLen \in Nat \ {0} /\ Fresh \in Nat /\ Skews \subseteq Int
    /\ MaxClock \in Nat /\ MaxFinish \in Nat /\ MaxTx \in Nat

VARIABLES
    now,     \* the database clock
    fin,     \* source -> finish times of its published runs, by publication number
    ending,  \* source -> finish times of completions not committed yet
    on,      \* source -> enabled
    snaps,   \* committed snapshots
    cursor,  \* last_materialized_slot_utc
    obs,     \* observation rows
    tx,      \* open server transactions
    client,  \* the verifier command, one at a time (the workflow's concurrency group)
    reports  \* results written by finished commands

verifierVars == <<now, fin, ending, on, snaps, cursor, obs, tx, client, reports>>
env == <<now, fin, ending, on>>

Never == -1
Floor(t) == t - (t % SlotLen)

----------------------------------------------------------------------------
(* Facts and verdicts. *)

\* source_facts_statement: the successful run that finished last, by the sequence
\* of its publication; 0 when there is none.
Latest(s) ==
    IF fin[s] = <<>> THEN 0
    ELSE CHOOSE i \in DOMAIN fin[s] : \A j \in DOMAIN fin[s] : fin[s][j] <= fin[s][i]
FinishedAt(s, seq) == IF seq = 0 THEN Never ELSE fin[s][seq]

\* The first committed snapshot that exposed the sequence.
FirstVisibility(s, seq, f) ==
    LET ats == {sn.at : sn \in {x \in snaps : x.facts[s].seq >= seq /\ x.at >= f}}
    IN  IF ats = {} THEN Never ELSE Min(ats)

SourceFacts(s) ==
    LET seq  == Latest(s)
        seen == FirstVisibility(s, seq, FinishedAt(s, seq))
    IN  [on |-> on[s], seq |-> seq, fin |-> FinishedAt(s, seq),
         vis |-> IF seq = 0 THEN Never ELSE IF seen = Never THEN now ELSE seen]
CanonicalSnapshot == [at |-> now, facts |-> [s \in Sources |-> SourceFacts(s)]]

DeriveSourceResult(f, at) ==
    IF ~f.on THEN "disabled"
    ELSE IF f.fin = Never THEN "no_run"
    ELSE IF at - f.fin > Fresh THEN "collection_stale"
    ELSE IF f.vis - f.fin > Fresh THEN "publication_stale"
    ELSE "passed"
Results(sn) == [s \in Sources |-> DeriveSourceResult(sn.facts[s], sn.at)]

\* The missing slots up to the target.
VerificationSlots(last, target) ==
    IF last = Never THEN {target}
    ELSE {k \in 0 .. MaxClock : k % SlotLen = 0 /\ k > last /\ k <= target}

----------------------------------------------------------------------------
(* The world the verifier watches. *)

ClockTick ==
    /\ now < MaxClock
    /\ now' = now + 1
    /\ UNCHANGED <<fin, ending, on, snaps, cursor, obs, tx, client, reports>>

\* Mutant: two runs of one source are active at a time.
OneActiveTwo(s) == Cardinality(ending[s]) < 2
\* uq_collection_runs_active_source_scope: the next run starts when this one is done.
OneActive(s) == ending[s] = {}

\* load_locked_completion_context reads the clock that finished_at becomes; the run
\* was claimed and fetched its pages since the last one was done.
BeginCompletion(s) ==
    /\ Len(fin[s]) < MaxFinish
    /\ OneActive(s)
    /\ \A i \in DOMAIN fin[s] : fin[s][i] < now
    /\ ending' = [ending EXCEPT ![s] = @ \cup {now}]
    /\ UNCHANGED <<now, fin, on, snaps, cursor, obs, tx, client, reports>>
\* The run has succeeded and its publication has the next number.
CommitCompletion(s, at) ==
    /\ at \in ending[s]
    /\ fin' = [fin EXCEPT ![s] = Append(@, at)]
    /\ ending' = [ending EXCEPT ![s] = @ \ {at}]
    /\ UNCHANGED <<now, on, snaps, cursor, obs, tx, client, reports>>
\* A later statement fails, or the process dies: the run is as active as before.
RollBackCompletion(s, at) ==
    /\ at \in ending[s]
    /\ ending' = [ending EXCEPT ![s] = @ \ {at}]
    /\ UNCHANGED <<now, fin, on, snaps, cursor, obs, tx, client, reports>>
Completion(s) ==
    \/ BeginCompletion(s)
    \/ \E at \in ending[s] : CommitCompletion(s, at) \/ RollBackCompletion(s, at)

Disable(s) ==
    /\ on[s]
    /\ on' = [on EXCEPT ![s] = FALSE]
    /\ UNCHANGED <<now, fin, ending, snaps, cursor, obs, tx, client, reports>>

----------------------------------------------------------------------------
(* The command.  slot is the floor of its start, or the key of a cadence retry. *)

NoSnapshot ==
    [at |-> Never,
     facts |-> [s \in Sources |-> [on |-> FALSE, seq |-> 0, fin |-> Never, vis |-> Never]]]
NoCommand == [pc |-> "idle", slot |-> 0, started |-> 0, try |-> 1, id |-> 0,
         sn |-> NoSnapshot]
Calls == Cardinality(reports) + IF client.pc = "idle" THEN 0 ELSE 1
Verify(skew, slot) ==
    /\ client.pc = "idle" /\ Calls < MaxCalls
    /\ now + skew >= 0
    /\ slot >= 0 /\ slot \in {Floor(now + skew), Floor(now + skew) - SlotLen}
    /\ client' = [NoCommand EXCEPT !.pc = "get", !.slot = slot, !.started = now + skew]
    /\ UNCHANGED <<env, snaps, cursor, obs, tx, reports>>

\* write_result, or write_failure_result.
Report(outcome) ==
    /\ reports' = reports \cup
         {[n |-> Cardinality(reports) + 1, slot |-> client.slot, how |-> outcome,
           sn |-> IF outcome = "failed" THEN NoSnapshot ELSE client.sn]}
    /\ client' = NoCommand

\* ControlPlaneTransport._request: one more try after a transport error or a 5xx.
Again ==
    IF client.try = 1
    THEN client' = [client EXCEPT !.try = 2, !.id = 0] /\ UNCHANGED reports
    ELSE Report("failed")
\* No answer in time, or none at all: what was sent may still run.
Lose ==
    /\ client.id # 0
    /\ Again
    /\ UNCHANGED <<env, snaps, cursor, obs, tx>>

FreshId == CHOOSE i \in 1 .. MaxTx : \A t \in tx : t.id # i
MayCall(pc) == client.pc = pc /\ client.id = 0 /\ Cardinality(tx) < MaxTx

----------------------------------------------------------------------------
(* GET /v1/verification/snapshot *)

BeginSnapshot ==
    /\ MayCall("get")
    /\ \A x \in snaps \cup {t.sn : t \in tx} : x.at # now
    /\ tx' = tx \cup {[id |-> FreshId, kind |-> "snapshot", sn |-> CanonicalSnapshot,
                       slot |-> 0, started |-> 0, cur |-> Never, ok |-> TRUE]}
    /\ client' = [client EXCEPT !.id = FreshId]
    /\ UNCHANGED <<env, snaps, cursor, obs, reports>>
CommitSnapshot(t) ==
    /\ t.kind = "snapshot"
    /\ snaps' = snaps \cup {t.sn}
    /\ tx' = tx \ {t}
    /\ client' = IF client.id = t.id /\ client.pc = "get"
                 THEN [client EXCEPT !.pc = "post", !.sn = t.sn, !.id = 0, !.try = 1]
                 ELSE client
    /\ UNCHANGED <<env, cursor, obs, reports>>

----------------------------------------------------------------------------
(* POST /v1/verification/observations *)

\* observation_facts: each stored first visibility is still the first.
ObservationFacts(sn) ==
    \A s \in Sources :
        LET f == sn.facts[s]
        IN  f.vis = IF f.fin = Never THEN Never ELSE FirstVisibility(s, f.seq, f.fin)
RejectDuplicateObservation(slot) == \A o \in obs : o.slot # slot
RejectSnapshotReuse(sn) == \A o \in obs : o.sn # sn
ValidatedSourceResults(sn, slot, started) == slot <= started /\ started <= sn.at

BeginRecord ==
    /\ MayCall("post")
    /\ LET sn == client.sn
       IN  tx' = tx \cup
             {[id |-> FreshId, kind |-> "record", sn |-> sn,
               slot |-> client.slot, started |-> client.started, cur |-> cursor,
               ok |-> /\ sn \in snaps
                      /\ ObservationFacts(sn)
                      /\ RejectDuplicateObservation(client.slot)
                      /\ RejectSnapshotReuse(sn)
                      /\ ValidatedSourceResults(sn, client.slot, client.started)
                      /\ VerificationSlots(cursor, client.slot) # {}]}
    /\ client' = [client EXCEPT !.id = FreshId]
    /\ UNCHANGED <<env, snaps, cursor, obs, reports>>

\* The advisory lock, then the cursor row FOR UPDATE: a change since the begin is a
\* serialization failure, a cursor first inserted since is a unique violation.
LockedCursor(t) == cursor = t.cur
Rows(t) ==
    {[slot |-> k, source |-> s, sn |-> t.sn, started |-> t.started,
      status |-> IF k = t.slot THEN Results(t.sn)[s] ELSE "missing"] :
        k \in VerificationSlots(t.cur, t.slot), s \in Sources}

\* uq_verification_expected_source_slot, uq_verification_snapshot_use
Unique(t) ==
    /\ \A o \in obs : \A r \in Rows(t) : o.slot = r.slot => o.source # r.source
    /\ RejectSnapshotReuse(t.sn)

\* The reply, if the command still waits for it: 201, or 409 (given up at once) or a
\* 500 (tried again).
\* Mutant: a conflict counts as accepted.
ReplyAnyConflict(t, status) ==
    IF client.id # t.id \/ client.pc # "post" THEN UNCHANGED <<client, reports>>
    ELSE IF status \in {201, 409} THEN Report("succeeded") ELSE Again
Reply(t, status) ==
    IF client.id # t.id \/ client.pc # "post" THEN UNCHANGED <<client, reports>>
    ELSE CASE status = 201 -> Report("succeeded")
           [] status = 409 -> Report("failed")
           [] OTHER -> Again
CommitRecord(t) ==
    /\ t.kind = "record"
    /\ tx' = tx \ {t}
    /\ \/ /\ t.ok /\ LockedCursor(t) /\ Unique(t)
          /\ obs' = obs \cup Rows(t)
          /\ cursor' = t.slot
          /\ Reply(t, 201)
       \/ /\ ~(t.ok /\ LockedCursor(t) /\ Unique(t))
          /\ Reply(t, IF t.ok /\ t.cur # Never THEN 500 ELSE 409)
          /\ UNCHANGED <<obs, cursor>>
    /\ UNCHANGED <<env, snaps>>

\* A transaction nobody waits for may also die: nothing of it remains.
Abort(t) ==
    /\ client.id # t.id
    /\ tx' = tx \ {t}
    /\ UNCHANGED <<env, snaps, cursor, obs, client, reports>>

----------------------------------------------------------------------------
VerifierInit ==
    /\ now = 0
    /\ fin = [s \in Sources |-> <<>>]
    /\ ending = [s \in Sources |-> {}]
    /\ on = [s \in Sources |-> TRUE]
    /\ snaps = {} /\ obs = {} /\ cursor = Never
    /\ tx = {}
    /\ client = NoCommand
    /\ reports = {}

VerifierNext ==
    \/ ClockTick
    \/ \E s \in Sources : Completion(s) \/ Disable(s)
    \/ \E skew \in Skews, slot \in 0 .. MaxClock : Verify(skew, slot)
    \/ Lose
    \/ BeginSnapshot
    \/ BeginRecord
    \/ \E t \in tx : CommitSnapshot(t) \/ CommitRecord(t) \/ Abort(t)

VerifierSpec == VerifierInit /\ [][VerifierNext]_verifierVars

----------------------------------------------------------------------------
VerifierTypeOK ==
    /\ now \in 0 .. MaxClock /\ cursor \in {Never} \cup 0 .. MaxClock
    /\ \A s \in Sources :
          /\ Len(fin[s]) <= MaxFinish /\ \A i \in DOMAIN fin[s] : fin[s][i] \in 0 .. MaxClock
          /\ ending[s] \subseteq 0 .. MaxClock /\ on[s] \in BOOLEAN
    /\ Cardinality(tx) <= MaxTx /\ Cardinality({t.id : t \in tx}) = Cardinality(tx)
    /\ client.pc \in {"idle", "get", "post"} /\ client.id \in 0 .. MaxTx
    /\ \A r \in reports : r.how \in {"succeeded", "failed"}

(* The record has no hole and no second opinion: from the first slot written  *)
(* to the cursor every slot has one row per source, and a snapshot decides    *)
(* one slot only, however requests are repeated, lost or overtaken            *)
(* (record_observations under REPEATABLE READ, _locked_cursor).               *)
RecordIsContiguous ==
    /\ obs # {} =>
        LET first == Min({o.slot : o \in obs})
        IN  {o.slot : o \in obs} =
                {k \in first .. cursor : (k - first) % SlotLen = 0}
    /\ \A k \in {o.slot : o \in obs}, s \in Sources :
        Cardinality({o \in obs : o.slot = k /\ o.source = s}) = 1
    /\ \A o, p \in obs :
        o.sn = p.sn /\ o.status # "missing" /\ p.status # "missing" => o.slot = p.slot

(* A row names one run: sequence and finish time belong to one publication.   *)
(* The runs published after it finished after it, so that ">= sequence" finds  *)
(* the snapshots that showed it or a newer one, and of the runs that had       *)
(* finished when the snapshot was taken it misses the one whose completion was *)
(* under way, never another (source_facts_statement against execute_completion,*)
(* which stamps finished_at before it commits).                                *)
RowsNameTheirRun ==
    \A o \in obs :
        LET f == o.sn.facts[o.source]
        IN  /\ f.seq \in 0 .. Len(fin[o.source]) /\ f.fin = FinishedAt(o.source, f.seq)
            /\ \A i \in f.seq + 1 .. Len(fin[o.source]) :
                  /\ f.fin < fin[o.source][i]
                  /\ i > f.seq + 1 => o.sn.at <= fin[o.source][i]

(* A slot that passed was fresh: the run it names had finished and was recent, *)
(* the collector's data was visible to a verifier in time (also counting       *)
(* snapshots that committed afterwards), and the snapshot was taken once the   *)
(* slot had begun (source_facts, observation_facts, derive_source_result).     *)
PassedWasFresh ==
    \A o \in obs : o.status = "passed" =>
        LET f == o.sn.facts[o.source]
        IN  /\ f.fin \in 0 .. o.sn.at
            /\ o.sn.at - f.fin <= Fresh
            /\ FirstVisibility(o.source, f.seq, f.fin) - f.fin \in 0 .. Fresh
            /\ o.sn.at >= o.slot

(* What the verifier's table says, slot by slot and row by row, is true.      *)
RecordSound == VerifierTypeOK /\ RecordIsContiguous /\ RowsNameTheirRun /\ PassedWasFresh

(* A command that reports success has its verdict on record: the rows of its   *)
(* slot are those of its snapshot (verify, ControlPlaneTransport._request).    *)
SuccessIsRecorded ==
    \A r \in reports : r.how = "succeeded" =>
        \A s \in Sources : \E o \in obs :
            o.slot = r.slot /\ o.source = s /\ o.sn = r.sn
                /\ o.status = Results(r.sn)[s]
=============================================================================
