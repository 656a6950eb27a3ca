-------------------------- MODULE CollectorClient --------------------------
(***************************************************************************)
(* The collector process and its transport, composed with the control      *)
(* plane.  A workflow run materializes, then takes the due commands one by *)
(* one: reserve, confirm, claim, fetch and commit pages per source,        *)
(* complete.  collect.yml's concurrency group lets one run at a time live. *)
(*                                                                         *)
(* A call may lose its request or its answer; the transport repeats it     *)
(* once with the same payload, then the process fails.  A refusal (4xx)    *)
(* fails it at once, except a 409 on a page commit.  A failed or crashed   *)
(* process leaves nothing but what the server has stored.                  *)
(***************************************************************************)
EXTENDS CollectionControl, SequencesExt

CONSTANTS
    SourceOrder,   \* MONITOR_SOURCE_IDS, in the order they are collected
    Answers,       \* what a provider may answer to a fetch
    MaxFaults      \* bound on lost messages and crashes

ASSUME ClientAssumption ==
    /\ SourceOrder \in Seq(Sources) /\ SourceOrder # <<>>
    /\ \A i, j \in 1..Len(SourceOrder) : SourceOrder[i] = SourceOrder[j] => i = j
    /\ IsFiniteSet(Commands)
    /\ Answers \subseteq {"page", "last", "pause", "policy", "quota", "retryable", "terminal"}
    /\ MaxFaults \in Nat

VARIABLES
    client,   \* the one collector process
    line,     \* commands in the order of available_at
    faults    \* faults so far

allVars == <<command, run, pages, checkpoint, source, published, receipts,
             client, line, faults>>

Expected == Range(SourceOrder)

NoPage == [kind |-> "none", next |-> NoCursor]

\* A process that has ended; result is what it left for the cadence recorder.
Ended(result) ==
    [pc |-> "idle", result |-> result, todo |-> <<>>, attempt |-> 0, at |-> 1,
     tries |-> 0, pos |-> [rev |-> 0, cursor |-> NoCursor, ord |-> 0],
     page |-> NoPage, outcomes |-> <<>>, made |-> <<>>]

Dead == Ended("failure")

Cmd == client.todo[1]
Me == <<Cmd, client.attempt, SourceOrder[client.at]>>

\* A retry of a lost reservation or dispatch confirmation is refused, so the
\* lease of the process is always the one of its attempt.
Lease == client.attempt

-----------------------------------------------------------------------------
(* The order of available_at *)

Live(c) == command[c].status \in {"queued", "failed_retryable"} \cup LeasedStatus

Before(seq, c, d) ==
    \E i, j \in 1..Len(seq) : i < j /\ seq[i] = c /\ seq[j] = d

\* recover_due_commands: the sequence materialize returns, by available_at (a
\* set of one).  A command whose attempts are exhausted is still retryable and
\* still listed.
DueCommands ==
    LET due == {c \in Commands : /\ command[c].status \in {"queued", "failed_retryable"}
                                 /\ command[c].wait = 0}
    IN  {p \in SetToSeqs(due) : \A c, d \in due : Before(p, c, d) => Before(line, c, d)}

\* A step gives new commands, and commands sent into a retry delay, a new
\* available_at; all others keep their place.
Rearrange ==
    LET moved == {c \in Commands : command'[c].wait > command[c].wait}
        here == {c \in Commands : Live(c)'}
    IN  line' \in {p \in SetToSeqs(here) :
                    \A c, d \in here \ moved : Before(line, c, d) => Before(p, c, d)}

-----------------------------------------------------------------------------
(* Transport *)

\* _request: the second failure of a call ends the process.
Again == IF client.tries = 1 THEN Dead ELSE [client EXCEPT !.tries = 1]

Fault == faults < MaxFaults /\ faults' = faults + 1

\* A call whose handler takes the step "server" and whose answer moves the
\* process to one of "answers".
CallAny(server, answers) ==
    \/ /\ server /\ Rearrange /\ UNCHANGED faults
       /\ \E answered \in answers : client' = [answered EXCEPT !.tries = 0]
    \/ UNCHANGED vars /\ UNCHANGED line /\ Fault /\ client' = Again
    \/ server /\ Rearrange /\ Fault /\ client' = Again

Call(server, answered) == CallAny(server, {answered})

\* The handler refuses the call.
Refused(server, answered) ==
    /\ ~ENABLED server
    /\ client' = answered
    /\ UNCHANGED vars
    /\ UNCHANGED <<line, faults>>

-----------------------------------------------------------------------------
(* The workflow *)

\* A run that is given MONITOR_COMMAND_ID skips materialization.
StartWorkflow ==
    /\ client.pc = "idle"
    /\ \/ client' = [Ended("none") EXCEPT !.pc = "materialize"]
       \/ \E c \in Commands :
            /\ command[c].status # "absent"
            /\ client' = [Ended("none") EXCEPT !.pc = "reserve", !.todo = <<c>>]
    /\ UNCHANGED vars /\ UNCHANGED <<line, faults>>

\* Mutant: some publication is enough.
CoversAny(made) == made # <<>>

\* _publication_map: the publications of all completions together
Covers(made) ==
    /\ Len(made) = Len(SourceOrder)
    /\ {made[i][3] : i \in 1..Len(made)} = Expected

\* collect: the next command, or the end of the run with its cadence result
NextCommand(todo, made) ==
    IF todo = <<>> THEN Ended(IF Covers(made) THEN "success" ELSE "failure")
    ELSE [Ended("none") EXCEPT !.pc = "reserve", !.todo = todo, !.made = made]

CallMaterialize ==
    /\ client.pc = "materialize"
    /\ \/ \E due \in SUBSET Commands :
            CallAny(Materialize(due), {NextCommand(todo, <<>>) : todo \in DueCommands'})
       \/ Refused(MaterializeSome, Dead)

\* reserve is not idempotent: the nonce and the lease of the first try are set.
CallReserve ==
    /\ client.pc = "reserve"
    /\ \/ Call(Reserve(Cmd), [client EXCEPT !.pc = "confirm", !.attempt = command'[Cmd].attempt])
       \/ Refused(Reserve(Cmd), Dead)

CallConfirm ==
    /\ client.pc = "confirm"
    /\ \/ Call(Confirm(Cmd, client.attempt, Lease), [client EXCEPT !.pc = "claim"])
       \/ Refused(Confirm(Cmd, client.attempt, Lease), Dead)

\* claim_runs with the whole source set of the invocation: a repeated claim of
\* the running command answers the same runs.
ClaimStep(level) ==
    /\ command[Cmd].sources = Expected
    /\ \/ Claim(Cmd, client.attempt, Lease, level)
       \/ /\ command[Cmd].status = "running"
          /\ CredentialsMatch(Cmd, client.attempt, Lease)
          /\ ClaimAuthorized(Cmd)
          /\ UNCHANGED vars

\* run_collection_workflow: the claimed runs are the invocation's sources; the
\* claimed authorization is bound and checked before any fetch.
Claimed(runs) ==
    IF {r[3] : r \in runs} # Expected THEN Dead
    ELSE [client EXCEPT !.pc = "load"]

CallClaim ==
    /\ client.pc = "claim"
    /\ \E c \in {Cmd}, level \in [Sources -> BudgetLevels] :
        \/ Call(ClaimStep(level), Claimed(CurrentRuns(c)'))
        \/ Refused(ClaimStep(level), Dead)

-----------------------------------------------------------------------------
(* One source run *)

\* The position the server has stored for a run.
ServerPos(r) ==
    [rev |-> checkpoint[r[3]].revision, cursor |-> checkpoint[r[3]].cursor,
     ord |-> run[r].count]

\* collect_run returns: the outcome is kept and the next source begins.
Outcome(st) ==
    [client EXCEPT
        !.outcomes = Append(@, st),
        !.at = IF @ = Len(SourceOrder) THEN 1 ELSE @ + 1,
        !.pc = IF client.at = Len(SourceOrder) THEN "complete" ELSE "load",
        !.page = NoPage]

\* checkpoint: the stored position of a run whose authorization stands.
CheckpointStep == RunAuthorized(Me) /\ UNCHANGED vars

\* _precomputed_outcome: a hard stop is skipped without any call
\* ... and _load_initial_state reads the checkpoint.
LoadCheckpoint ==
    /\ client.pc = "load"
    /\ IF run[Me].budget = "hard_stop"
       THEN client' = Outcome("skipped_quota") /\ UNCHANGED vars /\ UNCHANGED <<line, faults>>
       ELSE \/ Call(CheckpointStep,
                    IF run[Me].count = Cap(Me) THEN Outcome("succeeded")
                    ELSE [client EXCEPT !.pc = "beat", !.pos = ServerPos(Me)])
            \/ Refused(CheckpointStep, Dead)

\* Mutant: a paused page ends the run well.
AfterPauseSucceeds ==
    IF client.page.kind = "none" THEN [client EXCEPT !.pc = "fetch"]
    ELSE IF client.pos.ord = Cap(Me) \/ client.page.kind \in {"last", "pause"}
         THEN Outcome("succeeded")
    ELSE [client EXCEPT !.pc = "fetch"]

\* collect_run after the heartbeat: page cap, then post_page_outcome
AfterPage ==
    IF client.page.kind = "none" THEN [client EXCEPT !.pc = "fetch"]
    ELSE IF client.pos.ord = Cap(Me) \/ client.page.kind = "last"
         THEN Outcome("succeeded")
    ELSE IF client.page.kind = "pause" THEN Outcome("failed_retryable")
    ELSE [client EXCEPT !.pc = "fetch"]

\* Heartbeat before the first fetch and after each commit or reload.
CallHeartbeat ==
    /\ client.pc = "beat"
    /\ \/ Call(Heartbeat(Cmd, client.attempt, Lease), AfterPage)
       \/ Refused(Heartbeat(Cmd, client.attempt, Lease), Dead)

\* failure_outcome
FailureStatus(kind) ==
    IF kind \in {"retryable", "quota"} THEN "failed_retryable" ELSE "failed_terminal"

\* source.fetch_page, then build_page_request or fetch_failure_outcome.  The
\* adapter's own preflight refuses a claimed decision whose window has passed.
Fetch ==
    /\ client.pc = "fetch"
    /\ \/ /\ source[Me[3]].decisions[run[Me].auth] = "expired"
          /\ client' = Dead
       \/ /\ source[Me[3]].decisions[run[Me].auth] # "expired"
          /\ \E kind \in Answers, next \in CursorOrNull :
            client' =
                IF kind \in {"page", "last", "pause"}
                THEN [client EXCEPT !.pc = "commit",
                                    !.page = [kind |-> kind, next |-> next]]
                ELSE IF client.pos.ord = 0 /\ kind \in {"policy", "quota"}
                THEN [client EXCEPT !.pc = "skip", !.page = [kind |-> kind, next |-> NoCursor]]
                ELSE Outcome(FailureStatus(kind))
    /\ UNCHANGED vars /\ UNCHANGED <<line, faults>>

\* page_request and build_page_request: the collector sets the cap marker too.
PageRequest ==
    [ord |-> client.pos.ord, rev |-> client.pos.rev, from |-> client.pos.cursor,
     next |-> client.page.next,
     asked |-> IF client.page.kind = "last" THEN "source_exhausted"
               ELSE IF client.pos.ord + 1 = Cap(Me) THEN "reviewed_page_cap"
               ELSE "none"]

\* The commit, or its replay under the stored key.
CommitStep ==
    \/ CommitPage(Me, Lease, PageRequest)
    \/ /\ \E i \in SameKey(Me, PageRequest) : ReplayMatches(Me, i, PageRequest)
       /\ UNCHANGED vars

\* commit_page: the position after the receipt
AfterCommit ==
    [client EXCEPT !.pc = "beat",
                   !.pos = [rev |-> client.pos.rev + 1, cursor |-> client.page.next,
                            ord |-> client.pos.ord + 1]]

\* A checkpoint or ordinal conflict, and the checkpoint has moved: go on from
\* there.  Any other conflict ends the process.
AfterConflict ==
    IF /\ OwnsLease(Me, Lease) /\ StreamOpen(Me) /\ SameKey(Me, PageRequest) = {}
       /\ ~CasMatches(Me, PageRequest)
       /\ ServerPos(Me) # client.pos
    THEN [client EXCEPT !.pc = "beat", !.pos = ServerPos(Me), !.page = NoPage]
    ELSE Dead

CallCommit ==
    /\ client.pc = "commit"
    /\ \/ Call(CommitStep, AfterCommit)
       \/ Refused(CommitStep, AfterConflict)

\* attach_skip_decision, or its replay under the stored key
SkipStep ==
    \/ AttachSkip(Me, Lease, client.page.kind)
    \/ /\ run[Me].skip = client.page.kind /\ run[Me].lease = Lease
       /\ UNCHANGED vars

CallSkip ==
    /\ client.pc = "skip"
    /\ \/ Call(SkipStep, Outcome(IF client.page.kind = "policy"
                                 THEN "skipped_policy" ELSE "skipped_quota"))
       \/ Refused(SkipStep, Dead)

\* The outcomes in the order the sources were collected.
Plan ==
    [r \in {<<Cmd, client.attempt, s>> : s \in Expected} |->
        client.outcomes[CHOOSE i \in 1..Len(SourceOrder) : SourceOrder[i] = r[3]]]

\* complete, or the stored receipt, which still needs the command's lease
CompleteStep ==
    \/ Complete(Cmd, client.attempt, Lease, Plan)
    \/ /\ CredentialsMatch(Cmd, client.attempt, Lease)
       /\ \E rec \in receipts[Cmd] : rec.lease = Lease
       /\ UNCHANGED vars

CallComplete ==
    /\ client.pc = "complete"
    /\ \/ Call(CompleteStep,
               NextCommand(Tail(client.todo),
                           client.made \o SetToSeq(Winners(Plan))))
       \/ Refused(CompleteStep, Dead)

-----------------------------------------------------------------------------
(* Environment *)

\* The runner is lost, or the job's time limit ends the process.
Crash ==
    /\ client.pc # "idle"
    /\ Fault
    /\ client' = Dead
    /\ UNCHANGED vars /\ UNCHANGED line

\* Time passes.
Clock == Tick /\ Rearrange /\ UNCHANGED <<client, faults>>

\* What others do to the same tables: authorizations change, an administrator
\* queues a retry of chosen sources.
Others ==
    /\ \/ \E s \in Sources : Operator(s)
       \/ \E c \in Commands, srcs \in SUBSET Sources : RetryCollection(c, srcs)
    /\ Rearrange
    /\ UNCHANGED <<client, faults>>

ClientInit ==
    /\ Init
    /\ client = Ended("none")
    /\ line = <<>>
    /\ faults = 0

ClientStep ==
    \/ CallMaterialize \/ CallReserve \/ CallConfirm \/ CallClaim
    \/ LoadCheckpoint \/ CallHeartbeat \/ Fetch \/ CallCommit \/ CallSkip
    \/ CallComplete

ClientNext == StartWorkflow \/ ClientStep \/ Crash \/ Clock \/ Others

ClientSpec == ClientInit /\ [][ClientNext]_allVars

\* The same without outside interference.
UndisturbedNext == StartWorkflow \/ ClientStep \/ Crash \/ Clock

\* A started process goes on, time passes, and the cron schedule starts runs
\* that materialize.
ClientFairness ==
    /\ WF_allVars(ClientStep)
    /\ WF_allVars(Clock)
    /\ SF_allVars(StartWorkflow /\ client'.pc = "materialize")

UndisturbedSpec == ClientInit /\ [][UndisturbedNext]_allVars /\ ClientFairness

-----------------------------------------------------------------------------
(* Properties *)

Holding ==
    /\ client.attempt # 0
    /\ command[Cmd].status = "running"
    /\ CredentialsMatch(Cmd, client.attempt, Lease)

\* As long as it holds the lease, the process's position is the server's, or,
\* after a commit whose answer was lost, exactly the page it is about to repeat
\* behind it.
PositionInStep ==
    Holding /\ client.pc \in {"beat", "fetch", "commit"} =>
        \/ client.pos = ServerPos(Me)
        \/ /\ client.pc = "commit" /\ client.tries = 1
           /\ ServerPos(Me) = AfterCommit.pos

\* The outcomes it reports are ones the server's chain verification accepts.
OutcomesAccepted ==
    Holding /\ client.pc = "complete" => \A r \in DOMAIN Plan : MayFinish(r, Plan[r])

\* Whatever calls were lost and repeated on the way, the process never loses
\* track of the stream it writes and never reports an outcome the server must
\* refuse.
ClientInStep == PositionInStep /\ OutcomesAccepted

\* A success for the cadence recorder means every source of the schedule has
\* just been published: its last publication is a run this process collected
\* itself, under one of its commands, and it ended well.
SuccessMeansPublished ==
    [][client'.result = "success" /\ client.result # "success" =>
        \A s \in Expected :
            /\ published'[s] # <<>>
            /\ LET r == published'[s][Len(published'[s])]
               IN  /\ r[3] = s /\ run'[r].status = "succeeded"
                   /\ r \in Range(client.made) \cup DOMAIN Plan]_allVars

\* With fewer faults than attempts and a provider that answers, a command
\* survives every lost call and every crash: it succeeds.
FaultsSurvived ==
    \A c \in Commands : command[c].status = "queued" ~> command[c].status = "succeeded"

-----------------------------------------------------------------------------
(* What the documents say and the code does not do *)

\* control_plane_client.claim: "Claim the exact source set after server
\* authorization checks" - a claim that is granted has the runs that were
\* asked for.
ClaimIsExact ==
    [][client.pc = "claim" =>
        \A c \in {Cmd} : command[c].status # "running" /\ command'[c].status = "running"
            => {r[3] : r \in CurrentRuns(c)'} = Expected]_allVars

\* run_collection_workflow: "Run each durable command through claim, pages,
\* and completion" - a queued command is taken up some time.
EveryCommandTaken ==
    \A c \in Commands : command[c].status = "queued" ~> command[c].status # "queued"

\* fetch_failure_outcome: "Convert one provider failure into a skip or terminal
\* outcome" - with an authorized source and a live lease the process does not
\* end over a provider's answer.
FailureGetsOutcome ==
    [][client.pc = "skip" /\ Holding /\ RunAuthorized(Me) /\ faults' = faults
        => client'.pc # "idle"]_allVars

\* cloud-deployment-handoff.md: "each accepted slot has successful subreceipts
\* for both sources" - the publications behind a success are of one command.
SuccessIsOneSlot ==
    [][client'.result = "success" /\ client.result # "success" =>
        \A s, t \in Expected : published'[s][Len(published'[s])][1]
                                = published'[t][Len(published'[t])][1]]_allVars
=============================================================================
