------------------------------ MODULE MCCadence ------------------------------
(***************************************************************************)
(* Instances of Cadence and of its slot arithmetic; "part" says which one a *)
(* behaviour is about.  One time unit stands for a third of the verifier's  *)
(* start window, so a run can start on time, late or early, and complete    *)
(* past its limit, inside a clock of a few units.                           *)
(***************************************************************************)
EXTENDS Cadence, TLC

CONSTANTS r1, r2

VARIABLES
    part,
    \* the variables of the other two instances of Cadence
    now2, contract2, current2, accepted2, attempts2, runs2, prior2, report2,
    anchor, kind, cursor, count, last  \* CadenceSlots

vars2 == <<now2, contract2, current2, accepted2, attempts2, runs2, prior2, report2>>
slotVars == <<anchor, kind, cursor, count, last>>
cadenceVars == <<part, vars, vars2, slotVars>>

\* One slot, with first attempts, retries and re-runs of both, is the instance
\* of the configuration.
OneSlot == "a" :> 1

\* two slots, so that the epoch can be completed, and manual runs
Epoch == INSTANCE Cadence WITH
    Slots <- {"a", "b"}, Due <- ("a" :> 1) @@ ("b" :> 3), ClosesAt <- 4, MaxTime <- 4,
    MaxRunAttempts <- 1, Modes <- {"schedule", "manual"}, Outcomes <- {"ok", "hold"},
    now <- now2, contract <- contract2, current <- current2, accepted <- accepted2,
    attempts <- attempts2, runs <- runs2, prior <- prior2, report <- report2

\* both recorders on one slot
Store == INSTANCE Cadence WITH
    MaxRunAttempts <- 1, DirectStore <- TRUE,
    Outcomes <- {"ok", "safe_terminal", "hold", "wrong_sources"},
    now <- now2, contract <- contract2, current <- current2, accepted <- accepted2,
    attempts <- attempts2, runs <- runs2, prior <- prior2, report <- report2

\* the real thirty-day window, anchored at any hour of a day
Window == INSTANCE CadenceSlots WITH
    AnchorHours <- 0..23, Window <- 30 * 24 * 60,
    Expected <- ("collection" :> 240) @@ ("verifier" :> 2880)

ASSUME InstancesAssumption ==
    /\ Epoch!CadenceAssumption /\ Epoch!NoneAssumption
    /\ Store!CadenceAssumption /\ Store!NoneAssumption /\ Window!SlotsAssumption

NoWalk == anchor = 0 /\ kind = "verifier" /\ cursor = 0 /\ count = 0 /\ last = 0

CadenceInit ==
    /\ Init
    /\ \/ part = "retries" /\ Store!Init /\ NoWalk
       \/ part = "epoch" /\ Epoch!Init /\ NoWalk
       \/ part = "store" /\ Store!Init /\ NoWalk
       \/ part = "window" /\ Store!Init /\ Window!Init

RetriesStep == part = "retries" /\ Next /\ UNCHANGED <<part, vars2, slotVars>>
EpochStep   == part = "epoch" /\ Epoch!Next /\ UNCHANGED <<part, vars, slotVars>>
StoreStep   == part = "store" /\ Store!Next /\ UNCHANGED <<part, vars, slotVars>>
WindowStep  == part = "window" /\ Window!Walk /\ UNCHANGED <<part, vars, vars2>>

CadenceSpec ==
    CadenceInit /\ [][RetriesStep \/ EpochStep \/ StoreStep \/ WindowStep]_cadenceVars

RunSymmetry == Permutations(Runs)

-----------------------------------------------------------------------------
(* Properties *)

\* The epoch as a whole.  Anchored at any hour, materialize_epoch creates exactly
\* the 240 collection and 2,880 verifier slots its own cardinality check demands,
\* and a workflow run names the slot whose interval it starts in; of two slots,
\* with manual runs, COMPLETE is reported of a closed window of earned ones; and
\* where the release scripts' store, which does not look at a retry's first
\* attempt, writes beside the recorder, a credit is still one and timely.
EpochIsExact ==
    /\ part = "window" => Window!SlotsSound
    /\ part = "epoch" => Epoch!CreditSound
    /\ part = "store" => Store!PointerAgrees /\ Store!CreditIsTimely
=============================================================================
