--------------------------- MODULE SchedulerGrid ---------------------------
(***************************************************************************)
(* Materialization of the three-hour collection grid: slots.py (which      *)
(* slots are due) and slot_store.py (inserting them under the scheduler    *)
(* cursor's row lock).  Several API calls may be in flight for one scope.  *)
(* A call reads the database clock BEFORE it waits for the cursor row, so  *)
(* it may act on a clock older than another call that overtook it, and two *)
(* calls may both find no cursor row and both try to insert the first one. *)
(*                                                                         *)
(* The same transaction then recovers the scope's commands                 *)
(* (recover_due_commands, CollectionControl).  Recovery raises 403 or 409   *)
(* while a running command has a run whose source or authorization went     *)
(* inactive, and then the slots and the cursor roll back with it.           *)
(***************************************************************************)
EXTENDS Integers, FiniteSets

CONSTANTS
    Callers,     \* concurrent materialize calls for the scope
    Period,      \* GRID_HOURS in clock units
    Offset,      \* GRID_MINUTE in clock units
    Activation,  \* deployment_activation_at
    Horizon,     \* bound on the database clock
    None         \* SQL NULL

ASSUME GridAssumption ==
    /\ Period \in Nat \ {0}
    /\ Offset \in 0..(Period - 1)
    /\ Activation \in Nat
    /\ Horizon \in Nat
    /\ None \notin Int

VARIABLES
    now,        \* clock_timestamp()
    enabled,    \* some source of the scope is enabled
    recoverable,\* recover_due_commands would return, not raise
    rowExists,  \* the scope has a SchedulerCursor row
    last,       \* its last_materialized_slot_utc
    slots,      \* CollectionSlot rows
    pc, clock   \* per call: progress and the clock it has read

vars == <<now, enabled, recoverable, rowExists, last, slots, pc, clock>>

\* A point of the three-hour grid.
OnGrid(t) == t % Period = Offset

\* The due times stored.
DueSlots == {s.due : s \in slots}

-----------------------------------------------------------------------------
(* slots.py *)

\* activation_slot
ActivationSlot(t) ==
    LET candidate == t - (t % Period) + Offset
    IN  IF candidate <= t THEN candidate + Period ELSE candidate

\* The first slot a plan may draft.
FirstMissing(cursor) ==
    IF cursor = None THEN ActivationSlot(Activation) ELSE cursor + Period

\* Mutant: after an outage only the latest slot is drafted.
PlannedSlotsLatestOnly(cursor, t) ==
    {d \in FirstMissing(cursor)..t :
        (d - FirstMissing(cursor)) % Period = 0 /\ d + Period > t}

\* plan_slot_materialization: every missing slot up to the call's clock
PlannedSlots(cursor, t) ==
    {d \in FirstMissing(cursor)..t : (d - FirstMissing(cursor)) % Period = 0}

\* Mutant: the cursor follows the call's clock.
NextCursorFromClock(cursor, t) ==
    ActivationSlot(t) - Period

\* The cursor committed with the plan: its last slot, or unchanged.
NextCursor(cursor, t) ==
    LET planned == PlannedSlots(cursor, t)
    IN  IF planned = {} THEN cursor
        ELSE CHOOSE d \in planned : \A e \in planned : e <= d

-----------------------------------------------------------------------------
(* slot_store.py *)

Init ==
    /\ now = 0
    /\ enabled \in BOOLEAN /\ recoverable \in BOOLEAN
    /\ rowExists = FALSE
    /\ last = None
    /\ slots = {}
    /\ pc = [p \in Callers |-> "idle"]
    /\ clock = [p \in Callers |-> 0]

\* The call reads the clock; it holds no lock yet.
ReadClock(p) ==
    /\ pc[p] = "idle"
    /\ pc' = [pc EXCEPT ![p] = "locking"]
    /\ clock' = [clock EXCEPT ![p] = now]
    /\ UNCHANGED <<now, enabled, recoverable, rowExists, last, slots>>

\* SELECT .. FOR UPDATE finds no row, so nothing is locked.
FindNoCursor(p) ==
    /\ pc[p] = "locking"
    /\ ~rowExists
    /\ pc' = [pc EXCEPT ![p] = "creating"]
    /\ UNCHANGED <<now, enabled, recoverable, rowExists, last, slots, clock>>

\* The rest of materialize_slots against one committed cursor value.  The
\* unique index on due slots is left out: the cursor alone must prevent
\* duplicates, so that the index never has to reject a call.
InsertPlan(p, cursor) ==
    /\ enabled
    /\ cursor # None => OnGrid(cursor)
    /\ slots' = slots \cup {[due |-> d, at |-> clock[p]] :
                                d \in PlannedSlots(cursor, clock[p])}
    /\ last' = NextCursor(cursor, clock[p])
    /\ rowExists' = TRUE

\* The call ends and leaves the other variables alone.
Finish(p) ==
    /\ pc' = [pc EXCEPT ![p] = "idle"]
    /\ UNCHANGED <<now, enabled, recoverable, clock>>

\* The row lock is granted: read the committed cursor, insert, recover, commit.
MaterializeLocked(p) ==
    /\ pc[p] = "locking"
    /\ rowExists /\ recoverable
    /\ InsertPlan(p, last)
    /\ Finish(p)

\* The call that saw no row inserts it first, recovers and commits.
MaterializeFirst(p) ==
    /\ pc[p] = "creating"
    /\ ~rowExists /\ recoverable
    /\ InsertPlan(p, None)
    /\ Finish(p)

\* 403 without an enabled source, the loser of the first insert, or a recovery that
\* raises once the slots are inserted: rollback.
Abort(p) ==
    /\ \/ pc[p] \in {"locking", "creating"} /\ ~enabled
       \/ pc[p] = "creating" /\ rowExists
       \/ pc[p] = (IF rowExists THEN "locking" ELSE "creating") /\ ~recoverable
    /\ Finish(p)
    /\ UNCHANGED <<rowExists, last, slots>>

\* The database clock advances.
Tick ==
    /\ now < Horizon
    /\ now' = now + 1
    /\ UNCHANGED <<enabled, recoverable, rowExists, last, slots, pc, clock>>

\* Operators enable and disable sources (outside this component).
ToggleSources ==
    /\ enabled' = ~enabled
    /\ UNCHANGED <<now, recoverable, rowExists, last, slots, pc, clock>>

\* A running command's source goes inactive, or its collector ends the command
\* (CollectionControl): recovery begins to raise, or no longer does.
ToggleRecovery ==
    /\ recoverable' = ~recoverable
    /\ UNCHANGED <<now, enabled, rowExists, last, slots, pc, clock>>

Call(p) ==
    \/ ReadClock(p)
    \/ FindNoCursor(p)
    \/ MaterializeLocked(p)
    \/ MaterializeFirst(p)
    \/ Abort(p)

Next ==
    \/ Tick
    \/ ToggleSources
    \/ ToggleRecovery
    \/ \E p \in Callers : Call(p)

Fairness ==
    /\ WF_vars(Tick)
    /\ \A p \in Callers : WF_vars(Call(p))

Spec == Init /\ [][Next]_vars

FairSpec == Spec /\ Fairness

-----------------------------------------------------------------------------
(* Properties *)

\* Every variable keeps its type; the cursor is NULL or a clock value.
TypeOK ==
    /\ now \in Nat
    /\ enabled \in BOOLEAN /\ recoverable \in BOOLEAN
    /\ rowExists \in BOOLEAN
    /\ last \in Nat \cup {None}
    /\ slots \subseteq [due : Nat, at : Nat]
    /\ pc \in [Callers -> {"idle", "locking", "creating"}]
    /\ clock \in [Callers -> Nat]

\* activation_slot returns the first grid point strictly after its argument,
\* also when the argument lies exactly on the grid.
ActivationSlotIsNext ==
    LET s == ActivationSlot(now)
    IN  /\ s > now
        /\ OnGrid(s)
        /\ \A t \in (now + 1)..(s - 1) : ~OnGrid(t)

\* However calls overtake each other, the stored slots are exactly the grid
\* points from the activation slot to the cursor: none skipped by a catch-up
\* after an outage, none inserted twice, none beyond the cursor.
GridIsContiguous ==
    /\ DueSlots = IF last = None THEN {}
                  ELSE {d \in ActivationSlot(Activation)..last : OnGrid(d)}
    /\ Cardinality(slots) = Cardinality(DueSlots)

\* No slot is materialized before it is due, even by a call whose clock is old.
NeverEarly ==
    \A s \in slots : s.due <= s.at /\ s.at <= now

\* What overlapping calls with old clocks leave behind: the activation slot is
\* the next grid point, every grid point up to the cursor is stored once, and
\* none before its time.
GridSound == TypeOK /\ ActivationSlotIsNext /\ GridIsContiguous /\ NeverEarly

\* A slot missed while no source was enabled, or while recovery raised and rolled
\* the slots back with it, is materialized once one stays enabled, recovery no
\* longer raises and calls keep arriving (materialize, materialize_slots).  Both
\* premises are needed: one blocked command keeps the whole scope's grid empty.
EveryDueSlotAppears ==
    <>[](enabled /\ recoverable) =>
        \A d \in {t \in (Activation + 1)..Horizon : OnGrid(t)} : <>(d \in DueSlots)
=============================================================================
