---------------------------- MODULE CadenceSlots ----------------------------
(***************************************************************************)
(* The pure slot algorithms of the cadence: materialize_epoch walks the    *)
(* half-open thirty-day window and creates the collection and verifier     *)
(* slots, and scheduled_slot is what a workflow run uses to name its slot. *)
(* Times are minutes; the walk's loop is the next-state relation.          *)
(***************************************************************************)
EXTENDS Naturals

CONSTANTS
    AnchorHours,   \* hours of the day an epoch may be anchored at
    Window,        \* 30 days in minutes
    Expected       \* EXPECTED_COUNTS: slots of each kind in the window

Kinds == {"collection", "verifier"}

VARIABLES
    anchor,   \* anchor_at: a full hour
    kind,     \* the kind being walked
    cursor,   \* the walk's cursor
    count,    \* slots created so far
    last      \* due_at of the last slot created, 0 before the first

vars == <<anchor, kind, cursor, count, last>>

Hour(t) == (t \div 60) % 24

\* The offset inside an hour that collections run at.
CollectionMinute == 17

Interval(k) == IF k = "collection" THEN 180 ELSE 15

StartTolerance(k) == IF k = "collection" THEN 30 ELSE 5

\* The constants of the release scripts agree: EXPECTED_COUNTS slots of a kind
\* fill the window.
SlotsAssumption ==
    /\ AnchorHours \subseteq 0..23 /\ Window \in Nat /\ Expected \in [Kinds -> Nat]
    /\ \A k \in Kinds : Expected[k] * Interval(k) = Window

\* Mutant: the first collection slot is the next full hour's, aligned or not.
FirstCursorUnaligned(k, a) ==
    IF k = "verifier" THEN a ELSE a + CollectionMinute

\* The first slot at or after the anchor: collections run at minute 17 of every
\* third hour, verifiers at every quarter from the anchor.
FirstCursor(k, a) ==
    IF k = "verifier" THEN a
    ELSE LET aligned == {t \in {a + CollectionMinute + 60 * h : h \in 0..2} : Hour(t) % 3 = 0}
         IN CHOOSE t \in aligned : \A u \in aligned : t <= u

\* The latest slot due at t, as the workflow client computes it.
ScheduledSlot(k, t) ==
    IF k = "verifier" THEN t - (t % 15)
    ELSE LET candidate == t - (t % 180) + CollectionMinute
         IN IF candidate <= t THEN candidate ELSE candidate - 180

Init ==
    /\ \E h \in AnchorHours : anchor = 24 * 60 + 60 * h
    /\ kind \in Kinds
    /\ cursor = FirstCursor(kind, anchor)
    /\ count = 0 /\ last = 0

Walk ==
    /\ cursor < anchor + Window
    /\ count' = count + 1 /\ last' = cursor /\ cursor' = cursor + Interval(kind)
    /\ UNCHANGED <<anchor, kind>>

Spec == Init /\ [][Walk]_vars

-----------------------------------------------------------------------------
\* Types of the walk.
TypeOK ==
    /\ anchor \in Nat /\ kind \in Kinds /\ cursor \in Nat /\ last \in 0..(anchor + Window - 1)
    /\ count \in 0..Expected[kind]

\* Whatever hour the epoch is anchored at, the walk ends with exactly the
\* expected 240 and 2,880 slots, so the cardinality check of materialize_epoch
\* and of the database never refuses an epoch.
ExactCount ==
    cursor >= anchor + Window => count = Expected[kind]

\* Every run that starts from a slot's due minute until the next slot is due
\* names that slot, and the slot's start window ends before the next one is
\* due: a slot can be served by the runs of its own interval and by no other.
RunNamesItsSlot ==
    count > 0 =>
        /\ \A t \in last..(last + Interval(kind) - 1) : ScheduledSlot(kind, t) = last
        /\ StartTolerance(kind) <= Interval(kind)

\* A run inside the epoch names a slot of the epoch, except a collection run
\* before the first slot is due (it names the slot before the anchor).
RunNamesEpochSlot ==
    count = 0 =>
        \A t \in anchor..(cursor - 1) : ScheduledSlot(kind, t) < anchor

\* The walk, the expected counts and the runs' own slot arithmetic agree.
SlotsSound == TypeOK /\ ExactCount /\ RunNamesItsSlot /\ RunNamesEpochSlot
=============================================================================
