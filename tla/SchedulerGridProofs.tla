------------------------ MODULE SchedulerGridProofs ------------------------
(***************************************************************************)
(* The collection grid is sound for every grid period, offset, activation  *)
(* time and number of overlapping calls.                                   *)
(*                                                                         *)
(* The contents of the slot table (GridIsContiguous) say where the cursor  *)
(* is only indirectly, so the invariant adds that the cursor is a grid     *)
(* point at or after the activation slot and that no call holds a clock    *)
(* from the future.  Everything else is arithmetic of one period: a plan   *)
(* starts at the first grid point after the cursor and ends at the last    *)
(* one before the call's clock.                                            *)
(***************************************************************************)
EXTENDS SchedulerGrid, FiniteSetTheorems, FunctionTheorems, TLAPS

\* The cursor: NULL before the first plan, then a grid point that the
\* activation slot does not exceed.
CursorOnGrid ==
    /\ ~rowExists => last = None
    /\ last # None => OnGrid(last) /\ ActivationSlot(Activation) <= last

\* No slot is stored twice.
OneEach == \A s, u \in slots : s.due = u.due => s = u

\* The clock of a call is one the database has shown.
ClocksRead == \A p \in Callers : clock[p] <= now

\* The grid points between two times.
GridPoints(a, b) == {d \in a..b : OnGrid(d)}

\* What is stored, by the cursor.
StoredUpTo(c) == IF c = None THEN {} ELSE GridPoints(ActivationSlot(Activation), c)

GridInv ==
    /\ TypeOK
    /\ CursorOnGrid
    /\ DueSlots = StoredUpTo(last)
    /\ OneEach
    /\ NeverEarly
    /\ ClocksRead

-----------------------------------------------------------------------------
(* Arithmetic of one period *)

\* Division with a rest below the period.
LEMMA QuotientRest ==
    ASSUME NEW P \in Nat \ {0}, NEW t \in Int
    PROVE  /\ t % P \in 0..(P - 1)
           /\ t \div P \in Int
           /\ t = ((t \div P) * P) + (t % P)
  BY SMT

\* The rest of a sum that is written as quotient and rest.
LEMMA RestOfSum ==
    ASSUME NEW P \in Nat \ {0}, NEW q \in Int, NEW r \in 0..(P - 1)
    PROVE  (q * P + r) % P = r
  BY SMT

\* A multiple of the period that is positive is at least the period.
LEMMA WholePeriod ==
    ASSUME NEW P \in Nat \ {0}, NEW q \in Int, q * P > 0
    PROVE  q * P >= P
  <1>1. q >= 1
    <2>1. CASE q <= 0
      <3>1. (0 - q) * P >= 0  BY <2>1
      <3> QED  BY <3>1
    <2> QED  BY <2>1
  <1> QED  BY <1>1

\* From a grid point, the grid points are whole periods away.
LEMMA GridFrom ==
    ASSUME NEW t \in Int, NEW u \in Int, OnGrid(t)
    PROVE  OnGrid(u) <=> (u - t) % Period = 0
  <1>0. Period \in Nat \ {0} /\ Offset \in 0..(Period - 1)  BY GridAssumption
  <1> DEFINE q == t \div Period
             w == u \div Period
             v == (u - t) \div Period
  <1>1. t = q * Period + Offset /\ q \in Int
    BY <1>0, QuotientRest DEF OnGrid
  <1>2. u = w * Period + (u % Period) /\ w \in Int /\ u % Period \in 0..(Period - 1)
    BY <1>0, QuotientRest
  <1>3. u - t = v * Period + ((u - t) % Period) /\ v \in Int
    BY <1>0, QuotientRest
  <1> HIDE DEF q, w, v
  <1>4. ASSUME OnGrid(u) PROVE (u - t) % Period = 0
    <2>1. u = w * Period + Offset  BY <1>2, <1>4 DEF OnGrid
    <2>2. u - t = (w - q) * Period + 0 /\ w - q \in Int  BY <1>0, <1>1, <1>2, <2>1
    <2> QED  BY <1>0, <2>2, RestOfSum
  <1>5. ASSUME (u - t) % Period = 0 PROVE OnGrid(u)
    <2>1. u - t = v * Period  BY <1>0, <1>3, <1>5
    <2>2. u = (q + v) * Period + Offset /\ q + v \in Int  BY <1>0, <1>1, <1>3, <2>1
    <2> QED  BY <1>0, <2>2, RestOfSum DEF OnGrid
  <1> QED  BY <1>4, <1>5

\* Two grid points are a period apart or more.
LEMMA GridGap ==
    ASSUME NEW t \in Int, NEW u \in Int, OnGrid(t), OnGrid(u), t < u
    PROVE  t + Period <= u
  <1>0. Period \in Nat \ {0} BY GridAssumption
  <1> DEFINE v == (u - t) \div Period
  <1>1. (u - t) % Period = 0  BY GridFrom
  <1>2. u - t = v * Period /\ v \in Int  BY <1>0, <1>1, QuotientRest
  <1> HIDE DEF v
  <1>3. v * Period >= Period  BY <1>0, <1>2, WholePeriod
  <1> QED  BY <1>0, <1>2, <1>3

\* A period after a grid point is the next one.
LEMMA GridStep ==
    ASSUME NEW t \in Int, OnGrid(t)
    PROVE  OnGrid(t + Period)
  <1>0. Period \in Nat \ {0} BY GridAssumption
  <1>1. (t + Period) - t = 1 * Period + 0  BY <1>0
  <1>2. ((t + Period) - t) % Period = 0  BY <1>0, <1>1, RestOfSum
  <1> QED  BY <1>0, <1>2, GridFrom

\* activation_slot: the first grid point strictly after its argument.
LEMMA NextGridPoint ==
    ASSUME NEW t \in Nat
    PROVE  /\ ActivationSlot(t) \in Nat
           /\ ActivationSlot(t) > t
           /\ OnGrid(ActivationSlot(t))
           /\ \A d \in Int : OnGrid(d) /\ t < d => ActivationSlot(t) <= d
  <1>0. Period \in Nat \ {0} /\ Offset \in 0..(Period - 1)  BY GridAssumption
  <1> DEFINE q == t \div Period
             c == t - (t % Period) + Offset
  <1>1. t = q * Period + (t % Period) /\ q \in Int /\ t % Period \in 0..(Period - 1)
    BY <1>0, QuotientRest
  <1>2. c = q * Period + Offset /\ c \in Int
    BY <1>0, <1>1
  <1>3. OnGrid(c)
    <2> HIDE DEF q, c
    <2> QED  BY <1>0, <1>1, <1>2, RestOfSum DEF OnGrid
  <1>4. ActivationSlot(t) = IF c <= t THEN c + Period ELSE c
    BY DEF ActivationSlot
  <1>5. c + Period > t /\ c - Period <= t  BY <1>0, <1>1
  <1> HIDE DEF c
  <1>6. OnGrid(c + Period)  BY <1>2, <1>3, GridStep
  <1>7. ActivationSlot(t) \in Int /\ ActivationSlot(t) > t /\ OnGrid(ActivationSlot(t))
    BY <1>0, <1>2, <1>3, <1>4, <1>5, <1>6
  <1>8. ActivationSlot(t) - Period <= t  BY <1>0, <1>2, <1>4, <1>5
  <1>9. ASSUME NEW d \in Int, OnGrid(d), t < d PROVE ActivationSlot(t) <= d
    <2>1. CASE d < ActivationSlot(t)
      <3>1. d + Period <= ActivationSlot(t)  BY <1>7, <1>9, <2>1, GridGap
      <3> QED  BY <1>0, <1>7, <1>8, <1>9, <3>1
    <2> QED  BY <1>7, <2>1
  <1> QED  BY <1>7, <1>9

\* The last grid point before a time that lies after a grid point.
LEMMA LastGridPoint ==
    ASSUME NEW f \in Int, NEW t \in Int, OnGrid(f), f <= t
    PROVE  \E m \in f..t : OnGrid(m) /\ \A d \in f..t : OnGrid(d) => d <= m
  <1>0. Period \in Nat \ {0} BY GridAssumption
  <1> DEFINE r == (t - f) % Period
             q == (t - f) \div Period
             m == t - r
  <1>1. t - f = q * Period + r /\ q \in Int /\ r \in 0..(Period - 1)
    BY <1>0, QuotientRest
  <1> HIDE DEF q, r
  <1>2. m - f = q * Period + 0 /\ m \in Int /\ m <= t /\ t < m + Period
    BY <1>0, <1>1
  <1>3. f <= m
    <2>0. q \in Int  BY <1>1
    <2>1. CASE q < 0
      <3>1. (0 - q) * Period >= Period  BY <1>0, <2>0, <2>1, WholePeriod
      <3> QED  BY <1>0, <1>1, <3>1
    <2>2. CASE q >= 0
      <3>1. q * Period \in Int /\ q * Period >= 0  BY <1>0, <2>0, <2>2
      <3> QED  BY <1>2, <3>1
    <2> QED  BY <2>0, <2>1, <2>2
  <1> HIDE DEF m
  <1>4. (m - f) % Period = 0  BY <1>0, <1>1, <1>2, RestOfSum
  <1>5. OnGrid(m)  BY <1>2, <1>4, GridFrom
  <1>6. ASSUME NEW d \in f..t, OnGrid(d) PROVE d <= m
    <2>1. CASE m < d
      <3>1. m + Period <= d  BY <1>2, <1>5, <1>6, <2>1, GridGap
      <3> QED  BY <1>0, <1>2, <3>1
    <2> QED  BY <1>2, <2>1
  <1> QED  BY <1>2, <1>3, <1>5, <1>6

-----------------------------------------------------------------------------
(* What a plan drafts *)

\* A cursor the table may hold.
Cursor(c) == c \in Nat \cup {None} /\ (c # None => OnGrid(c))

\* The first slot of a plan is the first grid point that is not stored yet.
LEMMA FirstMissingIsNext ==
    ASSUME NEW c, Cursor(c)
    PROVE  /\ FirstMissing(c) \in Nat
           /\ OnGrid(FirstMissing(c))
           /\ c = None => FirstMissing(c) = ActivationSlot(Activation)
           /\ c # None => /\ FirstMissing(c) = c + Period
                          /\ \A d \in Int : OnGrid(d) /\ c < d => FirstMissing(c) <= d
  <1>0. Period \in Nat \ {0} /\ Activation \in Nat /\ None \notin Int
    BY GridAssumption
  <1>1. CASE c = None  BY <1>0, <1>1, NextGridPoint DEF FirstMissing
  <1>2. CASE c # None
    <2>1. c \in Nat /\ OnGrid(c)  BY <1>2 DEF Cursor
    <2>2. OnGrid(c + Period) /\ c + Period \in Nat  BY <1>0, <2>1, GridStep
    <2>3. \A d \in Int : OnGrid(d) /\ c < d => c + Period <= d  BY <2>1, GridGap
    <2> QED  BY <1>2, <2>2, <2>3 DEF FirstMissing
  <1> QED  BY <1>1, <1>2

\* A plan drafts the grid points from there to the clock.
LEMMA PlanIsGridPoints ==
    ASSUME NEW c, Cursor(c), NEW t \in Nat
    PROVE  PlannedSlots(c, t) = GridPoints(FirstMissing(c), t)
  <1>1. FirstMissing(c) \in Nat /\ OnGrid(FirstMissing(c))
    BY FirstMissingIsNext
  <1>2. \A d \in FirstMissing(c)..t :
            OnGrid(d) <=> (d - FirstMissing(c)) % Period = 0
    BY <1>1, GridFrom
  <1> QED  BY <1>2 DEF PlannedSlots, GridPoints

\* The cursor committed with a plan is its last slot.
LEMMA CursorAfterPlan ==
    ASSUME NEW c, Cursor(c), NEW t \in Nat
    PROVE  /\ Cursor(NextCursor(c, t))
           /\ PlannedSlots(c, t) = {} => NextCursor(c, t) = c
           /\ PlannedSlots(c, t) # {} =>
                 /\ NextCursor(c, t) \in PlannedSlots(c, t)
                 /\ \A d \in PlannedSlots(c, t) : d <= NextCursor(c, t)
  <1> DEFINE f == FirstMissing(c)
             n == NextCursor(c, t)
  <1>1. f \in Nat /\ OnGrid(f)  BY FirstMissingIsNext
  <1>2. PlannedSlots(c, t) = GridPoints(f, t)  BY PlanIsGridPoints
  <1>3. n = IF PlannedSlots(c, t) = {} THEN c
            ELSE CHOOSE d \in PlannedSlots(c, t) : \A e \in PlannedSlots(c, t) : e <= d
    BY DEF NextCursor
  <1> HIDE DEF f, n
  <1>4. ASSUME PlannedSlots(c, t) # {}
        PROVE  n \in PlannedSlots(c, t) /\ \A d \in PlannedSlots(c, t) : d <= n
    <2>1. f <= t  BY <1>1, <1>2, <1>4 DEF GridPoints
    <2>2. \E m \in f..t : OnGrid(m) /\ \A d \in f..t : OnGrid(d) => d <= m
      BY <1>1, <2>1, LastGridPoint
    <2>3. \E m \in PlannedSlots(c, t) : \A d \in PlannedSlots(c, t) : d <= m
      BY <1>2, <2>2 DEF GridPoints
    <2> QED  BY <1>3, <1>4, <2>3
  <1>5. Cursor(n)
    <2>1. CASE PlannedSlots(c, t) = {}  BY <1>3, <2>1
    <2>2. CASE PlannedSlots(c, t) # {}
      <3>1. n \in f..t /\ OnGrid(n)  BY <1>2, <1>4, <2>2 DEF GridPoints
      <3> QED  BY <1>1, <3>1 DEF Cursor
    <2> QED  BY <2>1, <2>2
  <1> QED  BY <1>3, <1>4, <1>5 DEF n

\* What is stored up to a cursor, and what a plan adds, is what is stored up to
\* the next one.
LEMMA PlanFillsGrid ==
    ASSUME NEW c, Cursor(c), NEW t \in Nat,
           c # None => ActivationSlot(Activation) <= c
    PROVE  /\ StoredUpTo(NextCursor(c, t)) = StoredUpTo(c) \cup PlannedSlots(c, t)
           /\ NextCursor(c, t) # None => ActivationSlot(Activation) <= NextCursor(c, t)
           /\ \A d \in PlannedSlots(c, t) : d \in Nat /\ d <= t /\ d \notin StoredUpTo(c)
  <1> DEFINE a == ActivationSlot(Activation)
             f == FirstMissing(c)
             n == NextCursor(c, t)
             plan == PlannedSlots(c, t)
  <1>0. Activation \in Nat /\ None \notin Int /\ Period \in Nat \ {0}  BY GridAssumption
  <1>1. a \in Nat /\ OnGrid(a)  BY <1>0, NextGridPoint
  <1>2. /\ f \in Nat
        /\ c = None => f = a
        /\ c # None => f = c + Period
        /\ c # None => \A d \in Int : OnGrid(d) /\ c < d => f <= d
    BY FirstMissingIsNext
  <1>3. plan = GridPoints(f, t)  BY PlanIsGridPoints
  <1>4. /\ Cursor(n)
        /\ plan = {} => n = c
        /\ plan # {} => n \in plan /\ \A d \in plan : d <= n
    BY CursorAfterPlan
  <1>5. c # None => c \in Nat /\ a <= c  BY DEF Cursor
  <1>6. StoredUpTo(c) = IF c = None THEN {} ELSE GridPoints(a, c)
    BY DEF StoredUpTo
  <1>7. StoredUpTo(n) = IF n = None THEN {} ELSE GridPoints(a, n)
    BY DEF StoredUpTo
  <1> HIDE DEF a, f, n, plan
  <1>8. \A d \in plan : d \in Nat /\ f <= d /\ d <= t /\ OnGrid(d)
    BY <1>2, <1>3 DEF GridPoints
  <1>9. \A d \in plan : d \notin StoredUpTo(c)
    BY <1>0, <1>2, <1>5, <1>6, <1>8 DEF GridPoints
  <1>10. CASE plan = {}
    BY <1>4, <1>5, <1>8, <1>9, <1>10 DEF n, plan, a
  <1>11. CASE plan # {}
    <2>1. n \in plan /\ n \in Nat /\ f <= n /\ n <= t /\ \A d \in plan : d <= n
      BY <1>4, <1>8, <1>11
    <2>2. n # None  BY <1>0, <2>1
    <2>3. a <= f  BY <1>0, <1>1, <1>2, <1>5
    <2>4. ASSUME NEW d \in GridPoints(a, n) PROVE d \in StoredUpTo(c) \cup plan
      <3>1. d \in Int /\ a <= d /\ d <= n /\ OnGrid(d)  BY <1>1, <2>1 DEF GridPoints
      <3>2. CASE f <= d  BY <1>2, <1>3, <2>1, <3>1, <3>2 DEF GridPoints
      <3>3. CASE d < f
        <4>1. c # None  BY <1>1, <1>2, <3>1, <3>3
        <4>2. d <= c  BY <1>2, <1>5, <3>1, <3>3, <4>1
        <4> QED  BY <1>1, <1>5, <1>6, <3>1, <4>1, <4>2 DEF GridPoints
      <3> QED  BY <1>2, <3>1, <3>2, <3>3
    <2>5. ASSUME NEW d \in StoredUpTo(c) \cup plan PROVE d \in GridPoints(a, n)
      <3>1. CASE d \in plan
        <4>1. d \in Nat /\ f <= d /\ OnGrid(d) /\ d <= n  BY <1>8, <2>1, <3>1
        <4> QED  BY <1>1, <1>2, <2>1, <2>3, <4>1 DEF GridPoints
      <3>2. CASE d \in StoredUpTo(c)
        <4>1. c # None /\ d \in a..c /\ OnGrid(d)  BY <1>6, <3>2 DEF GridPoints
        <4>2. c <= n  BY <1>0, <1>2, <1>5, <2>1, <4>1
        <4> QED  BY <1>1, <1>5, <2>1, <4>1, <4>2 DEF GridPoints
      <3> QED  BY <2>5, <3>1, <3>2
    <2>6. StoredUpTo(n) = StoredUpTo(c) \cup plan  BY <1>7, <2>2, <2>4, <2>5
    <2>7. a <= n  BY <1>1, <1>2, <2>1, <2>3
    <2> QED  BY <1>8, <1>9, <2>6, <2>7 DEF n, plan, a
  <1> QED  BY <1>10, <1>11

-----------------------------------------------------------------------------
(* The invariant is inductive *)

\* Nothing is stored at first.
LEMMA InitGrid == Init => GridInv
  <1> SUFFICES ASSUME Init PROVE GridInv  OBVIOUS
  <1>1. TypeOK  BY DEF Init, TypeOK
  <1>2. DueSlots = StoredUpTo(last)  BY DEF Init, DueSlots, StoredUpTo
  <1>3. CursorOnGrid /\ OneEach /\ NeverEarly
    BY DEF Init, CursorOnGrid, OneEach, NeverEarly
  <1>4. ClocksRead  BY DEF Init, ClocksRead
  <1> QED  BY <1>1, <1>2, <1>3, <1>4 DEF GridInv

\* One call inserts what its clock makes due after the cursor it was given.
LEMMA InsertKeepsGrid ==
    ASSUME GridInv, NEW p \in Callers, InsertPlan(p, last), Finish(p)
    PROVE  GridInv'
  <1> DEFINE plan == PlannedSlots(last, clock[p])
             new == {[due |-> d, at |-> clock[p]] : d \in plan}
  <1>0. /\ TypeOK /\ CursorOnGrid /\ OneEach /\ NeverEarly /\ ClocksRead
        /\ DueSlots = StoredUpTo(last)
    BY DEF GridInv
  <1>1. Cursor(last) /\ clock[p] \in Nat /\ clock[p] <= now
    BY <1>0 DEF TypeOK, Cursor, CursorOnGrid, ClocksRead
  <1>2. last # None => ActivationSlot(Activation) <= last
    BY <1>0 DEF CursorOnGrid
  <1>3. /\ slots' = slots \cup new
        /\ last' = NextCursor(last, clock[p])
        /\ rowExists' = TRUE
        /\ pc' = [pc EXCEPT ![p] = "idle"]
        /\ UNCHANGED <<now, enabled, recoverable, clock>>
    BY DEF InsertPlan, Finish
  <1>4. /\ StoredUpTo(last') = StoredUpTo(last) \cup plan
        /\ last' # None => ActivationSlot(Activation) <= last'
        /\ \A d \in plan : d \in Nat /\ d <= clock[p] /\ d \notin StoredUpTo(last)
    BY <1>1, <1>2, <1>3, PlanFillsGrid
  <1>5. Cursor(last')  BY <1>1, <1>3, CursorAfterPlan
  <1> HIDE DEF plan
  <1>6. TypeOK'
    <2>1. new \subseteq [due : Nat, at : Nat]  BY <1>1, <1>4
    <2>2. last' \in Nat \cup {None}  BY <1>5 DEF Cursor
    <2> QED  BY <1>0, <1>3, <2>1, <2>2 DEF TypeOK
  <1>7. CursorOnGrid'
    <2>1. last' # None => OnGrid(last')  BY <1>5 DEF Cursor
    <2> QED  BY <1>3, <1>4, <2>1 DEF CursorOnGrid, OnGrid
  <1>8. (DueSlots = StoredUpTo(last))'
    <2>1. DueSlots' = DueSlots \cup plan
      <3>1. \A d \in plan : \E s \in new : s.due = d
        <4> TAKE d \in plan
        <4>1. [due |-> d, at |-> clock[p]] \in new  OBVIOUS
        <4> QED  BY <4>1
      <3>2. \A s \in new : s.due \in plan  OBVIOUS
      <3> HIDE DEF new
      <3> QED  BY <1>3, <3>1, <3>2 DEF DueSlots
    <2>2. StoredUpTo(last)' = StoredUpTo(last')
      BY DEF StoredUpTo, GridPoints
    <2> QED  BY <1>0, <1>4, <2>1, <2>2
  <1>9. OneEach'
    <2>1. \A s \in slots : s.due \notin plan  BY <1>0, <1>4 DEF DueSlots
    <2>2. \A s \in new : s.due \in plan /\ s = [due |-> s.due, at |-> clock[p]]
      OBVIOUS
    <2>3. ASSUME NEW s \in slots \cup new, NEW u \in slots \cup new, s.due = u.due
          PROVE  s = u
      <3>1. CASE s \in slots /\ u \in slots  BY <1>0, <2>3, <3>1 DEF OneEach
      <3>2. CASE s \in new /\ u \in new
        <4>1. s = [due |-> s.due, at |-> clock[p]] /\ u = [due |-> u.due, at |-> clock[p]]
          BY <2>2, <3>2
        <4> HIDE DEF new
        <4> QED  BY <2>3, <4>1
      <3>3. ~((s \in slots /\ u \in new) \/ (s \in new /\ u \in slots))
        BY <2>1, <2>2, <2>3
      <3> QED  BY <3>1, <3>2, <3>3
    <2> HIDE DEF new
    <2> QED  BY <1>3, <2>3 DEF OneEach
  <1>10. NeverEarly'
    <2>1. \A s \in new : s.due <= s.at /\ s.at <= now  BY <1>1, <1>4
    <2> QED  BY <1>0, <1>3, <2>1 DEF NeverEarly
  <1>11. ClocksRead'  BY <1>0, <1>3 DEF ClocksRead
  <1> QED  BY <1>6, <1>7, <1>8, <1>9, <1>10, <1>11 DEF GridInv

\* Steps that leave the tables alone.
LEMMA TablesStand ==
    ASSUME GridInv, UNCHANGED <<rowExists, last, slots>>, TypeOK', ClocksRead', now <= now'
    PROVE  GridInv'
  <1>1. NeverEarly'
    <2>1. \A s \in slots : s.at \in Nat  BY DEF GridInv, TypeOK
    <2> QED  BY <2>1 DEF GridInv, NeverEarly, TypeOK
  <1>2. (DueSlots = StoredUpTo(last))'
    BY DEF GridInv, DueSlots, StoredUpTo, GridPoints, OnGrid
  <1>3. OneEach' /\ CursorOnGrid'
    BY DEF GridInv, OneEach, CursorOnGrid, OnGrid
  <1> QED  BY <1>1, <1>2, <1>3 DEF GridInv

\* Every step of a call, the clock or an operator keeps the invariant.
LEMMA NextKeepsGrid == GridInv /\ [Next]_vars => GridInv'
  <1> SUFFICES ASSUME GridInv, [Next]_vars PROVE GridInv'  OBVIOUS
  <1>0. TypeOK /\ ClocksRead /\ CursorOnGrid  BY DEF GridInv
  <1>1. CASE Tick
    <2>1. now' = now + 1 /\ UNCHANGED <<enabled, recoverable, rowExists, last, slots, pc, clock>>
      BY <1>1 DEF Tick
    <2>2. TypeOK'  BY <1>0, <2>1 DEF TypeOK
    <2>3. ClocksRead'  BY <1>0, <2>1 DEF ClocksRead, TypeOK
    <2> QED  BY <1>0, <2>1, <2>2, <2>3, TablesStand DEF TypeOK
  <1>2. CASE ToggleSources
    <2>1. enabled' = ~enabled /\ UNCHANGED <<now, recoverable, rowExists, last, slots, pc, clock>>
      BY <1>2 DEF ToggleSources
    <2>2. TypeOK'  BY <1>0, <2>1 DEF TypeOK
    <2>3. ClocksRead'  BY <1>0, <2>1 DEF ClocksRead
    <2> QED  BY <1>0, <2>1, <2>2, <2>3, TablesStand DEF TypeOK
  <1>3. CASE ToggleRecovery
    <2>1. /\ recoverable' = ~recoverable
          /\ UNCHANGED <<now, enabled, rowExists, last, slots, pc, clock>>
      BY <1>3 DEF ToggleRecovery
    <2>2. TypeOK'  BY <1>0, <2>1 DEF TypeOK
    <2>3. ClocksRead'  BY <1>0, <2>1 DEF ClocksRead
    <2> QED  BY <1>0, <2>1, <2>2, <2>3, TablesStand DEF TypeOK
  <1>4. ASSUME NEW p \in Callers, Call(p) PROVE GridInv'
    <2>1. CASE ReadClock(p)
      <3>1. /\ pc' = [pc EXCEPT ![p] = "locking"]
            /\ clock' = [clock EXCEPT ![p] = now]
            /\ UNCHANGED <<now, enabled, recoverable, rowExists, last, slots>>
        BY <2>1 DEF ReadClock
      <3>2. TypeOK'  BY <1>0, <3>1 DEF TypeOK
      <3>3. ClocksRead'  BY <1>0, <3>1 DEF ClocksRead, TypeOK
      <3> QED  BY <1>0, <3>1, <3>2, <3>3, TablesStand DEF TypeOK
    <2>2. CASE FindNoCursor(p)
      <3>1. /\ pc' = [pc EXCEPT ![p] = "creating"]
            /\ UNCHANGED <<now, enabled, recoverable, rowExists, last, slots, clock>>
        BY <2>2 DEF FindNoCursor
      <3>2. TypeOK'  BY <1>0, <3>1 DEF TypeOK
      <3>3. ClocksRead'  BY <1>0, <3>1 DEF ClocksRead
      <3> QED  BY <1>0, <3>1, <3>2, <3>3, TablesStand DEF TypeOK
    <2>3. CASE MaterializeLocked(p)
      BY <2>3, InsertKeepsGrid DEF MaterializeLocked
    <2>4. CASE MaterializeFirst(p)
      <3>1. last = None  BY <1>0, <2>4 DEF MaterializeFirst, CursorOnGrid
      <3>2. InsertPlan(p, last) /\ Finish(p)  BY <2>4, <3>1 DEF MaterializeFirst
      <3> QED  BY <3>2, InsertKeepsGrid
    <2>5. CASE Abort(p)
      <3>1. /\ pc' = [pc EXCEPT ![p] = "idle"]
            /\ UNCHANGED <<now, enabled, recoverable, clock, rowExists, last, slots>>
        BY <2>5 DEF Abort, Finish
      <3>2. TypeOK'  BY <1>0, <3>1 DEF TypeOK
      <3>3. ClocksRead'  BY <1>0, <3>1 DEF ClocksRead
      <3> QED  BY <1>0, <3>1, <3>2, <3>3, TablesStand DEF TypeOK
    <2> QED  BY <1>4, <2>1, <2>2, <2>3, <2>4, <2>5 DEF Call
  <1>5. CASE UNCHANGED vars
    <2>1. UNCHANGED <<now, enabled, recoverable, rowExists, last, slots, pc, clock>>
      BY <1>5 DEF vars
    <2>2. TypeOK'  BY <1>0, <2>1 DEF TypeOK
    <2>3. ClocksRead'  BY <1>0, <2>1 DEF ClocksRead
    <2> QED  BY <1>0, <2>1, <2>2, <2>3, TablesStand DEF TypeOK
  <1> QED  BY <1>1, <1>2, <1>3, <1>4, <1>5 DEF Next

-----------------------------------------------------------------------------
(* What follows from it *)

\* As many rows as due times: reading the due time of a row is a bijection.
LEMMA OneRowEach ==
    ASSUME GridInv
    PROVE  Cardinality(slots) = Cardinality(DueSlots)
  <1> DEFINE f == [d \in DueSlots |-> CHOOSE s \in slots : s.due = d]
  <1>0. OneEach /\ TypeOK /\ DueSlots = StoredUpTo(last)  BY DEF GridInv
  <1>1. IsFiniteSet(DueSlots)
    <2>1. CASE last = None  BY <1>0, <2>1, FS_EmptySet DEF StoredUpTo
    <2>2. CASE last # None
      <3>1. last \in Nat /\ ActivationSlot(Activation) \in Nat
        BY <1>0, <2>2, NextGridPoint, GridAssumption DEF TypeOK
      <3>2. IsFiniteSet(ActivationSlot(Activation)..last)  BY <3>1, FS_Interval
      <3>3. DueSlots \in SUBSET (ActivationSlot(Activation)..last)
        BY <1>0, <2>2 DEF StoredUpTo, GridPoints
      <3> QED  BY <3>2, <3>3, FS_Subset
    <2> QED  BY <2>1, <2>2
  <1>2. \A d \in DueSlots : \E s \in slots : s.due = d  BY DEF DueSlots
  <1>3. \A d \in DueSlots : f[d] \in slots /\ f[d].due = d  BY <1>2
  <1> HIDE DEF f
  <1>4. f \in [DueSlots -> slots]  BY <1>3 DEF f
  <1>5. ASSUME NEW d \in DueSlots, NEW e \in DueSlots, f[d] = f[e] PROVE d = e
    BY <1>3, <1>5
  <1>6. ASSUME NEW s \in slots PROVE \E d \in DueSlots : f[d] = s
    <2>1. s.due \in DueSlots  BY DEF DueSlots
    <2>2. f[s.due] \in slots /\ f[s.due].due = s.due  BY <1>3, <2>1
    <2>3. f[s.due] = s  BY <1>0, <2>2 DEF OneEach
    <2> QED  BY <2>1, <2>3
  <1>7. f \in Bijection(DueSlots, slots)
    BY <1>4, <1>5, <1>6 DEF Bijection, Injection, Surjection, IsInjective
  <1>8. ExistsBijection(DueSlots, slots)  BY <1>7 DEF ExistsBijection
  <1> QED  BY <1>1, <1>8, FS_Bijection

\* The invariant says what the run checks.
LEMMA GridInvIsSound == GridInv => GridSound
  <1> SUFFICES ASSUME GridInv PROVE GridSound  OBVIOUS
  <1>1. now \in Nat  BY DEF GridInv, TypeOK
  <1>2. ActivationSlotIsNext
    <2>1. /\ ActivationSlot(now) \in Nat /\ ActivationSlot(now) > now
          /\ OnGrid(ActivationSlot(now))
          /\ \A d \in Int : OnGrid(d) /\ now < d => ActivationSlot(now) <= d
      BY <1>1, NextGridPoint
    <2>2. \A t \in (now + 1)..(ActivationSlot(now) - 1) : ~OnGrid(t)  BY <1>1, <2>1
    <2> QED  BY <2>1, <2>2 DEF ActivationSlotIsNext
  <1>3. GridIsContiguous
    BY OneRowEach DEF GridInv, GridIsContiguous, StoredUpTo, GridPoints
  <1> QED  BY <1>2, <1>3 DEF GridSound, GridInv

\* The slot table, the cursor and the calls in flight agree in every state.
THEOREM GridInvariant == Spec => []GridInv
  <1>1. Init => GridInv  BY InitGrid
  <1>2. GridInv /\ [Next]_vars => GridInv'  BY NextKeepsGrid
  <1> QED  BY <1>1, <1>2, PTL DEF Spec

\* However materialize calls overtake each other with old clocks, the stored
\* slots are the grid points from the activation slot to the cursor, each once,
\* and none was stored before it was due.
THEOREM GridIsSound == Spec => []GridSound
  <1>1. GridInv => GridSound  BY GridInvIsSound
  <1> QED  BY <1>1, GridInvariant, PTL

=============================================================================
