--------------------------- MODULE ReportsProofs ---------------------------
(***************************************************************************)
(* Retention keeps the provenance of every kept manifest and removes       *)
(* nothing early, for every number of rows, manifests and overlapping      *)
(* passes and every retention period.                                      *)
(*                                                                         *)
(* ProvenanceKept is inductive but for two things.  A tombstone written    *)
(* for a slice ends with the last of its manifests: that such a last one   *)
(* exists is why the times are bounded (TimesBounded).  And a pass works   *)
(* with rows it read earlier: what it read is still due when it comes to a *)
(* row (BatchesDue), since a row's time is written once.                   *)
(*                                                                         *)
(* A retained report reproduces only as a whole: the digests are compared  *)
(* with the bytes, and the report with the one its manifest projects to.   *)
(***************************************************************************)
EXTENDS Retention, ReportFormula, SequenceTheorems, WellFoundedInduction, TLAPS

\* A row of report_input_tombstones.
TombRow == [row : Rows, slice : SUBSET Rows, until : Nat]

\* No time lies beyond the clock's bound and a report's retention.
LastEnd == MaxTime + ReportDays
TimesBounded ==
    /\ \A m \in Ids : manifest[m].until <= LastEnd
    /\ \A t \in tomb : t.until <= LastEnd

\* What a pass has read was due then, and then is not in the future.
BatchesDue ==
    \A p \in Passes :
        /\ pass[p].at <= now
        /\ \A r \in pass[p].batch : row[r].st # "none" /\ row[r].at + RawDays <= pass[p].at

\* A row that a manifest was projected from is there, or its tombstone is.
Provenance(m) ==
    \A r \in manifest[m].slice :
        IF r \in manifest[m].switched
        THEN \E t \in tomb : t.row = r /\ t.slice = manifest[m].slice
                             /\ t.until >= manifest[m].until
        ELSE r \in Live

KeptProvenance == \A m \in Ids : manifest[m].st = "kept" => Provenance(m)

RetentionInv ==
    /\ TypeOK
    /\ tomb \subseteq TombRow
    /\ TimesBounded
    /\ BatchesDue
    /\ KeptProvenance

-----------------------------------------------------------------------------
(* Maxima and sequences *)

\* A set of natural numbers with a bound has a greatest element, and Max is it.
LEMMA GreatestOfBounded ==
    ASSUME NEW S \in SUBSET Nat, S # {}, NEW b \in Nat, \A x \in S : x <= b
    PROVE  Max(S) \in S /\ \A x \in S : x <= Max(S)
  <1> DEFINE T == {n \in Nat : b - n \in S}
             R == OpToRel(<, Nat)
  <1>1. T # {}
    <2>1. PICK x \in S : TRUE  OBVIOUS
    <2>2. b - x \in Nat /\ b - (b - x) = x  BY <2>1
    <2> QED  BY <2>2
  <1>2. T \subseteq Nat  OBVIOUS
  <1>3. IsWellFoundedOn(R, Nat)  BY NatLessThanWellFounded
  <1> HIDE DEF T
  <1>4. \E n \in T : \A k \in T : ~(<<k, n>> \in R)
    <2> HIDE DEF R
    <2> QED  BY <1>1, <1>2, <1>3, WFMin
  <1>5. PICK n \in T : \A k \in T : ~(<<k, n>> \in R)  BY <1>4
  <1>6. \A k \in T : ~(k < n)
    <2> TAKE k \in T
    <2>1. k \in Nat /\ n \in Nat  BY <1>2
    <2>2. ~(<<k, n>> \in R)  BY <1>5
    <2> QED  BY <2>1, <2>2 DEF OpToRel
  <1>7. n \in Nat /\ b - n \in S  BY DEF T
  <1>8. ASSUME NEW x \in S PROVE b - n >= x
    <2>1. x \in Nat /\ x <= b  OBVIOUS
    <2>2. b - x \in Nat /\ b - (b - x) = x  BY <2>1
    <2>3. b - x \in T  BY <2>2 DEF T
    <2> QED  BY <1>6, <1>7, <2>1, <2>2, <2>3
  <1>9. \E x \in S : \A y \in S : x >= y  BY <1>7, <1>8
  <1>10. Max(S) \in S /\ \A y \in S : Max(S) >= y  BY <1>9 DEF Max
  <1> QED  BY <1>10

\* A function on the positions of a sequence is a sequence.
LEMMA SamePositions ==
    ASSUME NEW S, NEW s \in Seq(S), NEW f \in [DOMAIN s -> S]
    PROVE  f \in Seq(S) /\ DOMAIN f = DOMAIN s
  <1>1. DOMAIN s = 1..Len(s) /\ Len(s) \in Nat  OBVIOUS
  <1>2. f \in [1..Len(s) -> S]  BY <1>1
  <1> QED  BY <1>1, <1>2, SeqDef

-----------------------------------------------------------------------------
(* What the operators return *)

\* The constants and what a manifest row holds.
LEMMA ManifestColumns ==
    ASSUME TypeOK
    PROVE  /\ MaxTime \in Nat /\ ReportDays \in Nat \ {0} /\ RawDays \in Nat /\ LastEnd \in Nat
           /\ manifest \in Seq(ManifestRow)
           /\ Ids = 1..Len(manifest) /\ Len(manifest) \in Nat
           /\ \A m \in Ids : /\ manifest[m] \in ManifestRow
                             /\ manifest[m].until \in Nat
                             /\ manifest[m].slice \in SUBSET Rows
  <1>1. MaxTime \in Nat /\ ReportDays \in Nat \ {0} /\ RawDays \in Nat /\ LastEnd \in Nat
    BY RetentionAssumption DEF LastEnd
  <1>2. manifest \in Seq(ManifestRow)  BY DEF TypeOK
  <1>3. Ids = 1..Len(manifest) /\ Len(manifest) \in Nat
    BY <1>2, LenProperties DEF Ids
  <1>4. \A m \in Ids : manifest[m] \in ManifestRow
    BY <1>2, <1>3, ElementOfSeq
  <1>5. \A m \in Ids : manifest[m].until \in Nat /\ manifest[m].slice \in SUBSET Rows
    BY <1>4 DEF ManifestRow
  <1> QED  BY <1>1, <1>2, <1>3, <1>4, <1>5

\* The value slices of the manifests that name a row, and the times at which
\* one of these manifests or the tombstone for the slice ends.
Slices(r) == {manifest[m].slice : m \in References(r)}
Ends(r, s) ==
    {t.until : t \in {t \in tomb : t.row = r /\ t.slice = s}}
    \cup {manifest[m].until : m \in {m \in References(r) : manifest[m].slice = s}}

\* A tombstone that is written ends with the last of them.
LEMMA LastOfEnds ==
    ASSUME TypeOK, tomb \subseteq TombRow, TimesBounded, NEW r, NEW s \in Slices(r)
    PROVE  /\ Max(Ends(r, s)) \in Nat /\ Max(Ends(r, s)) <= LastEnd
           /\ \A e \in Ends(r, s) : e <= Max(Ends(r, s))
  <1>1. /\ LastEnd \in Nat
        /\ \A m \in Ids : manifest[m].until \in Nat
    BY ManifestColumns
  <1>2. \A m \in Ids : manifest[m].until <= LastEnd  BY DEF TimesBounded
  <1>3. \A t \in tomb : t.until \in Nat /\ t.until <= LastEnd
    BY DEF TombRow, TimesBounded
  <1>4. References(r) \subseteq Ids  BY DEF References
  <1>5. Ends(r, s) \in SUBSET Nat /\ \A e \in Ends(r, s) : e <= LastEnd
    BY <1>1, <1>2, <1>3, <1>4 DEF Ends
  <1>6. Ends(r, s) # {}
    <2>1. PICK m \in References(r) : manifest[m].slice = s  BY DEF Slices
    <2>2. manifest[m].until \in Ends(r, s)  BY <2>1 DEF Ends
    <2> QED  BY <2>2
  <1>7. Max(Ends(r, s)) \in Ends(r, s) /\ \A e \in Ends(r, s) : e <= Max(Ends(r, s))
    BY <1>1, <1>5, <1>6, GreatestOfBounded
  <1> QED  BY <1>5, <1>7

\* upsert_tombstone loses no tombstone and shortens none, writes one for every
\* manifest that names the row, and keeps them unique.
LEMMA TombstonesCover ==
    ASSUME TypeOK, tomb \subseteq TombRow, TimesBounded, NEW r \in Rows
    PROVE  /\ Tombstones(r) \subseteq TombRow
           /\ \A t \in Tombstones(r) : t.until <= LastEnd
           /\ \A t, u \in Tombstones(r) : t.row = u.row /\ t.slice = u.slice => t = u
           /\ \A t \in tomb : \E u \in Tombstones(r) :
                 u.row = t.row /\ u.slice = t.slice /\ u.until >= t.until
           /\ \A m \in References(r) : \E u \in Tombstones(r) :
                 u.row = r /\ u.slice = manifest[m].slice /\ u.until >= manifest[m].until
  <1> DEFINE old == {t \in tomb : t.row # r \/ t.slice \notin Slices(r)}
             stone(s) == [row |-> r, slice |-> s, until |-> Max(Ends(r, s))]
             new == {stone(s) : s \in Slices(r)}
  <1>1. Tombstones(r) = old \cup new  BY DEF Tombstones, Slices, Ends
  <1>2. \A s \in Slices(r) : s \in SUBSET Rows
    BY ManifestColumns DEF Slices, References
  <1>3. \A s \in Slices(r) : /\ Max(Ends(r, s)) \in Nat /\ Max(Ends(r, s)) <= LastEnd
                             /\ \A e \in Ends(r, s) : e <= Max(Ends(r, s))
    BY LastOfEnds
  <1>4. \A s \in Slices(r) : /\ stone(s) \in TombRow
                             /\ stone(s).row = r /\ stone(s).slice = s
                             /\ stone(s).until = Max(Ends(r, s))
    BY <1>2, <1>3 DEF TombRow
  <1>5. \A u \in new : \E s \in Slices(r) : u = stone(s)  OBVIOUS
  <1>6. \A s \in Slices(r) : stone(s) \in new  OBVIOUS
  <1> HIDE DEF stone, new
  <1>7. \A u \in new : /\ u \in TombRow /\ u.until <= LastEnd
                       /\ u.row = r /\ u.slice \in Slices(r)
    BY <1>3, <1>4, <1>5
  <1>8. Tombstones(r) \subseteq TombRow /\ \A t \in Tombstones(r) : t.until <= LastEnd
    BY <1>1, <1>7 DEF TimesBounded
  <1>9. ASSUME NEW t \in Tombstones(r), NEW u \in Tombstones(r), t.row = u.row, t.slice = u.slice
        PROVE  t = u
    <2>1. CASE t \in new /\ u \in new
      <3>1. PICK s \in Slices(r) : t = stone(s)  BY <1>5, <2>1
      <3>2. PICK w \in Slices(r) : u = stone(w)  BY <1>5, <2>1
      <3>3. s = w  BY <1>4, <1>9, <3>1, <3>2
      <3> QED  BY <3>1, <3>2, <3>3
    <2>2. CASE t \in old /\ u \in old  BY <1>9, <2>2 DEF TypeOK
    <2>3. CASE t \in old /\ u \in new  BY <1>7, <1>9, <2>3
    <2>4. CASE t \in new /\ u \in old  BY <1>7, <1>9, <2>4
    <2> QED  BY <1>1, <2>1, <2>2, <2>3, <2>4
  <1>10. ASSUME NEW t \in tomb
         PROVE  \E u \in Tombstones(r) :
                    u.row = t.row /\ u.slice = t.slice /\ u.until >= t.until
    <2>0. t.until \in Nat  BY DEF TombRow
    <2>1. CASE t \in old  BY <1>1, <2>0, <2>1
    <2>2. CASE t \notin old
      <3>1. t.row = r /\ t.slice \in Slices(r)  BY <2>2
      <3>2. t.until \in Ends(r, t.slice)  BY <3>1 DEF Ends
      <3>3. t.until <= Max(Ends(r, t.slice)) /\ Max(Ends(r, t.slice)) \in Nat
        BY <1>3, <3>1, <3>2
      <3>4. stone(t.slice) \in Tombstones(r)  BY <1>1, <1>6, <3>1
      <3> QED  BY <1>4, <2>0, <3>1, <3>3, <3>4
    <2> QED  BY <2>1, <2>2
  <1>11. ASSUME NEW m \in References(r)
         PROVE  \E u \in Tombstones(r) :
                    u.row = r /\ u.slice = manifest[m].slice /\ u.until >= manifest[m].until
    <2> DEFINE s == manifest[m].slice
    <2>1. s \in Slices(r)  BY DEF Slices
    <2>2. manifest[m].until \in Ends(r, s)  BY DEF Ends
    <2>3. manifest[m].until \in Nat  BY ManifestColumns DEF References
    <2>4. manifest[m].until <= Max(Ends(r, s)) /\ Max(Ends(r, s)) \in Nat
      BY <1>3, <2>1, <2>2
    <2>5. stone(s) \in Tombstones(r)  BY <1>1, <1>6, <2>1
    <2> HIDE DEF s
    <2> QED  BY <1>4, <2>1, <2>3, <2>4, <2>5 DEF s
  <1> QED  BY <1>8, <1>9, <1>10, <1>11

\* switch_reference changes what the manifests that name the row name, no more.
LEMMA SwitchedManifests ==
    ASSUME TypeOK, NEW r \in Rows
    PROVE  /\ SwitchReferences(r) \in Seq(ManifestRow)
           /\ DOMAIN SwitchReferences(r) = Ids
           /\ \A m \in Ids :
                 /\ SwitchReferences(r)[m].st = manifest[m].st
                 /\ SwitchReferences(r)[m].until = manifest[m].until
                 /\ SwitchReferences(r)[m].slice = manifest[m].slice
                 /\ SwitchReferences(r)[m].switched =
                       IF m \in References(r) THEN manifest[m].switched \cup {r}
                       ELSE manifest[m].switched
  <1> DEFINE w(m) == IF m \in References(r)
                     THEN [manifest[m] EXCEPT !.switched = @ \cup {r}] ELSE manifest[m]
             f == [m \in Ids |-> w(m)]
  <1>1. SwitchReferences(r) = f  BY DEF SwitchReferences
  <1>2. manifest \in Seq(ManifestRow) /\ \A m \in Ids : manifest[m] \in ManifestRow
    BY ManifestColumns
  <1>3. ASSUME NEW m \in Ids
        PROVE  /\ w(m) \in ManifestRow
               /\ w(m).st = manifest[m].st /\ w(m).until = manifest[m].until
               /\ w(m).slice = manifest[m].slice
               /\ w(m).switched = IF m \in References(r) THEN manifest[m].switched \cup {r}
                                  ELSE manifest[m].switched
    <2>1. manifest[m] \in ManifestRow  BY <1>2
    <2> QED  BY <2>1 DEF ManifestRow
  <1> HIDE DEF w
  <1>4. f \in [Ids -> ManifestRow]  BY <1>3
  <1>5. f \in Seq(ManifestRow)  BY <1>2, <1>4, SamePositions DEF Ids
  <1> QED  BY <1>1, <1>3, <1>5

\* Expiry only marks manifests as gone.
LEMMA ExpiredManifests ==
    ASSUME TypeOK, NEW gone
    PROVE  /\ WithoutManifests(gone) \in Seq(ManifestRow)
           /\ DOMAIN WithoutManifests(gone) = Ids
           /\ \A m \in Ids :
                 /\ WithoutManifests(gone)[m].st = IF m \in gone THEN "gone" ELSE manifest[m].st
                 /\ WithoutManifests(gone)[m].until = manifest[m].until
                 /\ WithoutManifests(gone)[m].slice = manifest[m].slice
                 /\ WithoutManifests(gone)[m].switched = manifest[m].switched
  <1> DEFINE w(m) == IF m \in gone THEN [manifest[m] EXCEPT !.st = "gone"] ELSE manifest[m]
             f == [m \in Ids |-> w(m)]
  <1>1. WithoutManifests(gone) = f  BY DEF WithoutManifests
  <1>2. manifest \in Seq(ManifestRow) /\ \A m \in Ids : manifest[m] \in ManifestRow
    BY ManifestColumns
  <1>3. ASSUME NEW m \in Ids
        PROVE  /\ w(m) \in ManifestRow
               /\ w(m).st = IF m \in gone THEN "gone" ELSE manifest[m].st
               /\ w(m).until = manifest[m].until
               /\ w(m).slice = manifest[m].slice /\ w(m).switched = manifest[m].switched
    <2>1. manifest[m] \in ManifestRow  BY <1>2
    <2> QED  BY <2>1 DEF ManifestRow
  <1> HIDE DEF w
  <1>4. f \in [Ids -> ManifestRow]  BY <1>3
  <1>5. f \in Seq(ManifestRow)  BY <1>2, <1>4, SamePositions DEF Ids
  <1> QED  BY <1>1, <1>3, <1>5

\* The latest version of a date is one that exists, or none.
LEMMA LatestIsVersion ==
    ASSUME TypeOK, NEW d
    PROVE  Latest(d) \in Nat
  <1> DEFINE S == {m \in Ids : manifest[m].st = "kept" /\ manifest[m].date = d} \cup {0}
  <1>1. Ids = 1..Len(manifest) /\ Len(manifest) \in Nat  BY ManifestColumns
  <1>2. S \in SUBSET Nat /\ S # {} /\ \A x \in S : x <= Len(manifest)  BY <1>1
  <1>3. Latest(d) = Max(S)  BY DEF Latest
  <1> HIDE DEF S
  <1>4. Max(S) \in S  BY <1>1, <1>2, GreatestOfBounded
  <1> QED  BY <1>2, <1>3, <1>4

-----------------------------------------------------------------------------
(* The invariant is inductive *)

\* There is nothing to keep at first.
LEMMA InitRetention == Init => RetentionInv
  <1> SUFFICES ASSUME Init PROVE RetentionInv  OBVIOUS
  <1>1. MaxTime \in Nat  BY RetentionAssumption
  <1>2. TypeOK
    <2>1. now \in 0..MaxTime  BY <1>1 DEF Init
    <2>2. row \in [Rows -> [st : {"none", "live", "gone"}, at : 0..MaxTime]]
      BY <1>1 DEF Init, Unwritten
    <2>3. pass \in [Passes -> [pc : {"idle", "clean"}, at : 0..MaxTime, batch : SUBSET Rows]]
      BY <1>1 DEF Init, Idle
    <2>4. manifest \in Seq(ManifestRow)  BY EmptySeq DEF Init
    <2> QED  BY <2>1, <2>2, <2>3, <2>4 DEF Init, TypeOK
  <1>3. Ids = {} /\ tomb = {}  BY DEF Init, Ids
  <1>4. BatchesDue  BY <1>1 DEF Init, BatchesDue, Idle
  <1> QED  BY <1>2, <1>3, <1>4 DEF RetentionInv, TimesBounded, KeptProvenance

\* A manifest keeps its provenance while it and the rows stand and the
\* tombstones it relies on are kept or lengthened.
LEMMA ProvenanceStands ==
    ASSUME RetentionInv, tomb' \subseteq TombRow, Live \subseteq Live',
           NEW m \in Ids, Provenance(m),
           manifest'[m].slice = manifest[m].slice,
           manifest'[m].switched = manifest[m].switched,
           manifest'[m].until = manifest[m].until,
           \A t \in tomb : t.row \in manifest[m].switched /\ t.slice = manifest[m].slice =>
               \E u \in tomb' : u.row = t.row /\ u.slice = t.slice /\ u.until >= t.until
    PROVE  Provenance(m)'
  <1>1. manifest[m].until \in Nat /\ \A t \in tomb : t.until \in Nat
    BY ManifestColumns DEF RetentionInv, TombRow
  <1>2. \A u \in tomb' : u.until \in Nat  BY DEF TombRow
  <1>3. ASSUME NEW q \in manifest[m].slice
        PROVE  IF q \in manifest[m].switched
               THEN \E u \in tomb' : u.row = q /\ u.slice = manifest[m].slice
                                     /\ u.until >= manifest[m].until
               ELSE q \in Live'
    <2>1. CASE q \in manifest[m].switched
      <3>1. PICK t \in tomb : t.row = q /\ t.slice = manifest[m].slice
                              /\ t.until >= manifest[m].until
        BY <2>1 DEF Provenance
      <3>2. PICK u \in tomb' : u.row = t.row /\ u.slice = t.slice /\ u.until >= t.until
        BY <2>1, <3>1
      <3>3. u.until >= manifest[m].until  BY <1>1, <1>2, <3>1, <3>2
      <3> QED  BY <2>1, <3>1, <3>2, <3>3
    <2>2. CASE q \notin manifest[m].switched  BY <2>2 DEF Provenance
    <2> QED  BY <2>1, <2>2
  <1> QED  BY <1>3 DEF Provenance

\* Steps that leave rows, manifests and tombstones alone.
LEMMA TablesStand ==
    ASSUME RetentionInv, UNCHANGED <<row, manifest, tomb>>, TypeOK', BatchesDue'
    PROVE  RetentionInv'
  <1>1. Ids' = Ids /\ Live' = Live  BY DEF Ids, Live
  <1>2. TimesBounded'  BY <1>1 DEF RetentionInv, TimesBounded
  <1>3. KeptProvenance'
    BY <1>1 DEF RetentionInv, KeptProvenance, Provenance
  <1> QED  BY <1>2, <1>3 DEF RetentionInv

\* A row is written once, with the time of the clock.
LEMMA WriteRowKeeps ==
    ASSUME RetentionInv, NEW r \in Rows, WriteRow(r)
    PROVE  RetentionInv'
  <1> USE DEF RetentionInv
  <1>1. /\ row[r].st = "none"
        /\ row' = [row EXCEPT ![r] = [st |-> "live", at |-> now]]
        /\ UNCHANGED <<now, manifest, tomb, observed, pass>>
    BY DEF WriteRow
  <1>2. TypeOK'  BY <1>1 DEF TypeOK
  <1>3. \A q \in Rows : q # r => row'[q] = row[q]  BY <1>1 DEF TypeOK
  <1>4. row'[r].st = "live"  BY <1>1 DEF TypeOK
  <1>5. Live \subseteq Live' /\ Ids' = Ids  BY <1>1, <1>3, <1>4 DEF Live, Ids
  <1>6. BatchesDue'
    <2> SUFFICES ASSUME NEW p \in Passes
                 PROVE  /\ pass[p].at <= now
                        /\ \A q \in pass[p].batch :
                              row'[q].st # "none" /\ row'[q].at + RawDays <= pass[p].at
      BY <1>1 DEF BatchesDue
    <2>1. pass[p].batch \subseteq Rows  BY DEF TypeOK
    <2>2. r \notin pass[p].batch  BY <1>1 DEF BatchesDue
    <2> QED  BY <1>3, <2>1, <2>2 DEF BatchesDue
  <1>7. TimesBounded'  BY <1>1, <1>5 DEF TimesBounded
  <1>8. KeptProvenance'
    <2> SUFFICES ASSUME NEW m \in Ids, manifest[m].st = "kept" PROVE Provenance(m)'
      BY <1>1, <1>5 DEF KeptProvenance
    <2>1. Provenance(m)  BY DEF KeptProvenance
    <2>2. \A t \in tomb : t.until \in Nat  BY DEF TombRow
    <2> QED  BY <1>1, <1>5, <2>1, <2>2, ProvenanceStands
  <1> QED  BY <1>1, <1>2, <1>6, <1>7, <1>8

\* A report names rows that are there.
LEMMA WriteReportKeeps ==
    ASSUME RetentionInv, NEW d \in Dates, NEW s \in SUBSET Live, WriteReport(d, s)
    PROVE  RetentionInv'
  <1> USE DEF RetentionInv
  <1> DEFINE e == [st |-> "kept", date |-> d, until |-> now + ReportDays, slice |-> s,
                   switched |-> {}, supersedes |-> Latest(d), sound |-> TRUE]
             n == Len(manifest) + 1
  <1>1. manifest' = Append(manifest, e) /\ UNCHANGED <<now, row, tomb, observed, pass>>
    BY DEF WriteReport
  <1>2. /\ MaxTime \in Nat /\ ReportDays \in Nat
        /\ manifest \in Seq(ManifestRow)
        /\ Ids = 1..Len(manifest) /\ Len(manifest) \in Nat
    BY ManifestColumns
  <1>3. s \in SUBSET Rows /\ Live' = Live  BY <1>1 DEF Live
  <1>4. now \in 0..MaxTime /\ now + ReportDays \in Nat /\ now + ReportDays <= LastEnd
    BY <1>2 DEF TypeOK, LastEnd
  <1>5. e \in ManifestRow /\ e.until = now + ReportDays /\ e.slice = s /\ e.switched = {}
    BY <1>3, <1>4, LatestIsVersion DEF ManifestRow
  <1> HIDE DEF e
  <1>6. /\ manifest' \in Seq(ManifestRow)
        /\ Len(manifest') = n
        /\ \A m \in 1..Len(manifest) : manifest'[m] = manifest[m]
        /\ manifest'[n] = e
    BY <1>1, <1>2, <1>5, AppendProperties
  <1>7. Ids' = 1..n  BY <1>6, LenProperties DEF Ids
  <1>8. \A m \in Ids' : m = n \/ m \in Ids  BY <1>2, <1>7
  <1>9. TypeOK'  BY <1>1, <1>6 DEF TypeOK
  <1>10. BatchesDue'  BY <1>1 DEF BatchesDue
  <1>11. TimesBounded'
    BY <1>1, <1>2, <1>4, <1>5, <1>6, <1>8 DEF TimesBounded
  <1>12. KeptProvenance'
    <2> SUFFICES ASSUME NEW m \in Ids', manifest'[m].st = "kept" PROVE Provenance(m)'
      BY DEF KeptProvenance
    <2>1. CASE m = n
      <3>1. manifest'[m].slice = s /\ manifest'[m].switched = {}  BY <1>5, <1>6, <2>1
      <3> QED  BY <1>3, <3>1 DEF Provenance
    <2>2. CASE m \in Ids
      <3>1. manifest'[m] = manifest[m]  BY <1>2, <1>6, <2>2
      <3>2. Provenance(m)  BY <2>2, <3>1 DEF KeptProvenance
      <3> QED  BY <1>1, <1>3, <3>1, <3>2 DEF Provenance
    <2> QED  BY <1>8, <2>1, <2>2
  <1> QED  BY <1>1, <1>9, <1>10, <1>11, <1>12

\* Damage touches no row a manifest names.
LEMMA DamageKeeps ==
    ASSUME RetentionInv, NEW m \in Ids, Damage(m)
    PROVE  RetentionInv'
  <1> USE DEF RetentionInv
  <1> DEFINE e == [manifest[m] EXCEPT !.sound = FALSE]
  <1>1. manifest' = [manifest EXCEPT ![m] = e] /\ UNCHANGED <<now, row, tomb, observed, pass>>
    BY DEF Damage
  <1>2. /\ manifest \in Seq(ManifestRow)
        /\ Ids = 1..Len(manifest)
        /\ manifest[m] \in ManifestRow
    BY ManifestColumns
  <1>3. /\ e \in ManifestRow /\ e.until = manifest[m].until /\ e.st = manifest[m].st
        /\ e.slice = manifest[m].slice /\ e.switched = manifest[m].switched
    BY <1>2 DEF ManifestRow
  <1> HIDE DEF e
  <1>4. /\ manifest' \in Seq(ManifestRow)
        /\ Len(manifest') = Len(manifest)
        /\ \A n \in Ids : manifest'[n] = IF n = m THEN e ELSE manifest[n]
    <2> DEFINE f == [manifest EXCEPT ![m] = e]
    <2>1. m \in 1..Len(manifest)  BY <1>2
    <2>2. /\ f \in Seq(ManifestRow)
          /\ Len(f) = Len(manifest)
          /\ \A n \in 1..Len(manifest) : f[n] = IF n = m THEN e ELSE manifest[n]
      BY <1>2, <1>3, <2>1, ExceptSeq
    <2> HIDE DEF f
    <2>3. manifest' = f  BY <1>1 DEF f
    <2> QED  BY <1>2, <2>2, <2>3
  <1>5. Ids' = Ids /\ Live' = Live  BY <1>1, <1>2, <1>4, LenProperties DEF Ids, Live
  <1>6. \A n \in Ids : /\ manifest'[n].until = manifest[n].until
                       /\ manifest'[n].st = manifest[n].st
                       /\ manifest'[n].slice = manifest[n].slice
                       /\ manifest'[n].switched = manifest[n].switched
    BY <1>3, <1>4
  <1>7. TypeOK'  BY <1>1, <1>4 DEF TypeOK
  <1>8. BatchesDue'  BY <1>1 DEF BatchesDue
  <1>9. TimesBounded'  BY <1>1, <1>5, <1>6 DEF TimesBounded
  <1>10. KeptProvenance'
    <2> SUFFICES ASSUME NEW n \in Ids, manifest[n].st = "kept" PROVE Provenance(n)'
      BY <1>5, <1>6 DEF KeptProvenance
    <2>1. Provenance(n)  BY DEF KeptProvenance
    <2> QED  BY <1>1, <1>5, <1>6, <2>1 DEF Provenance
  <1> QED  BY <1>1, <1>7, <1>8, <1>9, <1>10

\* A pass reads rows that are due now.
LEMMA StartPassKeeps ==
    ASSUME RetentionInv, NEW p \in Passes, StartPass(p)
    PROVE  RetentionInv'
  <1> USE DEF RetentionInv
  <1> DEFINE b == EligibleSourceIds(now)
  <1>1. /\ pass' = [pass EXCEPT ![p] = [pc |-> "clean", at |-> now, batch |-> b]]
        /\ UNCHANGED <<now, row, manifest, tomb, observed>>
    BY DEF StartPass
  <1>2. \A r \in b : r \in Rows /\ row[r].st = "live" /\ row[r].at + RawDays <= now
    BY DEF EligibleSourceIds, Eligible, Live
  <1>3. now \in 0..MaxTime /\ MaxTime \in Nat  BY RetentionAssumption DEF TypeOK
  <1> HIDE DEF b
  <1>4. TypeOK'  BY <1>1, <1>2 DEF TypeOK
  <1>5. \A q \in Passes : pass'[q] = IF q = p THEN [pc |-> "clean", at |-> now, batch |-> b]
                                     ELSE pass[q]
    BY <1>1 DEF TypeOK
  <1>6. BatchesDue'  BY <1>1, <1>2, <1>3, <1>5 DEF BatchesDue
  <1> QED  BY <1>1, <1>4, <1>6, TablesStand

\* A pass that is abandoned has nothing left to do.
LEMMA AbandonKeeps ==
    ASSUME RetentionInv, NEW p \in Passes, Abandon(p), UNCHANGED <<now, row>>
    PROVE  /\ pass' \in [Passes -> [pc : {"idle", "clean"}, at : 0..MaxTime, batch : SUBSET Rows]]
           /\ BatchesDue'
  <1> USE DEF RetentionInv
  <1>1. pass' = [pass EXCEPT ![p] = Idle]  BY DEF Abandon
  <1>2. MaxTime \in Nat /\ now \in 0..MaxTime  BY RetentionAssumption DEF TypeOK
  <1>3. Idle \in [pc : {"idle", "clean"}, at : 0..MaxTime, batch : SUBSET Rows]
    BY <1>2 DEF Idle
  <1>4. Idle.at = 0 /\ Idle.batch = {}  BY DEF Idle
  <1>5. pass' \in [Passes -> [pc : {"idle", "clean"}, at : 0..MaxTime, batch : SUBSET Rows]]
    BY <1>1, <1>3 DEF TypeOK
  <1>6. \A q \in Passes : pass'[q] = IF q = p THEN Idle ELSE pass[q]
    BY <1>1 DEF TypeOK
  <1> HIDE DEF RetentionInv
  <1>7. BatchesDue'  BY <1>2, <1>4, <1>6 DEF BatchesDue, RetentionInv
  <1> QED  BY <1>5, <1>7

\* A cleaned row is gone, and what named it has a tombstone that lasts.
LEMMA CleanupSourceKeeps ==
    ASSUME RetentionInv, NEW p \in Passes, CleanupSource(p)
    PROVE  RetentionInv'
  <1> USE DEF RetentionInv
  <1>1. PICK r \in pass[p].batch :
            IF Rejected(r, pass[p].at) THEN Abandon(p) /\ UNCHANGED <<row, manifest, tomb>>
            ELSE /\ tomb' = Tombstones(r)
                 /\ manifest' = SwitchReferences(r)
                 /\ row' = [row EXCEPT ![r].st = "gone"]
                 /\ pass' = [pass EXCEPT ![p].batch = @ \ {r}]
    BY DEF CleanupSource
  <1>2. UNCHANGED <<now, observed>>  BY DEF CleanupSource
  <1>3. r \in Rows /\ pass[p].batch \in SUBSET Rows /\ pass[p].at \in 0..MaxTime
    BY DEF TypeOK
  <1>4. CASE Rejected(r, pass[p].at)
    <2>1. Abandon(p) /\ UNCHANGED <<row, manifest, tomb>>  BY <1>1, <1>4
    <2>2. TypeOK' /\ BatchesDue'
      <3>1. /\ pass' \in [Passes -> [pc : {"idle", "clean"}, at : 0..MaxTime,
                                     batch : SUBSET Rows]]
            /\ BatchesDue'
        BY <1>2, <2>1, AbandonKeeps
      <3> QED  BY <1>2, <2>1, <3>1 DEF TypeOK
    <2> QED  BY <2>1, <2>2, TablesStand
  <1>5. CASE ~Rejected(r, pass[p].at)
    <2>1. /\ tomb' = Tombstones(r)
          /\ manifest' = SwitchReferences(r)
          /\ row' = [row EXCEPT ![r].st = "gone"]
          /\ pass' = [pass EXCEPT ![p].batch = @ \ {r}]
      BY <1>1, <1>5
    <2>2. /\ tomb' \subseteq TombRow
          /\ \A t \in tomb' : t.until <= LastEnd
          /\ \A t, u \in tomb' : t.row = u.row /\ t.slice = u.slice => t = u
          /\ \A t \in tomb : \E u \in tomb' :
                u.row = t.row /\ u.slice = t.slice /\ u.until >= t.until
          /\ \A m \in References(r) : \E u \in tomb' :
                u.row = r /\ u.slice = manifest[m].slice /\ u.until >= manifest[m].until
      BY <1>3, <2>1, TombstonesCover
    <2>3. /\ manifest' \in Seq(ManifestRow)
          /\ Ids' = Ids
          /\ \A m \in Ids :
                /\ manifest'[m].st = manifest[m].st
                /\ manifest'[m].until = manifest[m].until
                /\ manifest'[m].slice = manifest[m].slice
                /\ manifest'[m].switched =
                      IF m \in References(r) THEN manifest[m].switched \cup {r}
                      ELSE manifest[m].switched
      BY <1>3, <2>1, SwitchedManifests DEF Ids
    <2>4. /\ row' \in [Rows -> [st : {"none", "live", "gone"}, at : 0..MaxTime]]
          /\ \A q \in Rows : /\ row'[q].at = row[q].at
                             /\ row'[q].st = IF q = r THEN "gone" ELSE row[q].st
      BY <1>3, <2>1 DEF TypeOK
    <2>5. /\ pass' \in [Passes -> [pc : {"idle", "clean"}, at : 0..MaxTime, batch : SUBSET Rows]]
          /\ \A q \in Passes : pass'[q].at = pass[q].at /\ pass'[q].batch \subseteq pass[q].batch
      BY <1>3, <2>1 DEF TypeOK
    <2>6. TypeOK'
      <3>1. now' \in 0..MaxTime  BY <1>2 DEF TypeOK
      <3> QED  BY <2>2, <2>3, <2>4, <2>5, <3>1 DEF TypeOK
    <2>7. TimesBounded'  BY <2>2, <2>3 DEF TimesBounded
    <2>8. BatchesDue'
      <3> SUFFICES ASSUME NEW q \in Passes
                   PROVE  /\ pass'[q].at <= now
                          /\ \A s \in pass'[q].batch :
                                row'[s].st # "none" /\ row'[s].at + RawDays <= pass'[q].at
        BY <1>2 DEF BatchesDue
      <3>1. pass[q].batch \subseteq Rows  BY DEF TypeOK
      <3>2. /\ pass[q].at <= now
            /\ \A s \in pass[q].batch : row[s].st # "none" /\ row[s].at + RawDays <= pass[q].at
        BY DEF BatchesDue
      <3>3. pass'[q].at = pass[q].at /\ pass'[q].batch \subseteq pass[q].batch  BY <2>5
      <3> HIDE DEF RetentionInv
      <3> QED  BY <2>4, <3>1, <3>2, <3>3
    <2>9. KeptProvenance'
      <3> SUFFICES ASSUME NEW m \in Ids, manifest[m].st = "kept" PROVE Provenance(m)'
        BY <2>3 DEF KeptProvenance
      <3>1. Provenance(m)  BY DEF KeptProvenance
      <3>2. manifest[m].slice \in SUBSET Rows /\ manifest[m].until \in Nat
        BY ManifestColumns
      <3>3. \A t \in tomb : t.until \in Nat  BY DEF TombRow
      <3>4. \A u \in tomb' : u.until \in Nat  BY <2>2 DEF TombRow
      <3>5. m \in References(r) <=> r \in manifest[m].slice \ manifest[m].switched
        BY DEF References
      <3> HIDE DEF RetentionInv
      <3>6. ASSUME NEW q \in manifest[m].slice
            PROVE  IF q \in manifest'[m].switched
                   THEN \E u \in tomb' : u.row = q /\ u.slice = manifest[m].slice
                                         /\ u.until >= manifest[m].until
                   ELSE q \in Live'
        <4>1. CASE q \in manifest[m].switched
          <5>1. PICK t \in tomb : t.row = q /\ t.slice = manifest[m].slice
                                  /\ t.until >= manifest[m].until
            BY <3>1, <4>1 DEF Provenance
          <5>2. PICK u \in tomb' : u.row = t.row /\ u.slice = t.slice /\ u.until >= t.until
            BY <2>2
          <5>3. u.until >= manifest[m].until  BY <3>2, <3>3, <3>4, <5>1, <5>2
          <5>4. q \in manifest'[m].switched  BY <2>3, <4>1
          <5> QED  BY <5>1, <5>2, <5>3, <5>4
        <4>2. CASE q \notin manifest[m].switched /\ q = r
          <5>1. m \in References(r)  BY <3>5, <4>2
          <5>2. q \in manifest'[m].switched  BY <2>3, <4>2, <5>1
          <5> QED  BY <2>2, <4>2, <5>1, <5>2
        <4>3. CASE q \notin manifest[m].switched /\ q # r
          <5>1. q \in Rows /\ row[q].st = "live"  BY <3>1, <4>3 DEF Provenance, Live
          <5>2. q \in Live'  BY <2>4, <4>3, <5>1 DEF Live
          <5>3. q \notin manifest'[m].switched  BY <2>3, <4>3
          <5> QED  BY <5>2, <5>3
        <4> QED  BY <4>1, <4>2, <4>3
      <3>7. manifest'[m].slice = manifest[m].slice /\ manifest'[m].until = manifest[m].until
        BY <2>3
      <3> QED  BY <3>6, <3>7 DEF Provenance
    <2> HIDE DEF RetentionInv
    <2> QED  BY <2>2, <2>6, <2>7, <2>8, <2>9 DEF RetentionInv
  <1> QED  BY <1>4, <1>5

\* Expiry takes no tombstone that a manifest it keeps relies on.
LEMMA ExpireKeeps ==
    ASSUME RetentionInv, NEW p \in Passes, ExpireRetainedReports(p)
    PROVE  RetentionInv'
  <1> USE DEF RetentionInv
  <1> DEFINE at == pass[p].at
             expired == Expired(at)
             kept == {m \in Ids \ expired : manifest[m].st = "kept"}
  <1>1. /\ IF \E m \in expired : Superseded(m) THEN UNCHANGED <<manifest, tomb>>
           ELSE /\ manifest' = WithoutManifests(expired)
                /\ tomb' = tomb \ Orphans(at, kept)
        /\ Abandon(p)
        /\ UNCHANGED <<now, row, observed>>
    BY DEF ExpireRetainedReports
  <1>2. /\ pass' \in [Passes -> [pc : {"idle", "clean"}, at : 0..MaxTime, batch : SUBSET Rows]]
        /\ BatchesDue'
    BY <1>1, AbandonKeeps
  <1>3. CASE UNCHANGED <<manifest, tomb>>
    <2>1. TypeOK'  BY <1>1, <1>2, <1>3 DEF TypeOK
    <2> QED  BY <1>1, <1>2, <1>3, <2>1, TablesStand
  <1>4. CASE manifest' = WithoutManifests(expired) /\ tomb' = tomb \ Orphans(at, kept)
    <2>1. /\ manifest' \in Seq(ManifestRow)
          /\ Ids' = Ids
          /\ \A m \in Ids :
                /\ manifest'[m].st = IF m \in expired THEN "gone" ELSE manifest[m].st
                /\ manifest'[m].until = manifest[m].until
                /\ manifest'[m].slice = manifest[m].slice
                /\ manifest'[m].switched = manifest[m].switched
      BY <1>4, ExpiredManifests DEF Ids
    <2>2. tomb' \subseteq tomb  BY <1>4
    <2>3. TypeOK'  BY <1>1, <1>2, <2>1, <2>2 DEF TypeOK
    <2>4. TimesBounded'  BY <2>1, <2>2 DEF TimesBounded
    <2>5. Live' = Live /\ tomb' \subseteq TombRow  BY <1>1, <2>2 DEF Live
    <2>6. KeptProvenance'
      <3> SUFFICES ASSUME NEW m \in Ids, manifest'[m].st = "kept" PROVE Provenance(m)'
        BY <2>1 DEF KeptProvenance
      <3>1. m \notin expired /\ manifest[m].st = "kept"  BY <2>1
      <3>2. Provenance(m)  BY <3>1 DEF KeptProvenance
      <3>3. ASSUME NEW t \in tomb, t.row \in manifest[m].switched, t.slice = manifest[m].slice
            PROVE  t \in tomb' /\ t.until >= t.until
        <4>1. m \in kept  BY <3>1
        <4>2. t \notin Orphans(at, kept)  BY <3>3, <4>1 DEF Orphans
        <4>3. t.until \in Nat  BY DEF TombRow
        <4> QED  BY <1>4, <4>2, <4>3
      <3>4. \A t \in tomb : t.row \in manifest[m].switched /\ t.slice = manifest[m].slice =>
               \E u \in tomb' : u.row = t.row /\ u.slice = t.slice /\ u.until >= t.until
        BY <3>3
      <3> QED  BY <2>1, <2>5, <3>2, <3>4, ProvenanceStands
    <2> QED  BY <1>2, <2>3, <2>4, <2>5, <2>6
  <1> QED  BY <1>1, <1>3, <1>4

\* Every step keeps the invariant.
LEMMA NextKeepsRetention == RetentionInv /\ [Next]_vars => RetentionInv'
  <1> SUFFICES ASSUME RetentionInv, [Next]_vars PROVE RetentionInv'  OBVIOUS
  <1>1. CASE Tick
    <2>1. now < MaxTime /\ now' = now + 1 /\ UNCHANGED <<row, manifest, tomb, observed, pass>>
      BY <1>1 DEF Tick
    <2>2. now \in 0..MaxTime /\ MaxTime \in Nat  BY RetentionAssumption DEF RetentionInv, TypeOK
    <2>3. now' \in 0..MaxTime  BY <2>1, <2>2
    <2>4. TypeOK'  BY <2>1, <2>3 DEF RetentionInv, TypeOK
    <2>5. \A q \in Passes : pass[q].at \in 0..MaxTime  BY DEF RetentionInv, TypeOK
    <2>6. BatchesDue'  BY <2>1, <2>2, <2>5 DEF RetentionInv, BatchesDue
    <2> QED  BY <2>1, <2>4, <2>6, TablesStand
  <1>2. ASSUME NEW r \in Rows, WriteRow(r) PROVE RetentionInv'  BY <1>2, WriteRowKeeps
  <1>3. ASSUME NEW r \in Rows, Observe(r) PROVE RetentionInv'
    <2>1. UNCHANGED <<now, row, manifest, tomb, pass>>  BY <1>3 DEF Observe
    <2>2. TypeOK'  BY <2>1 DEF RetentionInv, TypeOK
    <2>3. BatchesDue'  BY <2>1 DEF RetentionInv, BatchesDue
    <2> QED  BY <2>1, <2>2, <2>3, TablesStand
  <1>4. ASSUME NEW d \in Dates, NEW s \in SUBSET Live, WriteReport(d, s) PROVE RetentionInv'
    BY <1>4, WriteReportKeeps
  <1>5. ASSUME NEW m \in Ids, Damage(m) PROVE RetentionInv'  BY <1>5, DamageKeeps
  <1>6. ASSUME NEW p \in Passes, StartPass(p) PROVE RetentionInv'  BY <1>6, StartPassKeeps
  <1>7. ASSUME NEW p \in Passes, Step(p) PROVE RetentionInv'
    BY <1>7, CleanupSourceKeeps, ExpireKeeps DEF Step
  <1>8. CASE UNCHANGED vars
    <2>1. UNCHANGED <<now, row, manifest, tomb, pass>>  BY <1>8 DEF vars
    <2>2. TypeOK'  BY <2>1 DEF RetentionInv, TypeOK
    <2>3. BatchesDue'  BY <2>1 DEF RetentionInv, BatchesDue
    <2> QED  BY <2>1, <2>2, <2>3, TablesStand
  <1> QED  BY <1>1, <1>2, <1>3, <1>4, <1>5, <1>6, <1>7, <1>8 DEF Next

-----------------------------------------------------------------------------
(* What a step may remove *)

\* The parts of NothingEarly: rows, manifests, tombstones, and the rows that a
\* damaged manifest names.
RowsDue == \A r \in Rows : row[r].st = "live" /\ row'[r].st = "gone" => now >= row[r].at + RawDays
ManifestsDue ==
    \A m \in Ids : manifest[m].st = "kept" /\ manifest'[m].st = "gone" => now >= manifest[m].until
TombstonesDue ==
    \A t \in tomb : t.until > now =>
        \E u \in tomb' : u.row = t.row /\ u.slice = t.slice /\ u.until >= t.until
DamageHolds ==
    \A m \in Ids : manifest[m].st = "kept" /\ ~manifest[m].sound =>
        \A r \in manifest[m].slice \ manifest[m].switched : row'[r].st = "live"

\* A row that a kept manifest names and no tombstone stands for is live.
LEMMA NamedRowsLive ==
    ASSUME RetentionInv, NEW m \in Ids, manifest[m].st = "kept",
           NEW r \in manifest[m].slice \ manifest[m].switched
    PROVE  r \in Rows /\ row[r].st = "live"
  <1>1. Provenance(m)  BY DEF RetentionInv, KeptProvenance
  <1> QED  BY <1>1 DEF Provenance, Live

\* Steps that remove nothing.
LEMMA NothingRemoved ==
    ASSUME RetentionInv,
           \A r \in Rows : row[r].st = "live" => row'[r].st = "live",
           \A m \in Ids : manifest[m].st = "kept" => manifest'[m].st = "kept",
           UNCHANGED tomb
    PROVE  RowsDue /\ ManifestsDue /\ TombstonesDue /\ DamageHolds
  <1>1. \A t \in tomb : t.until \in Nat  BY DEF RetentionInv, TombRow
  <1>2. TombstonesDue  BY <1>1 DEF TombstonesDue
  <1>3. DamageHolds  BY NamedRowsLive DEF DamageHolds
  <1>4. RowsDue /\ ManifestsDue  BY DEF RowsDue, ManifestsDue
  <1> QED  BY <1>2, <1>3, <1>4

\* Cleanup removes one row, which was due when the pass read it.
LEMMA CleanupRemovesDue ==
    ASSUME RetentionInv, NEW p \in Passes, CleanupSource(p)
    PROVE  RowsDue /\ ManifestsDue /\ TombstonesDue /\ DamageHolds
  <1>1. PICK r \in pass[p].batch :
            IF Rejected(r, pass[p].at) THEN Abandon(p) /\ UNCHANGED <<row, manifest, tomb>>
            ELSE /\ tomb' = Tombstones(r)
                 /\ manifest' = SwitchReferences(r)
                 /\ row' = [row EXCEPT ![r].st = "gone"]
                 /\ pass' = [pass EXCEPT ![p].batch = @ \ {r}]
    BY DEF CleanupSource
  <1>2. r \in Rows /\ TypeOK /\ pass[p].at \in 0..MaxTime
    BY DEF RetentionInv, TypeOK
  <1>3. CASE Rejected(r, pass[p].at)
    <2>1. UNCHANGED <<row, manifest, tomb>>  BY <1>1, <1>3
    <2> QED  BY <2>1, NothingRemoved
  <1>4. CASE ~Rejected(r, pass[p].at)
    <2>1. /\ tomb' = Tombstones(r)
          /\ manifest' = SwitchReferences(r)
          /\ row' = [row EXCEPT ![r].st = "gone"]
      BY <1>1, <1>4
    <2>2. \A q \in Rows : row'[q].st = IF q = r THEN "gone" ELSE row[q].st
      BY <1>2, <2>1 DEF TypeOK
    <2>3. RowsDue
      <3>1. pass[p].at <= now /\ row[r].at + RawDays <= pass[p].at
        BY DEF RetentionInv, BatchesDue
      <3>2. now \in Nat /\ row[r].at \in Nat /\ pass[p].at \in Nat /\ RawDays \in Nat
        BY <1>2, RetentionAssumption DEF TypeOK
      <3>3. now >= row[r].at + RawDays  BY <3>1, <3>2
      <3> QED  BY <2>2, <3>3 DEF RowsDue
    <2>4. ManifestsDue
      <3>1. \A m \in Ids : manifest'[m].st = manifest[m].st
        BY <1>2, <2>1, SwitchedManifests
      <3> QED  BY <3>1 DEF ManifestsDue
    <2>5. TombstonesDue
      BY <1>2, <2>1, TombstonesCover DEF RetentionInv, TombstonesDue
    <2>6. DamageHolds
      <3> SUFFICES ASSUME NEW m \in Ids, manifest[m].st = "kept", ~manifest[m].sound,
                          NEW q \in manifest[m].slice \ manifest[m].switched
                   PROVE  row'[q].st = "live"
        BY DEF DamageHolds
      <3>1. q \in Rows /\ row[q].st = "live"  BY NamedRowsLive
      <3>2. m \notin References(r)  BY <1>4 DEF Rejected, Verified
      <3>3. q # r  BY <3>2 DEF References
      <3> QED  BY <2>2, <3>1, <3>3
    <2> QED  BY <2>3, <2>4, <2>5, <2>6
  <1> QED  BY <1>3, <1>4

\* Expiry removes manifests and tombstones whose time is over.
LEMMA ExpireRemovesDue ==
    ASSUME RetentionInv, NEW p \in Passes, ExpireRetainedReports(p)
    PROVE  RowsDue /\ ManifestsDue /\ TombstonesDue /\ DamageHolds
  <1> DEFINE at == pass[p].at
             expired == Expired(at)
             kept == {m \in Ids \ expired : manifest[m].st = "kept"}
  <1>1. /\ IF \E m \in expired : Superseded(m) THEN UNCHANGED <<manifest, tomb>>
           ELSE /\ manifest' = WithoutManifests(expired)
                /\ tomb' = tomb \ Orphans(at, kept)
        /\ UNCHANGED row
    BY DEF ExpireRetainedReports
  <1>2. TypeOK /\ at \in Nat /\ now \in Nat /\ at <= now
    BY DEF RetentionInv, TypeOK, BatchesDue
  <1>3. CASE UNCHANGED <<manifest, tomb>>  BY <1>1, <1>3, NothingRemoved
  <1>4. CASE manifest' = WithoutManifests(expired) /\ tomb' = tomb \ Orphans(at, kept)
    <2>1. ManifestsDue
      <3> SUFFICES ASSUME NEW m \in Ids, manifest[m].st = "kept", manifest'[m].st = "gone"
                   PROVE  now >= manifest[m].until
        BY DEF ManifestsDue
      <3>1. m \in expired  BY <1>2, <1>4, ExpiredManifests
      <3>2. manifest[m].until <= at /\ manifest[m].until \in Nat
        BY <1>2, <3>1, ManifestColumns DEF Expired
      <3> QED  BY <1>2, <3>2
    <2>2. TombstonesDue
      <3> SUFFICES ASSUME NEW t \in tomb, t.until > now
                   PROVE  \E u \in tomb' : u.row = t.row /\ u.slice = t.slice /\ u.until >= t.until
        BY DEF TombstonesDue
      <3>1. t.until \in Nat  BY DEF RetentionInv, TombRow
      <3>2. t \notin Orphans(at, kept)  BY <1>2, <3>1 DEF Orphans
      <3> QED  BY <1>4, <3>1, <3>2
    <2>3. DamageHolds  BY <1>1, NamedRowsLive DEF DamageHolds
    <2>4. RowsDue  BY <1>1 DEF RowsDue
    <2> QED  BY <2>1, <2>2, <2>3, <2>4
  <1> QED  BY <1>1, <1>3, <1>4

\* No step removes anything before its time.
LEMMA StepsRemoveDue ==
    ASSUME RetentionInv, Next
    PROVE  RowsDue /\ ManifestsDue /\ TombstonesDue /\ DamageHolds
  <1>0. TypeOK  BY DEF RetentionInv
  <1>1. ASSUME NEW r \in Rows, WriteRow(r)
        PROVE  RowsDue /\ ManifestsDue /\ TombstonesDue /\ DamageHolds
    <2>1. /\ row' = [row EXCEPT ![r] = [st |-> "live", at |-> now]]
          /\ UNCHANGED <<manifest, tomb>>
      BY <1>1 DEF WriteRow
    <2>2. \A q \in Rows : row[q].st = "live" => row'[q].st = "live"
      BY <1>0, <2>1 DEF TypeOK
    <2> QED  BY <2>1, <2>2, NothingRemoved
  <1>2. ASSUME NEW d \in Dates, NEW s \in SUBSET Live, WriteReport(d, s)
        PROVE  RowsDue /\ ManifestsDue /\ TombstonesDue /\ DamageHolds
    <2> DEFINE e == [st |-> "kept", date |-> d, until |-> now + ReportDays, slice |-> s,
                     switched |-> {}, supersedes |-> Latest(d), sound |-> TRUE]
    <2>1. manifest' = Append(manifest, e) /\ UNCHANGED <<row, tomb>>
      BY <1>2 DEF WriteReport
    <2>2. Ids = 1..Len(manifest) /\ manifest \in Seq(ManifestRow)
      BY <1>0, ManifestColumns
    <2> HIDE DEF e
    <2>3. \A m \in Ids : manifest'[m] = manifest[m]  BY <2>1, <2>2
    <2> QED  BY <2>1, <2>3, NothingRemoved
  <1>3. ASSUME NEW m \in Ids, Damage(m)
        PROVE  RowsDue /\ ManifestsDue /\ TombstonesDue /\ DamageHolds
    <2>1. /\ manifest' = [manifest EXCEPT ![m].sound = FALSE]
          /\ UNCHANGED <<row, tomb>>
      BY <1>3 DEF Damage
    <2>2. \A n \in Ids : manifest[n] \in ManifestRow  BY <1>0, ManifestColumns
    <2>3. \A n \in Ids : manifest'[n].st = manifest[n].st
      BY <2>1, <2>2 DEF Ids, ManifestRow
    <2> QED  BY <2>1, <2>3, NothingRemoved
  <1>4. ASSUME UNCHANGED <<row, manifest, tomb>>
        PROVE  RowsDue /\ ManifestsDue /\ TombstonesDue /\ DamageHolds
    BY <1>4, NothingRemoved
  <1>5. ASSUME NEW p \in Passes, Step(p)
        PROVE  RowsDue /\ ManifestsDue /\ TombstonesDue /\ DamageHolds
    BY <1>5, CleanupRemovesDue, ExpireRemovesDue DEF Step
  <1>6. \/ UNCHANGED <<row, manifest, tomb>>
        \/ \E r \in Rows : WriteRow(r)
        \/ \E d \in Dates, s \in SUBSET Live : WriteReport(d, s)
        \/ \E m \in Ids : Damage(m)
        \/ \E p \in Passes : Step(p)
    BY DEF Next, Observe, StartPass, Tick
  <1> QED  BY <1>1, <1>2, <1>3, <1>4, <1>5, <1>6

-----------------------------------------------------------------------------
(* Theorems *)

\* The tables, the tombstones and the passes agree in every state.
THEOREM RetentionInvariant == Spec => []RetentionInv
  <1>1. Init => RetentionInv  BY InitRetention
  <1>2. RetentionInv /\ [Next]_vars => RetentionInv'  BY NextKeepsRetention
  <1> QED  BY <1>1, <1>2, PTL DEF Spec

\* Whatever cleanups, corrections, shared slices and expiries come in whatever
\* order, each row behind a kept manifest is there or has a tombstone that is
\* kept as long as the manifest.
THEOREM ProvenanceIsKept == Spec => []ProvenanceKept
  <1>1. RetentionInv => ProvenanceKept
    BY DEF RetentionInv, ProvenanceKept, KeptProvenance, Provenance
  <1> QED  BY <1>1, RetentionInvariant, PTL

\* Rows, manifests and tombstones do not go before their time, also when the
\* clock moves on under a pass, and no row that a damaged manifest names goes.
THEOREM RemovalsAreDue == Spec => NothingEarly
  <1>1. RetentionInv /\ [Next]_vars =>
        [/\ \A r \in Rows : row[r].st = "live" /\ row'[r].st = "gone" => now >= row[r].at + RawDays
         /\ \A m \in Ids : manifest[m].st = "kept" /\ manifest'[m].st = "gone"
               => now >= manifest[m].until
         /\ \A t \in tomb : t.until > now
               => \E u \in tomb' : u.row = t.row /\ u.slice = t.slice /\ u.until >= t.until
         /\ \A m \in Ids : manifest[m].st = "kept" /\ ~manifest[m].sound =>
               \A r \in manifest[m].slice \ manifest[m].switched : row'[r].st = "live"]_vars
    BY StepsRemoveDue DEF RowsDue, ManifestsDue, TombstonesDue, DamageHolds
  <1> QED  BY <1>1, RetentionInvariant, PTL DEF Spec, NothingEarly

-----------------------------------------------------------------------------
(* Reproduction of retained reports, for any facts and any rules of the formula *)

\* A retained report is a record of its five fields, and its manifest passes the
\* formula's recount.
RetainedInv ==
    \A r \in retained : /\ r = [f \in RetainedFields |-> r[f]]
                        /\ VerifyCoverage(r.manifest)

\* What is retained with a manifest.
LEMMA RetainShape ==
    ASSUME NEW m
    PROVE  LET r == Retain(m)
           IN  /\ r = [f \in RetainedFields |-> r[f]] /\ r.manifest = m
  BY DEF Retain, RetainedFields

\* reproduce_report succeeds exactly on a report whose manifest, digests and bytes
\* belong together, whichever of them were replaced and how often.
THEOREM OnlyWholeIsReproduced == FactsSpec => []OnlyWholeReproduces
<1>1. FactsInit => RetainedInv  BY DEF FactsInit, RetainedInv
<1>2. RetainedInv /\ [FactsNext]_factVars => RetainedInv'
  <2> SUFFICES ASSUME RetainedInv, [FactsNext]_factVars PROVE RetainedInv'  OBVIOUS
  <2>1. CASE retained' = retained
    BY <2>1 DEF RetainedInv
  <2>2. CASE Report
    <3>1. PICK m : m = Assembled  OBVIOUS
    <3>2. retained' = {Retain(m)} /\ VerifyCoverage(m)  BY <2>2, <3>1 DEF Report
    <3> QED  BY <3>2, RetainShape DEF RetainedInv
  <2>3. ASSUME NEW fields \in SUBSET RetainedFields, Replace(fields)
        PROVE  RetainedInv'
    <3>1. PICK r \in retained :
            LET other == Retain(OtherManifest(r.manifest))
            IN  /\ VerifyCoverage(other.manifest)
                /\ retained' = {[f \in DOMAIN r |-> IF f \in fields THEN other[f] ELSE r[f]]}
      BY <2>3 DEF Replace
    <3>2. PICK other : other = Retain(OtherManifest(r.manifest))  OBVIOUS
    <3>3. PICK after : after = [f \in DOMAIN r |-> IF f \in fields THEN other[f] ELSE r[f]]  OBVIOUS
    <3>4. r = [f \in RetainedFields |-> r[f]] /\ VerifyCoverage(r.manifest)
      BY DEF RetainedInv
    <3>5. after = [f \in RetainedFields |-> after[f]]  BY <3>3, <3>4
    <3>6. after.manifest = other.manifest \/ after.manifest = r.manifest
      BY <3>3, <3>4 DEF RetainedFields
    <3>7. retained' = {after} /\ VerifyCoverage(other.manifest)  BY <3>1, <3>2, <3>3
    <3>8. VerifyCoverage(after.manifest)  BY <3>4, <3>6, <3>7
    <3> QED  BY <3>5, <3>7, <3>8 DEF RetainedInv
  <2>4. Facts => retained' = retained
    BY DEF Facts, Publish, QueueStep, Analyse, Match,
           Engage, RunStep, Decide
  <2>5. UNCHANGED factVars => retained' = retained  BY DEF factVars
  <2> QED  BY <2>1, <2>2, <2>3, <2>4, <2>5 DEF FactsNext
<1>3. RetainedInv => OnlyWholeReproduces
  <2> SUFFICES ASSUME RetainedInv, NEW r \in retained
               PROVE  ReproduceReport(r) <=> r = Retain(r.manifest)
    BY DEF OnlyWholeReproduces
  <2>1. r = [f \in RetainedFields |-> r[f]] /\ VerifyCoverage(r.manifest)
    BY DEF RetainedInv
  <2>2. r = Retain(r.manifest) => ReproduceReport(r)
    BY <2>1 DEF Retain, ReproduceReport, ReadManifest
  <2>3. ReproduceReport(r) => r = Retain(r.manifest)
    BY <2>1 DEF Retain, ReproduceReport, ReadManifest, RetainedFields
  <2> QED  BY <2>2, <2>3
<1> QED  BY <1>1, <1>2, <1>3, PTL DEF FactsSpec
=============================================================================
