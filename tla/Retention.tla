----------------------------- MODULE Retention ------------------------------
(***************************************************************************)
(* Raw retention and report expiry: rows that report manifests point at    *)
(* are replaced by tombstones before they are deleted, and manifests and   *)
(* tombstones go when their own time is over.  A pass reads its batch in   *)
(* one transaction, cleans every row in one of its own, expires in a last  *)
(* one, and is abandoned by the first transaction that fails.  The daily   *)
(* job and an administrator's request may run passes at the same time.     *)
(*                                                                         *)
(* The database takes part: restrictive foreign keys, the tombstone check  *)
(* constraint and the triggers that reject updates of immutable rows.      *)
(***************************************************************************)
EXTENDS Integers, Sequences, FiniteSets, FiniteSetsExt

CONSTANTS
    Kind,          \* the kind of each raw row; rows are numbered in id order
    Owner,         \* the post version a row hangs on, 0 for a publication
    Dates,         \* report dates
    MaxManifests,  \* bound on report versions
    Passes,        \* retention passes that may overlap
    Batch,         \* RETENTION_SOURCE_BATCH
    RawDays,       \* RAW_RETENTION_DAYS
    ReportDays,    \* REPORT_RETENTION_DAYS
    MaxTime        \* bound on the clock

ASSUME RetentionAssumption ==
    /\ Kind \in Seq({"analysis", "match", "engagement", "publication", "post_version"})
    /\ Batch \in Nat \ {0} /\ RawDays \in Nat /\ ReportDays \in Nat \ {0} /\ MaxTime \in Nat

VARIABLES
    now,
    row,       \* raw rows: not written yet, live since a day, or gone
    manifest,  \* report versions with their input manifest and its item links
    tomb,      \* report_input_tombstones
    observed,  \* publications a verification observation points at
    pass       \* the retention passes

vars == <<now, row, manifest, tomb, observed, pass>>

Rows == DOMAIN Kind
Unwritten == [st |-> "none", at |-> 0]
Idle == [pc |-> "idle", at |-> 0, batch |-> {}]

\* ELIGIBLE_SOURCE_IDS: dependants first
Priority == [analysis |-> 1, match |-> 2, engagement |-> 3, publication |-> 4, post_version |-> 5]

\* A stored manifest with its report version: the rows its item names, those a
\* tombstone stands for by now, and whether its bytes and hashes still agree.
ManifestRow ==
    [st : {"kept", "gone"}, date : Dates, until : Nat, slice : SUBSET Rows,
     switched : SUBSET Rows, supersedes : Nat, sound : BOOLEAN]

Live == {r \in Rows : row[r].st = "live"}
Ids == DOMAIN manifest

Init ==
    /\ now = 0
    /\ row = [r \in Rows |-> Unwritten]
    /\ manifest = <<>>
    /\ tomb = {}
    /\ observed = {}
    /\ pass = [p \in Passes |-> Idle]

-----------------------------------------------------------------------------
(* The writers retention meets *)

\* collection, matching and analysis write a row; its version comes first
WriteRow(r) ==
    /\ row[r].st = "none"
    /\ Owner[r] \notin {0, r} => row[Owner[r]].st = "live"
    /\ row' = [row EXCEPT ![r] = [st |-> "live", at |-> now]]
    /\ UNCHANGED <<now, manifest, tomb, observed, pass>>

\* the latest version of a date; 0 when there is none
Latest(d) == Max({m \in Ids : manifest[m].st = "kept" /\ manifest[m].date = d} \cup {0})

\* A report version and one of its manifest items, which names live rows under
\* restrictive foreign keys.  A correction may leave this item's values, and so
\* its value slice, as they were.
WriteReport(d, s) ==
    /\ Len(manifest) < MaxManifests
    /\ s # {} /\ \A r \in s : Owner[r] # 0 => Owner[r] \in s
    /\ manifest' = Append(manifest,
           [st |-> "kept", date |-> d, until |-> now + ReportDays, slice |-> s,
            switched |-> {}, supersedes |-> Latest(d), sound |-> TRUE])
    /\ UNCHANGED <<now, row, tomb, observed, pass>>

\* stored manifest bytes or an item's value hash no longer match
Damage(m) ==
    /\ manifest[m].st = "kept" /\ manifest[m].sound
    /\ manifest' = [manifest EXCEPT ![m].sound = FALSE]
    /\ UNCHANGED <<now, row, tomb, observed, pass>>

\* a verification observation keeps the publication it saw as visible
Observe(r) ==
    /\ Kind[r] = "publication" /\ r \in Live \ observed
    /\ observed' = observed \cup {r}
    /\ UNCHANGED <<now, row, manifest, tomb, pass>>

-----------------------------------------------------------------------------
(* One pass *)

Eligible(at) == {r \in Live : row[r].at + RawDays <= at}

Before(r, s) ==
    IF Kind[r] # Kind[s] THEN Priority[Kind[r]] < Priority[Kind[s]]
    ELSE IF row[r].at # row[s].at THEN row[r].at < row[s].at ELSE r < s

\* eligible_source_ids: the first of the eligible rows
EligibleSourceIds(at) ==
    {r \in Eligible(at) : Cardinality({s \in Eligible(at) : Before(s, r)}) < Batch}

StartPass(p) ==
    /\ pass[p].pc = "idle"
    /\ pass' = [pass EXCEPT ![p] = [pc |-> "clean", at |-> now, batch |-> EligibleSourceIds(now)]]
    /\ UNCHANGED <<now, row, manifest, tomb, observed>>

Abandon(p) == pass' = [pass EXCEPT ![p] = Idle]

\* lock_live_references: kept manifests whose item still names the row itself
References(r) ==
    {m \in Ids : manifest[m].st = "kept" /\ r \in manifest[m].slice \ manifest[m].switched}

\* _verified_manifest and _verify_reference: payload, formula, provenance and
\* value slice of the item agree
Verified(m) == manifest[m].sound

\* lock_source finds no row of any kind under the id
Missing(r) == r \notin Live

\* Transactions of cleanup_source that the database or the code rejects: the
\* row is gone; a verification observation points at the publication; a
\* manifest that names it does not verify; a tombstone would
\* be created at or after its manifest's expiry; and deleting a post version updates the page commit items that name it, which the
\* immutability trigger refuses (every version has the item it came with).
Rejected(r, at) ==
    \/ Missing(r)
    \/ r \in observed
    \/ Kind[r] = "post_version"
    \/ \E m \in References(r) : ~Verified(m) \/ manifest[m].until <= at

\* Mutant: an existing tombstone keeps its own expiry.
TombstonesFirst(r) ==
    tomb \cup {[row |-> r, slice |-> manifest[m].slice, until |-> manifest[m].until] :
                  m \in {n \in References(r) :
                            /\ \A t \in tomb : t.row # r \/ t.slice # manifest[n].slice
                            /\ \A o \in References(r) :
                                  manifest[o].slice = manifest[n].slice => n <= o}}

\* upsert_tombstone: one tombstone for each row and value slice, kept until the
\* last manifest that shares it expires
Tombstones(r) ==
    LET slices == {manifest[m].slice : m \in References(r)}
        ends(s) == {t.until : t \in {t \in tomb : t.row = r /\ t.slice = s}}
                   \cup {manifest[m].until : m \in {m \in References(r) : manifest[m].slice = s}}
    IN  {t \in tomb : t.row # r \/ t.slice \notin slices}
        \cup {[row |-> r, slice |-> s, until |-> Max(ends(s))] : s \in slices}

\* switch_reference for every locked reference
SwitchReferences(r) ==
    [m \in Ids |-> IF m \in References(r)
                   THEN [manifest[m] EXCEPT !.switched = @ \cup {r}] ELSE manifest[m]]

\* cleanup_source of the next row of the batch; kinds and times never change,
\* so that the order is the one the rows were read in
CleanupSource(p) ==
    /\ pass[p].pc = "clean"
    /\ \E r \in pass[p].batch :
          /\ \A s \in pass[p].batch \ {r} : Before(r, s)
          /\ IF Rejected(r, pass[p].at) THEN Abandon(p) /\ UNCHANGED <<row, manifest, tomb>>
             ELSE /\ tomb' = Tombstones(r)
                  /\ manifest' = SwitchReferences(r)
                  /\ row' = [row EXCEPT ![r].st = "gone"]
                  /\ pass' = [pass EXCEPT ![p].batch = @ \ {r}]
    /\ UNCHANGED <<now, observed>>

\* lock_unreferenced_tombstones, given the manifests that are kept
Orphans(at, kept) ==
    {t \in tomb :
        /\ t.until <= at
        /\ \A m \in kept : t.row \notin manifest[m].switched \/ t.slice # manifest[m].slice}

\* Mutant: a manifest expires a day early.
ExpiredEarly(at) == {m \in Ids : manifest[m].st = "kept" /\ manifest[m].until <= at + 1}

\* lock_expired_manifests
Expired(at) == {m \in Ids : manifest[m].st = "kept" /\ manifest[m].until <= at}

\* delete_report_dependencies clears supersedes_version_id of the successor, an
\* update of an immutable row: a superseded version cannot be removed.
Superseded(m) == \E n \in Ids : manifest[n].st = "kept" /\ manifest[n].supersedes = m

\* delete_manifest_items and delete_manifest
WithoutManifests(gone) ==
    [m \in Ids |-> IF m \in gone THEN [manifest[m] EXCEPT !.st = "gone"] ELSE manifest[m]]

\* expire_retained_reports, one transaction for all of them
ExpireRetainedReports(p) ==
    LET expired == Expired(pass[p].at)
        kept == {m \in Ids \ expired : manifest[m].st = "kept"}
    IN  /\ pass[p].pc = "clean" /\ pass[p].batch = {}
        /\ IF \E m \in expired : Superseded(m) THEN UNCHANGED <<manifest, tomb>>
           ELSE /\ manifest' = WithoutManifests(expired)
                /\ tomb' = tomb \ Orphans(pass[p].at, kept)
        /\ Abandon(p)
        /\ UNCHANGED <<now, row, observed>>

Tick ==
    /\ now < MaxTime
    /\ now' = now + 1
    /\ UNCHANGED <<row, manifest, tomb, observed, pass>>

Step(p) == CleanupSource(p) \/ ExpireRetainedReports(p)

Next ==
    \/ \E r \in Rows : WriteRow(r) \/ Observe(r)
    \/ \E d \in Dates, s \in SUBSET Live : WriteReport(d, s)
    \/ \E m \in Ids : Damage(m)
    \/ \E p \in Passes : StartPass(p) \/ Step(p)
    \/ Tick

Spec == Init /\ [][Next]_vars

\* The daily job starts a pass every day, a pass runs on, and time passes.
FairSpec ==
    Spec /\ WF_vars(Tick) /\ \A p \in Passes : WF_vars(StartPass(p)) /\ WF_vars(Step(p))

-----------------------------------------------------------------------------
(* Properties *)

\* Rows, manifests, tombstones and passes stay in their domains; a tombstone's
\* identity is unique, as its constraint requires.
TypeOK ==
    /\ now \in 0..MaxTime
    /\ row \in [Rows -> [st : {"none", "live", "gone"}, at : 0..MaxTime]]
    /\ manifest \in Seq(ManifestRow)
    /\ \A t, u \in tomb : t.row = u.row /\ t.slice = u.slice => t = u
    /\ pass \in [Passes -> [pc : {"idle", "clean"}, at : 0..MaxTime, batch : SUBSET Rows]]

\* Every row a kept manifest was projected from is still there, or a tombstone
\* of that row and value slice is, and is kept as long as the manifest: no
\* order of cleanups, shared slices and expiries loses provenance early.
ProvenanceKept ==
    /\ TypeOK
    /\ \A m \in Ids : manifest[m].st = "kept" =>
        \A r \in manifest[m].slice :
            IF r \in manifest[m].switched
            THEN \E t \in tomb : t.row = r /\ t.slice = manifest[m].slice
                                 /\ t.until >= manifest[m].until
            ELSE r \in Live

\* Nothing goes before its time: raw rows not before thirty days, manifests and
\* tombstones not before their expiry, also when the clock moves on under a
\* pass; and never a row that a damaged kept manifest still names, since the
\* damage cannot be repaired from a tombstone.
NothingEarly ==
    [][/\ \A r \in Rows : row[r].st = "live" /\ row'[r].st = "gone" => now >= row[r].at + RawDays
       /\ \A m \in Ids : manifest[m].st = "kept" /\ manifest'[m].st = "gone"
             => now >= manifest[m].until
       /\ \A t \in tomb : t.until > now
             => \E u \in tomb' : u.row = t.row /\ u.slice = t.slice /\ u.until >= t.until
       /\ \A m \in Ids : manifest[m].st = "kept" /\ ~manifest[m].sound =>
             \A r \in manifest[m].slice \ manifest[m].switched : row'[r].st = "live"]_vars

\* rows whose time is over before the modelled clock stops
Due(r) == row[r].st = "live" /\ row[r].at + RawDays <= MaxTime
Damaged == \E m \in Ids : ~manifest[m].sound

\* Analyses, matches and engagement observations are deleted in the end, also
\* behind publications and versions that no pass can delete, unless a manifest
\* is damaged: one such row at the head of the batch stops every pass.
DerivedRowsGo ==
    \A r \in Rows : Kind[r] \in {"analysis", "match", "engagement"} =>
        (Due(r) ~> row[r].st = "gone" \/ Damaged)

\* Post versions are deleted in the end: the retention contract, which the
\* immutable page commit items break.
VersionsGo ==
    \A r \in Rows : Kind[r] = "post_version" => (Due(r) ~> row[r].st = "gone" \/ Damaged)

\* Publications are deleted in the end: the same contract, which the restrictive
\* key of the verification observations breaks.
PublicationsGo ==
    \A r \in Rows : Kind[r] = "publication" => (Due(r) ~> row[r].st = "gone" \/ Damaged)

\* Expired report versions are deleted in the end: the expiry contract, which
\* the immutable report versions break for every corrected report.
ExpiredReportsGo ==
    \A m \in 1..MaxManifests :
        (m \in Ids /\ manifest[m].until <= MaxTime) ~> (Damaged \/ (m \in Ids /\ manifest[m].st = "gone"))
=============================================================================
