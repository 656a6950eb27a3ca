------------------------------ MODULE MCIngest ------------------------------
(***************************************************************************)
(* What comes in and who watches it: the ingestion of one source, and the  *)
(* independent verifier of the published runs.  The verifier reads run      *)
(* rows that CollectionControl writes and nothing of a page, so a behaviour *)
(* is about one of the two; "part" says which.                             *)
(***************************************************************************)
EXTENDS SourceIngest, Verifier

VARIABLE part

ingestVars == <<part, vars, verifierVars>>

\* Ingestion is explored in two directions inside the configuration's bounds:
\* every text in two runs, and three runs with the texts of an edit.
Texts == INSTANCE SourceIngest WITH MaxRuns <- 2
Edits == INSTANCE SourceIngest WITH Served <- {"x", "y", "bad"}

\* So is the verifier: one command, with its retries, beside completions that
\* overlap its snapshots, and two commands beside one run in a shorter time.
Overlaps == INSTANCE Verifier WITH MaxCalls <- 1
Repeats  == INSTANCE Verifier WITH MaxFinish <- 1, MaxClock <- 2

IngestInit ==
    /\ part \in {"texts", "edits", "overlaps", "repeats"}
    /\ Init /\ VerifierInit
    /\ part \in {"overlaps", "repeats"} => platform = "reddit" /\ \A p \in Posts : feed[p] = "unborn"

TextsStep    == part = "texts" /\ Texts!Next /\ UNCHANGED <<part, verifierVars>>
EditsStep    == part = "edits" /\ Edits!Next /\ UNCHANGED <<part, verifierVars>>
OverlapsStep == part = "overlaps" /\ Overlaps!VerifierNext /\ UNCHANGED <<part, vars>>
RepeatsStep  == part = "repeats" /\ Repeats!VerifierNext /\ UNCHANGED <<part, vars>>

IngestSpec ==
    IngestInit /\ [][TextsStep \/ EditsStep \/ OverlapsStep \/ RepeatsStep]_ingestVars

=============================================================================
