------------------------------ MODULE MCReports ------------------------------
(***************************************************************************)
(* Reports and what retention leaves of their inputs.  The formula reads a *)
(* snapshot and retention deletes rows a report no longer reads, so a       *)
(* behaviour is about one of them, and about one instance of the formula;   *)
(* "part" says which.  Overlapping retention passes are interchangeable.    *)
(***************************************************************************)
EXTENDS Retention, ReportFormula, TLC

VARIABLE part

reportVars == <<part, vars, factVars>>

-----------------------------------------------------------------------------
(* Retention: a version with one analysis, and the publication that made it
   visible *)

PostKinds == <<"post_version", "analysis", "publication">>
PostOwners == <<1, 1, 0>>

PassSymmetry == Permutations(Passes)

-----------------------------------------------------------------------------
(* The formula.  Day 2 is the report day: its window is the hours 39 to 62,
   the comparison window the hours 15 to 38. *)

RuleCategories == (1 :> 1) @@ (2 :> 2)
TopicCategories == 1 :> 2
\* The instance of the configuration: reports that are retained, damaged and
\* reproduced, of one post whose engagement is half known.
OnePost == <<1>>
PostHour == <<39>>
HalfKnown == {[comments |-> {2}, score |-> {}], [comments |-> {}, score |-> {-1}]}

Approved(until) ==
    [enabled |-> TRUE, status |-> "approved", from |-> 0, until |-> until, revoked |-> FALSE]

\* what runs and authorizations make of the coverage of two sources
Coverage == INSTANCE ReportFormula WITH
    Posts <- {}, Sources <- {1, 2}, SourceOf <- <<>>, PublishedAt <- <<>>, Slots <- {39, 62},
    Decisions <- {Approved(64), Approved(63), [Approved(64) EXCEPT !.revoked = TRUE]},
    Phrases <- {1, 2}, Observations <- {}

\* posts on the borders of the two days
Records == INSTANCE ReportFormula WITH
    Posts <- 1..3, SourceOf <- <<1, 1, 1>>, PublishedAt <- <<39, 38, 63>>,
    Topics <- {2}, MaxRules <- 0, Observations <- {}

\* two posts of the day and one of the day before, with matches
Ranking == INSTANCE ReportFormula WITH
    Posts <- 1..3, SourceOf <- <<1, 1, 1>>, PublishedAt <- <<39, 50, 20>>,
    Phrases <- {1, 2}, MaxRules <- 2, Observations <- {}

\* slots, versions and analyses that fail
Status == INSTANCE ReportFormula WITH
    Posts <- 1..2, SourceOf <- <<1, 1>>, PublishedAt <- <<39, 62>>, Slots <- {39, 62},
    Decisions <- {Approved(90)}, CoverNumerator <- 1, CoverDenominator <- 2,
    MaxVersion <- 2, MaxRules <- 0, Observations <- {},
    Setbacks <- {"failed_retryable", "failed_terminal", "blocked_capability"}

-----------------------------------------------------------------------------
ReportsInit ==
    /\ Init
    /\ \/ part = "retention" /\ posts = <<>> /\ runs = <<>> /\ auth = <<>> /\ retained = {}
       \/ part = "coverage" /\ Coverage!FactsInit
       \/ part = "records" /\ Records!FactsInit
       \/ part = "ranking" /\ Ranking!FactsInit
       \/ part = "status" /\ Status!FactsInit
       \/ part = "bytes" /\ FactsInit

RetentionStep == part = "retention" /\ Next /\ UNCHANGED <<part, factVars>>
FormulaStep ==
    /\ \/ part = "coverage" /\ Coverage!Facts
       \/ part = "records" /\ Records!Facts
       \/ part = "ranking" /\ Ranking!Facts
       \/ part = "status" /\ Status!Facts
       \/ part = "bytes" /\ FactsNext
    /\ UNCHANGED <<part, vars>>

ReportsSpec == ReportsInit /\ [][RetentionStep \/ FormulaStep]_reportVars

-----------------------------------------------------------------------------
(* Properties *)

\* Whatever the facts are, the day has a report: the assembled manifest passes
\* the schema's validators and the formula's recount and does not depend on
\* row order; a complete report is of a completely collected and sufficiently
\* analysed day; rankings keep the leading entries.
ReportSound ==
    /\ part = "coverage" => Coverage!FactTypes /\ Coverage!AssemblyValid
    /\ part = "records" => Records!FactTypes /\ Records!AssemblyValid
    /\ part = "ranking" =>
        Ranking!CanonicalOrder /\ Ranking!RisingAsStated /\ Ranking!HighlightsLead
    /\ part = "status" => Status!FactTypes /\ Status!CompleteMeansCollected

\* Facts about posts outside the two Seoul days never change the manifest: a
\* post on a border belongs to one day only.
OutsideIgnored == [][part = "records" => Records!OutsideStep]_reportVars
==============================================================================
