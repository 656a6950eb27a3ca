------------------------------ MODULE MCRelease ------------------------------
(***************************************************************************)
(* Release operations: source activation with its restoration, and the     *)
(* ledger of migrations and dispatches.  The activation's commands reserve  *)
(* nothing in the ledger, so a behaviour is about one of them; "part" says  *)
(* which.                                                                  *)
(***************************************************************************)
EXTENDS IncidentRestore, ReleaseLedger

VARIABLE part

releaseVars == <<part, vars, ledgerVars>>

\* Where an activation may start, and the rows its log may grow to from there.
LogBounds ==
    ("fresh" :> 3) @@ ("bound" :> 7) @@ ("legacy" :> 9) @@ ("failed" :> 9) @@ ("raced" :> 12)
ClockBounds ==
    ("fresh" :> 3) @@ ("bound" :> 5) @@ ("legacy" :> 7) @@ ("failed" :> 7) @@ ("raced" :> 7)

\* Of two transactions that wait together either may have begun first.
EitherFirst == [mutate |-> {3}, activate |-> {2, 4}, downgrade |-> {1, 5},
                before |-> {1}]

\* A commit reviewed while 0011 was the head, and this one.
Heads == {{"0011"}, {"0013"}}

ReleaseInit ==
    /\ part \in {"activation", "ledger"}
    /\ Init /\ LedgerInit
    /\ part = "activation" => db = Empty
    /\ part = "ledger" => start = "fresh"

ActivationStep == part = "activation" /\ Next /\ UNCHANGED <<part, ledgerVars>>
LedgerStep     == part = "ledger" /\ LedgerNext /\ UNCHANGED <<part, vars>>

ReleaseSpec == ReleaseInit /\ [][ActivationStep \/ LedgerStep]_releaseVars
==============================================================================
