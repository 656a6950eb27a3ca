------------------------------ MODULE MCAccess ------------------------------
(***************************************************************************)
(* Who may act on the system: administrator sessions, service tokens and   *)
(* the leases of analysis workers.  The three share no state, so a run     *)
(* exercises one of them and leaves the others as they were; "part" says   *)
(* which.  Tokens are exercised by the web server's scope sets alone, or   *)
(* by the jobs of a workflow run and a worker's signed request alone:      *)
(* their principals share nothing either.                                  *)
(***************************************************************************)
EXTENDS AdminSessions, ServiceTokens, AnalysisQueue, TLC

VARIABLE part

accessVars == <<part, vars, tokenVars, queueVars>>

\* Two retries, the second after a longer delay.
TwoDelays == <<1, 2>>

\* Tabs, callers and jobs differ in nothing but their names.
AlikeSymmetry == Permutations(Tabs) \cup Permutations(Callers) \cup Permutations(Jobs)

ASSUME AccessAssumption == TokenAssumption /\ QueueAssumption

-----------------------------------------------------------------------------

AccessInit ==
    /\ part \in {"sessions", "server", "runner", "queue"}
    /\ Init /\ TokenInit /\ QueueInit

SessionsStep == part = "sessions" /\ Next /\ UNCHANGED <<tokenVars, queueVars>>

\* The bound on the clock for the web server, as far as a token's expiry; the
\* runner goes on to MaxClock, past the retention of a nonce.
ServerClock == TokenTtl

\* Callers, cache and the keys' exchanges; no job starts, no request arrives.
ServerStep ==
    /\ part = "server" /\ TokenNext /\ UNCHANGED <<vars, queueVars>>
    /\ \A j \in Jobs : call'[j] = NoCall
    /\ nonces' = nonces /\ clock' <= ServerClock

\* Jobs and signed requests; no caller asks for a token.
RunnerStep ==
    /\ part = "runner" /\ TokenNext /\ UNCHANGED <<vars, queueVars>>
    /\ caller' = caller

QueueStep == part = "queue" /\ QueueNext /\ UNCHANGED <<vars, tokenVars>>

AccessNext ==
    /\ SessionsStep \/ ServerStep \/ RunnerStep \/ QueueStep
    /\ UNCHANGED part

AccessSpec == AccessInit /\ [][AccessNext]_accessVars
=============================================================================
