--------------------------- MODULE MCDailyReports ---------------------------
(***************************************************************************)
(* DailyReports on one set of constants, in three parts that each let other *)
(* things happen; "part" says which one a behaviour is of.                  *)
(* Overlapping invocations are interchangeable.                            *)
(***************************************************************************)
EXTENDS DailyReports, TLC

VARIABLE part

\* What a part lets happen: the facts of one date change under its report;
\* invocations crash and fail on two dates; invocations catch up with more
\* dates than one of them walks.
DayLimit == [revisions |-> 1, jobs |-> 2, days |-> 3]
FaultLimit == [revisions |-> 0, jobs |-> 2, days |-> 0]

\* Hashes are only compared with each other, so every date may start with one.
PartsInit ==
    /\ part \in {"revisions", "jobs", "days"}
    /\ Init
    /\ \A d \in Dates : inputs[d].hash = "x"

Within ==
    /\ latest' <= DayLimit[part] /\ faults' <= FaultLimit[part]
    /\ part # "revisions" => inputs' = inputs /\ trigger' = trigger
    /\ \A d \in Dates : d > DayLimit[part] => inputs'[d] = inputs[d]

PartsNext == Next /\ Within /\ UNCHANGED part

PartsSpec == PartsInit /\ [][PartsNext]_<<part, vars>>

CronSymmetry == Permutations(Crons)
=============================================================================
