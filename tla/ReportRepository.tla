------------------------- MODULE ReportRepository --------------------------
(***************************************************************************)
(* What the report repository promises: the in-memory adapter the code     *)
(* calls its behavioural reference.  One atomic operation compares the     *)
(* identity of the offered report with the latest version of its date and  *)
(* appends only a changed one.                                             *)
(***************************************************************************)
EXTENDS Sequences

CONSTANTS Dates, Hashes

VARIABLE histories

RepositoryInit == histories = [d \in Dates |-> <<>>]

\* append_if_changed when the offered identity is the latest one: reuse,
\* which leaves the history alone.
Reuse(d, h) ==
    /\ histories[d] # <<>>
    /\ histories[d][Len(histories[d])] = h
    /\ UNCHANGED histories

\* append_if_changed otherwise
AppendVersion(d, h) ==
    /\ histories[d] # <<>> => histories[d][Len(histories[d])] # h
    /\ histories' = [histories EXCEPT ![d] = Append(@, h)]

RepositoryNext ==
    \E d \in Dates, h \in Hashes : Reuse(d, h) \/ AppendVersion(d, h)

RepositorySpec == RepositoryInit /\ [][RepositoryNext]_histories
=============================================================================
