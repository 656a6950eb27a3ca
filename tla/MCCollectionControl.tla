------------------------ MODULE MCCollectionControl ------------------------
\* Model-checking instances of CollectionControl.
EXTENDS CollectionControl, TLC

Symmetric == Permutations(Commands) \cup Permutations(Sources)

\* The bound of the run with two commands: the collection is explored either
\* with one command under every policy, or with two commands and provider
\* cursors under the plainest one.
OneCommand ==
    /\ Cardinality({c \in Commands : command[c].status # "absent"}) <= 1
    /\ \A s \in Sources : checkpoint[s].cursor = NoCursor

PlainPolicy ==
    /\ \A r \in Runs : run[r].budget = "allow"
    /\ \A s \in Sources : Len(source[s].decisions) <= 1

OneStreamOrPlainPolicy == OneCommand \/ PlainPolicy
=============================================================================
