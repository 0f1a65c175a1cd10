----------------------------- MODULE MCDatabase -----------------------------
EXTENDS Backups

MCTitleOf == [x \in Scopes |-> CHOOSE t \in Titles : TRUE]

Symmetry == Permutations(Seeders) \cup Permutations(Backups) \cup Permutations(Names)
=============================================================================
