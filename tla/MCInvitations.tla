--------------------------- MODULE MCInvitations ---------------------------
EXTENDS Invitations, TLC

Symmetry == Permutations(Browsers) \cup Permutations(Requests) \cup
            Permutations(Invitations) \cup Permutations(Addresses) \cup Permutations(Spellings)
=============================================================================
