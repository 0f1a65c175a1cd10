--------------------------- MODULE DatasetLedger ---------------------------
(***************************************************************************)
(* What the community dataset promises to a reader of it (docs/adr/0005,   *)
(* docs/domain-model.md): a published version is an immutable snapshot     *)
(* under a number of its own, and numbers follow one another.  The one way *)
(* a version leaves is that the staff deletes it; from then on numbers are *)
(* only distinct.                                                          *)
(***************************************************************************)
EXTENDS Naturals

CONSTANT Contents       \* what a version can hold

VARIABLES
    ledger,             \* the versions there are: a set of [number, content]
    withdrawn           \* a version was ever deleted

Entry == [number : Nat, content : Contents]

LedgerNumbers == {e.number : e \in ledger}

LedgerInit == ledger = {} /\ withdrawn = FALSE

\* A new version, under a free number: the next one, if none was ever deleted.
Append(e) ==
    /\ e \in Entry
    /\ e.number \notin LedgerNumbers
    /\ ~withdrawn => /\ \A n \in LedgerNumbers : n < e.number
                     /\ \A n \in 1 .. (e.number - 1) : n \in LedgerNumbers
    /\ ledger' = ledger \cup {e}
    /\ UNCHANGED withdrawn

Withdraw(e) ==
    /\ ledger' = ledger \ {e}
    /\ withdrawn' = TRUE

LedgerNext ==
    \/ \E e \in ledger' : Append(e)
    \/ \E e \in ledger : Withdraw(e)

LedgerSpec == LedgerInit /\ [][LedgerNext]_<<ledger, withdrawn>>
=============================================================================
