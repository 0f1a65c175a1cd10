----------------------------- MODULE MCConsent -----------------------------
(* Consent for TLC.  The configurations give the sets of users, requests and *)
(* texts as model values; requests and texts are interchangeable, so a run   *)
(* that checks invariants alone may use Symmetry.                            *)
EXTENDS Consent, TLC

Symmetry == Permutations(Requests) \cup Permutations(Texts)
=============================================================================
