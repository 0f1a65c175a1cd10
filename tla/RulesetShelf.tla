---------------------------- MODULE RulesetShelf ----------------------------
(***************************************************************************)
(* What the readers of rulesets are promised, of the parts a reader sees:  *)
(* a ruleset can be issued, and an issued one whose floors are guaranteed *)
(* keeps them until it is deleted or the guarantee is lost (docs/adr/0002).*)
(* Of a ruleset without the guarantee nothing is promised.                 *)
(***************************************************************************)
EXTENDS Naturals

CONSTANTS
    Versions,       \* the rulesets, by version
    Seeded,         \* the one the site starts with
    Keys,           \* the parameters a ruleset has
    FloorValues,    \* the values they take
    None,           \* no guarantee
    Lost            \* no guarantee any more

VARIABLES
    status,         \* each ruleset: absent, draft, published or deleted
    floors          \* its guaranteed floors, None or Lost

shelfVars == <<status, floors>>

Guarantees == [Keys -> FloorValues]

ShelfInit ==
    /\ status = [r \in Versions |-> "absent"]
    /\ floors = [r \in Versions |-> None]

Guaranteed(r) == floors[r] \notin {None, Lost}

Becomes(r, from, to) == status[r] = from /\ status' = [status EXCEPT ![r] = to]

\* A new draft, or one put back by somebody who still had it open.
Draft(r) ==
    /\ \/ Becomes(r, "absent", "draft")
       \/ Becomes(r, "deleted", "draft") /\ floors[r] = None
    /\ UNCHANGED floors

Issue(r) ==
    /\ Becomes(r, "draft", "published")
    /\ floors[r] = None
    /\ \E f \in Guarantees \cup {None} : floors' = [floors EXCEPT ![r] = f]

\* In the place of a deleted one it is another ruleset of that version: of the version, that
\* is no guarantee.
Open ==
    \/ /\ Becomes(Seeded, "absent", "published")
       /\ \E f \in Guarantees : floors' = [floors EXCEPT ![Seeded] = f]
    \/ /\ Becomes(Seeded, "deleted", "published")
       /\ floors' = [floors EXCEPT ![Seeded] = Lost]

\* Only a ruleset that never had a guarantee is a draft again.
Withdraw(r) ==
    /\ floors[r] = None
    /\ Becomes(r, "published", "draft")
    /\ UNCHANGED floors

LoseGuarantee(r) ==
    /\ status[r] = "published"
    /\ floors' = [floors EXCEPT ![r] = Lost]
    /\ UNCHANGED status

Discard(r) ==
    /\ Becomes(r, "draft", "deleted") \/ Becomes(r, "published", "deleted")
    /\ \E f \in {floors[r], Lost} \ Guarantees : floors' = [floors EXCEPT ![r] = f]

ShelfNext ==
    \/ \E r \in Versions :
           Draft(r) \/ Issue(r) \/ Withdraw(r) \/ LoseGuarantee(r) \/ Discard(r)
    \/ Open

ShelfSpec == ShelfInit /\ [][ShelfNext]_shelfVars

ShelfTypeOK ==
    /\ status \in [Versions -> {"absent", "draft", "published", "deleted"}]
    /\ floors \in [Versions -> Guarantees \cup {None, Lost}]
    /\ \A r \in Versions : Guaranteed(r) => status[r] = "published"
=============================================================================
