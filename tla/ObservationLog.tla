--------------------------- MODULE ObservationLog ---------------------------
(***************************************************************************)
(* What the trade tracker promises of one user's observations, seen from   *)
(* outside: a registration adds its observations at once or not at all, a  *)
(* moderation changes the state of one, and no two counting observations   *)
(* are the same trade (docs/domain-model.md, TradeObservation).            *)
(***************************************************************************)
EXTENDS Naturals

CONSTANTS Ids, Keys, NoObs

VARIABLE entry          \* each identity: its key and state, or NoObs

Known == {i \in Ids : entry[i] # NoObs}

Distinct == \A i, j \in Known :
    entry[i].key = entry[j].key /\ entry[i].state = "live" /\ entry[j].state = "live" => i = j

LogInit == entry = [i \in Ids |-> NoObs]

\* New observations appear together; they count, and the others stay as they are.
Add ==
    /\ \A i \in Known : entry'[i] = entry[i]
    /\ \A i \in Ids \ Known : entry'[i] # NoObs => entry'[i].state = "live"
    /\ Distinct'

Moderate(i) ==
    /\ \E s \in {"live", "duplicate", "deleted"} :
           entry' = [entry EXCEPT ![i].state = s]
    /\ Distinct'

LogNext == Add \/ \E i \in Known : Moderate(i)

LogSpec == LogInit /\ [][LogNext]_entry
=============================================================================
