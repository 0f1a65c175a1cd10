------------------------------- MODULE Backups -------------------------------
(***************************************************************************)
(* bin/backup.sh and bin/restore.sh over the database of Seed: dumps are   *)
(* written, moved to their names and aged out, the database is lost,       *)
(* migrated afresh or restored, while seeds and edits go on.               *)
(*                                                                         *)
(* pg_dump gives one committed state, that of its start.  Two backups do   *)
(* not start in the same second (the systemd unit runs one at a time), so  *)
(* a name is that of one backup.  The clock counts days.                   *)
(***************************************************************************)
EXTENDS Seed

CONSTANTS
    Backups,        \* processes of backup.sh
    Names,          \* of files (their timestamps)
    Retention,      \* BACKUP_RETENTION_DAYS
    MaxDay,         \* bound on the clock
    MaxLosses       \* bound on how often the database is lost

ASSUME BackupsAssumption == Retention \in Nat /\ MaxDay \in Nat

VARIABLES
    file,       \* the dumps that have their final name
    backup,     \* what each process is doing
    day,
    losses,
    \* History, read by the property only.
    saved       \* the day of the last backup that succeeded, or None

backupVars == <<file, backup, day, losses, saved>>
vars == <<seedVars, backupVars>>

Resting == [step |-> "idle", name |-> None, data |-> None]

Init ==
    /\ SeedInit
    /\ file = {}
    /\ backup = [b \in Backups |-> Resting]
    /\ day = 0 /\ losses = 0
    /\ saved = None

Rests(b) == backup' = [backup EXCEPT ![b] = Resting]

DumpAs(name, data, whole) == [name |-> name, data |-> data, whole |-> whole, day |-> day]

-----------------------------------------------------------------------------
(* backup.sh *)

\* A temporary file is read by nobody: the dump is in `backup` until it has its name.
Begins(b, n) ==
    /\ backup[b].step = "idle"
    /\ \A f \in file : f.name # n
    /\ backup' = [backup EXCEPT ![b] = [step |-> "dumping", name |-> n, data |-> row]]

\* Variant: pg_dump writes the file under its final name.
DumpInPlace(b, n) ==
    /\ Begins(b, n)
    /\ file' = file \cup {DumpAs(n, row, FALSE)}
    /\ UNCHANGED saved

Dump(b, n) ==
    /\ Begins(b, n)
    /\ UNCHANGED <<file, saved>>

\* pg_dump and gzip have succeeded (pipefail): mv.
Publish(b) ==
    /\ backup[b].step = "dumping"
    /\ file' = {f \in file : f.name # backup[b].name}
                   \cup {DumpAs(backup[b].name, backup[b].data, TRUE)}
    /\ backup' = [backup EXCEPT ![b] = [Resting EXCEPT !.step = "prune"]]
    /\ saved' = day

\* find -mtime +N: more than N whole days old.
Old(f) == day - f.day > Retention

\* Only a backup that has succeeded removes old ones.
Prune(b) ==
    /\ backup[b].step = "prune"
    /\ file' = {f \in file : ~Old(f)}
    /\ Rests(b)
    /\ UNCHANGED saved

\* An error, whose trap removes the temporary file, or a kill, which leaves it there.
Fail(b) ==
    /\ backup[b].step # "idle"
    /\ Rests(b)
    /\ UNCHANGED <<file, saved>>

BackupStep ==
    /\ \E b \in Backups :
           \/ \E n \in Names : Dump(b, n)
           \/ Publish(b) \/ Prune(b) \/ Fail(b)
    /\ UNCHANGED <<seedVars, day, losses>>

\* A backup prunes on the day it has published.
NextDay ==
    /\ day < MaxDay
    /\ \A b \in Backups : backup[b].step # "prune"
    /\ day' = day + 1
    /\ UNCHANGED <<seedVars, file, backup, losses, saved>>

-----------------------------------------------------------------------------
(* The loss of the database, and what brings it back *)

Lose ==
    /\ losses < MaxLosses /\ losses' = losses + 1
    /\ row' = [k \in Keys |-> None]
    /\ seeder' = [p \in DOMAIN seeder |-> Idle]
    /\ UNCHANGED <<edits, titled, file, backup, day, saved>>

Migrate ==
    /\ row[Site] = None
    /\ row' = [row EXCEPT ![Site] = "published"]
    /\ UNCHANGED <<seeder, edits, titled, backupVars>>

\* restore.sh: one transaction, which fails at the first table that exists (the dumps have
\* no DROP), and on a dump that is cut short.
Restore(f) ==
    /\ row[Site] = None
    /\ f.whole
    /\ row' = f.data
    /\ UNCHANGED <<seeder, edits, titled, backupVars>>

Next ==
    \/ SeedNext /\ UNCHANGED backupVars
    \/ BackupStep \/ NextDay
    \/ Lose \/ Migrate \/ \E f \in file : Restore(f)

Spec == Init /\ [][Next]_vars

-----------------------------------------------------------------------------
(* Properties *)

\* What carries a final name can be restored whole, whatever was killed; and once a backup has
\* succeeded there is always one at least as recent, for however long backups fail from then
\* on.  (backup.sh:15 "de forma atómica", 41-45)
DumpsLast ==
    /\ \A f \in file : f.whole
    /\ saved # None => \E f \in file : f.day >= saved
=============================================================================
