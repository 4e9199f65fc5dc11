---------------------------- MODULE ProfileFile ----------------------------
(***************************************************************************)
(* How the profiles of AdaptiveIdle reach the disk: save_profiles_to_disk  *)
(* writes a temporary file and renames it, without a lock, and two threads *)
(* of the service call it, the minute's job and the teardown, which does   *)
(* not wait for a call the job is in.  A snapshot is its number.           *)
(***************************************************************************)
EXTENDS Integers, FiniteSets

CONSTANTS
  MaxWrites \* bound: writes in all

Savers == {"job", "stop"}
Inodes == 0..Cardinality(Savers)
NoFile == -1

VARIABLES
  saver,    \* each save under way: its snapshot, its descriptor and step
  disk,     \* the inodes: "free", "empty" or "whole" with a snapshot
  draft,    \* the inode named traffic_profiles.json.tmp
  file,     \* the inode named traffic_profiles.json
  overlap,  \* two saves were under way at once (history)
  loaded,   \* what the last load brought back
  writes
fileVars == <<saver, disk, draft, file, overlap, loaded, writes>>

FileInit ==
  /\ saver = [s \in Savers |-> [at |-> "idle"]]
  /\ disk = [i \in Inodes |-> [is |-> "free"]] /\ draft = NoFile /\ file = NoFile
  /\ overlap = FALSE /\ loaded = 0 /\ writes = 0

\* An inode goes when it has neither a name nor an open descriptor.
Linked(used) == [i \in Inodes |-> IF i \in used THEN disk[i] ELSE [is |-> "free"]]

Others(s) == {o \in Savers \ {s} : saver[o].at # "idle"}

\* fs::write opens the temporary file, truncating it, ...
SaveOpens(s) ==
  /\ saver[s].at = "idle" /\ writes < MaxWrites
  /\ LET at == IF draft # NoFile THEN draft ELSE CHOOSE i \in Inodes : disk[i].is = "free"
     IN  /\ saver' = [saver EXCEPT ![s] = [at |-> "opened", inode |-> at, data |-> writes + 1]]
         /\ disk' = [disk EXCEPT ![at] = [is |-> "empty"]]
         /\ draft' = at
  /\ overlap' = (overlap \/ Others(s) # {})
  /\ writes' = writes + 1
  /\ UNCHANGED <<file, loaded>>

\* ... writes it, or fails to, ...
SaveWrites(s) ==
  /\ saver[s].at = "opened"
  /\ saver' = [saver EXCEPT ![s].at = "written"]
  /\ disk' = [disk EXCEPT ![saver[s].inode] = [is |-> "whole", data |-> saver[s].data]]
  /\ UNCHANGED <<draft, file, overlap, loaded, writes>>

SaveFails(s) ==
  /\ saver[s].at = "opened"
  /\ saver' = [saver EXCEPT ![s] = [at |-> "idle"]]
  /\ UNCHANGED <<disk, draft, file, overlap, loaded, writes>>

\* Mutant: the name is given before the data is on the disk.
MutRenamesFirst(s) == saver[s].at \in {"opened", "written"}

MayRename(s) == saver[s].at = "written"

\* ... and rename gives whatever has the temporary name the real one.
SaveRenames(s) ==
  /\ MayRename(s)
  /\ saver' = [saver EXCEPT ![s] = [at |-> "idle"]]
  /\ IF draft = NoFile THEN UNCHANGED <<disk, draft, file>>
     ELSE /\ file' = draft /\ draft' = NoFile
          /\ disk' = Linked({draft} \cup {saver[o].inode : o \in Others(s)})
  /\ UNCHANGED <<overlap, loaded, writes>>

\* The process dies at any point, starts again and loads: what is no whole
\* file is as good as none.
CrashAndLoad ==
  /\ saver' = [s \in Savers |-> [at |-> "idle"]]
  /\ disk' = Linked({draft, file})
  /\ loaded' = IF file # NoFile /\ disk[file].is = "whole" THEN disk[file].data ELSE 0
  /\ UNCHANGED <<draft, file, overlap, writes>>

FileNext ==
  \/ \E s \in Savers : SaveOpens(s) \/ SaveWrites(s) \/ SaveFails(s) \/ SaveRenames(s)
  \/ CrashAndLoad

-----------------------------------------------------------------------------
(* Properties. *)

\* Once a save has gone through, the profiles survive a death of the process at
\* any moment, as long as no two saves ever ran at once.
FileReadable == (~overlap /\ file # NoFile) => disk[file].is = "whole"
=============================================================================
