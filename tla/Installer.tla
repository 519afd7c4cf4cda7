------------------------------- MODULE Installer -------------------------------
(***************************************************************************)
(* scripts/install_claude_desktop_config.py: runs of the installer merge   *)
(* one server's entry into a configuration file that Claude Desktop, its   *)
(* user and other installers write as well.  A run reads the file, copies  *)
(* it to a backup, writes a temporary file beside it and renames that over *)
(* it; it can be killed between any two of these steps.                    *)
(*                                                                         *)
(* A whole file is its mcpServers table: for each server name the version  *)
(* of its entry.  What else is in the file travels with it unchanged.      *)
(***************************************************************************)
EXTENDS Naturals

CONSTANTS
    Runs,           \* invocations of the script
    Servers,        \* the names of mcpServers
    NameOf,         \* NameOf[r]: the --name of run r
    MaxEdits,       \* bound: times that somebody else changes the file
    Missing,        \* there is no such file
    Broken          \* the file is not one whole JSON document

\* Version 0 stands for "no entry", version e for the one the e-th change by
\* others wrote, and Installed for the script's own entry.
Entries == 0 .. MaxEdits + 1
Installed == MaxEdits + 1
Whole == [Servers -> Entries]
Files == Whole \cup {Missing, Broken}

ASSUME InstallerAssumption ==
    /\ NameOf \in [Runs -> Servers]
    /\ MaxEdits \in Nat
    /\ Missing \notin Whole /\ Broken \notin Whole /\ Missing # Broken

VARIABLES
    pc,         \* pc[r]: where run r is
    read,       \* read[r]: the configuration run r read and merged into
    config,     \* claude_desktop_config.json
    backup,     \* claude_desktop_config.json.bak
    tmp,        \* tmp[r]: the temporary file of run r
    edits,      \* changes by others so far
    mode        \* "serial" if runs and changes take turns, else "racing"

vars == <<pc, read, config, backup, tmp, edits, mode>>

NoServers == [s \in Servers |-> 0]

Init ==
    /\ pc = [r \in Runs |-> "idle"]
    /\ read = [r \in Runs |-> Missing]
    /\ config \in {Missing, Broken, NoServers}
    /\ backup = Missing
    /\ tmp = [r \in Runs |-> Missing]
    /\ edits = 0
    /\ mode \in {"serial", "racing"}

-----------------------------------------------------------------------------
Over == {"idle", "done", "refused", "failed", "killed"}

Alone(r) == \A q \in Runs \ {r} : pc[q] \in Over

Go(r, place) == pc' = [pc EXCEPT ![r] = place]

Merge(r, c) == [c EXCEPT ![NameOf[r]] = Installed]

\* Bad arguments, a store inside the allowed directories, or not a JSON file.
Refuse(r) ==
    /\ pc[r] = "idle"
    /\ Go(r, "refused")
    /\ UNCHANGED <<read, config, backup, tmp, edits>>

\* Bug: the merge starts from an empty file.
Read_Empty(r) ==
    /\ pc[r] = "idle"
    /\ mode = "serial" => Alone(r)
    /\ config # Broken
    /\ read' = [read EXCEPT ![r] = NoServers]
    /\ Go(r, "backup")
    /\ UNCHANGED <<config, backup, tmp, edits>>

Read(r) ==
    /\ pc[r] = "idle"
    /\ mode = "serial" => Alone(r)
    /\ config # Broken
    /\ read' = [read EXCEPT ![r] = IF config = Missing THEN NoServers ELSE config]
    /\ Go(r, "backup")
    /\ UNCHANGED <<config, backup, tmp, edits>>

\* --dry-run
Preview(r) ==
    /\ pc[r] = "backup"
    /\ Go(r, "done")
    /\ UNCHANGED <<read, config, backup, tmp, edits>>

\* Bug: only the first run makes a backup.
StartBackup_KeepOld(r) ==
    /\ pc[r] = "backup"
    /\ IF config = Missing \/ backup # Missing
       THEN Go(r, "mktemp") /\ UNCHANGED backup
       ELSE Go(r, "copy") /\ backup' = Broken
    /\ UNCHANGED <<read, config, tmp, edits>>

\* copy2 truncates the old backup before it fills the new one.
StartBackup(r) ==
    /\ pc[r] = "backup"
    /\ IF config = Missing
       THEN Go(r, "mktemp") /\ UNCHANGED backup
       ELSE Go(r, "copy") /\ backup' = Broken
    /\ UNCHANGED <<read, config, tmp, edits>>

FinishBackup(r) ==
    /\ pc[r] = "copy"
    /\ backup' = config
    /\ Go(r, "mktemp")
    /\ UNCHANGED <<read, config, tmp, edits>>

MakeTemp(r) ==
    /\ pc[r] = "mktemp"
    /\ tmp' = [tmp EXCEPT ![r] = Broken]
    /\ Go(r, "write")
    /\ UNCHANGED <<read, config, backup, edits>>

\* Bug: no temporary file.
Write_InPlace(r) ==
    /\ pc[r] = "write"
    /\ tmp' = [tmp EXCEPT ![r] = Merge(r, read[r])]
    /\ config' = Broken
    /\ Go(r, "replace")
    /\ UNCHANGED <<read, backup, edits>>

\* write, flush, fsync
Write(r) ==
    /\ pc[r] = "write"
    /\ tmp' = [tmp EXCEPT ![r] = Merge(r, read[r])]
    /\ Go(r, "replace")
    /\ UNCHANGED <<read, config, backup, edits>>

\* os.replace
Replace(r) ==
    /\ pc[r] = "replace"
    /\ config' = tmp[r]
    /\ tmp' = [tmp EXCEPT ![r] = Missing]
    /\ Go(r, "done")
    /\ UNCHANGED <<read, backup, edits>>

\* Bug: the temporary file of a failed run stays.
Fail_LeaveTemp(r) ==
    /\ pc[r] \in {"backup", "copy", "mktemp", "write", "replace"}
    /\ Go(r, "failed")
    /\ UNCHANGED <<read, config, backup, tmp, edits>>

\* A system call fails, or Ctrl-C: the temporary file is removed.
Fail(r) ==
    /\ pc[r] \in {"backup", "copy", "mktemp", "write", "replace"}
    /\ tmp' = [tmp EXCEPT ![r] = Missing]
    /\ Go(r, "failed")
    /\ UNCHANGED <<read, config, backup, edits>>

\* The process dies; nothing is cleaned up.
Kill(r) ==
    /\ pc[r] \notin Over
    /\ Go(r, "killed")
    /\ UNCHANGED <<read, config, backup, tmp, edits>>

\* Claude Desktop, the user or another installer changes one entry.
Edit ==
    /\ edits < MaxEdits
    /\ mode = "serial" => \A r \in Runs : pc[r] \in Over
    /\ config # Broken
    /\ edits' = edits + 1
    /\ \E s \in Servers :
          config' = [IF config = Missing THEN NoServers ELSE config
                       EXCEPT ![s] = edits + 1]
    /\ UNCHANGED <<pc, read, backup, tmp>>

-----------------------------------------------------------------------------
Run(r) == \/ Refuse(r) \/ Read(r) \/ Preview(r) \/ StartBackup(r)
          \/ FinishBackup(r) \/ MakeTemp(r) \/ Write(r) \/ Replace(r)
          \/ Fail(r) \/ Kill(r)

Next == UNCHANGED mode /\ ((\E r \in Runs : Run(r)) \/ Edit)

Spec == Init /\ [][Next]_vars

-----------------------------------------------------------------------------
(* Properties *)

\* Every variable keeps its type.
TypeOK ==
    /\ pc \in [Runs -> Over \cup {"backup", "copy", "mktemp", "write",
                                  "replace"}]
    /\ read \in [Runs -> Whole \cup {Missing}]
    /\ config \in Files
    /\ backup \in Files
    /\ tmp \in [Runs -> Files]
    /\ edits \in 0 .. MaxEdits
    /\ mode \in {"serial", "racing"}

\* No crash, failure or Ctrl-C ever leaves a truncated configuration behind, and
\* a configuration that did not parse is never touched.
NeverCorrupted ==
    [][config' # config => config # Broken /\ config' \in Whole]_vars

\* "Any other servers already configured are left untouched": a run changes its
\* own entry only, as long as runs and the changes of others take turns.
OthersUntouched ==
    [][mode = "serial" /\ edits' = edits /\ config' # config =>
         \E r \in Runs : \A s \in Servers \ {NameOf[r]} :
             config'[s] = IF config = Missing THEN 0 ELSE config[s]]_vars

\* The existing file is in the backup before it is touched, also when earlier
\* runs were killed half-way (runs and changes taking turns).
BackedUp ==
    [][mode = "serial" /\ edits' = edits /\ config' # config /\ config # Missing =>
         backup = config]_vars

\* Only a killed run leaves its temporary file, secrets included, behind.
NoLitter ==
    \A r \in Runs : pc[r] \in {"idle", "done", "refused", "failed"} =>
        tmp[r] = Missing

=============================================================================
