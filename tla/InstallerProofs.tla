---------------------------- MODULE InstallerProofs ----------------------------
(***************************************************************************)
(* For any number of runs, kills and changes by others: the configuration  *)
(* is never corrupted, and only a killed run leaves its temporary file.    *)
(*                                                                         *)
(* Inductive is what a run knows at each step: having read the file it     *)
(* holds a whole configuration, and what it is about to rename is one.     *)
(***************************************************************************)
EXTENDS Installer, TLAPS

Active == {"backup", "copy", "mktemp", "write", "replace"}

RunInv == \A r \in Runs :
    /\ pc[r] \in Active => read[r] \in Whole /\ config # Broken
    /\ pc[r] = "copy" => config \in Whole
    /\ pc[r] = "replace" => tmp[r] \in Whole
    /\ pc[r] \in {"backup", "copy", "mktemp"} => tmp[r] = Missing

IInv == TypeOK /\ RunInv /\ NoLitter

-----------------------------------------------------------------------------
\* Merging keeps a configuration whole.
LEMMA MergeWhole ==
  ASSUME NEW r \in Runs, NEW c \in Whole PROVE Merge(r, c) \in Whole
  BY InstallerAssumption DEF Merge, Whole, Entries, Installed

\* The invariant holds initially.
LEMMA InitIInv == Init => IInv
  BY InstallerAssumption
  DEF Init, IInv, TypeOK, RunInv, NoLitter, Files, Whole, Entries, NoServers,
      Over, Active

\* A change by others keeps the configuration whole.
LEMMA EditWhole == TypeOK /\ Edit => config' \in Whole /\ edits' \in 0 .. MaxEdits
  BY InstallerAssumption
  DEF TypeOK, Edit, Files, Whole, Entries, NoServers

\* Every step keeps the invariant.
LEMMA StepIInv == IInv /\ [Next]_vars => IInv'
  <1> SUFFICES ASSUME IInv, [Next]_vars PROVE IInv'
    OBVIOUS
  <1> USE InstallerAssumption
      DEF IInv, TypeOK, RunInv, NoLitter, Files, Over, Active, Go
  <1>0. mode' \in {"serial", "racing"}
    BY DEF Next, vars
  <1>1. ASSUME NEW r \in Runs, Refuse(r) PROVE IInv'
    BY <1>0, <1>1 DEF Refuse
  <1>2. ASSUME NEW r \in Runs, Read(r) PROVE IInv'
    <2>1. NoServers \in Whole
      BY DEF NoServers, Whole, Entries
    <2> QED
      BY <1>0, <1>2, <2>1 DEF Read
  <1>3. ASSUME NEW r \in Runs, Preview(r) PROVE IInv'
    BY <1>0, <1>3 DEF Preview
  <1>4. ASSUME NEW r \in Runs, StartBackup(r) PROVE IInv'
    BY <1>0, <1>4 DEF StartBackup
  <1>5. ASSUME NEW r \in Runs, FinishBackup(r) PROVE IInv'
    BY <1>0, <1>5 DEF FinishBackup
  <1>6. ASSUME NEW r \in Runs, MakeTemp(r) PROVE IInv'
    BY <1>0, <1>6 DEF MakeTemp
  <1>7. ASSUME NEW r \in Runs, Write(r) PROVE IInv'
    BY <1>0, <1>7, MergeWhole DEF Write
  <1>8. ASSUME NEW r \in Runs, Replace(r) PROVE IInv'
    BY <1>0, <1>8 DEF Replace
  <1>9. ASSUME NEW r \in Runs, Fail(r) PROVE IInv'
    BY <1>0, <1>9 DEF Fail
  <1>10. ASSUME NEW r \in Runs, Kill(r) PROVE IInv'
    BY <1>0, <1>10 DEF Kill
  <1>11. CASE Edit
    BY <1>0, <1>11, EditWhole DEF Edit
  <1>12. CASE UNCHANGED vars
    BY <1>12 DEF vars
  <1> QED
    BY <1>1, <1>2, <1>3, <1>4, <1>5, <1>6, <1>7, <1>8, <1>9, <1>10, <1>11,
       <1>12 DEF Next, Run

\* The invariant holds in every state of every behaviour.
THEOREM RunsCorrect == Spec => []IInv
  BY InitIInv, StepIInv, PTL DEF Spec

\* Every variable of Installer keeps its type, for any set of runs.
THEOREM TypeCorrect == Spec => []TypeOK
  <1>1. IInv => TypeOK
    BY DEF IInv
  <1> QED
    BY <1>1, RunsCorrect, PTL

\* A run that was not killed has removed its temporary file.
THEOREM NoLitterCorrect == Spec => []NoLitter
  <1>1. IInv => NoLitter
    BY DEF IInv
  <1> QED
    BY <1>1, RunsCorrect, PTL

\* The configuration goes from whole to whole, kills included (os.replace).
THEOREM NeverCorruptedCorrect == Spec => NeverCorrupted
  <1> DEFINE Safe == config' # config => config # Broken /\ config' \in Whole
  <1>1. IInv /\ [Next]_vars => [Safe]_vars
    <2> SUFFICES ASSUME IInv, Next PROVE Safe
      BY DEF vars
    <2>1. ASSUME NEW r \in Runs, Replace(r) PROVE Safe
      BY <2>1 DEF Replace, IInv, RunInv, Active
    <2>2. CASE Edit
      BY <2>2, EditWhole DEF Edit, IInv
    <2>3. CASE UNCHANGED config
      BY <2>3
    <2> QED
      BY <2>1, <2>2, <2>3
      DEF Next, Run, Refuse, Read, Preview, StartBackup, FinishBackup,
          MakeTemp, Write, Fail, Kill
  <1> QED
    BY <1>1, RunsCorrect, PTL DEF Spec, NeverCorrupted

-----------------------------------------------------------------------------
(* Runs and changes that take turns. *)

Current == IF config = Missing THEN NoServers ELSE config

\* The run under way is the only one, what it read is still what is there, what
\* it will rename is that with its entry merged, and the backup is made.
TurnInv == \A r \in Runs : pc[r] \in Active =>
    /\ Alone(r)
    /\ read[r] = Current
    /\ pc[r] = "replace" => tmp[r] = Merge(r, read[r])
    /\ pc[r] \in {"mktemp", "write", "replace"} /\ config # Missing => backup = config

SerialInv == mode = "serial" => TurnInv

\* Every step of a behaviour whose runs take turns keeps their invariant.
LEMMA StepSerial == IInv /\ SerialInv /\ [Next]_vars => SerialInv'
  <1> SUFFICES ASSUME IInv, SerialInv, [Next]_vars, mode' = "serial" PROVE TurnInv'
    BY DEF SerialInv
  <1>0. mode = "serial" /\ TurnInv
    BY DEF Next, vars, SerialInv
  <1> USE InstallerAssumption
      DEF IInv, TypeOK, TurnInv, Alone, Current, Over, Active, Go
  <1>1. ASSUME NEW r \in Runs, Refuse(r) PROVE TurnInv'
    BY <1>0, <1>1 DEF Refuse, Merge
  <1>2. ASSUME NEW r \in Runs, Read(r) PROVE TurnInv'
    BY <1>0, <1>2 DEF Read, Merge
  <1>3. ASSUME NEW r \in Runs, Preview(r) PROVE TurnInv'
    BY <1>0, <1>3 DEF Preview, Merge
  <1>4. ASSUME NEW r \in Runs, StartBackup(r) PROVE TurnInv'
    BY <1>0, <1>4 DEF StartBackup, Merge
  <1>5. ASSUME NEW r \in Runs, FinishBackup(r) PROVE TurnInv'
    BY <1>0, <1>5 DEF FinishBackup, Merge
  <1>6. ASSUME NEW r \in Runs, MakeTemp(r) PROVE TurnInv'
    BY <1>0, <1>6 DEF MakeTemp, Merge
  <1>7. ASSUME NEW r \in Runs, Write(r) PROVE TurnInv'
    <2>1. tmp'[r] = Merge(r, read'[r])
      BY <1>7 DEF Write
    <2> QED
      BY <1>0, <1>7, <2>1 DEF Write
  <1>8. ASSUME NEW r \in Runs, Replace(r) PROVE TurnInv'
    BY <1>0, <1>8 DEF Replace, Merge
  <1>9. ASSUME NEW r \in Runs, Fail(r) PROVE TurnInv'
    BY <1>0, <1>9 DEF Fail, Merge
  <1>10. ASSUME NEW r \in Runs, Kill(r) PROVE TurnInv'
    BY <1>0, <1>10 DEF Kill, Merge
  <1>11. CASE Edit
    BY <1>0, <1>11 DEF Edit, Merge
  <1>12. CASE UNCHANGED vars
    BY <1>0, <1>12 DEF vars, Merge
  <1> QED
    BY <1>1, <1>2, <1>3, <1>4, <1>5, <1>6, <1>7, <1>8, <1>9, <1>10, <1>11,
       <1>12 DEF Next, Run

\* The invariant of turns holds in every state of every behaviour.
THEOREM TurnsCorrect == Spec => []SerialInv
  <1>1. Init => SerialInv
    BY DEF Init, SerialInv, TurnInv, Active
  <1> QED
    BY <1>1, RunsCorrect, StepSerial, PTL DEF Spec

\* What a rename changes, when runs and changes take turns.
LEMMA TurnChanges ==
  ASSUME IInv, SerialInv, mode = "serial", Next, edits' = edits, config' # config
  PROVE  \E r \in Runs : /\ config' = Merge(r, Current)
                         /\ config # Broken
                         /\ config # Missing => backup = config
  <1>1. ASSUME NEW r \in Runs, Replace(r)
        PROVE  /\ config' = Merge(r, Current) /\ config # Broken
               /\ config # Missing => backup = config
    BY <1>1 DEF Replace, SerialInv, TurnInv, IInv, RunInv, Active
  <1>2. ~Edit
    BY DEF Edit, IInv, TypeOK
  <1> QED
    BY <1>1, <1>2
    DEF Next, Run, Refuse, Read, Preview, StartBackup, FinishBackup, MakeTemp,
        Write, Fail, Kill

\* A run leaves every other entry as it was (json merge and os.replace).
THEOREM OthersUntouchedCorrect == Spec => OthersUntouched
  <1> DEFINE Safe ==
        mode = "serial" /\ edits' = edits /\ config' # config =>
          \E r \in Runs : \A s \in Servers \ {NameOf[r]} :
              config'[s] = IF config = Missing THEN 0 ELSE config[s]
  <1>1. IInv /\ SerialInv /\ [Next]_vars => [Safe]_vars
    <2> SUFFICES ASSUME IInv, SerialInv, Next, mode = "serial", edits' = edits,
                        config' # config
                 PROVE  \E r \in Runs : \A s \in Servers \ {NameOf[r]} :
                          config'[s] = IF config = Missing THEN 0 ELSE config[s]
      BY DEF vars
    <2>1. PICK r \in Runs : config' = Merge(r, Current)
      BY TurnChanges
    <2>2. Current \in Whole
      <3>1. config # Broken
        BY TurnChanges
      <3>2. NoServers \in Whole
        BY InstallerAssumption DEF NoServers, Whole, Entries
      <3> QED
        BY <3>1, <3>2 DEF Current, IInv, TypeOK, Files
    <2>3. ASSUME NEW s \in Servers \ {NameOf[r]} PROVE config'[s] = Current[s]
      BY <2>1, <2>2 DEF Merge, Whole
    <2>4. ASSUME NEW s \in Servers
          PROVE Current[s] = IF config = Missing THEN 0 ELSE config[s]
      BY DEF Current, NoServers
    <2> QED
      BY <2>3, <2>4
  <1> QED
    BY <1>1, RunsCorrect, TurnsCorrect, PTL DEF Spec, OthersUntouched

\* Before a run replaces the file, the backup holds it (shutil.copy2).
THEOREM BackedUpCorrect == Spec => BackedUp
  <1> DEFINE Safe ==
        mode = "serial" /\ edits' = edits /\ config' # config /\ config # Missing =>
          backup = config
  <1>1. IInv /\ SerialInv /\ [Next]_vars => [Safe]_vars
    BY TurnChanges DEF vars
  <1> QED
    BY <1>1, RunsCorrect, TurnsCorrect, PTL DEF Spec, BackedUp

=============================================================================
