----------------------------- MODULE UploadProofs -----------------------------
(***************************************************************************)
(* For any number of requests, readers, file names and tables: uploads     *)
(* keep out of each other's way.                                           *)
(*                                                                         *)
(* The inductive invariant is about ownership: exclusive creation makes a  *)
(* path belong to the request that created it, so a request that is past   *)
(* creation finds its own bytes there, and has its bytes nowhere else.     *)
(***************************************************************************)
EXTENDS Upload, TLAPS

\* A request is answered exactly when it is at its end.
AnswerInv == \A r \in Requests : answer[r] # Nothing <=> pc[r] = "answered"

\* The bytes of a request are only ever at its own path, and only after it
\* created the file there.
PlaceInv == \A p \in Paths : \A r \in Requests :
    disk[p] # Nothing /\ disk[p].from = r =>
        /\ p = path[r]
        /\ pc[r] \notin {"idle", "create"}
        /\ answer[r] # "rejected"

\* From creation to the answer the file is there; after saving it is whole.
Owner(r) ==
    /\ pc[r] = "save" => /\ disk[path[r]] # Nothing
                         /\ disk[path[r]].from = r
    /\ pc[r] \in {"ingest", "load", "unlink"} =>
           disk[path[r]] = [from |-> r, whole |-> TRUE]
    /\ pc[r] = "load" => got[r] = [from |-> r, whole |-> TRUE]

OwnerInv == \A r \in Requests : Owner(r)

\* Whoever is about to load has read a file.
GotInv == \A r \in Requests \cup Readers : pc[r] = "load" => got[r] # Nothing

IInv == /\ TypeOK /\ AnswerInv /\ PlaceInv /\ OwnerInv /\ GotInv
        /\ UploadKept

-----------------------------------------------------------------------------
\* The invariant holds initially.
LEMMA InitIInv == Init => IInv
  <1> SUFFICES ASSUME Init PROVE IInv
    OBVIOUS
  <1> USE UploadAssumption DEF Init
  <1>1. TypeOK
    <2>1. [from |-> "user", whole |-> TRUE] \in File
      BY DEF File
    <2> QED
      BY <2>1 DEF TypeOK
  <1>2. AnswerInv /\ OwnerInv /\ GotInv
    BY DEF AnswerInv, OwnerInv, Owner, GotInv
  <1>3. PlaceInv
    BY DEF PlaceInv
  <1>4. UploadKept
    BY DEF UploadKept, Answers
  <1> QED
    BY <1>1, <1>2, <1>3, <1>4 DEF IInv

\* A request owns the file at its path from its creation on, unless the file
\* was removed or never completed.
Owns(v) == pc[v] \in {"save", "ingest", "load", "unlink"} \/ answer[v] = "ok"

\* What an owner has sent is a file, and is its own.
LEMMA OwnFile ==
  ASSUME NEW v \in Requests, NEW b \in BOOLEAN
  PROVE  /\ [from |-> v, whole |-> b] \in File
         /\ [from |-> v, whole |-> b] # Nothing
  BY UploadAssumption DEF File

\* An owner's file is there and is its own.
LEMMA OwnerHasFile ==
  ASSUME IInv, NEW v \in Requests, Owns(v)
  PROVE  disk[path[v]] # Nothing /\ disk[path[v]].from = v
  <1>1. CASE pc[v] = "save"
    BY <1>1 DEF IInv, OwnerInv, Owner
  <1>2. CASE pc[v] # "save"
    <2>1. disk[path[v]] = [from |-> v, whole |-> TRUE]
      BY <1>2 DEF IInv, OwnerInv, Owner, UploadKept, Kept, Owns
    <2>2. [from |-> v, whole |-> TRUE] # Nothing
      BY OwnFile
    <2> QED
      BY <2>1, <2>2
  <1> QED
    BY <1>1, <1>2

\* Two owners have two paths.
LEMMA OwnersApart ==
  ASSUME IInv, NEW v \in Requests, NEW w \in Requests, v # w, Owns(v),
         Owns(w) \/ disk[path[w]] = Nothing
  PROVE  path[v] # path[w]
  BY OwnerHasFile

\* The table of a successful upload is taken.
LEMMA Assigned ==
  ASSUME IInv, NEW v \in Requests, answer[v] = "ok"
  PROVE  tables[target[v]] # Nothing
  <1>1. [source |-> path[v], from |-> v, whole |-> TRUE] \in Load
    BY DEF IInv, TypeOK, Load
  <1> QED
    BY <1>1, UploadAssumption DEF IInv, UploadKept, Kept

\* Every step keeps the invariant.
LEMMA StepIInv == IInv /\ [Next]_vars => IInv'
  <1> SUFFICES ASSUME IInv, [Next]_vars PROVE IInv'
    OBVIOUS
  <1> USE UploadAssumption
      DEF IInv, TypeOK, AnswerInv, PlaceInv, OwnerInv, Owner, GotInv, UploadKept,
          Kept, File, Load, Answers
  <1>1. ASSUME NEW r \in Requests, Refuse(r) PROVE IInv'
    BY <1>1 DEF Refuse, Reply, Go, call
  <1>2. ASSUME NEW r \in Requests, Accept(r) PROVE IInv'
    BY <1>2 DEF Accept, Go, call
  <1>3. ASSUME NEW r \in Requests, Create(r) PROVE IInv'
    <2> DEFINE part == [from |-> r, whole |-> FALSE]
    <2>1. /\ pc[r] = "create" /\ disk[path[r]] = Nothing
          /\ pc' = [pc EXCEPT ![r] = "save"]
          /\ disk' = [disk EXCEPT ![path[r]] = part]
          /\ UNCHANGED <<name, target, path, got, answer, tables>>
      BY <1>3 DEF Create, Go, call
    <2>2. part \in File /\ part # Nothing /\ part.from = r
      BY OwnFile
    <2>3. answer[r] = Nothing
      BY <2>1
    <2>4. \A v \in Requests \ {r} : Owns(v) => disk'[path[v]] = disk[path[v]]
      BY <2>1, OwnersApart
    <2> HIDE DEF part
    <2>5. TypeOK' /\ AnswerInv' /\ GotInv'
      BY <2>1, <2>2
    <2>6. PlaceInv'
      BY <2>1, <2>2, <2>3
    <2>7. ~Owns(r)
      BY <2>1, <2>3 DEF Owns
    <2>8. OwnerInv'
      <3> SUFFICES ASSUME NEW v \in Requests PROVE Owner(v)'
        OBVIOUS
      <3>1. CASE v = r
        BY <2>1, <2>2, <3>1
      <3>2. CASE v # r
        BY <2>1, <2>4, <3>2 DEF Owns
      <3> QED
        BY <3>1, <3>2
    <2>9. UploadKept'
      BY <2>1, <2>4, <2>7 DEF Owns
    <2> QED
      BY <2>5, <2>6, <2>8, <2>9
  <1>4. ASSUME NEW r \in Requests, Collide(r) PROVE IInv'
    BY <1>4 DEF Collide, call, Paths
  <1>5. ASSUME NEW r \in Requests, Save(r) PROVE IInv'
    <2> DEFINE done == [from |-> r, whole |-> TRUE]
    <2>1. /\ pc[r] = "save"
          /\ pc' = [pc EXCEPT ![r] = "ingest"]
          /\ disk' = [disk EXCEPT ![path[r]] = done]
          /\ UNCHANGED <<name, target, path, got, answer, tables>>
      BY <1>5 DEF Save, Go, call
    <2>2. Owns(r)
      BY <2>1 DEF Owns
    <2>3. disk[path[r]] \in File /\ disk[path[r]].from = r
      BY <2>2, OwnerHasFile
    <2>4. done \in File /\ done # Nothing /\ done.from = r
      BY OwnFile
    <2>5. \A v \in Requests \ {r} : Owns(v) => disk'[path[v]] = disk[path[v]]
      BY <2>1, <2>2, OwnersApart
    <2>6. disk'[path[r]] = done
      BY <2>1
    <2> HIDE DEF done
    <2>7. disk' \in [Paths -> File \cup {Nothing}]
      <3> HIDE DEF File
      <3> QED
        BY <2>1, <2>4
    <2>8. TypeOK' /\ AnswerInv' /\ GotInv'
      BY <2>1, <2>7
    <2>9. PlaceInv'
      BY <2>1, <2>3, <2>4
    <2>10. OwnerInv'
      <3> SUFFICES ASSUME NEW v \in Requests PROVE Owner(v)'
        OBVIOUS
      <3>1. CASE v = r
        BY <2>1, <2>6, <3>1 DEF done
      <3>2. CASE v # r
        BY <2>1, <2>5, <3>2 DEF Owns
      <3> QED
        BY <3>1, <3>2
    <2>11. UploadKept'
      BY <2>1, <2>5, <2>6 DEF Owns, done
    <2> QED
      BY <2>8, <2>9, <2>10, <2>11
  <1>6. ASSUME NEW r \in Requests, SaveFails(r) PROVE IInv'
    BY <1>6 DEF SaveFails, Reply, Go, call
  <1>7. ASSUME NEW r \in Requests \cup Readers, ReadFile(r) PROVE IInv'
    BY <1>7 DEF ReadFile, Go, call
  <1>8. ASSUME NEW r \in Requests \cup Readers, LoadTable(r) PROVE IInv'
    <2>1. /\ pc[r] = "load" /\ tables[target[r]] = Nothing
          /\ pc' = [pc EXCEPT ![r] = "answered"]
          /\ tables' = [tables EXCEPT ![target[r]] = Loaded(r)]
          /\ IF r \in Requests THEN answer' = [answer EXCEPT ![r] = "ok"]
                               ELSE UNCHANGED answer
          /\ UNCHANGED <<name, target, path, got, disk>>
      BY <1>8 DEF LoadTable, Reply, Go, call
    <2>2. Loaded(r) \in Load
      BY <2>1 DEF Loaded
    <2>3. TypeOK' /\ AnswerInv' /\ PlaceInv' /\ GotInv'
      BY <2>1, <2>2
    <2>4. OwnerInv'
      BY <2>1
    <2>5. ASSUME NEW v \in Requests, answer'[v] = "ok", v # r
          PROVE  Kept(v)'
      <3>1. answer[v] = "ok"
        BY <2>1, <2>5
      <3>2. tables[target[v]] # Nothing
        BY <3>1, Assigned
      <3> QED
        BY <2>1, <3>1, <3>2
    <2>6. ASSUME r \in Requests PROVE Kept(r)'
      <3>1. /\ got[r] = [from |-> r, whole |-> TRUE]
            /\ disk[path[r]] = [from |-> r, whole |-> TRUE]
        BY <2>1, <2>6
      <3>2. Loaded(r) = [source |-> path[r], from |-> r, whole |-> TRUE]
        BY <3>1 DEF Loaded
      <3> QED
        BY <2>1, <3>1, <3>2
    <2>7. UploadKept'
      <3> SUFFICES ASSUME NEW v \in Requests, answer'[v] = "ok"
                   PROVE  Kept(v)'
        BY DEF UploadKept
      <3> QED
        BY <2>5, <2>6
    <2> QED
      BY <2>3, <2>4, <2>7
  <1>9. ASSUME NEW r \in Requests \cup Readers, LoadUnlisted(r) PROVE IInv'
    <2>1. /\ pc[r] = "load" /\ tables[target[r]] = Nothing
          /\ tables' = [tables EXCEPT ![target[r]] = Loaded(r)]
          /\ IF r \in Requests THEN pc' = [pc EXCEPT ![r] = "unlink"]
                               ELSE pc' = [pc EXCEPT ![r] = "answered"]
          /\ UNCHANGED <<name, target, path, got, answer, disk>>
      BY <1>9 DEF LoadUnlisted, Go, call
    <2>2. Loaded(r) \in Load
      BY <2>1 DEF Loaded
    <2>3. TypeOK' /\ AnswerInv' /\ PlaceInv' /\ GotInv'
      BY <2>1, <2>2
    <2>4. OwnerInv'
      <3> SUFFICES ASSUME NEW v \in Requests PROVE Owner(v)'
        OBVIOUS
      <3>1. CASE v = r
        BY <2>1, <3>1
      <3>2. CASE v # r
        BY <2>1, <3>2
      <3> QED
        BY <3>1, <3>2
    <2>5. ASSUME NEW v \in Requests, answer[v] = "ok"
          PROVE  Kept(v)'
      <3>1. tables[target[v]] # Nothing
        BY <2>5, Assigned
      <3> QED
        BY <2>1, <2>5, <3>1
    <2> QED
      BY <2>1, <2>3, <2>4, <2>5
  <1>10. ASSUME NEW r \in Requests \cup Readers, IngestFails(r) PROVE IInv'
    BY <1>10 DEF IngestFails, Go, call
  <1>11. ASSUME NEW r \in Requests, Unlink(r) PROVE IInv'
    <2>1. /\ pc[r] = "unlink"
          /\ pc' = [pc EXCEPT ![r] = "answered"]
          /\ answer' = [answer EXCEPT ![r] = "rejected"]
          /\ disk' = [disk EXCEPT ![path[r]] = Nothing]
          /\ UNCHANGED <<name, target, path, got, tables>>
      BY <1>11 DEF Unlink, Reply, Go, call
    <2>2. Owns(r)
      BY <2>1 DEF Owns
    <2>3. \A v \in Requests \ {r} : Owns(v) => disk'[path[v]] = disk[path[v]]
      BY <2>1, <2>2, OwnersApart
    <2>4. TypeOK' /\ AnswerInv' /\ GotInv' /\ PlaceInv'
      BY <2>1
    <2>5. OwnerInv'
      BY <2>1, <2>3 DEF Owns
    <2>6. UploadKept'
      BY <2>1, <2>3 DEF Owns
    <2> QED
      BY <2>4, <2>5, <2>6
  <1>12. ASSUME NEW r \in Readers, StartReader(r) PROVE IInv'
    BY <1>12 DEF StartReader, Go, call
  <1>13. CASE UNCHANGED vars
    BY <1>13 DEF vars, call
  <1> QED
    BY <1>1, <1>2, <1>3, <1>4, <1>5, <1>6, <1>7, <1>8, <1>9, <1>10, <1>11,
       <1>12, <1>13 DEF Next, Handle, Ingest

\* The invariant holds in every state of every behaviour.
THEOREM UploadsCorrect == Spec => []IInv
  BY InitIInv, StepIInv, PTL DEF Spec

\* Every variable of Upload keeps its type, for any set of requests and names.
THEOREM TypeCorrect == Spec => []TypeOK
  <1>1. IInv => TypeOK
    BY DEF IInv
  <1> QED
    BY <1>1, UploadsCorrect, PTL

\* "Loaded" is only answered for a table that holds the whole upload, whose
\* source file stays in place (upload, _save_unique).
THEOREM UploadKeptCorrect == Spec => []UploadKept
  <1>1. IInv => UploadKept
    BY DEF IInv
  <1> QED
    BY <1>1, UploadsCorrect, PTL

\* A rejected upload has removed its own file, whatever name it had got.
THEOREM RejectedRemovedCorrect == Spec => []RejectedRemoved
  <1>1. IInv => RejectedRemoved
    BY DEF IInv, PlaceInv, RejectedRemoved
  <1> QED
    BY <1>1, UploadsCorrect, PTL

\* No step of any request replaces a file or removes another one's.
THEOREM NeverReplacedCorrect == Spec => NeverReplaced
  <1> DEFINE Safe == \A p \in Paths : disk[p] # Nothing =>
          \/ disk'[p] # Nothing /\ disk'[p].from = disk[p].from
          \/ disk'[p] = Nothing /\ disk[p].from \in Requests
                                /\ pc[disk[p].from] = "unlink"
  <1>1. IInv /\ [Next]_vars => [Safe]_vars
    <2> SUFFICES ASSUME IInv, Next PROVE Safe
      BY DEF vars
    <2> USE DEF IInv, TypeOK
    <2>1. ASSUME NEW r \in Requests, Create(r) PROVE Safe
      BY <2>1 DEF Create
    <2>2. ASSUME NEW r \in Requests, Save(r) PROVE Safe
      <3> DEFINE done == [from |-> r, whole |-> TRUE]
      <3>1. done # Nothing /\ done.from = r
        BY OwnFile
      <3>2. disk[path[r]].from = r /\ disk' = [disk EXCEPT ![path[r]] = done]
        BY <2>2, OwnerHasFile DEF Save, Owns
      <3> HIDE DEF done
      <3> QED
        BY <3>1, <3>2
    <2>3. ASSUME NEW r \in Requests, Unlink(r) PROVE Safe
      <3>1. disk[path[r]].from = r
        BY <2>3, OwnerHasFile DEF Unlink, Owns
      <3> QED
        BY <2>3, <3>1 DEF Unlink
    <2>4. CASE UNCHANGED disk
      BY <2>4
    <2> QED
      BY <2>1, <2>2, <2>3, <2>4
      DEF Next, Handle, Ingest, Refuse, Accept, Collide, SaveFails, ReadFile,
          LoadTable, LoadUnlisted, IngestFails, StartReader
  <1> QED
    BY <1>1, UploadsCorrect, PTL DEF Spec, NeverReplaced

=============================================================================
