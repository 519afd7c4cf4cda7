---------------------------- MODULE ConsolePageProofs ----------------------------
(***************************************************************************)
(* What the page shows, for any tables, any number of requests in flight   *)
(* and any habits of its user: HighlightMatches for all users, and         *)
(* PanelsShowLatest and UploadedIsListed, which are about patient ones.    *)
(***************************************************************************)
EXTENDS ConsolePage, TLAPS

Call == [kind : Kinds, arg : Tables \cup {NoTable},
         state : {"sent", "ok", "refused"}, names : SUBSET Tables]

\* The requests in flight are requests, and an upload that was answered with
\* success is loaded.
CallsInv ==
    /\ InFlight \subseteq Call
    /\ loaded \subseteq Tables
    /\ \A c \in InFlight : c.kind = "upload" =>
          c.arg \in Tables /\ (c.state = "ok" => c.arg \in loaded)

\* A patient user has one request in flight, or a click's two, or the list that
\* follows an upload.
Single ==
    /\ \A c \in InFlight : calls[c] = 1
    /\ \A c, d \in InFlight : (c.kind = "list") = (d.kind = "list") => c = d
    /\ \A c, d \in InFlight : c.kind = "upload" => c = d

PanelsInv ==
    /\ \A c \in InFlight : c.kind = "describe" => c.arg = activeTable
    /\ IF Waiting("describe")
       THEN schema = <<>>
       ELSE schema \in {<<>>, <<Error>>, <<activeTable>>}
    /\ results \in {<<>>, <<Error>>, <<"rows">>}
    /\ Waiting("query") => results = <<>>

\* The table that is said to be loaded is in the list or in the next one.
Listed(name) ==
    /\ name \in list.names \/ Waiting("list")
    /\ \A c \in InFlight : c.kind = "list" /\ c.state = "ok" => name \in c.names

UploadInv == uploadMsg \in Tables => picked = NoTable /\ uploadMsg \in loaded

PatientInv ==
    Patient => Single /\ PanelsInv /\ (uploadMsg \in Tables => Listed(uploadMsg))

IInv == CallsInv /\ HighlightMatches /\ UploadInv /\ PatientInv

-----------------------------------------------------------------------------
(* The requests in flight after a step *)

LEMMA AddDomain ==
    ASSUME NEW B, NEW x
    PROVE  /\ DOMAIN BagAdd(B, x) = DOMAIN B \cup {x}
           /\ x \notin DOMAIN B => BagAdd(B, x)[x] = 1
           /\ \A y \in DOMAIN B \ {x} : BagAdd(B, x)[y] = B[y]
  BY DEF BagAdd

LEMMA RemoveDomain ==
    ASSUME NEW B, NEW x \in DOMAIN B
    PROVE  /\ DOMAIN BagRemove(B, x) \subseteq DOMAIN B
           /\ DOMAIN B \ {x} \subseteq DOMAIN BagRemove(B, x)
           /\ B[x] = 1 => x \notin DOMAIN BagRemove(B, x)
           /\ \A y \in DOMAIN B \ {x} : BagRemove(B, x)[y] = B[y]
  BY DEF BagRemove

\* A request is handled.
LEMMA DoneCalls ==
    ASSUME NEW c \in InFlight, Done(c)
    PROVE  /\ InFlight' \subseteq InFlight
           /\ InFlight \ {c} \subseteq InFlight'
           /\ Single => Single' /\ InFlight' = InFlight \ {c}
<1>1. /\ InFlight' \subseteq InFlight
      /\ InFlight \ {c} \subseteq InFlight'
      /\ calls[c] = 1 => c \notin InFlight'
      /\ \A e \in InFlight \ {c} : calls'[e] = calls[e]
  BY RemoveDomain DEF Done, InFlight
<1>2. ASSUME Single PROVE Single' /\ InFlight' = InFlight \ {c}
  <2>1. InFlight' = InFlight \ {c}
    BY <1>1, <1>2 DEF Single
  <2> QED
    BY <1>1, <1>2, <2>1 DEF Single
<1> QED
  BY <1>1, <1>2

\* A request is answered.
LEMMA AnswerCalls ==
    ASSUME CallsInv, NEW c \in InFlight, NEW state \in {"ok", "refused"},
           NEW names \in SUBSET Tables, Answer(c, state, names)
    PROVE  \E d \in Call :
             /\ d.kind = c.kind /\ d.arg = c.arg
             /\ d.state = state /\ d.names = names
             /\ InFlight' \subseteq InFlight \cup {d}
             /\ (InFlight \ {c}) \cup {d} \subseteq InFlight'
             /\ Single => Single' /\ InFlight' = (InFlight \ {c}) \cup {d}
<1> DEFINE d == [c EXCEPT !.state = state, !.names = names]
           rest == BagRemove(calls, c)
<1>1. /\ d \in Call
      /\ d.kind = c.kind /\ d.arg = c.arg
      /\ d.state = state /\ d.names = names
  BY DEF CallsInv, Call
<1>2. /\ DOMAIN rest \subseteq InFlight
      /\ InFlight \ {c} \subseteq DOMAIN rest
      /\ calls[c] = 1 => c \notin DOMAIN rest
      /\ \A e \in InFlight \ {c} : rest[e] = calls[e]
  BY RemoveDomain DEF InFlight
<1> HIDE DEF d, rest
<1>3. calls' = BagAdd(rest, d)
  BY DEF Answer, d, rest
<1>4. /\ InFlight' = DOMAIN rest \cup {d}
      /\ d \notin DOMAIN rest => calls'[d] = 1
      /\ \A e \in DOMAIN rest \ {d} : calls'[e] = rest[e]
  BY <1>3, AddDomain DEF InFlight
<1>5. ASSUME Single PROVE Single' /\ InFlight' = (InFlight \ {c}) \cup {d}
  <2>1. DOMAIN rest = InFlight \ {c}
    BY <1>2, <1>5 DEF Single
  <2>2. d \notin DOMAIN rest
    BY <2>1, <1>1, <1>5 DEF Single
  <2>3. \A e \in InFlight' : calls'[e] = 1
    BY <1>2, <1>4, <1>5, <2>1, <2>2 DEF Single
  <2> QED
    BY <2>1, <2>3, <1>1, <1>4, <1>5 DEF Single
<1> QED
  BY <1>1, <1>2, <1>4, <1>5

LEMMA RequestCall ==
    ASSUME NEW kind \in Kinds, NEW arg \in Tables \cup {NoTable}
    PROVE  /\ Request(kind, arg) \in Call
           /\ Request(kind, arg).kind = kind
           /\ Request(kind, arg).arg = arg
           /\ Request(kind, arg).state = "sent"
  BY DEF Request, Call

\* A request is sent, by a user who may.
LEMMA SendCalls ==
    ASSUME NEW r, Send(r)
    PROVE  /\ InFlight' = InFlight \cup {r}
           /\ hasty = {} => InFlight = {} /\ calls'[r] = 1
  BY AddDomain DEF Send, Ready, Quiet, InFlight

-----------------------------------------------------------------------------
(* The parts of the invariant *)

LEMMA InitIInv == Init => IInv
<1> SUFFICES ASSUME Init PROVE IInv
  OBVIOUS
<1>1. InFlight = {ListRequest} /\ \A c \in InFlight : calls[c] = 1
  <2>1. DOMAIN EmptyBag = {}
    BY DEF EmptyBag, SetToBag
  <2>2. calls = BagAdd(EmptyBag, ListRequest)
    BY DEF Init
  <2>3. /\ DOMAIN BagAdd(EmptyBag, ListRequest) = DOMAIN EmptyBag \cup {ListRequest}
        /\ ListRequest \notin DOMAIN EmptyBag =>
              BagAdd(EmptyBag, ListRequest)[ListRequest] = 1
    BY AddDomain
  <2>4. /\ DOMAIN calls = {ListRequest}
        /\ calls[ListRequest] = 1
    BY <2>1, <2>2, <2>3
  <2> QED BY <2>4 DEF InFlight
<1>2. ListRequest \in Call /\ ListRequest.kind = "list" /\ ListRequest.state = "sent"
  BY RequestCall DEF ListRequest, Kinds
<1>3. CallsInv /\ HighlightMatches
  BY <1>1, <1>2 DEF Init, CallsInv, HighlightMatches, Waiting
<1>4. UploadInv
  BY PageAssumption DEF Init, UploadInv
<1>5. Single
  BY <1>1, <1>2 DEF Single
<1>6. PanelsInv
  BY <1>1, <1>2 DEF Init, PanelsInv, Waiting
<1>7. uploadMsg \notin Tables
  BY PageAssumption DEF Init
<1> QED
  BY <1>3, <1>4, <1>5, <1>6, <1>7 DEF IInv, PatientInv

\* What the user does.
LEMMA UserStep ==
    ASSUME IInv, User, UNCHANGED hasty
    PROVE  IInv'
<1> USE DEF IInv
<1>1. CASE Refresh
  <2> DEFINE r == ListRequest
  <2>1. r \in Call /\ r.kind = "list" /\ r.state = "sent"
    BY RequestCall DEF ListRequest, Kinds
  <2> HIDE DEF r
  <2>2. /\ InFlight' = InFlight \cup {r}
        /\ Patient => InFlight = {} /\ calls'[r] = 1
    BY <1>1, SendCalls DEF Refresh, r, Patient
  <2>3. UNCHANGED <<loaded, activeTable, list, schema, picked, uploadMsg,
                    results, listLost, Patient>>
    BY <1>1 DEF Refresh, drawn, upload, Patient
  <2>4. CallsInv' /\ HighlightMatches' /\ UploadInv'
    BY <2>1, <2>2, <2>3 DEF CallsInv, HighlightMatches, UploadInv, Waiting
  <2>5. PatientInv'
    BY <2>1, <2>2, <2>3
    DEF PatientInv, Single, PanelsInv, Listed, Waiting
  <2> QED BY <2>4, <2>5
<1>2. CASE RunQuery
  <2> DEFINE r == Request("query", NoTable)
  <2>1. r \in Call /\ r.kind = "query" /\ r.state = "sent"
    BY RequestCall DEF Kinds
  <2> HIDE DEF r
  <2>2. /\ InFlight' = InFlight \cup {r}
        /\ Patient => InFlight = {} /\ calls'[r] = 1
    BY <1>2, SendCalls DEF RunQuery, r, Patient
  <2>3. /\ UNCHANGED <<loaded, activeTable, list, schema, picked, uploadMsg,
                       listLost, Patient>>
        /\ results' = <<>>
    BY <1>2 DEF RunQuery, upload, Patient
  <2>4. CallsInv' /\ HighlightMatches' /\ UploadInv'
    BY <2>1, <2>2, <2>3 DEF CallsInv, HighlightMatches, UploadInv, Waiting
  <2>5. PatientInv'
    BY <2>1, <2>2, <2>3
    DEF PatientInv, Single, PanelsInv, Listed, Waiting
  <2> QED BY <2>4, <2>5
<1>3. ASSUME NEW name \in Tables, Drop(name) \/ Pick(name) PROVE IInv'
  <2> DEFINE r == Request("upload", name)
  <2>1. r \in Call /\ r.kind = "upload" /\ r.state = "sent" /\ r.arg = name
    BY RequestCall DEF Kinds
  <2> HIDE DEF r
  <2>2. /\ InFlight' = InFlight \cup {r}
        /\ Patient => InFlight = {} /\ calls'[r] = 1
    BY <1>3, SendCalls DEF Drop, Pick, UploadFile, r, Patient
  <2>3. /\ UNCHANGED <<loaded, activeTable, list, schema, results, listLost,
                       Patient>>
        /\ uploadMsg' \notin Tables
    BY <1>3, PageAssumption DEF Drop, Pick, UploadFile, Patient
  <2>4. CallsInv' /\ HighlightMatches' /\ UploadInv'
    BY <2>1, <2>2, <2>3 DEF CallsInv, HighlightMatches, UploadInv, Waiting
  <2>5. PatientInv'
    BY <2>1, <2>2, <2>3
    DEF PatientInv, Single, PanelsInv, Listed, Waiting
  <2> QED BY <2>4, <2>5
<1>4. ASSUME NEW name \in Tables, Describe(name) PROVE IInv'
  <2> DEFINE r == ListRequest
             d == Request("describe", name)
  <2>1. /\ r \in Call /\ r.kind = "list" /\ r.state = "sent"
        /\ d \in Call /\ d.kind = "describe" /\ d.state = "sent" /\ d.arg = name
    BY RequestCall DEF ListRequest, Kinds
  <2> HIDE DEF r, d
  <2>2. r # d
    BY <2>1
  <2>3. /\ InFlight' = InFlight \cup {r, d}
        /\ Patient => InFlight = {} /\ calls'[r] = 1 /\ calls'[d] = 1
    <3> DEFINE B == BagAdd(calls, r)
    <3>1. /\ DOMAIN B = InFlight \cup {r}
          /\ r \notin InFlight => B[r] = 1
      BY AddDomain DEF InFlight
    <3> HIDE DEF B
    <3>2. calls' = BagAdd(B, d)
      BY <1>4 DEF Describe, B, r, d
    <3>3. /\ InFlight' = InFlight \cup {r, d}
          /\ r # d => calls'[r] = B[r]
          /\ d \notin DOMAIN B => calls'[d] = 1
      <4>1. /\ DOMAIN BagAdd(B, d) = DOMAIN B \cup {d}
            /\ d \notin DOMAIN B => BagAdd(B, d)[d] = 1
            /\ \A y \in DOMAIN B \ {d} : BagAdd(B, d)[y] = B[y]
        BY AddDomain
      <4> QED BY <3>1, <3>2, <4>1 DEF InFlight
    <3>4. Patient => InFlight = {}
      BY <1>4 DEF Describe, Ready, Patient, Quiet
    <3> QED BY <2>2, <3>1, <3>3, <3>4
  <2>4. /\ UNCHANGED <<loaded, list, picked, uploadMsg, results, listLost,
                       Patient>>
        /\ schema' = <<>> /\ activeTable' = name
    BY <1>4 DEF Describe, upload, Patient
  <2>5. CallsInv' /\ HighlightMatches' /\ UploadInv'
    BY <2>1, <2>3, <2>4 DEF CallsInv, HighlightMatches, UploadInv, Waiting
  <2>6. ASSUME Patient' PROVE Single' /\ PanelsInv'
    <3>1. InFlight' = {r, d} /\ calls'[r] = 1 /\ calls'[d] = 1
      BY <2>3, <2>4, <2>6
    <3>2. Single'
      BY <2>1, <3>1 DEF Single
    <3>3. results \in {<<>>, <<Error>>, <<"rows">>}
      BY <2>4, <2>6 DEF PatientInv, PanelsInv
    <3>4. Waiting("describe")' /\ ~Waiting("query")'
      BY <2>1, <3>1 DEF Waiting
    <3> QED
      BY <2>1, <2>4, <3>1, <3>2, <3>3, <3>4 DEF PanelsInv
  <2>7. ASSUME Patient', uploadMsg' \in Tables PROVE Listed(uploadMsg)'
    BY <2>1, <2>3, <2>4, <2>7 DEF PatientInv, Listed, Waiting
  <2> QED BY <2>5, <2>6, <2>7 DEF PatientInv
<1> QED
  BY <1>1, <1>2, <1>3, <1>4 DEF User

\* What the server does.
LEMMA NetworkStep ==
    ASSUME IInv, NEW c \in InFlight, Network(c), UNCHANGED hasty
    PROVE  IInv'
<1> USE DEF IInv
<1>1. PICK state \in {"ok", "refused"}, names \in SUBSET Tables :
          /\ Answer(c, state, names)
          /\ c.kind = "list" /\ state = "ok" => names = loaded
          /\ loaded \subseteq loaded' /\ loaded' \subseteq Tables
          /\ c.kind = "upload" /\ state = "ok" => c.arg \in loaded'
          /\ UNCHANGED <<activeTable, drawn>>
  <2>1. CASE ServeUpload(c)
    <3>1. c.kind = "upload" /\ loaded' = loaded \cup {c.arg} /\ Answer(c, "ok", {})
      BY <2>1 DEF ServeUpload
    <3> QED
      BY <2>1, <3>1 DEF ServeUpload, CallsInv
  <2>2. CASE ServeRead(c)
    BY <2>2 DEF ServeRead, CallsInv
  <2>3. CASE RefuseCall(c)
    BY <2>3 DEF RefuseCall, CallsInv
  <2> QED BY <2>1, <2>2, <2>3 DEF Network
<1>2. PICK d \in Call :
          /\ d.kind = c.kind /\ d.arg = c.arg
          /\ d.state = state /\ d.names = names
          /\ InFlight' \subseteq InFlight \cup {d}
          /\ (InFlight \ {c}) \cup {d} \subseteq InFlight'
          /\ Single => Single' /\ InFlight' = (InFlight \ {c}) \cup {d}
  BY <1>1, AnswerCalls
<1>3. UNCHANGED <<activeTable, list, schema, picked, uploadMsg, results,
                  listLost, Patient>>
  BY <1>1 DEF drawn, upload, Patient
<1>4. \A kind : Waiting(kind) => Waiting(kind)'
  BY <1>2 DEF Waiting
<1>5. CallsInv' /\ UploadInv'
  BY <1>1, <1>2, <1>3 DEF CallsInv, UploadInv
<1>6. HighlightMatches'
  BY <1>3, <1>4 DEF HighlightMatches
<1>7. \A kind : Waiting(kind)' => Waiting(kind)
  BY <1>2 DEF Waiting
<1>8. ASSUME Patient' PROVE Single' /\ PanelsInv'
  BY <1>2, <1>3, <1>4, <1>7, <1>8 DEF PatientInv, PanelsInv
<1>9. ASSUME Patient', uploadMsg' \in Tables PROVE Listed(uploadMsg)'
  BY <1>1, <1>2, <1>3, <1>4, <1>9 DEF PatientInv, Listed, UploadInv
<1> QED BY <1>5, <1>6, <1>8, <1>9 DEF PatientInv

\* What the page does with an answer, other than to ask for the list again.
LEMMA DrawStep ==
    ASSUME IInv, NEW c \in InFlight, UNCHANGED hasty,
           \/ DrawList(c) \/ ClearList(c) \/ DrawSchema(c) \/ DrawResult(c)
           \/ ShowError(c)
    PROVE  IInv'
<1> USE DEF IInv
<1>1. /\ InFlight' \subseteq InFlight
      /\ InFlight \ {c} \subseteq InFlight'
      /\ Single => Single' /\ InFlight' = InFlight \ {c}
  <2>1. Done(c)
    BY DEF DrawList, ClearList, DrawSchema, DrawResult, ShowError
  <2> QED BY <2>1, DoneCalls
<1>2. UNCHANGED <<loaded, activeTable, picked, Patient>>
  BY DEF DrawList, ClearList, DrawSchema, DrawResult, ShowError, upload, Patient
<1>3. uploadMsg' = uploadMsg \/ uploadMsg' \notin Tables
  BY PageAssumption
  DEF DrawList, ClearList, DrawSchema, DrawResult, ShowError, upload
<1>4. CallsInv' /\ UploadInv'
  BY <1>1, <1>2, <1>3 DEF CallsInv, UploadInv
<1>5. \A kind : kind # c.kind /\ Waiting(kind) => Waiting(kind)'
  BY <1>1 DEF Waiting
<1>6. \A kind : Waiting(kind)' => Waiting(kind)
  BY <1>1 DEF Waiting
<1>7. HighlightMatches'
  <2>1. CASE DrawList(c) \/ ClearList(c)
    BY <2>1, <1>2 DEF DrawList, ClearList, HighlightMatches
  <2>2. CASE DrawSchema(c) \/ DrawResult(c) \/ ShowError(c)
    BY <2>2, <1>2, <1>5 DEF DrawSchema, DrawResult, ShowError, HighlightMatches
  <2> QED BY <2>1, <2>2
<1>8. ASSUME Patient' PROVE Single' /\ PanelsInv'
  <2>1. Single /\ PanelsInv /\ Single' /\ InFlight' = InFlight \ {c}
    BY <1>1, <1>2, <1>8 DEF PatientInv
  <2>2. c.kind \in {"describe", "query"} => ~Waiting(c.kind)'
    BY <2>1 DEF Waiting, Single
  <2>3. \A kind : kind # c.kind => (Waiting(kind)' <=> Waiting(kind))
    BY <1>5, <1>6
  <2>4. CASE DrawList(c) \/ ClearList(c)
    BY <2>1, <2>3, <2>4, <1>2 DEF DrawList, ClearList, PanelsInv
  <2>5. CASE DrawSchema(c)
    <3>1. schema = <<>> /\ c.arg = activeTable
      BY <2>1, <2>5 DEF DrawSchema, PanelsInv, Waiting
    <3>2. schema' = <<activeTable>>
      BY <3>1, <2>5 DEF DrawSchema
    <3> QED
      BY <2>1, <2>2, <2>3, <2>5, <3>2, <1>2 DEF DrawSchema, PanelsInv
  <2>6. CASE DrawResult(c)
    <3>1. results = <<>>
      BY <2>1, <2>6 DEF DrawResult, PanelsInv, Waiting
    <3>2. results' = <<"rows">>
      BY <3>1, <2>6 DEF DrawResult
    <3> QED
      BY <2>1, <2>2, <2>3, <2>6, <3>2, <1>2 DEF DrawResult, PanelsInv
  <2>7. CASE ShowError(c)
    BY <2>1, <2>2, <2>3, <2>7, <1>2 DEF ShowError, PanelsInv
  <2> QED BY <2>1, <2>4, <2>5, <2>6, <2>7
<1>9. ASSUME Patient', uploadMsg' \in Tables PROVE Listed(uploadMsg)'
  <2>1. uploadMsg' = uploadMsg /\ Listed(uploadMsg)
    BY <1>2, <1>3, <1>9 DEF PatientInv
  <2>2. CASE DrawList(c)
    BY <2>1, <2>2, <1>1 DEF DrawList, Listed
  <2>3. CASE ClearList(c)
    BY <2>3, <1>9, PageAssumption DEF ClearList
  <2>4. CASE DrawSchema(c) \/ DrawResult(c)
    BY <2>1, <2>4, <1>1, <1>5 DEF DrawSchema, DrawResult, Listed
  <2>5. CASE ShowError(c)
    <3>1. c.kind # "list"
      BY <2>5, <1>9, PageAssumption DEF ShowError
    <3> QED BY <2>1, <2>5, <3>1, <1>1, <1>5 DEF ShowError, Listed
  <2> QED BY <2>2, <2>3, <2>4, <2>5
<1> QED BY <1>4, <1>7, <1>8, <1>9 DEF PatientInv

\* The list is asked for after an upload.
LEMMA UploadedStep ==
    ASSUME IInv, NEW c \in InFlight, Uploaded(c), UNCHANGED hasty
    PROVE  IInv'
<1> USE DEF IInv
<1> DEFINE r == ListRequest
           rest == BagRemove(calls, c)
<1>1. r \in Call /\ r.kind = "list" /\ r.state = "sent"
  BY RequestCall DEF ListRequest, Kinds
<1>2. /\ DOMAIN rest \subseteq InFlight
      /\ InFlight \ {c} \subseteq DOMAIN rest
      /\ calls[c] = 1 => c \notin DOMAIN rest
  BY RemoveDomain DEF InFlight
<1> HIDE DEF r, rest
<1>3. calls' = BagAdd(rest, r)
  BY DEF Uploaded, r, rest
<1>4. InFlight' = DOMAIN rest \cup {r} /\ (r \notin DOMAIN rest => calls'[r] = 1)
  BY <1>3, AddDomain DEF InFlight
<1>5. /\ UNCHANGED <<loaded, activeTable, list, schema, results, listLost,
                     Patient>>
      /\ uploadMsg' = c.arg /\ picked' = NoTable
      /\ c.kind = "upload" /\ c.arg \in loaded
  BY DEF Uploaded, CallsInv, Patient
<1>6. CallsInv' /\ UploadInv' /\ HighlightMatches'
  BY <1>1, <1>2, <1>4, <1>5
  DEF CallsInv, UploadInv, HighlightMatches, Waiting
<1>7. ASSUME Patient' PROVE InFlight' = {r} /\ Single'
  <2>1. InFlight = {c} /\ calls[c] = 1
    BY <1>5, <1>7 DEF PatientInv, Single
  <2>2. DOMAIN rest = {}
    BY <1>2, <2>1
  <2>3. InFlight' = {r} /\ calls'[r] = 1
    BY <1>4, <2>2
  <2> QED BY <1>1, <2>3 DEF Single
<1>8. ASSUME Patient' PROVE PanelsInv' /\ Listed(uploadMsg)'
  <2>1. ~Waiting("describe")
    BY <1>5, <1>8 DEF PatientInv, Single, Waiting
  <2> QED
    BY <1>1, <1>5, <1>7, <1>8, <2>1 DEF PatientInv, PanelsInv, Listed, Waiting
<1> QED BY <1>6, <1>7, <1>8 DEF PatientInv

LEMMA StepIInv == IInv /\ [Next]_vars => IInv'
<1> SUFFICES ASSUME IInv, [Next]_vars PROVE IInv'
  OBVIOUS
<1>1. CASE User /\ UNCHANGED hasty
  BY <1>1, UserStep
<1>2. ASSUME NEW c \in InFlight, Network(c), UNCHANGED hasty PROVE IInv'
  BY <1>2, NetworkStep
<1>3. ASSUME NEW c \in InFlight, Page(c), UNCHANGED hasty PROVE IInv'
  BY <1>3, DrawStep, UploadedStep DEF Page
<1>4. ASSUME NEW name \in Tables, OtherLoads(name), UNCHANGED hasty PROVE IInv'
  BY <1>4
  DEF OtherLoads, drawn, upload, IInv, CallsInv, HighlightMatches, UploadInv,
      PatientInv, Single, PanelsInv, Listed, Waiting, InFlight, Patient
<1>5. CASE UNCHANGED vars
  BY <1>5
  DEF vars, drawn, upload, IInv, CallsInv, HighlightMatches, UploadInv,
      PatientInv, Single, PanelsInv, Listed, Waiting, InFlight, Patient
<1> QED
  BY <1>1, <1>2, <1>3, <1>4, <1>5 DEF Next

-----------------------------------------------------------------------------

THEOREM PageCorrect == Spec => []IInv
  BY InitIInv, StepIInv, PTL DEF Spec

\* The active entry of the list is that of the chosen table, whatever order the
\* answers arrive in, for any number of tables and requests.
THEOREM HighlightMatchesCorrect == Spec => []HighlightMatches
<1>1. IInv => HighlightMatches
  BY DEF IInv
<1> QED BY <1>1, PageCorrect, PTL

\* A user who waits for answers sees one dataset and one result, those asked
\* for last (describe, runQuery).
THEOREM PanelsShowLatestCorrect == Spec => []PanelsShowLatest
<1>1. IInv => PanelsShowLatest
  BY DEF IInv, PatientInv, PanelsInv, PanelsShowLatest
<1> QED BY <1>1, PageCorrect, PTL

\* "Loaded" empties the file input and, for a user who waits for answers, leads
\* to a list with the table (uploadFile).
THEOREM UploadedIsListedCorrect == Spec => []UploadedIsListed
<1>1. IInv => UploadedIsListed
  BY DEF IInv, UploadInv, PatientInv, Listed, Waiting, Quiet, UploadedIsListed
<1> QED BY <1>1, PageCorrect, PTL

-----------------------------------------------------------------------------
(* Uploads *)

\* "Uploading" is shown only while an upload is under way: no answer, lost or
\* late, of this or another request ends the last upload and leaves it there.
UploadingIsUnderWay == uploadMsg = "uploading" => Waiting("upload")

\* A request other than an upload leaves the message, or puts an error there;
\* an upload that ends puts its table or an error there.
LEMMA PageUploading ==
    ASSUME CallsInv, UploadingIsUnderWay, NEW c \in InFlight, Page(c)
    PROVE  UploadingIsUnderWay'
<1>1. /\ InFlight \ {c} \subseteq InFlight'
      /\ uploadMsg' = "uploading" => uploadMsg = "uploading" /\ c.kind # "upload"
  <2>1. CASE Uploaded(c)
    <3> DEFINE rest == BagRemove(calls, c)
    <3>1. InFlight \ {c} \subseteq DOMAIN rest
      BY RemoveDomain DEF InFlight
    <3> HIDE DEF rest
    <3>2. calls' = BagAdd(rest, ListRequest)
      BY <2>1 DEF Uploaded, rest
    <3>3. InFlight \ {c} \subseteq InFlight'
      BY <3>1, <3>2, AddDomain DEF InFlight
    <3>4. uploadMsg' # "uploading"
      BY <2>1, PageAssumption DEF Uploaded, CallsInv
    <3> QED
      BY <3>3, <3>4
  <2>2. CASE DrawList(c) \/ ClearList(c) \/ DrawSchema(c) \/ DrawResult(c)
             \/ ShowError(c)
    <3>1. Done(c)
      BY <2>2 DEF DrawList, ClearList, DrawSchema, DrawResult, ShowError
    <3>2. uploadMsg' = "uploading" => uploadMsg = "uploading" /\ c.kind # "upload"
      BY <2>2
      DEF DrawList, ClearList, DrawSchema, DrawResult, ShowError, upload, Error
    <3> QED
      BY <3>1, <3>2, DoneCalls
  <2> QED
    BY <2>1, <2>2 DEF Page
<1> QED
  BY <1>1 DEF UploadingIsUnderWay, Waiting

\* "Uploading" stands only over an upload that is under way, for any number of
\* uploads and other requests that end in any order.
THEOREM UploadingCorrect == Spec => []UploadingIsUnderWay
<1>1. Init => UploadingIsUnderWay
  BY DEF Init, UploadingIsUnderWay
<1>2. IInv /\ UploadingIsUnderWay /\ [Next]_vars => UploadingIsUnderWay'
  <2> SUFFICES ASSUME IInv, UploadingIsUnderWay, [Next]_vars
               PROVE  UploadingIsUnderWay'
    OBVIOUS
  <2>1. ASSUME NEW c \in InFlight, Network(c) PROVE UploadingIsUnderWay'
    <3>1. uploadMsg' = uploadMsg
      BY <2>1 DEF Network, ServeUpload, ServeRead, RefuseCall, drawn, upload
    <3>2. loaded \subseteq Tables /\ CallsInv
      BY DEF IInv, CallsInv
    <3>3. PICK state \in {"ok", "refused"}, names \in SUBSET Tables :
              Answer(c, state, names)
      BY <2>1, <3>2 DEF Network, ServeUpload, ServeRead, RefuseCall
    <3>4. PICK d \in Call : /\ d.kind = c.kind
                            /\ (InFlight \ {c}) \cup {d} \subseteq InFlight'
      BY <3>2, <3>3, AnswerCalls
    <3> QED
      BY <3>1, <3>4 DEF UploadingIsUnderWay, Waiting
  <2>2. ASSUME NEW name \in Tables, Drop(name) \/ Pick(name)
        PROVE  UploadingIsUnderWay'
    <3> DEFINE r == Request("upload", name)
    <3>1. r.kind = "upload"
      BY RequestCall DEF Kinds
    <3> HIDE DEF r
    <3>2. InFlight' = InFlight \cup {r}
      BY <2>2, SendCalls DEF Drop, Pick, UploadFile, r
    <3> QED
      BY <3>1, <3>2 DEF UploadingIsUnderWay, Waiting
  <2>3. CASE Refresh \/ RunQuery
    <3>1. uploadMsg' = uploadMsg
      BY <2>3 DEF Refresh, RunQuery, drawn, upload
    <3>2. InFlight \subseteq InFlight'
      BY <2>3, SendCalls DEF Refresh, RunQuery
    <3> QED
      BY <3>1, <3>2 DEF UploadingIsUnderWay, Waiting
  <2>4. ASSUME NEW name \in Tables, Describe(name) PROVE UploadingIsUnderWay'
    <3> DEFINE B == BagAdd(calls, ListRequest)
               d == Request("describe", name)
    <3>1. InFlight \subseteq DOMAIN B
      BY AddDomain DEF InFlight
    <3> HIDE DEF B, d
    <3>2. calls' = BagAdd(B, d) /\ uploadMsg' = uploadMsg
      BY <2>4 DEF Describe, upload, B, d
    <3>3. InFlight \subseteq InFlight'
      BY <3>1, <3>2, AddDomain DEF InFlight
    <3> QED
      BY <3>2, <3>3 DEF UploadingIsUnderWay, Waiting
  <2>5. ASSUME NEW name \in Tables, OtherLoads(name) PROVE UploadingIsUnderWay'
    BY <2>5 DEF OtherLoads, drawn, upload, UploadingIsUnderWay, Waiting, InFlight
  <2>6. CASE UNCHANGED vars
    BY <2>6 DEF vars, drawn, upload, UploadingIsUnderWay, Waiting, InFlight
  <2> QED
    BY <2>1, <2>2, <2>3, <2>4, <2>5, <2>6, PageUploading
    DEF Next, User, IInv
<1> QED BY <1>1, <1>2, PageCorrect, PTL DEF Spec

=============================================================================
