--------------------------- MODULE ToolCallsProofs ---------------------------
(***************************************************************************)
(* For every number of calls, every directory tree and every environment:  *)
(* only allowed files are loaded, and every call keeps its contract.       *)
(*                                                                         *)
(* That no allowed file is the store follows from two checks made at       *)
(* different times, so the invariant carries the first from the start of a *)
(* program to each of its calls.  The contract follows from where a call   *)
(* is when it takes effect: past everything that may raise outside the     *)
(* registry, and with a result that has a JSON form.                       *)
(***************************************************************************)
EXTENDS ToolCalls, TLAPS

\* A program serves, and a call is under way, only in a checked environment.
ServedInv ==
    /\ \A p \in Programs : server[p] = "up" => ConfigAccepts(env)
    /\ \A c \in Calls : pc[c] # "sent" => ConfigAccepts(env)

\* What SourcesAllowed says of a place.
Good(p) == /\ p # StorePlace(env)
           /\ p = Leads[p]
           /\ \E d \in Allowed(env) : Inside(p, d)

SourceInv ==
    /\ \A c \in Calls : source[c] # NoPlace => Good(source[c])
    /\ \A t \in Tables : tables[t] # NoPlace => Good(tables[t])

Asking == {"wantquery", "validate", "authorize", "run"}

\* When calls take effect and when they end.
EffectInv == \A c \in Calls :
    /\ c \in effects => Changes(req[c]) /\ pc[c] \in {"encode", "gone"}
    /\ result[c] = "ok" /\ Changes(req[c]) => c \in effects
    /\ status[c] # "open" => pc[c] = "gone"
    /\ pc[c] \in Asking => req[c].tool = "query"

IInv == TypeOK /\ ServedInv /\ SourceInv /\ EffectInv

-----------------------------------------------------------------------------
\* The invariant holds initially.
LEMMA InitIInv == Init => IInv
  BY CallsAssumption
  DEF Init, IInv, TypeOK, ServedInv, SourceInv, EffectInv, Asking, Programs,
      Stages

\* A place that PathValidator returns is allowed and is not the store.
LEMMA CandidateGood ==
  ASSUME TypeOK, ConfigAccepts(env), NEW path \in Places,
         PathAccepted(env, path, files)
  PROVE  Good(Candidate(path)) /\ Candidate(path) \in Places
  BY PlacesAssumption
  DEF TypeOK, ConfigAccepts, PathAccepted, Good, Candidate, Resolve, Inside

\* A step that leaves the environment alone keeps good places good.
LEMMA GoodKept ==
  ASSUME UNCHANGED env, NEW p PROVE Good(p)' <=> Good(p)
  BY DEF Good, StorePlace, Allowed, Resolve, Inside

\* Every step keeps every variable's type.
LEMMA StepType == TypeOK /\ [Next]_vars => TypeOK'
  <1> SUFFICES ASSUME TypeOK, [Next]_vars PROVE TypeOK'
    OBVIOUS
  <1> USE CallsAssumption
      DEF TypeOK, outside, data, Go, Return, End, LeaveWrite, LeaveQuery,
          InWrite, Stages
  <1>1. ASSUME NEW p \in Programs, Start(p) PROVE TypeOK'
    BY <1>1 DEF Start
  <1>2. ASSUME NEW c \in Calls, TakeMCP(c) PROVE TypeOK'
    BY <1>2 DEF TakeMCP
  <1>3. ASSUME NEW c \in Calls, TakeConsole(c) PROVE TypeOK'
    BY <1>3 DEF TakeConsole
  <1>4. ASSUME NEW c \in Calls, TakeFails(c) PROVE TypeOK'
    BY <1>4 DEF TakeFails
  <1>5. ASSUME NEW c \in Calls, Dispatch(c) PROVE TypeOK'
    BY <1>5 DEF Dispatch
  <1>6. ASSUME NEW c \in Calls, CheckPath(c) PROVE TypeOK'
    <2>1. Candidate(req[c].path) \in Places
      BY PlacesAssumption DEF Candidate, Resolve
    <2>2. CASE PathAccepted(env, req[c].path, files)
      <3>1. /\ pc' = [pc EXCEPT ![c] = "wantwrite"]
            /\ source' = [source EXCEPT ![c] = Candidate(req[c].path)]
            /\ UNCHANGED result
        BY <1>6, <2>2 DEF CheckPath
      <3> QED
        BY <1>6, <2>1, <3>1 DEF CheckPath
    <2>3. CASE ~PathAccepted(env, req[c].path, files)
      BY <1>6, <2>3 DEF CheckPath
    <2> QED
      BY <2>2, <2>3
  <1>7. ASSUME NEW c \in Calls, EnterWrite(c) PROVE TypeOK'
    BY <1>7 DEF EnterWrite
  <1>8. ASSUME NEW c \in Calls, Load(c) PROVE TypeOK'
    BY <1>8 DEF Load
  <1>9. ASSUME NEW c \in Calls, IngestFails(c) PROVE TypeOK'
    BY <1>9 DEF IngestFails
  <1>10. ASSUME NEW c \in Calls, Enable(c) PROVE TypeOK'
    BY <1>10 DEF Enable
  <1>11. ASSUME NEW c \in Calls, ServeRead(c) PROVE TypeOK'
    BY <1>11 DEF ServeRead
  <1>12. ASSUME NEW c \in Calls, EnterQuery(c) PROVE TypeOK'
    BY <1>12 DEF EnterQuery
  <1>13. ASSUME NEW c \in Calls, Validate(c) PROVE TypeOK'
    BY <1>13 DEF Validate
  <1>14. ASSUME NEW c \in Calls, Authorize(c) PROVE TypeOK'
    BY <1>14 DEF Authorize
  <1>15. ASSUME NEW c \in Calls, Run(c) PROVE TypeOK'
    BY <1>15 DEF Run
  <1>16. ASSUME NEW c \in Calls, Answer(c) PROVE TypeOK'
    BY <1>16 DEF Answer
  <1>17. ASSUME NEW f \in Places, Remove(f) PROVE TypeOK'
    BY <1>17 DEF Remove
  <1>18. CASE UNCHANGED vars
    BY <1>18 DEF vars
  <1> QED
    BY <1>1, <1>2, <1>3, <1>4, <1>5, <1>6, <1>7, <1>8, <1>9, <1>10, <1>11,
       <1>12, <1>13, <1>14, <1>15, <1>16, <1>17, <1>18 DEF Next, Step, Ingest

\* No step changes the environment or a request; a program that serves has
\* checked the environment, and only its calls go on.
LEMMA StepServed ==
  ASSUME IInv, [Next]_vars PROVE UNCHANGED <<env, req>> /\ ServedInv'
  <1> USE DEF IInv, TypeOK, ServedInv, outside, Go, Return, End, LeaveWrite,
              LeaveQuery, InWrite
  <1>1. UNCHANGED <<env, req>>
    BY DEF Next, Step, Ingest, vars, Start, TakeMCP, TakeConsole, TakeFails,
           Dispatch, CheckPath, EnterWrite, Load, IngestFails, Enable,
           ServeRead, EnterQuery, Validate, Authorize, Run, Answer, Remove
  <1>2. ConfigAccepts(env)' <=> ConfigAccepts(env)
    BY <1>1 DEF ConfigAccepts, StorePlace, Allowed, Resolve, Inside
  <1>3. ASSUME NEW p \in Programs, Start(p) PROVE ServedInv'
    <2> HIDE DEF ServedInv
    <2>1. /\ server' = [server EXCEPT
                          ![p] = IF ConfigAccepts(env) THEN "up" ELSE "refused"]
          /\ UNCHANGED pc
      BY <1>3 DEF Start
    <2> QED
      BY <1>2, <2>1 DEF ServedInv
  <1>4. ASSUME NEW c \in Calls, ConfigAccepts(env),
               \A d \in Calls \ {c} : pc'[d] = pc[d], UNCHANGED server
        PROVE  ServedInv'
    BY <1>2, <1>4
  <1>5. ASSUME NEW c \in Calls, Step(c) \/ Ingest(c)
        PROVE  /\ ConfigAccepts(env)
               /\ \A d \in Calls \ {c} : pc'[d] = pc[d]
               /\ UNCHANGED server
    <2>1. /\ \/ pc[c] # "sent"
             \/ Via[c] \in Programs /\ server[Via[c]] = "up"
          /\ \A d \in Calls \ {c} : pc'[d] = pc[d]
          /\ UNCHANGED server
      <3>1. CASE TakeMCP(c) \/ TakeConsole(c) \/ TakeFails(c)
        BY <3>1, CallsAssumption DEF TakeMCP, TakeConsole, TakeFails
      <3>2. CASE Dispatch(c) \/ CheckPath(c) \/ EnterWrite(c) \/ EnterQuery(c)
        BY <3>2 DEF Dispatch, CheckPath, EnterWrite, EnterQuery
      <3>3. CASE Enable(c) \/ ServeRead(c) \/ Ingest(c)
        BY <3>3 DEF Enable, ServeRead, Ingest, Load, IngestFails
      <3>4. CASE Validate(c) \/ Authorize(c) \/ Run(c) \/ Answer(c)
        BY <3>4 DEF Validate, Authorize, Run, Answer
      <3> QED
        BY <1>5, <3>1, <3>2, <3>3, <3>4 DEF Step
    <2>2. ConfigAccepts(env)
      <3> HIDE DEF TypeOK
      <3> QED
        BY <2>1
    <2> QED
      BY <2>1, <2>2
  <1>6. CASE UNCHANGED <<server, pc>>
    BY <1>1, <1>2, <1>6
  <1> QED
    BY <1>1, <1>3, <1>4, <1>5, <1>6 DEF Next, vars, Remove

\* Only good places become the source of a call or of a table.
LEMMA StepSource == ASSUME IInv, [Next]_vars PROVE SourceInv'
  <1> USE DEF IInv, TypeOK, SourceInv
  <1>1. \A p \in Places : Good(p)' <=> Good(p)
    BY StepServed, GoodKept
  <1>2. ASSUME UNCHANGED <<source, tables>> PROVE SourceInv'
    BY <1>1, <1>2
  <1>3. ASSUME NEW c \in Calls, CheckPath(c) PROVE SourceInv'
    <2>1. CASE PathAccepted(env, req[c].path, files)
      <3>1. ConfigAccepts(env)
        BY <1>3 DEF CheckPath, ServedInv
      <3>2. req[c].path \in Places
        BY CallsAssumption
      <3>3. Good(Candidate(req[c].path)) /\ Candidate(req[c].path) \in Places
        BY <2>1, <3>1, <3>2, CandidateGood
      <3>4. /\ source' = [source EXCEPT ![c] = Candidate(req[c].path)]
            /\ UNCHANGED tables
        BY <1>3, <2>1 DEF CheckPath
      <3> QED
        BY <1>1, <3>3, <3>4
    <2>2. CASE ~PathAccepted(env, req[c].path, files)
      BY <1>2, <1>3, <2>2 DEF CheckPath
    <2> QED
      BY <2>1, <2>2
  <1>4. ASSUME NEW c \in Calls, Load(c) PROVE SourceInv'
    <2>1. /\ tables' = [tables EXCEPT ![req[c].table] = source[c]]
          /\ UNCHANGED source
      BY <1>4 DEF Load
    <2> QED
      BY <1>1, <2>1
  <1>5. ASSUME NEW c \in Calls, Step(c), ~CheckPath(c)
        PROVE  UNCHANGED <<source, tables>>
    BY <1>5
    DEF Step, TakeMCP, TakeConsole, TakeFails, Dispatch, EnterWrite, Enable,
        ServeRead, EnterQuery, Validate, Authorize, Run, Answer, data
  <1> QED
    BY <1>2, <1>3, <1>4, <1>5
    DEF Next, Ingest, IngestFails, Start, Remove, vars, data

-----------------------------------------------------------------------------
\* What a step does to the contract's variables: call c takes effect, or ends
\* as its contract allows, or neither.
Takes(c) ==
    /\ pc[c] = "write"
    /\ Changes(req[c])
    /\ effects' = effects \cup {c}
    /\ UNCHANGED status

Ends(c) ==
    /\ pc[c] \in {"sent", "encode"}
    /\ \E s \in {"ok", "failed", "broken"} :
          /\ s = "ok" => result[c] = "ok"
          /\ s = "broken" => pc[c] = "sent" \/ ~Changes(req[c])
          /\ status' = [status EXCEPT ![c] = s]
    /\ pc' = [pc EXCEPT ![c] = "gone"]
    /\ UNCHANGED <<effects, result>>

\* Every step of a call is one of these.
LEMMA StepEffect ==
  ASSUME IInv, NEW c \in Calls, Step(c) \/ Ingest(c)
  PROVE  \/ Takes(c) /\ \E r \in {"ok", "failed"} : Return(c, r)
         \/ Ends(c)
         \/ /\ UNCHANGED <<status, effects>>
            /\ pc[c] # "gone" /\ pc[c] # "encode"
            /\ \/ \E place \in Stages \ {"gone"} :
                     /\ Go(c, place) /\ UNCHANGED result
                     /\ place \in Asking => req[c].tool = "query"
               \/ \E r \in {"ok", "failed", "refused"} :
                     Return(c, r) /\ (r = "ok" => ~Changes(req[c]))
  <1> USE DEF outside, data, LeaveWrite, LeaveQuery, InWrite, Changes, Asking
  <1>0. pc[c] \in Asking => req[c].tool = "query"
    BY DEF IInv, EffectInv
  <1>1. CASE TakeMCP(c) \/ TakeConsole(c) \/ EnterWrite(c) \/ EnterQuery(c)
    BY <1>0, <1>1 DEF TakeMCP, TakeConsole, EnterWrite, EnterQuery, Go, Stages
  <1>2. CASE TakeFails(c)
    BY <1>2 DEF TakeFails, End, Go, Ends
  <1>3. CASE Dispatch(c)
    BY <1>3 DEF Dispatch, Go, Stages
  <1>4. CASE CheckPath(c)
    BY <1>4 DEF CheckPath, Stages
  <1>5. CASE Load(c)
    BY <1>5 DEF Load, Takes
  <1>6. CASE IngestFails(c)
    BY <1>6 DEF IngestFails
  <1>7. CASE Enable(c)
    BY <1>7 DEF Enable, Takes
  <1>8. CASE ServeRead(c)
    BY <1>8 DEF ServeRead
  <1>9. CASE Validate(c)
    BY <1>0, <1>9 DEF Validate, Stages
  <1>10. CASE Authorize(c)
    BY <1>0, <1>10 DEF Authorize, Stages
  <1>11. CASE Run(c)
    BY <1>0, <1>11 DEF Run
  <1>12. CASE Answer(c)
    <2> DEFINE s == CASE ~Encodes(c) -> "broken"
                      [] Encodes(c) /\ result[c] = "ok" -> "ok"
                      [] OTHER -> "failed"
    <2>1. /\ pc[c] = "encode"
          /\ pc' = [pc EXCEPT ![c] = "gone"]
          /\ status' = [status EXCEPT ![c] = s]
          /\ UNCHANGED <<effects, result>>
      BY <1>12 DEF Answer, End, Go
    <2>2. /\ s \in {"ok", "failed", "broken"}
          /\ s = "ok" => result[c] = "ok"
          /\ s = "broken" => ~Changes(req[c])
      BY DEF Encodes
    <2> HIDE DEF s
    <2>3. Ends(c)
      BY <2>1, <2>2 DEF Ends
    <2> QED
      BY <2>3
  <1> QED
    BY <1>1, <1>2, <1>3, <1>4, <1>5, <1>6, <1>7, <1>8, <1>9, <1>10, <1>11,
       <1>12 DEF Step, Ingest

\* The order of effect, result and answer is kept.
LEMMA StepOrder == ASSUME IInv, [Next]_vars PROVE EffectInv'
  <1> USE DEF IInv, TypeOK, EffectInv, Asking
  <1>1. UNCHANGED req
    BY StepServed
  <1>2. ASSUME NEW c \in Calls, Step(c) \/ Ingest(c) PROVE EffectInv'
    <2>1. CASE Takes(c) /\ \E r \in {"ok", "failed"} : Return(c, r)
      BY <1>1, <2>1 DEF Takes, Return, Go, Changes
    <2>2. CASE Ends(c)
      BY <1>1, <2>2 DEF Ends, Changes
    <2>3. CASE /\ UNCHANGED <<status, effects>>
               /\ pc[c] # "gone" /\ pc[c] # "encode"
               /\ \/ \E place \in Stages \ {"gone"} :
                        /\ Go(c, place) /\ UNCHANGED result
                        /\ place \in Asking => req[c].tool = "query"
                  \/ \E r \in {"ok", "failed", "refused"} :
                        Return(c, r) /\ (r = "ok" => ~Changes(req[c]))
      BY <1>1, <2>3 DEF Return, Go, Changes
    <2> QED
      BY <1>2, <2>1, <2>2, <2>3, StepEffect
  <1>3. ASSUME UNCHANGED <<pc, result, status, effects>> PROVE EffectInv'
    BY <1>1, <1>3 DEF Changes
  <1> QED
    BY <1>2, <1>3 DEF Next, Start, Remove, vars, data

\* The invariant holds in every state of every behaviour.
THEOREM CallsCorrect == Spec => []IInv
  <1>1. IInv /\ [Next]_vars => IInv'
    BY StepType, StepServed, StepSource, StepOrder DEF IInv
  <1> QED
    BY <1>1, InitIInv, PTL DEF Spec

\* Every variable keeps its type, for any set of calls and requests.
THEOREM TypeCorrect == Spec => []TypeOK
  <1>1. IInv => TypeOK
    BY DEF IInv
  <1> QED
    BY <1>1, CallsCorrect, PTL

\* Whatever is loaded comes from an allowed directory and is not the store
\* (Config.from_env and PathValidator.validate).
THEOREM SourcesAllowedCorrect == Spec => []SourcesAllowed
  <1>1. IInv => SourcesAllowed
    BY DEF IInv, SourceInv, Good, SourcesAllowed
  <1> QED
    BY <1>1, CallsCorrect, PTL

\* What is known of a statement at each layer, and once it is refused.
LayersInv == \A c \in Calls :
    /\ pc[c] \in {"authorize", "run"} => ValidatorAccepts(req[c].sql)
    /\ pc[c] = "run" => AuthorizerAccepts(req[c].sql)
    /\ result[c] = "refused" =>
          ~(ValidatorAccepts(req[c].sql) /\ AuthorizerAccepts(req[c].sql))

\* Only the two layers let a statement on, and only they refuse one.
LEMMA StepLayers ==
  ASSUME TypeOK, LayersInv, [Next]_vars
  PROVE  LayersInv'
  <1> USE DEF TypeOK
  <1>1. UNCHANGED req
    BY DEF Next, Step, Ingest, vars, outside, Start, TakeMCP, TakeConsole,
           TakeFails, Dispatch, CheckPath, EnterWrite, Load, IngestFails, Enable,
           ServeRead, EnterQuery, Validate, Authorize, Run, Answer, Remove
  <1>2. \A c \in Calls :
          /\ ValidatorAccepts(req'[c].sql) <=> ValidatorAccepts(req[c].sql)
          /\ AuthorizerAccepts(req'[c].sql) <=> AuthorizerAccepts(req[c].sql)
    BY <1>1
  <1>3. ASSUME UNCHANGED <<pc, result>>  PROVE LayersInv'
    BY <1>1, <1>3 DEF LayersInv
  \* A call that goes to another place, or returns and was not refused.
  <1>4. ASSUME NEW c \in Calls, NEW place \in Stages, NEW r,
               pc' = [pc EXCEPT ![c] = place],
               \/ UNCHANGED result
               \/ result' = [result EXCEPT ![c] = r],
               place \notin {"authorize", "run"}, r # "refused"
        PROVE  LayersInv'
    <2> SUFFICES ASSUME NEW d \in Calls
                 PROVE  /\ pc'[d] \in {"authorize", "run"}
                             => pc[d] = pc'[d]
                        /\ result'[d] = "refused" => result[d] = "refused"
      BY <1>1 DEF LayersInv
    <2> QED
      BY <1>4
  <1>5. ASSUME NEW c \in Calls, TakeMCP(c) \/ TakeConsole(c) \/ TakeFails(c)
                                \/ EnterWrite(c) \/ EnterQuery(c) \/ Answer(c)
        PROVE  LayersInv'
    <2>1. PICK place \in {"dispatch", "gone", "write", "validate"} :
             pc' = [pc EXCEPT ![c] = place] /\ UNCHANGED result
      BY <1>5 DEF TakeMCP, TakeConsole, TakeFails, EnterWrite, EnterQuery, Answer,
                  Go, End
    <2> QED
      BY <1>4, <2>1 DEF Stages
  <1>6. ASSUME NEW c \in Calls, Dispatch(c) \/ CheckPath(c)  PROVE LayersInv'
    <2>1. \/ \E place \in {"path", "wantquery", "wantwrite"} :
                pc' = [pc EXCEPT ![c] = place] /\ UNCHANGED result
          \/ /\ pc' = [pc EXCEPT ![c] = "encode"]
             /\ result' = [result EXCEPT ![c] = "failed"]
      BY <1>6 DEF Dispatch, CheckPath, Go, Return
    <2> QED
      BY <1>4, <2>1 DEF Stages
  <1>7. ASSUME NEW c \in Calls, Load(c) \/ IngestFails(c) \/ Enable(c)
                                \/ ServeRead(c) \/ Run(c)
        PROVE  LayersInv'
    <2>1. \E r \in {"ok", "failed"} :
             /\ pc' = [pc EXCEPT ![c] = "encode"]
             /\ result' = [result EXCEPT ![c] = r]
      BY <1>7 DEF Load, IngestFails, Enable, ServeRead, Run, LeaveWrite, LeaveQuery,
                  Return, Go
    <2> QED
      BY <1>4, <2>1 DEF Stages
  <1>8. ASSUME NEW c \in Calls, Validate(c)  PROVE LayersInv'
    <2>1. CASE ValidatorAccepts(req[c].sql)
      <3>1. pc' = [pc EXCEPT ![c] = "authorize"] /\ UNCHANGED result
        BY <1>8, <2>1 DEF Validate, Go
      <3> QED
        BY <1>1, <2>1, <3>1 DEF LayersInv
    <2>2. CASE ~ValidatorAccepts(req[c].sql)
      <3>1. /\ pc' = [pc EXCEPT ![c] = "encode"]
            /\ result' = [result EXCEPT ![c] = "refused"]
        BY <1>8, <2>2 DEF Validate, LeaveQuery, Return, Go
      <3> QED
        BY <1>1, <2>2, <3>1 DEF LayersInv
    <2> QED
      BY <2>1, <2>2
  <1>9. ASSUME NEW c \in Calls, Authorize(c)  PROVE LayersInv'
    <2>0. ValidatorAccepts(req[c].sql)
      BY <1>9 DEF Authorize, LayersInv
    <2>1. CASE AuthorizerAccepts(req[c].sql)
      <3>1. pc' = [pc EXCEPT ![c] = "run"] /\ UNCHANGED result
        BY <1>9, <2>1 DEF Authorize, Go
      <3> QED
        BY <1>1, <2>0, <2>1, <3>1 DEF LayersInv
    <2>2. CASE ~AuthorizerAccepts(req[c].sql)
      <3>1. /\ pc' = [pc EXCEPT ![c] = "encode"]
            /\ result' = [result EXCEPT ![c] = "refused"]
        BY <1>9, <2>2 DEF Authorize, LeaveQuery, Return, Go
      <3> QED
        BY <1>1, <2>2, <3>1 DEF LayersInv
    <2> QED
      BY <2>1, <2>2
  <1>10. ASSUME (\E p \in Programs : Start(p)) \/ (\E f \in Places : Remove(f))
                \/ UNCHANGED vars
         PROVE  UNCHANGED <<pc, result>>
    BY <1>10 DEF Start, Remove, vars
  <1> QED
    BY <1>3, <1>5, <1>6, <1>7, <1>8, <1>9, <1>10 DEF Next, Step, Ingest

\* A statement runs only after the validator and then the authorizer accepted
\* it, and is refused only if one of them did not (QueryExecutor.execute), for
\* any statements and however the calls of both programs interleave.
THEOREM LayersCorrect == Spec => []LayersInv
  <1>1. Init => LayersInv
    BY DEF Init, LayersInv
  <1>2. TypeOK /\ LayersInv /\ [Next]_vars => LayersInv'
    BY StepLayers
  <1> QED
    BY <1>1, <1>2, TypeCorrect, PTL DEF Spec

\* Whatever both layers let through is a plain query: for a statement that is
\* not, one of the two programs outside reports what its layer refuses.
LEMMA AcceptedIsPlain ==
  ASSUME NEW q \in Texts, ValidatorAccepts(q), AuthorizerAccepts(q)
  PROVE  q.kind = "plain"
  <1>1. KindOK(q)
    BY KindAssumption
  <1>2. q.kind # "write"
    <2>1. q.root \notin ChangeRoots
      BY DEF ValidatorAccepts, AllowedRoots, ChangeRoots
    <2> QED
      BY <1>1, <2>1 DEF KindOK, ValidatorAccepts
  <1>3. q.kind # "other"
    <2>1. \A a \in q.acts : OnlyReads(a[1], a[2])
      <3>1. ASSUME NEW action, NEW object, ~OnlyReads(action, object)
            PROVE  Denied(action, object)
        BY <3>1 DEF OnlyReads, Denied, AllowedActions, AllowedPragmas, Reaching,
                    DeniedFunctions
      <3> QED
        BY <3>1 DEF AuthorizerAccepts
    <2>2. q.trees = 1 /\ q.root \in QueryRoots
      BY DEF ValidatorAccepts, AllowedRoots, QueryRoots
    <2> QED
      BY <1>1, <2>1, <2>2 DEF KindOK
  <1> QED
    BY <1>1, <1>2, <1>3 DEF KindOK

\* Each layer alone refuses a write.
LEMMA WriteIsRefused ==
  ASSUME NEW q \in Texts, q.kind = "write"
  PROVE  ~ValidatorAccepts(q) /\ ~AuthorizerAccepts(q)
  <1>1. KindOK(q)
    BY KindAssumption
  <1>2. ~ValidatorAccepts(q)
    <2>1. q.trees # 1 \/ q.root \in ChangeRoots
      BY <1>1 DEF KindOK
    <2> QED
      BY <2>1 DEF ValidatorAccepts, AllowedRoots, ChangeRoots
  <1>3. ~AuthorizerAccepts(q)
    <2>1. PICK a \in q.acts : \/ a[1] \in ChangeActions
                              \/ a[1] = "pragma" /\ a[2] # "data_version"
      BY <1>1 DEF KindOK
    <2>2. ASSUME NEW action \in ChangeActions
          PROVE  action \notin AllowedActions \cup {"pragma"}
      BY DEF ChangeActions, AllowedActions
    <2>3. Denied(a[1], a[2])
      BY <2>1, <2>2 DEF Denied, AllowedPragmas
    <2> QED
      BY <2>3 DEF AuthorizerAccepts
  <1> QED
    BY <1>2, <1>3

\* Neither layer refuses a plain query, where SQLite opens virtual tables
\* without asking leave for more.
LEMMA PlainIsAccepted ==
  ASSUME Opening = {}, NEW q \in Texts, q.kind = "plain"
  PROVE  ValidatorAccepts(q) /\ AuthorizerAccepts(q)
  <1>1. KindOK(q)
    BY KindAssumption
  <1>2. ValidatorAccepts(q)
    <2>1. /\ q.nodes \cap (ChangeRoots \cup {"Into"}) = {}
          /\ q.calls \cap Reaching = {}
      BY <1>1 DEF KindOK
    <2>2. ForbiddenNodes \subseteq ChangeRoots \cup {"Into"}
      BY DEF ForbiddenNodes, ChangeRoots
    <2>3. ForbiddenFunctions \subseteq Reaching
      BY DEF ForbiddenFunctions, Reaching
    <2>4. q.trees = 1 /\ q.root \in AllowedRoots
      BY <1>1 DEF KindOK, QueryRoots, AllowedRoots
    <2> QED
      BY <2>1, <2>2, <2>3, <2>4 DEF ValidatorAccepts
  <1>3. AuthorizerAccepts(q)
    <2>1. \A a \in q.acts : OnlyReads(a[1], a[2])
      BY <1>1 DEF KindOK
    <2>2. ASSUME NEW action, NEW object, OnlyReads(action, object)
          PROVE  ~Denied(action, object)
      BY <2>2 DEF OnlyReads, Denied, AllowedActions, AllowedPragmas, Reaching,
                  DeniedFunctions
    <2> QED
      BY <2>1, <2>2 DEF AuthorizerAccepts
  <1> QED
    BY <1>2, <1>3

\* The statement of a call is one of those the outside programs are known by.
LEMMA AskedTexts ==
  ASSUME TypeOK
  PROVE  \A c \in Calls : req[c].sql \in Texts
  BY CallsAssumption DEF TypeOK

\* What runs on the query connection only reads, whatever statements callers
\* send, and either layer alone would keep writes out (SQLValidator.validate,
\* QueryAuthorizer).  Trusted of sqlglot and SQLite is KindAssumption.
THEOREM OnlyReadsPassCorrect == Spec => []OnlyReadsPass
  <1>1. TypeOK /\ LayersInv => OnlyReadsPass
    BY AskedTexts, AcceptedIsPlain, WriteIsRefused DEF LayersInv, OnlyReadsPass
  <1> QED
    BY <1>1, TypeCorrect, LayersCorrect, PTL

\* No plain query is refused, a search included, where SQLite opens virtual
\* tables without asking leave for more (3.40.1 does ask, see
\* SearchTablesQueryable).
THEOREM ReadsAreServedCorrect ==
  ASSUME Opening = {}
  PROVE  Spec => []ReadsAreServed
  <1>1. TypeOK /\ LayersInv => ReadsAreServed
    BY AskedTexts, PlainIsAccepted DEF LayersInv, ReadsAreServed
  <1> QED
    BY <1>1, TypeCorrect, LayersCorrect, PTL

OnQuery == {"validate", "authorize", "run"}

\* A call holds a lock or the event loop exactly while it is where it needs it.
HeldInv == \A c \in Calls :
    /\ wlock[Via[c]] = c <=> pc[c] = "write"
    /\ qlock[Via[c]] = c <=> pc[c] \in OnQuery
    /\ loop = c <=> Via[c] = "mcp" /\ pc[c] \notin {"sent", "gone"}
    /\ \A p \in Programs : c \in {wlock[p], qlock[p]} => p = Via[c]

\* Whichever way a call goes on, it takes and gives back what it needs.
LEMMA StepHeld ==
  ASSUME TypeOK, HeldInv, [Next]_vars
  PROVE  HeldInv'
  <1> USE CallsAssumption DEF TypeOK, HeldInv, OnQuery
  <1>1. ASSUME UNCHANGED <<pc, wlock, qlock, loop>>  PROVE HeldInv'
    BY <1>1
  <1>2. ASSUME NEW c \in Calls, TakeMCP(c)  PROVE HeldInv'
    <2>1. /\ pc[c] = "sent" /\ pc' = [pc EXCEPT ![c] = "dispatch"]
          /\ loop = NoCall /\ loop' = c /\ Via[c] = "mcp"
          /\ UNCHANGED <<wlock, qlock>>
      BY <1>2 DEF TakeMCP, Go
    <2> QED
      BY <2>1
  <1>3. ASSUME NEW c \in Calls, TakeConsole(c) \/ TakeFails(c)  PROVE HeldInv'
    <2>1. /\ pc[c] = "sent" /\ Via[c] = "console"
          /\ \E place \in {"dispatch", "gone"} : pc' = [pc EXCEPT ![c] = place]
          /\ UNCHANGED <<wlock, qlock, loop>>
      BY <1>3 DEF TakeConsole, TakeFails, Go, End
    <2> QED
      BY <2>1
  <1>4. ASSUME NEW c \in Calls, Dispatch(c) \/ CheckPath(c)  PROVE HeldInv'
    <2>1. /\ pc[c] \in {"dispatch", "path"}
          /\ \E place \in {"path", "wantquery", "wantwrite", "encode"} :
                pc' = [pc EXCEPT ![c] = place]
          /\ UNCHANGED <<wlock, qlock, loop>>
      BY <1>4 DEF Dispatch, CheckPath, Go, Return
    <2> QED
      BY <2>1
  <1>5. ASSUME NEW c \in Calls, EnterWrite(c)  PROVE HeldInv'
    <2>1. /\ pc[c] = "wantwrite" /\ pc' = [pc EXCEPT ![c] = "write"]
          /\ wlock[Via[c]] = NoCall /\ wlock' = [wlock EXCEPT ![Via[c]] = c]
          /\ UNCHANGED <<qlock, loop>>
      BY <1>5 DEF EnterWrite, Go
    <2> QED
      BY <2>1
  <1>6. ASSUME NEW c \in Calls,
               Load(c) \/ IngestFails(c) \/ Enable(c) \/ ServeRead(c)
        PROVE  HeldInv'
    <2>1. /\ pc[c] = "write" /\ pc' = [pc EXCEPT ![c] = "encode"]
          /\ wlock' = [wlock EXCEPT ![Via[c]] = NoCall]
          /\ UNCHANGED <<qlock, loop>>
      BY <1>6 DEF Load, IngestFails, Enable, ServeRead, InWrite, LeaveWrite, Return,
                  Go
    <2> QED
      BY <2>1
  <1>7. ASSUME NEW c \in Calls, EnterQuery(c)  PROVE HeldInv'
    <2>1. /\ pc[c] = "wantquery" /\ pc' = [pc EXCEPT ![c] = "validate"]
          /\ qlock[Via[c]] = NoCall /\ qlock' = [qlock EXCEPT ![Via[c]] = c]
          /\ UNCHANGED <<wlock, loop>>
      BY <1>7 DEF EnterQuery, Go
    <2> QED
      BY <2>1
  <1>8. ASSUME NEW c \in Calls, Validate(c) \/ Authorize(c) \/ Run(c)
        PROVE  HeldInv'
    <2>1. /\ pc[c] \in OnQuery
          /\ \/ /\ \E place \in OnQuery : pc' = [pc EXCEPT ![c] = place]
                /\ UNCHANGED qlock
             \/ /\ pc' = [pc EXCEPT ![c] = "encode"]
                /\ qlock' = [qlock EXCEPT ![Via[c]] = NoCall]
          /\ UNCHANGED <<wlock, loop>>
      BY <1>8 DEF Validate, Authorize, Run, LeaveQuery, Return, Go
    <2> QED
      BY <2>1
  <1>9. ASSUME NEW c \in Calls, Answer(c)  PROVE HeldInv'
    <2>1. /\ pc[c] = "encode" /\ pc' = [pc EXCEPT ![c] = "gone"]
          /\ loop' = IF Via[c] = "mcp" THEN NoCall ELSE loop
          /\ UNCHANGED <<wlock, qlock>>
      BY <1>9 DEF Answer, End, Go
    <2> QED
      BY <2>1
  <1>10. ASSUME (\E p \in Programs : Start(p)) \/ (\E f \in Places : Remove(f))
                \/ UNCHANGED vars
         PROVE  UNCHANGED <<pc, wlock, qlock, loop>>
    BY <1>10 DEF Start, Remove, vars
  <1> QED
    BY <1>1, <1>2, <1>3, <1>4, <1>5, <1>6, <1>7, <1>8, <1>9, <1>10
       DEF Next, Step, Ingest

\* A call that is refused, fails or ends holds neither lock nor event loop, and
\* who holds a lock is past every wait: calls of any number, to either program,
\* never wait in a circle (the with blocks of SQLiteStore, MCPServer._call_tool).
THEOREM LocksGivenBack == Spec => []HeldInv
  <1>1. Init => HeldInv
    BY CallsAssumption DEF Init, HeldInv, OnQuery, Programs
  <1>2. TypeOK /\ HeldInv /\ [Next]_vars => HeldInv'
    BY StepHeld
  <1> QED
    BY <1>1, <1>2, TypeCorrect, PTL DEF Spec

\* c can go on only when d has given back what c wants.
WaitsFor(c, d) ==
    \/ pc[c] = "wantwrite" /\ wlock[Via[c]] = d
    \/ pc[c] = "wantquery" /\ qlock[Via[c]] = d
    \/ pc[c] = "sent" /\ Via[c] = "mcp" /\ loop = d

\* Whoever waits, waits for a call of its own program that waits for nobody; a
\* query waits for a query only, so never for an ingest (QueriesPassIngests).
THEOREM WaitsAreShort ==
    Spec => [](\A c, d \in Calls : WaitsFor(c, d) =>
                  /\ Via[d] = Via[c]
                  /\ \A e \in Calls : ~WaitsFor(d, e)
                  /\ pc[c] = "wantquery" => pc[d] \in OnQuery)
  <1>1. TypeOK /\ HeldInv => \A c, d \in Calls : WaitsFor(c, d) =>
                  /\ Via[d] = Via[c]
                  /\ \A e \in Calls : ~WaitsFor(d, e)
                  /\ pc[c] = "wantquery" => pc[d] \in OnQuery
    <2> SUFFICES ASSUME TypeOK, HeldInv, NEW c \in Calls, NEW d \in Calls,
                        WaitsFor(c, d)
                 PROVE  /\ Via[d] = Via[c]
                        /\ \A e \in Calls : ~WaitsFor(d, e)
                        /\ pc[c] = "wantquery" => pc[d] \in OnQuery
      OBVIOUS
    <2>1. Via[c] \in Programs /\ Via[d] \in Programs
      BY CallsAssumption
    <2>2. CASE wlock[Via[c]] = d \/ qlock[Via[c]] = d
      <3>1. Via[d] = Via[c]
        BY <2>1, <2>2 DEF HeldInv
      <3>2. pc[d] \in OnQuery \cup {"write"}
        BY <2>2, <3>1 DEF HeldInv
      <3>3. qlock[Via[c]] = d => pc[d] \in OnQuery
        BY <3>1 DEF HeldInv
      <3>4. pc[c] = "wantquery" => qlock[Via[c]] = d
        BY DEF WaitsFor
      <3>5. \A e \in Calls : ~WaitsFor(d, e)
        BY <3>2 DEF WaitsFor, OnQuery
      <3> QED
        BY <3>1, <3>3, <3>4, <3>5
    <2>3. CASE pc[c] = "sent" /\ Via[c] = "mcp" /\ loop = d
      <3>1. Via[d] = "mcp" /\ pc[d] \notin {"sent", "gone"}
        BY <2>3 DEF HeldInv
      <3>2. ASSUME NEW e \in Calls, WaitsFor(d, e)  PROVE FALSE
        <4>1. wlock["mcp"] = e \/ qlock["mcp"] = e
          BY <3>1, <3>2 DEF WaitsFor
        <4>2. Via[e] = "mcp" /\ pc[e] \in OnQuery \cup {"write"}
          BY <2>1, <3>1, <4>1 DEF HeldInv
        <4>3. loop = e
          BY <4>2 DEF HeldInv, OnQuery
        <4> QED
          BY <2>3, <3>2, <4>2, <4>3 DEF WaitsFor, OnQuery
      <3> QED
        BY <2>3, <3>1, <3>2
    <2> QED
      BY <2>2, <2>3 DEF WaitsFor
  <1> QED
    BY <1>1, TypeCorrect, LocksGivenBack, PTL

\* How far a call has come.
Reached(stage) ==
    CASE stage = "sent" -> 0
      [] stage = "dispatch" -> 1
      [] stage = "path" -> 2
      [] stage \in {"wantwrite", "wantquery"} -> 3
      [] stage \in {"write", "validate"} -> 4
      [] stage = "authorize" -> 5
      [] stage = "run" -> 6
      [] stage = "encode" -> 7
      [] stage = "gone" -> 8

\* A step of one call takes it further and leaves the others where they are.
Advances(c) == /\ pc' = [pc EXCEPT ![c] = pc'[c]]
               /\ pc'[c] \in Stages
               /\ Reached(pc'[c]) > Reached(pc[c])

LEMMA StepAdvances ==
  ASSUME TypeOK, NEW c \in Calls, Step(c) \/ Ingest(c)
  PROVE  Advances(c)
  <1> USE DEF TypeOK, Go, Return, End, Stages
  <1>1. ASSUME NEW from \in Stages, NEW to \in Stages,
               pc[c] = from, pc' = [pc EXCEPT ![c] = to],
               Reached(to) > Reached(from)
        PROVE  Advances(c)
    BY <1>1 DEF Advances
  <1> USE DEF Reached
  <1>2. CASE TakeMCP(c) \/ TakeConsole(c) \/ TakeFails(c)
    BY <1>1, <1>2 DEF TakeMCP, TakeConsole, TakeFails
  <1>3. CASE Dispatch(c) \/ CheckPath(c)
    <2>1. \/ pc[c] = "dispatch" /\ \E to \in {"path", "wantquery", "wantwrite",
                                              "encode"} :
                                      pc' = [pc EXCEPT ![c] = to]
          \/ pc[c] = "path" /\ \E to \in {"wantwrite", "encode"} :
                                  pc' = [pc EXCEPT ![c] = to]
      BY <1>3 DEF Dispatch, CheckPath
    <2> QED
      BY <1>1, <2>1
  <1>4. CASE EnterWrite(c) \/ EnterQuery(c)
    BY <1>1, <1>4 DEF EnterWrite, EnterQuery
  <1>5. CASE Ingest(c) \/ Enable(c) \/ ServeRead(c)
    BY <1>1, <1>5 DEF Ingest, Load, IngestFails, Enable, ServeRead, InWrite,
                      LeaveWrite
  <1>6. CASE Validate(c) \/ Authorize(c) \/ Run(c)
    BY <1>1, <1>6 DEF Validate, Authorize, Run, LeaveQuery
  <1>7. CASE Answer(c)
    <2>1. pc[c] = "encode" /\ pc' = [pc EXCEPT ![c] = "gone"]
      BY <1>7 DEF Answer
    <2> QED
      BY <1>1, <2>1
  <1> QED
    BY <1>2, <1>3, <1>4, <1>5, <1>6, <1>7 DEF Step

\* No call goes back or starts again, whatever fails: each step is one call's
\* and takes it nearer to its answer, or is the start of a program or the removal
\* of a file (ToolRegistry.call and what it calls have no retry).
THEOREM CallsAdvance ==
    Spec => [][\/ \E c \in Calls : Advances(c)
               \/ UNCHANGED pc /\ ((\E p \in Programs : Start(p))
                                   \/ \E f \in Places : Remove(f))]_vars
  <1>1. TypeOK /\ [Next]_vars =>
          [\/ \E c \in Calls : Advances(c)
           \/ UNCHANGED pc /\ ((\E p \in Programs : Start(p))
                               \/ \E f \in Places : Remove(f))]_vars
    BY StepAdvances DEF Next, Start, Remove
  <1> QED
    BY <1>1, TypeCorrect, PTL DEF Spec

\* Every call, on either transport, keeps the contract of CallContract.
THEOREM CallsImplementContract == Spec => ImplementsContract
  <1>1. Init => Contract!Init
    BY DEF Init, Contract!Init
  <1>2. IInv /\ [Next]_vars => [Contract!Next]_Contract!vars
    <2> SUFFICES ASSUME IInv, [Next]_vars
                 PROVE  [Contract!Next]_Contract!vars
      OBVIOUS
    <2> DEFINE changing == {c \in Calls : Changes(req[c])}
    <2>1. UNCHANGED changing
      BY StepServed DEF Changes
    <2>2. ASSUME NEW c \in Calls, Takes(c) PROVE Contract!TakeEffect(c)
      BY <2>1, <2>2 DEF Takes, Contract!TakeEffect, IInv, EffectInv
    <2>3. ASSUME NEW c \in Calls, Ends(c) PROVE Contract!End(c)
      BY <2>1, <2>3 DEF Ends, Contract!End, IInv, EffectInv
    <2>4. ASSUME NEW c \in Calls, Step(c) \/ Ingest(c)
          PROVE  Takes(c) \/ Ends(c) \/ UNCHANGED <<status, effects>>
      BY <2>4, StepEffect
    <2> QED
      BY <2>1, <2>2, <2>3, <2>4
      DEF Next, Start, Remove, vars, data, Contract!Next, Contract!vars
  <1> QED
    BY <1>1, <1>2, CallsCorrect, PTL DEF Spec, ImplementsContract, Contract!Spec

=============================================================================
