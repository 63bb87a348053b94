--------------------------- MODULE RestApiProofs ---------------------------
(***************************************************************************)
(* Every request of RestApi is completed exactly once or dropped by the     *)
(* destructor, for any set of requests and of calling threads: RestApi      *)
(* implements RestRequests.                                                *)
(***************************************************************************)
EXTENDS RestApi, TLAPS

\* The invariant holds before the first request.
LEMMA RestInit == Init => RestInv
  <1> SUFFICES ASSUME Init PROVE RestInv
    OBVIOUS
  <1>1. timed \in [Requests -> BOOLEAN] /\ stopped \in BOOLEAN
    BY DEF Init
  <1>2. TypeOK
    BY <1>1 DEF Init, TypeOK
  <1>3. CompletionInv /\ ThreadInv
    BY DEF Init, CompletionInv, ThreadInv, Stages
  <1> QED BY <1>2, <1>3 DEF RestInv

\* A new session has not been completed.
LEMMA IssueInv ==
  ASSUME RestInv, NEW r \in Requests, NEW k \in {"sync", "async"}, Issue(r, k),
         waiting' \in [Threads -> Requests \cup {NoRequest}]
  PROVE  RestInv'
  <1>1. TypeOK'
    BY DEF RestInv, TypeOK, Issue, results, Stages
  <1>2. CompletionInv'
    BY DEF RestInv, TypeOK, CompletionInv, Issue, results, Stages
  <1>3. ThreadInv'
    BY DEF RestInv, ThreadInv, Issue
  <1> QED BY <1>1, <1>2, <1>3 DEF RestInv

\* A handler that fails completes a session that was not complete.
LEMMA FailsInv ==
  ASSUME RestInv, NEW r \in Requests, NEW s \in Stages, Handler(r, s), Fails(r)
  PROVE  RestInv'
  <1>1. completions[r] = 0
    BY DEF RestInv, CompletionInv, Handler
  <1>2. TypeOK'
    BY <1>1 DEF RestInv, TypeOK, Handler, Fails, onComplete, Stages
  <1>3. CompletionInv'
    BY <1>1 DEF RestInv, TypeOK, CompletionInv, Handler, Fails, onComplete, Stages
  <1>4. ThreadInv'
    BY DEF RestInv, ThreadInv, Handler
  <1> QED BY <1>2, <1>3, <1>4 DEF RestInv

\* A handler that starts the next operation completes nothing.
LEMMA StartsNextInv ==
  ASSUME RestInv, NEW r \in Requests, NEW s \in Stages, NEW next \in Stages,
         Handler(r, s), StartsNext(r, next), timed' \in [Requests -> BOOLEAN]
  PROVE  RestInv'
  <1>1. TypeOK'
    BY DEF RestInv, TypeOK, Handler, StartsNext, results
  <1>2. CompletionInv'
    BY DEF RestInv, TypeOK, CompletionInv, Handler, StartsNext, results, Stages
  <1>3. ThreadInv'
    BY DEF RestInv, ThreadInv, Handler, StartsNext
  <1> QED BY <1>1, <1>2, <1>3 DEF RestInv

\* expires_after() keeps the type of timed.
LEMMA ExpiresAfterType ==
  ASSUME TypeOK, NEW r \in Requests, expires_after(r) \/ UNCHANGED timed
  PROVE  timed' \in [Requests -> BOOLEAN]
  BY DEF TypeOK, expires_after

\* The five handlers of a request under way and the one after it.
LEMMA HandlersInv ==
  ASSUME RestInv, NEW r \in Requests, Handlers(r)
  PROVE  RestInv'
  <1>0. TypeOK
    BY DEF RestInv
  <1>1. CASE onResolve(r)
    BY <1>0, <1>1, FailsInv, StartsNextInv, ExpiresAfterType DEF onResolve, Stages
  <1>2. CASE onConnect(r)
    BY <1>0, <1>2, FailsInv, StartsNextInv, ExpiresAfterType DEF onConnect, Stages
  <1>3. CASE onSslHandshake(r)
    BY <1>0, <1>3, FailsInv, StartsNextInv, ExpiresAfterType DEF onSslHandshake, Stages
  <1>4. CASE onWrite(r)
    BY <1>0, <1>4, FailsInv, StartsNextInv, ExpiresAfterType DEF onWrite, Stages
  <1>5. CASE onRead(r)
    <2>1. CASE Fails(r)
      BY <1>5, <2>1, FailsInv DEF onRead, Stages
    <2>2. CASE ~Fails(r)
      <3>1. completions[r] = 0
        BY <1>5 DEF RestInv, CompletionInv, onRead, Handler, Stages
      <3>2. PICK outcome \in {"message", "rateLimited"} : onComplete(r, outcome)
        BY <1>5, <2>2 DEF onRead
      <3>3. /\ stage' = [stage EXCEPT ![r] =
                           IF kind[r] = "async" THEN "delivering" ELSE "shutdown"]
            /\ ready' = [ready EXCEPT ![r] = "waiting"]
            /\ timed' = [timed EXCEPT ![r] = TRUE]
        BY <1>5, <2>2 DEF onRead, expires_after
      <3>4. /\ io = "running"
            /\ UNCHANGED <<dtor, stopped, io, kind, waiting>>
        BY <1>5 DEF onRead, Handler
      <3>5. TypeOK'
        BY <1>0, <3>1, <3>2, <3>3, <3>4 DEF TypeOK, onComplete
      <3>6. CompletionInv'
        BY <1>0, <3>1, <3>2, <3>3, <3>4 DEF RestInv, TypeOK, CompletionInv, onComplete, Stages
      <3>7. ThreadInv'
        BY <3>4 DEF RestInv, ThreadInv
      <3> QED BY <3>5, <3>6, <3>7 DEF RestInv
    <2> QED BY <2>1, <2>2
  <1>6. CASE onShutdown(r)
    <2>1. TypeOK'
      BY <1>0, <1>6 DEF TypeOK, onShutdown, Handler, results
    <2>2. CompletionInv'
      BY <1>0, <1>6 DEF RestInv, TypeOK, CompletionInv, onShutdown, Handler, results, Stages
    <2>3. ThreadInv'
      BY <1>6 DEF RestInv, ThreadInv, onShutdown, Handler
    <2> QED BY <2>1, <2>2, <2>3 DEF RestInv
  <1> QED BY <1>1, <1>2, <1>3, <1>4, <1>5, <1>6 DEF Handlers

\* The steps outside the handlers.
LEMMA OtherStepsInv ==
  ASSUME RestInv
  PROVE  /\ \A t \in Threads : SyncReturns(t) => RestInv'
         /\ \A r \in Requests, outcome \in {"ok", "failed"} : OperationEnds(r, outcome) => RestInv'
         /\ \A r \in Requests : Expires(r) => RestInv'
         /\ CallbackReturns => RestInv'
         /\ RunReturns \/ ResetWork \/ StopContext \/ JoinThread => RestInv'
         /\ DestroyContext => RestInv'
         /\ UNCHANGED vars => RestInv'
  <1>0. TypeOK /\ CompletionInv /\ ThreadInv
    BY DEF RestInv
  <1>1. ASSUME NEW t \in Threads, SyncReturns(t) PROVE RestInv'
    BY <1>0, <1>1 DEF SyncReturns, RestInv, TypeOK, CompletionInv, ThreadInv, sessions, results
  <1>2. ASSUME NEW r \in Requests, NEW outcome \in {"ok", "failed"}, OperationEnds(r, outcome)
        PROVE  RestInv'
    BY <1>0, <1>2 DEF OperationEnds, RestInv, TypeOK, CompletionInv, ThreadInv, results
  <1>3. ASSUME NEW r \in Requests, Expires(r) PROVE RestInv'
    BY <1>0, <1>3 DEF Expires, RestInv, TypeOK, CompletionInv, ThreadInv, results
  <1>4. ASSUME CallbackReturns PROVE RestInv'
    <2>1. callback \in Requests
      BY <1>0, <1>4 DEF CallbackReturns, TypeOK
    <2>2. TypeOK'
      BY <1>0, <1>4, <2>1 DEF CallbackReturns, TypeOK, results
    <2>3. CompletionInv'
      BY <1>0, <1>4, <2>1 DEF CallbackReturns, TypeOK, CompletionInv, results, Stages
    <2>4. ThreadInv'
      BY <1>0, <1>4 DEF CallbackReturns, ThreadInv
    <2> QED BY <2>2, <2>3, <2>4 DEF RestInv
  <1>5. ASSUME RunReturns \/ ResetWork \/ StopContext \/ JoinThread PROVE RestInv'
    <2>1. UNCHANGED <<sessions, waiting, callback, results>>
      BY <1>5 DEF RunReturns, ResetWork, StopContext, JoinThread
    <2>2. TypeOK'
      BY <1>0, <1>5, <2>1 DEF RunReturns, ResetWork, StopContext, JoinThread, TypeOK,
                              sessions, results
    <2>3. dtor' # "gone" \/ dtor' = dtor
      BY <1>5 DEF RunReturns, ResetWork, StopContext, JoinThread
    <2>4. dtor = "gone" => dtor' = "gone"
      BY <1>5 DEF RunReturns, ResetWork, StopContext, JoinThread
    <2>5. CompletionInv'
      BY <1>0, <2>1, <2>3, <2>4 DEF CompletionInv, sessions, results
    <2>6. ThreadInv'
      BY <1>0, <1>5 DEF RunReturns, ResetWork, StopContext, JoinThread, ThreadInv
    <2> QED BY <2>2, <2>5, <2>6 DEF RestInv
  <1>6. ASSUME DestroyContext PROVE RestInv'
    <2>1. TypeOK'
      BY <1>0, <1>6 DEF DestroyContext, TypeOK, results
    <2>2. CompletionInv'
      BY <1>0, <1>6 DEF DestroyContext, CompletionInv, results, Stages
    <2>3. ThreadInv'
      BY <1>0, <1>6 DEF DestroyContext, ThreadInv
    <2> QED BY <2>1, <2>2, <2>3 DEF RestInv
  <1>7. ASSUME UNCHANGED vars PROVE RestInv'
    BY <1>0, <1>7 DEF vars, RestInv, TypeOK, CompletionInv, ThreadInv, sessions, results
  <1> QED BY <1>1, <1>2, <1>3, <1>4, <1>5, <1>6, <1>7

\* Every step keeps the invariant.
LEMMA RestStep == RestInv /\ [Next]_vars => RestInv'
  <1> SUFFICES ASSUME RestInv, [Next]_vars PROVE RestInv'
    OBVIOUS
  <1>0. waiting \in [Threads -> Requests \cup {NoRequest}]
    BY DEF RestInv, TypeOK
  <1>1. ASSUME NEW t \in Threads, NEW r \in Requests, signAndSend(t, r) PROVE RestInv'
    BY <1>0, <1>1, IssueInv DEF signAndSend
  <1>2. ASSUME NEW t \in Threads, NEW r \in Requests, signAndSendSync(t, r) PROVE RestInv'
    <2>1. waiting' \in [Threads -> Requests \cup {NoRequest}]
      BY <1>0, <1>2 DEF signAndSendSync
    <2> QED BY <1>2, <2>1, IssueInv DEF signAndSendSync
  <1> QED BY <1>1, <1>2, HandlersInv, OtherStepsInv DEF Next, Terminated

\* The invariant of the REST client: the stage of a session tells whether its
\* request has been completed.
THEOREM RestInvariant == Spec => []RestInv
  BY RestInit, RestStep, PTL DEF Spec

\* Every variable keeps its type; onComplete_ is called at most once.
THEOREM RestTypeCorrect == Spec => []TypeOK
  <1>1. RestInv => TypeOK
    BY DEF RestInv
  <1> QED BY <1>1, RestInvariant, PTL
-----------------------------------------------------------------------------
\* The refinement mapping as one function and one value.
OutcomeMap == [r \in Requests |-> Outcome(r)]
ClientMap == IF dtor = "none" THEN "open" ELSE IF dtor = "gone" THEN "closed" ELSE "closing"

\* A step that leaves the stage classes, the results and the destructor alone
\* is invisible.
LEMMA Invisible ==
  ASSUME UNCHANGED <<dtor, completions, result>>,
         \A r \in Requests : stage[r] = "unused" <=> stage'[r] = "unused"
  PROVE  UNCHANGED <<OutcomeMap, ClientMap>>
  BY DEF OutcomeMap, ClientMap, Outcome

\* The completion of one request that was pending is Contract's Complete.
LEMMA CompletionVisible ==
  ASSUME RestInv, NEW r \in Requests, NEW s \in Stages, Handler(r, s),
         NEW o \in {"message", "rateLimited", "error"}, onComplete(r, o),
         NEW d \in {"delivering", "shutdown", "released"},
         stage' = [stage EXCEPT ![r] = d]
  PROVE  Contract!Complete(r)
  <1>0. TypeOK /\ CompletionInv /\ ThreadInv
    BY DEF RestInv
  <1>1. dtor # "gone" /\ dtor' = dtor
    BY <1>0 DEF Handler, ThreadInv
  <1>2. completions[r] = 0 /\ stage[r] # "unused"
    BY <1>0 DEF Handler, CompletionInv, Stages
  <1>3. OutcomeMap[r] = "pending"
    BY <1>1, <1>2 DEF OutcomeMap, Outcome
  <1>4. OutcomeMap' = [OutcomeMap EXCEPT ![r] = o]
    <2>1. ASSUME NEW q \in Requests, q # r PROVE Outcome(q)' = Outcome(q)
      BY <1>0, <1>1, <2>1 DEF Outcome, onComplete, TypeOK
    <2>2. Outcome(r)' = o
      BY <1>0, <1>2 DEF Outcome, onComplete, TypeOK
    <2> QED BY <2>1, <2>2 DEF OutcomeMap
  <1>5. ClientMap # "closed" /\ UNCHANGED ClientMap
    BY <1>1 DEF ClientMap
  <1> QED BY <1>3, <1>4, <1>5 DEF Contract!Complete, Contract!Outcomes, OutcomeMap, ClientMap

\* A new session is Contract's Issue.
LEMMA IssueVisible ==
  ASSUME RestInv, NEW t \in Threads, NEW r \in Requests, NEW k \in {"sync", "async"},
         MayCall(t), Issue(r, k)
  PROVE  Contract!Issue(r)
  <1>0. TypeOK /\ CompletionInv /\ ThreadInv
    BY DEF RestInv
  <1>1. dtor # "gone" /\ dtor' = dtor
    BY <1>0 DEF MayCall, Issue, ThreadInv
  <1>2. completions[r] = 0 /\ stage[r] = "unused" /\ UNCHANGED <<completions, result>>
    BY <1>0 DEF Issue, CompletionInv, results
  <1>3. stage' = [stage EXCEPT ![r] = "resolve"]
    BY DEF Issue
  <1>4. OutcomeMap' = [OutcomeMap EXCEPT ![r] = "pending"]
    <2>1. ASSUME NEW q \in Requests, q # r PROVE Outcome(q)' = Outcome(q)
      BY <1>0, <1>1, <1>2, <1>3, <2>1 DEF Outcome, TypeOK
    <2>2. Outcome(r)' = "pending"
      BY <1>0, <1>1, <1>2, <1>3 DEF Outcome, TypeOK
    <2> QED BY <2>1, <2>2 DEF OutcomeMap
  <1>5. ClientMap # "closed" /\ UNCHANGED ClientMap
    BY <1>1 DEF ClientMap
  <1>6. OutcomeMap[r] = "unused"
    BY <1>2 DEF OutcomeMap, Outcome
  <1> QED BY <1>4, <1>5, <1>6 DEF Contract!Issue, OutcomeMap, ClientMap

\* A handler completes its request or is invisible.
LEMMA HandlersVisible ==
  ASSUME RestInv, NEW r \in Requests, Handlers(r)
  PROVE  Contract!Complete(r) \/ UNCHANGED <<OutcomeMap, ClientMap>>
  <1>0. TypeOK
    BY DEF RestInv
  <1>1. ASSUME NEW s \in Stages, Handler(r, s), Fails(r) PROVE Contract!Complete(r)
    BY <1>1, CompletionVisible DEF Fails
  <1>2. ASSUME NEW s \in Stages, NEW next \in Stages, Handler(r, s), StartsNext(r, next)
        PROVE  UNCHANGED <<OutcomeMap, ClientMap>>
    <2>1. UNCHANGED <<dtor, completions, result>>
      BY <1>2 DEF Handler, StartsNext, results
    <2>2. \A q \in Requests : stage[q] = "unused" <=> stage'[q] = "unused"
      BY <1>0, <1>2 DEF Handler, StartsNext, TypeOK, Stages
    <2> QED BY <2>1, <2>2, Invisible
  <1>3. CASE onResolve(r) \/ onConnect(r) \/ onSslHandshake(r) \/ onWrite(r)
    BY <1>1, <1>2, <1>3 DEF onResolve, onConnect, onSslHandshake, onWrite, Stages
  <1>4. CASE onRead(r)
    <2>1. CASE Fails(r)
      BY <1>1, <1>4, <2>1 DEF onRead, Stages
    <2>2. CASE ~Fails(r)
      <3>1. PICK o \in {"message", "rateLimited"} : onComplete(r, o)
        BY <1>4, <2>2 DEF onRead
      <3>2. PICK d \in {"delivering", "shutdown"} : stage' = [stage EXCEPT ![r] = d]
        BY <1>4, <2>2 DEF onRead
      <3> QED BY <1>4, <3>1, <3>2, CompletionVisible DEF onRead, Stages
    <2> QED BY <2>1, <2>2
  <1>5. CASE onShutdown(r)
    <2>1. UNCHANGED <<dtor, completions, result>>
      BY <1>5 DEF onShutdown, Handler, results
    <2>2. \A q \in Requests : stage[q] = "unused" <=> stage'[q] = "unused"
      BY <1>0, <1>5 DEF onShutdown, Handler, TypeOK
    <2> QED BY <2>1, <2>2, Invisible
  <1> QED BY <1>3, <1>4, <1>5 DEF Handlers

\* What the destructor drops is what was pending.
LEMMA DestroyVisible ==
  ASSUME RestInv, DestroyContext
  PROVE  Contract!Close
  <1>0. TypeOK /\ CompletionInv
    BY DEF RestInv
  <1>1. ClientMap = "closing" /\ ClientMap' = "closed"
    BY DEF DestroyContext, ClientMap
  <1>2. ASSUME NEW r \in Requests
        PROVE  Outcome(r)' = IF Outcome(r) = "pending" THEN "dropped" ELSE Outcome(r)
    <2>1. UNCHANGED <<completions, result>> /\ dtor = "joined" /\ dtor' = "gone"
      BY DEF DestroyContext, results
    <2>2. stage'[r] = "unused" <=> stage[r] = "unused"
      BY DEF DestroyContext
    <2>3. completions[r] \in {0, 1}
      BY <1>0 DEF TypeOK
    <2>4. completions[r] = 1 => result[r] \in {"message", "rateLimited", "error"}
      BY <1>0 DEF TypeOK, CompletionInv
    <2> QED BY <2>1, <2>2, <2>3, <2>4 DEF Outcome
  <1>3. OutcomeMap' = [r \in Requests |->
                         IF OutcomeMap[r] = "pending" THEN "dropped" ELSE OutcomeMap[r]]
    BY <1>2 DEF OutcomeMap
  <1> QED BY <1>1, <1>3 DEF Contract!Close, OutcomeMap, ClientMap

\* The REST client implements its contract: exactly one outcome per request,
\* none after the destructor.
THEOREM ImplementsContract == Spec => RefinesContract
  <1>1. Init => Contract!Init
    BY DEF Init, Contract!Init, Outcome
  <1>2. RestInv /\ [Next]_vars => [Contract!Next]_<<OutcomeMap, ClientMap>>
    <2> SUFFICES ASSUME RestInv, [Next]_vars
                 PROVE  Contract!Next \/ UNCHANGED <<OutcomeMap, ClientMap>>
      OBVIOUS
    <2>0. TypeOK
      BY DEF RestInv
    <2>1. ASSUME NEW t \in Threads, NEW r \in Requests,
                 signAndSend(t, r) \/ signAndSendSync(t, r)
          PROVE  Contract!Issue(r)
      BY <2>1, IssueVisible DEF signAndSend, signAndSendSync
    <2>2. ASSUME NEW t \in Threads, SyncReturns(t) PROVE UNCHANGED <<OutcomeMap, ClientMap>>
      BY <2>2, Invisible DEF SyncReturns, sessions, results
    <2>3. ASSUME NEW r \in Requests, NEW outcome \in {"ok", "failed"}, OperationEnds(r, outcome)
          PROVE  UNCHANGED <<OutcomeMap, ClientMap>>
      BY <2>3, Invisible DEF OperationEnds, results
    <2>4. ASSUME NEW r \in Requests, Expires(r) PROVE UNCHANGED <<OutcomeMap, ClientMap>>
      BY <2>4, Invisible DEF Expires, results
    <2>5. CASE CallbackReturns
      <3>1. \A q \in Requests : stage[q] = "unused" <=> stage'[q] = "unused"
        BY <2>0, <2>5 DEF CallbackReturns, TypeOK
      <3> QED BY <2>5, <3>1, Invisible DEF CallbackReturns, results
    <2>6. CASE RunReturns
      BY <2>6, Invisible DEF RunReturns, sessions, results
    <2>7. CASE ResetWork
      <3>1. ClientMap = "open" /\ ClientMap' = "closing"
        BY <2>7 DEF ResetWork, ClientMap
      <3>2. UNCHANGED OutcomeMap
        BY <2>7 DEF ResetWork, sessions, results, OutcomeMap, Outcome
      <3> QED BY <3>1, <3>2 DEF Contract!Next, Contract!BeginClose, OutcomeMap, ClientMap
    <2>8. CASE StopContext \/ JoinThread
      BY <2>8 DEF StopContext, JoinThread, sessions, results, OutcomeMap, ClientMap, Outcome
    <2>9. CASE DestroyContext
      BY <2>9, DestroyVisible DEF Contract!Next
    <2>10. CASE UNCHANGED vars
      BY <2>10, Invisible DEF vars, sessions, results
    <2> QED BY <2>1, <2>2, <2>3, <2>4, <2>5, <2>6, <2>7, <2>8, <2>9, <2>10, HandlersVisible
            DEF Next, Terminated, Contract!Next
  <1> QED BY <1>1, <1>2, RestInvariant, PTL
        DEF Spec, RefinesContract, Contract!Spec, OutcomeMap, ClientMap
=============================================================================
