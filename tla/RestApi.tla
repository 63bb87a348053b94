------------------------------ MODULE RestApi ------------------------------
(***************************************************************************)
(* RestApi::Impl (src/rest/RestApi.cpp) with its HttpSessions               *)
(* (src/rest/HttpSession.cpp): application threads issue synchronous and    *)
(* asynchronous requests; one IO thread runs the handlers of every session; *)
(* the destructor stops it.                                                *)
(*                                                                         *)
(* A session is a chain of asynchronous operations, so it is in one stage   *)
(* at a time.  The operation of a stage becomes ready (through the network  *)
(* or through the stream's expiry) in one step, its handler runs in another *)
(* one; ioc.stop() comes between the two.  A handler is one step unless it  *)
(* calls the listener: then it is interrupted by the callback, which may    *)
(* itself issue requests, on the IO thread.                                *)
(*                                                                         *)
(* Left out: the body and its signature (prepareBodyForType may throw, but  *)
(* before anything is started), HTTP headers, TLS, logging.                *)
(***************************************************************************)
EXTENDS Naturals

CONSTANTS
    Requests,          \* the requests that may be issued
    Callers,           \* application threads
    IoThread,          \* the thread that runs ioc.run()
    NoRequest,
    SyncInCallbacks    \* whether callbacks call synchronous methods

ASSUME RestAssumption ==
    /\ NoRequest \notin Requests
    /\ IoThread \notin Callers
    /\ SyncInCallbacks \in BOOLEAN

VARIABLES
    dtor,          \* ~Impl(): "none", "reset", "joining", "joined", "gone"
    stopped,       \* ioc.stop() has been called
    io,            \* the IO thread: "running" or "done"
    kind,          \* per request: "sync" or "async"
    stage,         \* per request: the operation its session waits for
    ready,         \* per request: "waiting", "ok" or "failed"
    timed,         \* per request: expires_after() has been called
    waiting,       \* per thread: the request whose future it waits for
    callback,      \* the request whose callback the IO thread is in
    completions,   \* per request: how often onComplete_ was called
    result         \* per request: what it was called with last

sessions == <<kind, stage, ready, timed>>
results == <<completions, result>>
vars == <<dtor, stopped, io, sessions, waiting, callback, results>>

Threads == Callers \cup {IoThread}

\* The operations that a session waits for before its request is complete.
Stages == {"resolve", "connect", "handshake", "write", "read"}

Init ==
    /\ dtor = "none" /\ stopped = FALSE /\ io = "running"
    /\ kind = [r \in Requests |-> "async"]
    /\ stage = [r \in Requests |-> "unused"]
    /\ ready = [r \in Requests |-> "waiting"]
    /\ timed = [r \in Requests |-> FALSE]
    /\ waiting = [t \in Threads |-> NoRequest]
    /\ callback = NoRequest
    /\ completions = [r \in Requests |-> 0]
    /\ result = [r \in Requests |-> "none"]

-----------------------------------------------------------------------------
(* The threads that issue requests. *)

\* An application thread outside the library, or the IO thread in a callback.
\* Nobody calls methods of an object whose destructor has begun, except a
\* callback that the destructor has to wait for.
MayCall(t) ==
    /\ waiting[t] = NoRequest
    /\ IF t = IoThread THEN callback # NoRequest ELSE dtor = "none"

\* A session is created and run() starts to resolve the host.
Issue(r, k) ==
    /\ stage[r] = "unused"
    /\ kind' = [kind EXCEPT ![r] = k]
    /\ stage' = [stage EXCEPT ![r] = "resolve"]
    /\ UNCHANGED <<dtor, stopped, io, ready, timed, callback, results>>

signAndSend(t, r) ==
    /\ MayCall(t)
    /\ Issue(r, "async")
    /\ UNCHANGED waiting

\* Up to future.get().
signAndSendSync(t, r) ==
    /\ MayCall(t)
    /\ t = IoThread => SyncInCallbacks
    /\ Issue(r, "sync")
    /\ waiting' = [waiting EXCEPT ![t] = r]

\* future.get() returns or throws what the session's completion has set.
SyncReturns(t) ==
    /\ waiting[t] # NoRequest /\ completions[waiting[t]] > 0
    /\ waiting' = [waiting EXCEPT ![t] = NoRequest]
    /\ UNCHANGED <<dtor, stopped, io, sessions, callback, results>>

-----------------------------------------------------------------------------
(* The network.  Nothing limits the time that resolving a name takes.      *)

Started(r) == stage[r] \in Stages \cup {"shutdown"} /\ ready[r] = "waiting"

OperationEnds(r, outcome) ==
    /\ dtor # "gone" /\ Started(r)
    /\ ready' = [ready EXCEPT ![r] = outcome]
    /\ UNCHANGED <<dtor, stopped, io, kind, stage, timed, waiting, callback, results>>

\* The stream's timer ends the operation it guards.
Expires(r) ==
    /\ dtor # "gone" /\ Started(r) /\ stage[r] # "resolve" /\ timed[r]
    /\ ready' = [ready EXCEPT ![r] = "failed"]
    /\ UNCHANGED <<dtor, stopped, io, kind, stage, timed, waiting, callback, results>>

-----------------------------------------------------------------------------
(* The handlers of HttpSession, on the IO thread. *)

Handler(r, s) ==
    /\ io = "running" /\ ~stopped /\ callback = NoRequest
    /\ stage[r] = s /\ ready[r] # "waiting"
    /\ UNCHANGED <<dtor, stopped, io, kind, waiting>>

\* onComplete_: the lambda of signAndSend calls the listener, the lambda of
\* signAndSendSync sets the promise.
onComplete(r, outcome) ==
    /\ completions' = [completions EXCEPT ![r] = @ + 1]
    /\ result' = [result EXCEPT ![r] = outcome]
    /\ callback' = IF kind[r] = "async" THEN r ELSE NoRequest

\* The session is not needed any more once its callback has returned.
Fails(r) ==
    /\ ready[r] = "failed"
    /\ onComplete(r, "error")
    /\ stage' = [stage EXCEPT ![r] = "released"]
    /\ UNCHANGED <<ready, timed>>

StartsNext(r, next) ==
    /\ ready[r] = "ok"
    /\ stage' = [stage EXCEPT ![r] = next]
    /\ ready' = [ready EXCEPT ![r] = "waiting"]
    /\ UNCHANGED <<callback, results>>

expires_after(r) == timed' = [timed EXCEPT ![r] = TRUE]

\* Wrong variant: the connection attempt has no time limit.
onResolveUntimed(r) ==
    /\ Handler(r, "resolve")
    /\ Fails(r) \/ (StartsNext(r, "connect") /\ UNCHANGED timed)

\* A failed SNI set-up is one more way to fail here.
onResolve(r) ==
    /\ Handler(r, "resolve")
    /\ Fails(r) \/ (StartsNext(r, "connect") /\ expires_after(r))

onConnect(r) ==
    /\ Handler(r, "connect")
    /\ Fails(r) \/ (StartsNext(r, "handshake") /\ expires_after(r))

onSslHandshake(r) ==
    /\ Handler(r, "handshake")
    /\ Fails(r) \/ (StartsNext(r, "write") /\ expires_after(r))

\* Wrong variant: no return after the error was reported.
onWriteGoesOn(r) ==
    /\ Handler(r, "write")
    /\ \/ /\ ready[r] = "failed"
          /\ onComplete(r, "error")
          /\ stage' = [stage EXCEPT ![r] = "read"]
          /\ ready' = [ready EXCEPT ![r] = "waiting"]
          /\ UNCHANGED timed
       \/ StartsNext(r, "read") /\ UNCHANGED timed

\* Wrong variant: an error ends the session silently.
onWriteSilent(r) ==
    /\ Handler(r, "write")
    /\ \/ /\ ready[r] = "failed"
          /\ stage' = [stage EXCEPT ![r] = "released"]
          /\ UNCHANGED <<ready, timed, callback, results>>
       \/ StartsNext(r, "read") /\ UNCHANGED timed

\* The time limit of the write goes on for the read.
onWrite(r) ==
    /\ Handler(r, "write")
    /\ Fails(r) \/ (StartsNext(r, "read") /\ UNCHANGED timed)

\* The shutdown follows at once, or after the callback (CallbackReturns).
onRead(r) ==
    /\ Handler(r, "read")
    /\ \/ Fails(r)
       \/ /\ ready[r] = "ok"
          /\ \E outcome \in {"message", "rateLimited"} : onComplete(r, outcome)
          /\ stage' = [stage EXCEPT ![r] =
                         IF kind[r] = "async" THEN "delivering" ELSE "shutdown"]
          /\ ready' = [ready EXCEPT ![r] = "waiting"]
          /\ expires_after(r)

onShutdown(r) ==
    /\ Handler(r, "shutdown")
    /\ stage' = [stage EXCEPT ![r] = "released"]
    /\ UNCHANGED <<ready, timed, callback, results>>

\* The listener returns to the handler that called it; onRead goes on with
\* the shutdown.
CallbackReturns ==
    /\ callback # NoRequest /\ waiting[IoThread] = NoRequest
    /\ callback' = NoRequest
    /\ stage' = [stage EXCEPT ![callback] = IF @ = "delivering" THEN "shutdown" ELSE @]
    /\ UNCHANGED <<dtor, stopped, io, kind, ready, timed, waiting, results>>

\* The work guard keeps ioc.run() going without requests.
RunReturns ==
    /\ io = "running" /\ callback = NoRequest
    /\ \/ stopped
       \/ dtor = "reset" /\ \A r \in Requests : stage[r] \in {"unused", "released"}
    /\ io' = "done"
    /\ UNCHANGED <<dtor, stopped, sessions, waiting, callback, results>>

-----------------------------------------------------------------------------
(* ~Impl(), when no thread is inside a method. *)

ResetWork ==
    /\ dtor = "none" /\ \A c \in Callers : waiting[c] = NoRequest
    /\ dtor' = "reset"
    /\ UNCHANGED <<stopped, io, sessions, waiting, callback, results>>

\* Wrong variant: the destructor lets the requests under way finish.
StopContextOmitted ==
    /\ dtor = "reset"
    /\ dtor' = "joining"
    /\ UNCHANGED <<stopped, io, sessions, waiting, callback, results>>

StopContext ==
    /\ dtor = "reset"
    /\ dtor' = "joining" /\ stopped' = TRUE
    /\ UNCHANGED <<io, sessions, waiting, callback, results>>

\* Wrong variant: the members are destroyed without waiting for the thread.
JoinThreadDetaches ==
    /\ dtor = "joining"
    /\ dtor' = "joined"
    /\ UNCHANGED <<stopped, io, sessions, waiting, callback, results>>

JoinThread ==
    /\ dtor = "joining" /\ io = "done"
    /\ dtor' = "joined"
    /\ UNCHANGED <<stopped, io, sessions, waiting, callback, results>>

\* With ioc go the handlers that have not run, and the sessions they hold.
DestroyContext ==
    /\ dtor = "joined"
    /\ dtor' = "gone"
    /\ stage' = [r \in Requests |-> IF stage[r] = "unused" THEN "unused" ELSE "released"]
    /\ UNCHANGED <<stopped, io, kind, ready, timed, waiting, callback, results>>

Terminated == dtor = "gone" /\ UNCHANGED vars

-----------------------------------------------------------------------------
Handlers(r) ==
    \/ onResolve(r) \/ onConnect(r) \/ onSslHandshake(r) \/ onWrite(r) \/ onRead(r)
    \/ onShutdown(r)

Next ==
    \/ \E t \in Threads, r \in Requests : signAndSend(t, r) \/ signAndSendSync(t, r)
    \/ \E t \in Threads : SyncReturns(t)
    \/ \E r \in Requests :
         \/ \E outcome \in {"ok", "failed"} : OperationEnds(r, outcome)
         \/ Expires(r)
         \/ Handlers(r)
    \/ CallbackReturns \/ RunReturns
    \/ ResetWork \/ StopContext \/ JoinThread \/ DestroyContext \/ Terminated

Spec == Init /\ [][Next]_vars

\* Threads go on, timers expire and callbacks return.  A ready handler may be
\* held up by callbacks again and again, but not for ever.
FairSpec ==
    /\ Spec
    /\ \A t \in Threads : WF_vars(SyncReturns(t))
    /\ \A r \in Requests : WF_vars(Expires(r)) /\ SF_vars(Handlers(r))
    /\ WF_vars(CallbackReturns) /\ WF_vars(RunReturns)
    /\ WF_vars(StopContext) /\ WF_vars(JoinThread) /\ WF_vars(DestroyContext)

-----------------------------------------------------------------------------
(* Properties. *)

\* Every variable keeps its type.
TypeOK ==
    /\ dtor \in {"none", "reset", "joining", "joined", "gone"} /\ stopped \in BOOLEAN
    /\ io \in {"running", "done"}
    /\ kind \in [Requests -> {"sync", "async"}]
    /\ stage \in [Requests -> Stages \cup {"unused", "delivering", "shutdown", "released"}]
    /\ ready \in [Requests -> {"waiting", "ok", "failed"}]
    /\ timed \in [Requests -> BOOLEAN]
    /\ waiting \in [Threads -> Requests \cup {NoRequest}]
    /\ callback \in Requests \cup {NoRequest}
    /\ completions \in [Requests -> 0 .. 1]
    /\ result \in [Requests -> {"none", "message", "rateLimited", "error"}]

\* What a request has come to, as its issuer sees it.
Outcome(r) ==
    IF stage[r] = "unused" THEN "unused"
    ELSE IF completions[r] = 1 THEN result[r]
    ELSE IF completions[r] # 0 THEN "completed again"
    ELSE IF dtor = "gone" THEN "dropped" ELSE "pending"

Contract == INSTANCE RestRequests WITH
    outcome <- [r \in Requests |-> Outcome(r)],
    client <- IF dtor = "none" THEN "open" ELSE IF dtor = "gone" THEN "closed" ELSE "closing"

\* Every request is completed exactly once, with one outcome, or dropped by the
\* destructor; no listener is called after the destructor.
RefinesContract == Contract!Spec

\* The one thing asked of the network, since async_resolve has no time limit:
\* the system's resolver answers.
ResolverAnswers ==
    \A r \in Requests :
        WF_vars(/\ stage[r] = "resolve"
                /\ \E outcome \in {"ok", "failed"} : OperationEnds(r, outcome))

\* "Sync methods ... block and return a typed response, or throw" (RestApi.h:28):
\* a synchronous call ends, however the network behaves.  Refuted for calls
\* from a listener's callback, which block the thread that would end them.
SyncCallsReturn ==
    ResolverAnswers =>
        \A t \in Threads : waiting[t] # NoRequest ~> waiting[t] = NoRequest

\* The listener hears of every asynchronous request, unless the client is
\* destroyed first.
AsyncCallsDelivered ==
    ResolverAnswers =>
        \A r \in Requests :
            stage[r] = "resolve" /\ kind[r] = "async" ~> completions[r] = 1 \/ dtor # "none"

\* thread.join() returns, whatever requests are under way and whether or not
\* the network, and the resolver, answer.
JoinReturns == dtor # "none" ~> dtor \in {"joined", "gone"}

-----------------------------------------------------------------------------
(* The inductive invariant behind RefinesContract: how far a session has    *)
(* come tells whether onComplete_ was called, and a joined thread is in no  *)
(* callback.                                                               *)

CompletionInv ==
    \A r \in Requests :
        /\ stage[r] \in Stages \cup {"unused"} => completions[r] = 0
        /\ stage[r] \in {"delivering", "shutdown"} => completions[r] = 1
        /\ stage[r] = "released" /\ dtor # "gone" => completions[r] = 1
        /\ completions[r] = 1 => result[r] # "none"

ThreadInv ==
    /\ dtor \in {"joined", "gone"} => io = "done"
    /\ io = "done" => callback = NoRequest

RestInv == TypeOK /\ CompletionInv /\ ThreadInv
=============================================================================
