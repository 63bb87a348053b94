---------------------------- MODULE PostRequests ----------------------------
(***************************************************************************)
(* WebsocketApi: threads call its methods.  A post is signed, numbered,       *)
(* recorded and sent (Impl::signAndSend); the exchange's answers come back on *)
(* the IO thread, where Impl::onWsMessage and handlePostChannelMessage find   *)
(* the recorded request by its id and call the listener (the parsing of the   *)
(* payload is in Messages).  subscribe() and unsubscribe() send a message and *)
(* keep nothing: the subscriptions are the exchange's, one connection long.  *)
(*                                                                         *)
(* The connection is WebsocketRunner as its users see it: a queue in order  *)
(* that is emptied before every new attempt.  Nonces are taken as           *)
(* NonceDispenser says; only their order matters, so each is one more than  *)
(* the last.  The exchange is external: it may answer in any order, repeat  *)
(* an answer, or answer something malformed.  So is the application: it keeps *)
(* what it wants to be subscribed to, changes that before it calls            *)
(* subscribe() or unsubscribe() and from one thread at a time, and subscribes *)
(* again in onConnected() (as in src/examples/ws_fills.cpp:126-130) if it has *)
(* a wish then.  onConnected() runs on the IO thread: between its look at the *)
(* wish and its subscribe() the other threads go on.                         *)
(*                                                                         *)
(* Call number n is the n-th call of all threads, and its correlationId.    *)
(***************************************************************************)
EXTENDS Naturals, Sequences, FiniteSets, Functions, Endpoints

Subscriptions == {"subscribe", "unsubscribe"}

CONSTANTS
    Callers,       \* the threads that call methods of WebsocketApi
    Types,         \* the endpoint types they call, "subscribe" and "unsubscribe"
    MaxCalls,      \* bound: number of calls
    MaxRepeats,    \* bound: requests on a connection with a second answer
    MaxLosses      \* bound: number of connections lost

ASSUME PostAssumption ==
    /\ Types \subseteq PostedTypes \cup Subscriptions
    /\ MaxCalls \in Nat /\ MaxRepeats \in Nat /\ MaxLosses \in Nat

VARIABLES
    pc,          \* per caller: "idle", "number", "record", "send"
    current,     \* per caller: the number of its current call
    calls,       \* the calls: [by, type, nonce, id]; nonce 0 if the type has none
    counter,     \* postRequestCounter
    info,        \* postRequestInfo: id -> [type, correlationId]
    lastNonce,
    link,        \* "down", "connecting" or "up"
    queue,       \* numbers of the calls whose message the runner still has to write
    inbox,       \* answers received and not handled: [of, kind]
    stopping,    \* Impl::stopping
    losses,
    \* External and history:
    wanted,      \* the subscribe() call in force, 0: none
    subscribed,  \* the exchange has the subscription
    resubscribing,  \* the subscribe() call onConnected() is about to repeat, 0: none
    overtaken,   \* the last unsubscribe() was sent while onConnected() was about
                 \* to repeat a subscribe(), and so ahead of it
    answered,    \* per call the exchange has received: its answers so far
    wired,       \* nonces in the order they reached the exchange
    lost,        \* calls whose request or answer went down with a connection
    responses,   \* raw onPostResponse callbacks: [of, correlationId, type]
    unknown,     \* calls whose answer was reported as "unknown id"
    malformed    \* calls with an answer handleable only by onMessage

wish == <<resubscribing, overtaken>>
callers == <<pc, current, calls, counter, lastNonce, wanted>>
transport == <<link, queue, losses, lost, subscribed>>
listener == <<responses, unknown, malformed>>
vars == <<callers, info, transport, wish, inbox, stopping, answered, wired, listener>>

Init ==
    /\ pc = [c \in Callers |-> "idle"] /\ current = [c \in Callers |-> 0]
    /\ calls = <<>> /\ counter = 0 /\ info = <<>> /\ lastNonce = 0
    /\ link = "connecting" /\ queue = <<>> /\ inbox = <<>> /\ losses = 0
    /\ stopping = FALSE /\ answered = <<>>
    /\ wired = <<>> /\ lost = {} /\ wanted = 0 /\ subscribed = FALSE
    /\ resubscribing = 0 /\ overtaken = FALSE
    /\ responses = <<>> /\ unknown = {} /\ malformed = {}

-----------------------------------------------------------------------------
\* The map with an entry added or overwritten.
Put(map, key, value) ==
    [k \in DOMAIN map \cup {key} |-> IF k = key THEN value ELSE map[k]]

(* signAndSend, step by step. *)

StartCall(c, type, next, nonce) ==
    /\ pc[c] = "idle" /\ Len(calls) < MaxCalls
    /\ pc' = [pc EXCEPT ![c] = next]
    /\ current' = [current EXCEPT ![c] = Len(calls) + 1]
    /\ calls' = Append(calls, [by |-> c, type |-> type, id |-> 0, nonce |-> nonce])
    /\ UNCHANGED <<counter, info, transport, wish, inbox, stopping, answered, wired, listener>>

\* Wrong variant: the nonce is the reading of a clock that may be set back.
SignWithClock(c, type) ==
    /\ type \notin Subscriptions
    /\ \E now \in 1 .. MaxCalls : lastNonce' = now /\ StartCall(c, type, "number", now)
    /\ UNCHANGED wanted

\* Signing::prepareBodyForType(): an action takes its nonce here.
Sign(c, type) ==
    /\ type \notin Subscriptions
    /\ lastNonce' = IF type \in Authenticated THEN lastNonce + 1 ELSE lastNonce
    /\ StartCall(c, type, "number", IF type \in Authenticated THEN lastNonce + 1 ELSE 0)
    /\ UNCHANGED wanted

\* Wrong variant: a read and a write in place of fetch_add; two threads that
\* race get the same number.
NumberNotCounted(c) ==
    /\ pc[c] = "number"
    /\ pc' = [pc EXCEPT ![c] = "record"]
    /\ calls' = [calls EXCEPT ![current[c]].id = counter]
    /\ counter' = IF \E d \in Callers \ {c} : pc[d] = "number"
                  THEN counter ELSE counter + 1
    /\ UNCHANGED <<current, lastNonce, wanted, info, transport, wish, inbox, stopping, answered,
                   wired, listener>>

\* postRequestCounter.fetch_add(1)
Number(c) ==
    /\ pc[c] = "number"
    /\ pc' = [pc EXCEPT ![c] = "record"]
    /\ calls' = [calls EXCEPT ![current[c]].id = counter]
    /\ counter' = counter + 1
    /\ UNCHANGED <<current, lastNonce, wanted, info, transport, wish, inbox, stopping, answered,
                   wired, listener>>

\* Wrong variant: only the signed actions are recorded.
RecordActions(c) ==
    LET call == calls[current[c]]
    IN  /\ pc[c] = "record"
        /\ pc' = [pc EXCEPT ![c] = "send"]
        /\ info' = IF call.type \in Authenticated
                   THEN Put(info, call.id, [type |-> call.type, correlationId |-> current[c]])
                   ELSE info
        /\ UNCHANGED <<current, calls, counter, lastNonce, wanted, transport, wish, inbox,
                       stopping, answered, wired, listener>>

\* Under the mutex: postRequestInfo[id] = {type, correlationId}.
Record(c) ==
    LET call == calls[current[c]]
    IN  /\ pc[c] = "record"
        /\ pc' = [pc EXCEPT ![c] = "send"]
        /\ info' = Put(info, call.id, [type |-> call.type, correlationId |-> current[c]])
        /\ UNCHANGED <<current, calls, counter, lastNonce, wanted, transport, wish, inbox,
                       stopping, answered, wired, listener>>

\* An unsubscribe() queued while onConnected() is about to subscribe comes
\* before that subscribe().
Overtaken(c) ==
    IF calls[current[c]].type = "unsubscribe" THEN resubscribing # 0 ELSE overtaken

\* Wrong variant: nothing is queued while there is no connection.
SendWhenUp(c) ==
    /\ pc[c] = "send"
    /\ pc' = [pc EXCEPT ![c] = "idle"]
    /\ queue' = IF link = "up" THEN Append(queue, current[c]) ELSE queue
    /\ overtaken' = Overtaken(c)
    /\ UNCHANGED <<current, calls, counter, lastNonce, wanted, info, link, losses, lost,
                   subscribed, resubscribing, inbox, stopping, answered, wired, listener>>

Send(c) ==
    /\ pc[c] = "send"
    /\ pc' = [pc EXCEPT ![c] = "idle"]
    /\ queue' = Append(queue, current[c])
    /\ overtaken' = Overtaken(c)
    /\ UNCHANGED <<current, calls, counter, lastNonce, wanted, info, link, losses, lost,
                   subscribed, resubscribing, inbox, stopping, answered, wired, listener>>

\* One thread at a time changes what the application wants.
Subscribing == \E c \in Callers : pc[c] = "send" /\ calls[current[c]].type \in Subscriptions

\* WebsocketApi::subscribe() and unsubscribe(): only a message to send.
Subscribe(c) ==
    /\ ~Subscribing
    /\ StartCall(c, "subscribe", "send", 0)
    /\ wanted' = Len(calls) + 1
    /\ UNCHANGED lastNonce

Unsubscribe(c) ==
    /\ ~Subscribing
    /\ StartCall(c, "unsubscribe", "send", 0)
    /\ wanted' = 0
    /\ UNCHANGED lastNonce

-----------------------------------------------------------------------------
(* The connection. *)

\* Wrong variant: onConnected() is called for the first connection only.
ConnectedOnce ==
    /\ link = "connecting"
    /\ link' = "up"
    /\ resubscribing' = IF losses > 0 THEN 0 ELSE wanted
    /\ overtaken' = FALSE
    /\ UNCHANGED <<callers, info, queue, losses, lost, subscribed, inbox, stopping, answered,
                   wired, listener>>

\* onWsConnected(): the application looks at its wish in onConnected() ...
Connected ==
    /\ link = "connecting"
    /\ link' = "up"
    /\ resubscribing' = wanted
    /\ overtaken' = FALSE
    /\ UNCHANGED <<callers, info, queue, losses, lost, subscribed, inbox, stopping, answered,
                   wired, listener>>

\* ... and then subscribes again, whatever it wants by now.
SubscribeAgain ==
    /\ resubscribing # 0
    /\ queue' = Append(queue, resubscribing)
    /\ resubscribing' = 0
    /\ UNCHANGED <<callers, info, link, losses, lost, subscribed, overtaken, inbox, stopping,
                   answered, wired, listener>>

\* While onConnected() runs, the IO thread does nothing else.
IoFree == resubscribing = 0

\* A write completes and the exchange gets the message.
Write ==
    /\ link = "up" /\ IoFree /\ queue # <<>>
    /\ LET n == Head(queue)
           post == calls[n].type \notin Subscriptions
       IN  /\ answered' = IF post THEN Put(answered, n, 0) ELSE answered
           /\ wired' = IF calls[n].nonce = 0 THEN wired ELSE Append(wired, calls[n].nonce)
           /\ subscribed' = IF post THEN subscribed ELSE calls[n].type = "subscribe"
    /\ queue' = Tail(queue)
    /\ UNCHANGED <<callers, info, link, losses, lost, wish, inbox, stopping, listener>>

\* An attempt fails or a connection breaks: what the exchange has not answered,
\* and what the runner has not read, is gone, and so are the subscriptions.
Lose ==
    /\ link # "down" /\ IoFree /\ losses < MaxLosses
    /\ link' = "down" /\ losses' = losses + 1
    /\ lost' = lost \cup {n \in DOMAIN answered : answered[n] = 0}
                    \cup {inbox[i].of : i \in DOMAIN inbox}
    /\ inbox' = <<>> /\ answered' = <<>> /\ subscribed' = FALSE
    /\ UNCHANGED <<callers, info, queue, wish, stopping, wired, listener>>

\* Wrong variant: only one loss is recovered from.
ReconnectOnce ==
    /\ link = "down" /\ losses < 2
    /\ link' = "connecting"
    /\ lost' = lost \cup Range(queue)
    /\ queue' = <<>>
    /\ UNCHANGED <<callers, info, losses, subscribed, wish, inbox, stopping, answered, wired,
                   listener>>

\* doReconnect(): the queue is emptied before the new attempt.
Reconnect ==
    /\ link = "down"
    /\ link' = "connecting"
    /\ lost' = lost \cup Range(queue)
    /\ queue' = <<>>
    /\ UNCHANGED <<callers, info, losses, subscribed, wish, inbox, stopping, answered, wired,
                   listener>>

\* Kinds of answers: complete; without a payload; without a usable id.
Kinds == {"complete", "noPayload", "noId"}

Answer(n, kind) ==
    /\ \/ answered[n] = 0
       \/ answered[n] = 1 /\ Cardinality({m \in DOMAIN answered : answered[m] = 2}) < MaxRepeats
    /\ answered' = [answered EXCEPT ![n] = @ + 1]
    /\ inbox' = Append(inbox, [of |-> n, kind |-> kind])
    /\ UNCHANGED <<callers, info, transport, wish, stopping, wired, listener>>

-----------------------------------------------------------------------------
(* The IO thread. *)

\* Wrong variant: the request is not erased.
TakeInfoKeeps(id) == info

\* The map without the entry that was found.
TakeInfo(id) == Restrict(info, DOMAIN info \ {id})

\* postRequestInfo.find(id), as a set of at most one element.
FindInfo(id) == IF id \in DOMAIN info THEN {info[id]} ELSE {}

\* handlePostChannelMessage(): the entry is erased before the payload is
\* looked at; an answer that cannot be read goes to onMessage instead.
handlePostChannelMessage(message) ==
    LET id == calls[message.of].id
        found == FindInfo(id)
    IN  \/ /\ message.kind = "noId"
           /\ malformed' = malformed \cup {message.of}
           /\ UNCHANGED <<info, responses, unknown>>
        \/ /\ message.kind # "noId" /\ found = {}
           /\ unknown' = unknown \cup {message.of}
           /\ UNCHANGED <<info, responses, malformed>>
        \/ /\ message.kind = "noPayload" /\ found # {}
           /\ info' = TakeInfo(id)
           /\ malformed' = malformed \cup {message.of}
           /\ UNCHANGED <<responses, unknown>>
        \/ /\ message.kind = "complete"
           /\ \E request \in found :
                responses' = Append(responses,
                    [of |-> message.of, type |-> request.type,
                     correlationId |-> request.correlationId])
           /\ info' = TakeInfo(id)
           /\ UNCHANGED <<unknown, malformed>>

\* Impl::onWsMessage() for a message on the "post" channel.
onWsMessage ==
    /\ inbox # <<>> /\ IoFree
    /\ inbox' = Tail(inbox)
    /\ IF stopping
       THEN UNCHANGED <<info, listener>>
       ELSE handlePostChannelMessage(Head(inbox))
    /\ UNCHANGED <<callers, transport, wish, stopping, answered, wired>>

\* WebsocketApi::stop()
Stop ==
    /\ ~stopping
    /\ stopping' = TRUE
    /\ UNCHANGED <<callers, info, transport, wish, inbox, answered, wired, listener>>

-----------------------------------------------------------------------------
Calling(c) == Number(c) \/ Record(c) \/ Send(c)

Next ==
    \/ \E c \in Callers :
        \/ \E type \in Types : Sign(c, type)
        \/ Calling(c)
        \/ "subscribe" \in Types /\ Subscribe(c)
        \/ "unsubscribe" \in Types /\ Unsubscribe(c)
    \/ Connected \/ SubscribeAgain \/ Write \/ Lose \/ Reconnect
    \/ \E n \in DOMAIN answered, kind \in Kinds : Answer(n, kind)
    \/ onWsMessage \/ Stop

Spec == Init /\ [][Next]_vars

\* Threads and the IO thread go on, the runner reconnects and writes (see
\* WebsocketRunner), and the exchange answers every request at least once.
FairSpec ==
    /\ Spec
    /\ \A c \in Callers : WF_vars(Calling(c))
    /\ WF_vars(Connected) /\ WF_vars(SubscribeAgain) /\ WF_vars(Write) /\ WF_vars(Reconnect)
    /\ WF_vars(onWsMessage)
    /\ WF_vars(\E n \in DOMAIN answered, kind \in Kinds : answered[n] = 0 /\ Answer(n, kind))

-----------------------------------------------------------------------------
(* Properties. *)

\* The listener gets an answer under the correlationId and the type of the
\* call that the exchange answered, whatever the order of threads and answers.
RightCall ==
    \A i \in DOMAIN responses :
        /\ responses[i].correlationId = responses[i].of
        /\ responses[i].type = calls[responses[i].of].type

\* No call is answered twice, also when the exchange repeats an answer.
AnsweredOnce ==
    \A i, j \in DOMAIN responses :
        responses[i].correlationId = responses[j].correlationId => i = j

\* "post response with unknown id" is reported only for repeated answers: the
\* request was recorded before it was sent.
KnownIds ==
    \A n \in unknown : n \in malformed \/ \E i \in DOMAIN responses : responses[i].of = n

\* A sent request is answered, unless its connection was lost, its answer was
\* malformed, or the API was stopped.
CallsAnswered ==
    \A n \in 1 .. MaxCalls :
        (\E c \in Callers :
            current[c] = n /\ pc[c] = "send" /\ calls[n].type \notin Subscriptions)
            ~> \/ \E i \in DOMAIN responses : responses[i].of = n
               \/ n \in lost \cup malformed \/ stopping

\* The actions of one thread reach the exchange in the order of their nonces,
\* over a lost connection too.
ThreadNoncesInOrder ==
    \A i, j \in DOMAIN wired : i < j =>
        \A m, n \in DOMAIN calls :
            calls[m].nonce = wired[i] /\ calls[n].nonce = wired[j]
            /\ calls[m].by = calls[n].by => wired[i] < wired[j]

\* Once the runner has written what it has and onConnected() has returned, the
\* exchange has the subscription the application wants: neither a lost connection
\* nor a message dropped with it leaves a wanted stream dead.  A stream nobody
\* wants is alive only if the unsubscribe() that was to end it was overtaken by
\* the subscribe() of onConnected().
SubscriptionAsWanted ==
    link = "up" /\ IoFree /\ queue = <<>> /\ (\A c \in Callers : pc[c] # "send") =>
        /\ wanted # 0 => subscribed
        /\ subscribed => wanted # 0 \/ overtaken

\* A subscription the application goes on wanting is made in the end, however
\* often the connection is lost.
Resubscribed == <>[](wanted # 0) => <>[]subscribed \/ <>stopping

\* "Hyperliquid requires nonces to be non-decreasing per user" (Signing.cpp:12):
\* signed actions reach the exchange in the order of their nonces.  Refuted for
\* two calling threads.
NoncesInOrder == \A i, j \in DOMAIN wired : i < j => wired[i] <= wired[j]
=============================================================================
