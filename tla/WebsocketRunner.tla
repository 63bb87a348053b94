--------------------------- MODULE WebsocketRunner ---------------------------
(***************************************************************************)
(* internal::WebsocketRunner (src/websocket/WebsocketRunner.{h,cpp}): one   *)
(* websocket connection that reconnects by itself, driven by handlers that  *)
(* one IO thread runs from an io_context, and by an application thread that *)
(* sends messages and finally calls WebsocketApi::stop().                   *)
(*                                                                         *)
(* A handler runs to completion on the IO thread, so a handler is one       *)
(* action.  What a handler starts (an asynchronous operation, a timer, a    *)
(* posted lambda) completes in a later action.  Operations are COUNTED, not *)
(* collected in a set, so that starting a second async_write beside an      *)
(* unfinished one is visible.                                              *)
(*                                                                         *)
(* A timer, or a read, completes in two steps: first its handler becomes    *)
(* ready, later it runs.  cancel() reaches only what is not ready yet.      *)
(*                                                                         *)
(* Left out: the text of messages, TLS and HTTP details, logging.  The      *)
(* three unsynchronised accesses of stop() to the timers and to ws_ are     *)
(* modelled as atomic steps of the application thread.                     *)
(***************************************************************************)
EXTENDS Integers, Sequences

CONSTANTS
    MaxSends,     \* bound: number of messages the application sends
    AttemptCap,   \* bound: reconnectAttempts_ stops counting here
    QueueBound    \* bound: queue length up to which unsolicited pong frames come

ASSUME BoundsAssumption ==
    /\ MaxSends \in Nat
    /\ AttemptCap \in Nat \ {0}
    /\ QueueBound \in Nat

MAX_BACKOFF_SECS == 60
PING_INTERVAL_SECS == 30
\* Wrong variant: the pong timeout is not shorter than the ping interval.
SlowPongTimeout == 30

PONG_TIMEOUT_SECS == 10

\* What can be posted to the executor or wait in writeQueue_: the message
\* number m of the application, the ping message, and the doClose lambda.
Sends == 1 .. MaxSends
Ping == 0
Close == -1

\* The stages of a connection attempt, each an asynchronous operation.
Stages == {"resolve", "connect", "ssl", "handshake"}

\* Asynchronous operations.  "read" waits for the network, "readData" and
\* "readFail" are reads whose handler is ready; "oldRead" and "oldWrite" are
\* operations of a stream that doReconnect has closed and replaced.
OpKinds == Stages \cup
    {"read", "readData", "readFail", "write", "close", "oldRead", "oldWrite"}

VARIABLES
    user,              \* where the application thread is in WebsocketApi::stop()
    io,                \* the IO thread: "idle" (no thread), "spawned",
                       \* "running" (in ioc_.run()), "done"
    connected, stopping, writing, writeQueue,
    reconnectTimer,    \* reconnectTimer_ is waiting
    reconnectFired,    \* expired, handler ready: no longer cancellable
    reconnectAttempts,
    delaySecs,         \* delay of the last scheduleReconnect()
    pingTimer,         \* pingTimer_ is waiting
    pingFired,
    pendingPong,
    pongAge,           \* lower bound of now() - lastPongTime_, in seconds
    posted,            \* lambdas posted to the executor, in order
    ops,               \* number of unfinished operations of every kind
    sent,              \* number of send() calls so far
    owed,              \* the server has been sent a ping and has not answered it
    \* History, read by properties only:
    notified,          \* onWsConnected calls minus onWsDisconnected calls
    wired,             \* application messages written to a connection, in order
    offline,           \* a message was queued while there was no connection
    closed             \* the application was told of the orderly close

flags == <<connected, stopping, writing>>
reconnect == <<reconnectTimer, reconnectFired, reconnectAttempts, delaySecs>>
ping == <<pingTimer, pingFired, pendingPong, pongAge>>
history == <<notified, wired, offline, closed>>
vars == <<user, io, flags, writeQueue, reconnect, ping, posted, ops, sent, owed, history>>

Init ==
    /\ user = "active" /\ io = "idle"
    /\ connected = FALSE /\ stopping = FALSE /\ writing = FALSE
    /\ writeQueue = <<>> /\ posted = <<>>
    /\ reconnectTimer = FALSE /\ reconnectFired = 0
    /\ reconnectAttempts = 0 /\ delaySecs = 0
    /\ pingTimer = FALSE /\ pingFired = 0
    /\ pendingPong = FALSE /\ pongAge = 0
    /\ ops = [k \in OpKinds |-> 0]
    /\ sent = 0 /\ owed = FALSE
    /\ notified = 0 /\ wired = <<>> /\ offline = FALSE /\ closed = FALSE

-----------------------------------------------------------------------------
\* Operations are started and finished by counting.
Finish(k) == [ops EXCEPT ![k] = @ - 1]
Replace(k, l) == [ops EXCEPT ![k] = @ - 1, ![l] = @ + 1]

Count(flag) == IF flag THEN 1 ELSE 0

\* Connection attempts in progress, waits for the next attempt, reads of the
\* current stream.
Attempts == ops["resolve"] + ops["connect"] + ops["ssl"] + ops["handshake"]
ReconnectWaits == Count(reconnectTimer) + reconnectFired
Reads == ops["read"] + ops["readData"] + ops["readFail"]

\* No handler is ready to run.  Timers last seconds and the io_context runs
\* ready handlers first come, first served: whatever was ready when a timer
\* was started has run before the timer's own handler does.
Quiet ==
    /\ posted = <<>>
    /\ reconnectFired = 0 /\ pingFired = 0
    /\ \A k \in {"readData", "readFail", "oldRead", "oldWrite"} : ops[k] = 0

\* ioc_.run() returns when nothing is left to wait for.
NoWork ==
    /\ posted = <<>>
    /\ ~reconnectTimer /\ reconnectFired = 0
    /\ ~pingTimer /\ pingFired = 0
    /\ \A k \in OpKinds : ops[k] = 0

\* Wrong variant: no ceiling.
BackoffUnlimited(attempts) == 2 ^ (IF attempts < 16 THEN attempts ELSE 16)

Backoff(attempts) ==
    LET shifted == 2 ^ (IF attempts < 16 THEN attempts ELSE 16)
    IN  IF shifted < MAX_BACKOFF_SECS THEN shifted ELSE MAX_BACKOFF_SECS

\* Wrong variant: the ping timer of the lost connection keeps running.
scheduleReconnectKeepsPing ==
    /\ UNCHANGED pingTimer
    /\ reconnectTimer' = TRUE
    /\ reconnectAttempts' = IF reconnectAttempts < AttemptCap
                            THEN reconnectAttempts + 1
                            ELSE AttemptCap
    /\ delaySecs' = Backoff(reconnectAttempts')

\* Changes pingTimer, reconnectTimer, reconnectAttempts and delaySecs.
scheduleReconnect ==
    IF stopping
    THEN UNCHANGED <<pingTimer, reconnectTimer, reconnectAttempts, delaySecs>>
    ELSE /\ pingTimer' = FALSE
         /\ reconnectTimer' = TRUE
         /\ reconnectAttempts' = IF reconnectAttempts < AttemptCap
                                 THEN reconnectAttempts + 1
                                 ELSE AttemptCap
         /\ delaySecs' = Backoff(reconnectAttempts')

\* Wrong variant: writes although a write is unfinished.
pushAndWriteAlways(m) ==
    /\ writeQueue' = Append(writeQueue, m)
    /\ writing' = (writing \/ connected)
    /\ ops' = [ops EXCEPT !["write"] = @ + Count(connected)]

\* Queue a message and start writing if nobody is: the body of the lambdas
\* that send() and doPing() post.
pushAndWrite(m) ==
    /\ writeQueue' = Append(writeQueue, m)
    /\ writing' = (writing \/ connected)
    /\ ops' = [ops EXCEPT !["write"] = @ + Count(connected /\ ~writing)]

\* startPingTimer(): an older timer is destroyed with its wait.
startPingTimer(isConnected) ==
    pingTimer' = IF stopping \/ ~isConnected THEN pingTimer ELSE TRUE

-----------------------------------------------------------------------------
(* The application thread. *)

\* send(): may be called before start(), and from any thread.
Send ==
    /\ user # "joined"
    /\ sent < MaxSends
    /\ sent' = sent + 1
    /\ posted' = Append(posted, sent + 1)
    /\ UNCHANGED <<user, io, flags, writeQueue, reconnect, ping, ops, owed, history>>

\* WebsocketApi::start() spawns the IO thread ...
Spawn ==
    /\ user = "active" /\ io = "idle"
    /\ io' = "spawned"
    /\ UNCHANGED <<user, flags, writeQueue, reconnect, ping, posted, ops, sent, owed, history>>

\* ... where WebsocketRunner::start() begins the first attempt and enters
\* ioc_.run(); stop() may be called before it gets there.
Start ==
    /\ io = "spawned"
    /\ io' = "running"
    /\ ops' = [ops EXCEPT !["resolve"] = @ + 1]
    /\ UNCHANGED <<user, flags, writeQueue, reconnect, ping, posted, sent, owed, history>>

\* WebsocketApi::stop() sets Impl::stopping, after which onWsMessage ignores
\* every message ...
StopFlag ==
    /\ user = "active" /\ io # "idle"
    /\ user' = "flagged"
    /\ UNCHANGED <<io, flags, writeQueue, reconnect, ping, posted, ops, sent, owed, history>>

\* ... then WebsocketRunner::stop() cancels the two timers ...
StopCancelReconnect ==
    /\ user = "flagged"
    /\ user' = "reconnectCancelled"
    /\ reconnectTimer' = FALSE
    /\ UNCHANGED <<io, flags, writeQueue, reconnectFired, reconnectAttempts, delaySecs,
                   ping, posted, ops, sent, owed, history>>

StopCancelPing ==
    /\ user = "reconnectCancelled"
    /\ user' = "pingCancelled"
    /\ pingTimer' = FALSE
    /\ UNCHANGED <<io, flags, writeQueue, reconnect, pingFired, pendingPong, pongAge,
                   posted, ops, sent, owed, history>>

\* ... and posts doClose, unless there is nobody to run it.
StopPostClose ==
    /\ user = "pingCancelled"
    /\ user' = "joining"
    /\ posted' = IF io = "done" \/ stopping THEN posted ELSE Append(posted, Close)
    /\ UNCHANGED <<io, flags, writeQueue, reconnect, ping, ops, sent, owed, history>>

Join ==
    /\ user = "joining" /\ io = "done"
    /\ user' = "joined"
    /\ UNCHANGED <<io, flags, writeQueue, reconnect, ping, posted, ops, sent, owed, history>>

-----------------------------------------------------------------------------
(* Posted lambdas. *)

RunNextPosted(task) ==
    /\ io = "running"
    /\ posted # <<>> /\ Head(posted) = task
    /\ posted' = Tail(posted)

RunSend(m) ==
    /\ RunNextPosted(m)
    /\ pushAndWrite(m)
    /\ offline' = (offline \/ ~connected)
    /\ UNCHANGED <<user, io, connected, stopping, reconnect, ping, sent, owed,
                   notified, wired, closed>>

\* Wrong variant: the ping timer is not started again.
RunPingOnce ==
    /\ RunNextPosted(Ping)
    /\ pushAndWrite(Ping)
    /\ UNCHANGED <<user, io, connected, stopping, reconnect, ping, sent, owed, history>>

RunPing ==
    /\ RunNextPosted(Ping)
    /\ pushAndWrite(Ping)
    /\ startPingTimer(connected)
    /\ UNCHANGED <<user, io, connected, stopping, reconnect, pingFired, pendingPong,
                   pongAge, sent, owed, history>>

\* doClose(): cancel() ends the waiting read with an error, but not a read
\* whose handler is ready.
doClose ==
    /\ RunNextPosted(Close)
    /\ IF ~connected \/ stopping
       THEN UNCHANGED <<stopping, pingTimer, ops>>
       ELSE /\ pingTimer' = FALSE
            /\ stopping' = TRUE
            /\ ops' = [ops EXCEPT !["read"] = 0,
                                  !["readFail"] = @ + ops["read"]]
    /\ UNCHANGED <<user, io, connected, writing, writeQueue, reconnect, pingFired,
                   pendingPong, pongAge, sent, owed, history>>

-----------------------------------------------------------------------------
(* Connection attempts.  A stage that fails schedules the next attempt. *)

AttemptFails(stage) ==
    /\ io = "running" /\ ops[stage] > 0
    /\ ops' = Finish(stage)
    /\ scheduleReconnect
    /\ UNCHANGED <<user, io, flags, writeQueue, reconnectFired, pingFired, pendingPong,
                   pongAge, posted, sent, owed, history>>

AttemptAdvances(stage, next) ==
    /\ io = "running" /\ ops[stage] > 0
    /\ ops' = Replace(stage, next)
    /\ UNCHANGED <<user, io, flags, writeQueue, reconnect, ping, posted, sent, owed, history>>

onResolve ==
    \/ AttemptFails("resolve")
    \/ AttemptAdvances("resolve", "connect")

\* Wrong variant: an error path that forgets scheduleReconnect().
onConnectGivesUp ==
    \/ /\ io = "running" /\ ops["connect"] > 0
       /\ ops' = Finish("connect")
       /\ UNCHANGED <<user, io, flags, writeQueue, reconnect, ping, posted, sent, owed,
                      history>>
    \/ AttemptAdvances("connect", "ssl")

\* The SNI error of onConnect is one more failure of this stage.
onConnect ==
    \/ AttemptFails("connect")
    \/ AttemptAdvances("connect", "ssl")

onSslHandshake ==
    \/ AttemptFails("ssl")
    \/ AttemptAdvances("ssl", "handshake")

\* The aborted operations of the replaced stream were made ready before the
\* attempt began, and an attempt takes several network round trips: their
\* handlers have run by now.
OldStreamGone == ops["oldRead"] = 0 /\ ops["oldWrite"] = 0

HandshakeOk ==
    /\ io = "running" /\ ops["handshake"] > 0 /\ OldStreamGone
    /\ reconnectTimer' = FALSE
    /\ pendingPong' = FALSE /\ pongAge' = 0
    /\ connected' = TRUE
    /\ reconnectAttempts' = 0
    /\ notified' = notified + 1
    /\ writing' = (writing \/ writeQueue # <<>>)
    /\ ops' = [ops EXCEPT !["handshake"] = @ - 1, !["read"] = @ + 1,
                          !["write"] = @ + Count(writeQueue # <<>>)]
    /\ startPingTimer(TRUE)
    /\ owed' = FALSE /\ offline' = FALSE
    /\ UNCHANGED <<user, io, stopping, writeQueue, reconnectFired, delaySecs, pingFired,
                   posted, sent, wired, closed>>

onWsHandshake ==
    \/ OldStreamGone /\ AttemptFails("handshake")
    \/ HandshakeOk

-----------------------------------------------------------------------------
(* Reading.  The network makes a waiting read ready, with a message or with *)
(* an error; onRead runs later.                                            *)

ReadCompletes(outcome) ==
    /\ io = "running" /\ ops["read"] > 0
    /\ ops' = Replace("read", outcome)
    /\ UNCHANGED <<user, io, flags, writeQueue, reconnect, ping, posted, sent, owed, history>>

\* A pong frame is handled inside the read, by the control callback.  The
\* runner sends no ping frames: one that arrives is unsolicited.
ControlPong ==
    /\ io = "running" /\ ops["read"] > 0
    /\ Len(writeQueue) <= QueueBound
    /\ pendingPong' = FALSE /\ pongAge' = 0
    /\ UNCHANGED <<user, io, flags, writeQueue, reconnect, pingTimer, pingFired, posted,
                   ops, sent, owed, history>>

\* Wrong variant: a completion is never recognised as stale.
NeverStale == FALSE

\* "Stale callback from a cancelled/replaced stream": onRead ignores it.
StaleRead == ~connected /\ ~stopping

\* onRead without error: a message on the "pong" channel reaches
\* onPongReceived() unless the application is stopping.
onReadData(isPong) ==
    /\ io = "running" /\ ops["readData"] > 0
    /\ isPong => owed
    /\ owed' = (owed /\ ~isPong)
    /\ IF StaleRead
       THEN ops' = Finish("readData") /\ UNCHANGED <<pendingPong, pongAge>>
       ELSE /\ ops' = Replace("readData", "read")
            /\ IF isPong /\ user = "active"
               THEN pendingPong' = FALSE /\ pongAge' = 0
               ELSE UNCHANGED <<pendingPong, pongAge>>
    /\ UNCHANGED <<user, io, flags, writeQueue, reconnect, pingTimer, pingFired, posted,
                   sent, history>>

\* onRead with an error, of the current stream or of a replaced one.
onReadError(k) ==
    /\ io = "running" /\ ops[k] > 0
    /\ \/ /\ StaleRead
          /\ ops' = Finish(k)
          /\ UNCHANGED <<connected, notified, pingTimer, reconnectTimer,
                         reconnectAttempts, delaySecs>>
       \/ /\ ~StaleRead /\ stopping
          /\ ops' = Replace(k, "close")
          /\ UNCHANGED <<connected, notified, pingTimer, reconnectTimer,
                         reconnectAttempts, delaySecs>>
       \/ /\ ~StaleRead /\ ~stopping
          /\ ops' = Finish(k)
          /\ notified' = notified - 1
          /\ connected' = FALSE
          /\ scheduleReconnect
    /\ UNCHANGED <<user, io, stopping, writing, writeQueue, reconnectFired, pingFired,
                   pendingPong, pongAge, posted, sent, owed, wired, offline, closed>>

\* Wrong variant: accounts for a read that onRead has already finished.
onClosedEndsRead ==
    /\ io = "running" /\ ops["close"] > 0
    /\ ops' = [Finish("close") EXCEPT !["read"] = @ - 1]
    /\ notified' = notified - 1
    /\ connected' = FALSE
    /\ stopping' = FALSE
    /\ closed' = TRUE
    /\ UNCHANGED <<user, io, writing, writeQueue, reconnect, ping, posted, sent, owed,
                   wired, offline>>

\* Wrong variant: reconnects after the orderly close as after any other.
onClosedReconnects ==
    /\ io = "running" /\ ops["close"] > 0
    /\ ops' = Finish("close")
    /\ notified' = notified - 1
    /\ connected' = FALSE
    /\ stopping' = FALSE
    /\ closed' = TRUE
    /\ reconnectTimer' = TRUE
    /\ UNCHANGED <<user, io, writing, writeQueue, reconnectFired, reconnectAttempts,
                   delaySecs, ping, posted, sent, owed, wired, offline>>

\* The handler of async_close, with or without an error.
onClosed ==
    /\ io = "running" /\ ops["close"] > 0
    /\ ops' = Finish("close")
    /\ notified' = notified - 1
    /\ connected' = FALSE
    /\ stopping' = FALSE
    /\ closed' = TRUE
    /\ UNCHANGED <<user, io, writing, writeQueue, reconnect, ping, posted, sent, owed,
                   wired, offline>>

-----------------------------------------------------------------------------
(* Writing. *)

\* The message async_write was given, recorded when it reached the peer.
Written ==
    IF writeQueue # <<>> /\ Head(writeQueue) \in Sends
    THEN Append(wired, Head(writeQueue))
    ELSE wired

\* Wrong variant: the written message stays at the front of the queue.
onWriteOkKeepsFront ==
    /\ io = "running" /\ ops["write"] > 0
    /\ wired' = Written
    /\ UNCHANGED <<user, io, flags, writeQueue, reconnect, ping, posted, ops, sent, owed,
                   notified, offline, closed>>

onWriteOk ==
    /\ io = "running" /\ ops["write"] > 0
    /\ wired' = Written
    /\ owed' = (owed \/ (writeQueue # <<>> /\ Head(writeQueue) = Ping))
    /\ IF ~connected
       THEN ops' = Finish("write") /\ UNCHANGED <<writing, writeQueue>>
       ELSE /\ writeQueue' = Tail(writeQueue)
            /\ IF Tail(writeQueue) = <<>>
               THEN writing' = FALSE /\ ops' = Finish("write")
               ELSE writing' = TRUE /\ UNCHANGED ops
    /\ UNCHANGED <<user, io, connected, stopping, reconnect, ping, posted, sent,
                   notified, offline, closed>>

onWriteError(k) ==
    /\ io = "running" /\ ops[k] > 0
    /\ ops' = Finish(k)
    /\ writing' = IF connected THEN FALSE ELSE writing
    /\ UNCHANGED <<user, io, connected, stopping, writeQueue, reconnect, ping, posted,
                   sent, owed, history>>

-----------------------------------------------------------------------------
(* Timers. *)

ReconnectExpires ==
    /\ io = "running" /\ reconnectTimer /\ Quiet
    /\ reconnectTimer' = FALSE
    /\ reconnectFired' = reconnectFired + 1
    /\ UNCHANGED <<user, io, flags, writeQueue, reconnectAttempts, delaySecs, ping,
                   posted, ops, sent, owed, history>>

\* doReconnect(): the operations of the old stream are aborted, everything
\* queued is dropped, and a new stream begins an attempt.
doReconnect ==
    /\ reconnectTimer' = FALSE
    /\ pendingPong' = FALSE
    /\ writing' = FALSE
    /\ writeQueue' = <<>>
    /\ offline' = FALSE
    /\ ops' = [ops EXCEPT !["read"] = 0, !["readData"] = 0, !["readFail"] = 0,
                          !["write"] = 0,
                          !["oldRead"] = @ + Reads,
                          !["oldWrite"] = @ + ops["write"],
                          !["resolve"] = @ + 1]

onReconnectTimer ==
    /\ io = "running" /\ reconnectFired > 0
    /\ reconnectFired' = reconnectFired - 1
    /\ IF stopping \/ connected
       THEN UNCHANGED <<reconnectTimer, pendingPong, writing, writeQueue, offline, ops>>
       ELSE doReconnect
    /\ UNCHANGED <<user, io, connected, stopping, reconnectAttempts, delaySecs, pingTimer,
                   pingFired, pongAge, posted, sent, owed, notified, wired, closed>>

PingExpires ==
    /\ io = "running" /\ pingTimer /\ Quiet
    /\ pingTimer' = FALSE
    /\ pingFired' = pingFired + 1
    /\ pongAge' = PING_INTERVAL_SECS
    /\ UNCHANGED <<user, io, flags, writeQueue, reconnect, pendingPong, posted, ops,
                   sent, owed, history>>

\* Wrong variant: connected_ is left set.
PongTimeoutStaysConnected ==
    /\ notified' = notified - 1
    /\ scheduleReconnect
    /\ UNCHANGED <<connected, pendingPong, posted>>

PongTimeout ==
    /\ connected' = FALSE
    /\ notified' = notified - 1
    /\ scheduleReconnect
    /\ UNCHANGED <<pendingPong, posted>>

SendPing ==
    /\ pendingPong' = TRUE
    /\ posted' = Append(posted, Ping)
    /\ UNCHANGED <<connected, notified, pingTimer, reconnectTimer, reconnectAttempts,
                   delaySecs>>

doPing == IF pendingPong /\ pongAge > PONG_TIMEOUT_SECS THEN PongTimeout ELSE SendPing

onPingTimer ==
    /\ io = "running" /\ pingFired > 0
    /\ pingFired' = pingFired - 1
    /\ IF stopping \/ ~connected
       THEN UNCHANGED <<connected, notified, pingTimer, reconnectTimer, reconnectAttempts,
                        delaySecs, pendingPong, posted>>
       ELSE doPing
    /\ UNCHANGED <<user, io, stopping, writing, writeQueue, reconnectFired, pongAge, ops,
                   sent, owed, wired, offline, closed>>

-----------------------------------------------------------------------------
RunReturns ==
    /\ io = "running" /\ NoWork
    /\ io' = "done"
    /\ UNCHANGED <<user, flags, writeQueue, reconnect, ping, posted, ops, sent, owed, history>>

\* stop() has returned: nothing happens any more.
Terminated == user = "joined" /\ UNCHANGED vars

Application ==
    \/ Send \/ Spawn \/ StopFlag \/ StopCancelReconnect \/ StopCancelPing
    \/ StopPostClose \/ Join

Network ==
    \/ ControlPong
    \/ \E outcome \in {"readData", "readFail"} : ReadCompletes(outcome)

IoThread ==
    \/ Start
    \/ \E m \in Sends : RunSend(m)
    \/ RunPing \/ doClose
    \/ onResolve \/ onConnect \/ onSslHandshake \/ onWsHandshake
    \/ \E isPong \in BOOLEAN : onReadData(isPong)
    \/ \E k \in {"readFail", "oldRead"} : onReadError(k)
    \/ onClosed
    \/ onWriteOk
    \/ \E k \in {"write", "oldWrite"} : onWriteError(k)
    \/ ReconnectExpires \/ onReconnectTimer
    \/ PingExpires \/ onPingTimer
    \/ RunReturns

Next == Application \/ Network \/ IoThread \/ Terminated

Spec == Init /\ [][Next]_vars

-----------------------------------------------------------------------------
(* Fairness.  ioc_.run() runs every ready handler and every timer expires   *)
(* (weak fairness of the handlers; strong fairness of the expirations,      *)
(* which Quiet only delays); the application thread goes on once it is      *)
(* inside stop().  resolve, connect and the TLS handshake have deadlines    *)
(* (expires_after), so they complete.  After the TLS handshake onSslHandshake*)
(* calls expires_never() and sets no timeout on the websocket stream: the   *)
(* upgrade, a write and the close complete only if the server goes on, and  *)
(* nothing is assumed of them.  NetworkRecovers says that the network does  *)
(* not fail for ever what it answers: not every attempt, and not every      *)
(* upgrade that completes at all.                                          *)

Handlers ==
    /\ WF_vars(Start)
    /\ WF_vars(\E m \in Sends : RunSend(m)) /\ WF_vars(RunPing) /\ WF_vars(doClose)
    /\ WF_vars(onResolve) /\ WF_vars(onConnect) /\ WF_vars(onSslHandshake)
    /\ WF_vars(\E isPong \in BOOLEAN : onReadData(isPong))
    /\ WF_vars(\E k \in {"readFail", "oldRead"} : onReadError(k))
    /\ WF_vars(onWriteError("oldWrite"))
    /\ SF_vars(ReconnectExpires) /\ WF_vars(onReconnectTimer)
    /\ SF_vars(PingExpires) /\ WF_vars(onPingTimer)
    /\ WF_vars(RunReturns)

StopProceeds ==
    WF_vars(StopCancelReconnect \/ StopCancelPing \/ StopPostClose \/ Join)

NetworkRecovers ==
    /\ SF_vars(AttemptAdvances("resolve", "connect"))
    /\ SF_vars(AttemptAdvances("connect", "ssl"))
    /\ SF_vars(AttemptAdvances("ssl", "handshake"))
    /\ []<><<onWsHandshake>>_vars => []<><<HandshakeOk>>_vars

FairSpec == Spec /\ Handlers /\ StopProceeds /\ NetworkRecovers

-----------------------------------------------------------------------------
(* Properties. *)

Queueable == Sends \cup {Ping}

FlagsOK ==
    /\ connected \in BOOLEAN /\ stopping \in BOOLEAN /\ writing \in BOOLEAN
    /\ reconnectTimer \in BOOLEAN /\ pingTimer \in BOOLEAN /\ pendingPong \in BOOLEAN
    /\ owed \in BOOLEAN /\ offline \in BOOLEAN /\ closed \in BOOLEAN

NumbersOK ==
    /\ user \in {"active", "flagged", "reconnectCancelled", "pingCancelled",
                 "joining", "joined"}
    /\ io \in {"idle", "spawned", "running", "done"}
    /\ reconnectFired \in Nat /\ pingFired \in Nat
    /\ reconnectAttempts \in 0 .. AttemptCap
    /\ pongAge \in {0, PING_INTERVAL_SECS}
    /\ ops \in [OpKinds -> Nat]
    /\ sent \in 0 .. MaxSends
    /\ notified \in Int

QueuesOK ==
    /\ writeQueue \in Seq(Queueable)
    /\ posted \in Seq(Queueable \cup {Close})
    /\ wired \in Seq(Sends)

\* The values every variable of the runner may take; delaySecs is left to
\* BackoffDoubles.
TypeOK == FlagsOK /\ NumbersOK /\ QueuesOK

\* The runner does one thing at a time: a connection attempt, a wait for the
\* next attempt, or a connection with its one read loop (or its one close).
\* scheduleReconnect, doReconnect and onWsHandshake never start one of these
\* while another is still going on.
OneActivity ==
    /\ Attempts + ReconnectWaits + Count(connected) <= 1
    /\ connected => Reads + ops["close"] = 1
    /\ ~connected => ops["close"] = 0
    /\ stopping => connected

\* Until the application calls stop(), a started runner always has a
\* connection, an attempt or a wait: no error path forgets to go on.
NeverStalls ==
    (io = "running" /\ user \in {"active", "flagged"}) =>
        Attempts + ReconnectWaits + Count(connected) = 1

\* At most one async_write of the stream at a time (a Beast requirement), also
\* when onWsHandshake writes without looking at writing_, and the message it
\* refers to stays in writeQueue_ meanwhile.
OneWrite ==
    /\ ops["write"] <= 1
    /\ ops["write"] = 1 => writing /\ writeQueue # <<>>
    /\ connected /\ writing => ops["write"] = 1

\* The listener sees onConnected and onDisconnected in turn: a late error of a
\* read that outlived its connection (pong timeout) is not reported again.
CallbacksAlternate == notified = Count(connected)

\* Application messages reach the peer in the order of the send() calls and at
\* most once, over all connections.
WiredInOrder == \A i, j \in DOMAIN wired : i < j => wired[i] < wired[j]

PingPosted == \E i \in DOMAIN posted : posted[i] = Ping

\* There is one keep-alive cycle (the timer, its handler, or the posted ping),
\* and while the application has not stopped a live connection never lacks it.
OneKeepAlive ==
    LET cycles == Count(pingTimer) + pingFired + Count(PingPosted)
    IN  /\ \A i, j \in DOMAIN posted : posted[i] = Ping /\ posted[j] = Ping => i = j
        /\ cycles <= 1
        /\ connected /\ user \in {"active", "flagged", "reconnectCancelled"}
             => cycles = 1

\* After the orderly close the runner never connects, or tries to, again.
ClosedForGood == closed => ~connected /\ Attempts + ReconnectWaits = 0

\* doPing never sends a second ping while the first is unanswered: it declares
\* the connection dead instead.
NoPingWhileUnanswered ==
    [][posted' = Append(posted, Ping) => ~pendingPong]_vars

\* The delay before an attempt doubles from 2 s up to 60 s, and starts over
\* after every successful connection, however that connection ended.
BackoffDoubles ==
    [][(~reconnectTimer /\ reconnectTimer') =>
         IF connected \/ delaySecs = 0 THEN delaySecs' = 2
         ELSE delaySecs' = IF 2 * delaySecs < MAX_BACKOFF_SECS
                           THEN 2 * delaySecs ELSE MAX_BACKOFF_SECS]_vars

\* A runner that is not being stopped gets its connection back, provided that
\* the network does not fail for ever.  One thing can keep it from that: an
\* upgrade the server never answers, which no deadline ends.
Reconnects ==
    (io = "running" /\ user = "active") ~>
        (connected \/ user # "active" \/ [](ops["handshake"] > 0))

\* A queued message does not stay behind a write that failed or hangs: some
\* later handler (at the latest the next ping's) writes again, or the pong
\* timeout gives the connection up.
Unqueued(m) == \A i \in DOMAIN writeQueue : writeQueue[i] # m

QueueMoves ==
    \A m \in Sends : (connected /\ ~Unqueued(m)) ~> (Unqueued(m) \/ user # "active")

\* Once doClose has cancelled the read, stop() returns: the close handler
\* leaves nothing in the io_context.  Only the server can hold it up, by never
\* answering the close frame or never taking the message being written.
CancelledReadEndsStop ==
    (stopping /\ ops["readFail"] > 0) ~>
        (user = "joined" \/ [](ops["close"] + ops["write"] > 0))

\* "Clear all pending state from previous connection" (WebsocketRunner.cpp:261):
\* what doReconnect drops was queued for an earlier connection.  Refuted: what
\* was queued for the next connection is dropped as well.
ClearsPreviousConnectionOnly ==
    [][(writeQueue # <<>> /\ writeQueue' = <<>> /\ ~connected) => ~offline]_vars

-----------------------------------------------------------------------------
(* The inductive invariant behind OneActivity, NeverStalls, OneWrite,       *)
(* CallbacksAlternate and ClosedForGood.                                   *)

\* Before WebsocketRunner::start() nothing is going on but send() and stop().
IdleInv ==
    io \in {"idle", "spawned"} =>
        /\ ~connected /\ ~closed /\ ~writing
        /\ ~reconnectTimer /\ reconnectFired = 0
        /\ \A k \in OpKinds : ops[k] = 0

\* An attempt has a fresh stream: nothing is read or written on it yet.  A
\* connection has none of the operations of its predecessor.
StreamInv ==
    /\ Attempts > 0 => Reads = 0 /\ ops["write"] = 0 /\ ~writing
    /\ connected => OldStreamGone
    /\ connected /\ ~stopping => ops["close"] = 0

\* doClose is posted, and what it brings about happens, only inside stop().
ClosePosted == \E i \in DOMAIN posted : posted[i] = Close

StopInv == stopping \/ closed \/ ClosePosted => user \in {"joining", "joined"}

\* What the runner is doing, and with which operations.
ConnectionInv ==
    /\ OneActivity /\ NeverStalls /\ OneWrite /\ CallbacksAlternate /\ ClosedForGood
    /\ StreamInv

IInv == TypeOK /\ ConnectionInv /\ IdleInv /\ StopInv
=============================================================================
