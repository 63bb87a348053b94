----------------------- MODULE WebsocketTrafficProofs -----------------------
(***************************************************************************)
(* What WebsocketRunner sends, and when it tries again, for any number of   *)
(* messages: application messages go out in order, there is one keep-alive  *)
(* cycle and one unanswered ping, and the backoff doubles.  The proofs rest  *)
(* on IInv of WebsocketRunnerProofs.                                       *)
(***************************************************************************)
EXTENDS WebsocketRunnerProofs

-----------------------------------------------------------------------------
(* Messages in order. *)

\* Messages of the application (positive numbers) on their way: posted, then in
\* writeQueue_, then written.
Ascending(q) == \A i, j \in DOMAIN q : i < j /\ q[i] > 0 /\ q[j] > 0 => q[i] < q[j]

Precedes(q, r) == \A i \in DOMAIN q, j \in DOMAIN r : q[i] > 0 /\ r[j] > 0 => q[i] < r[j]

Issued(q) == \A i \in DOMAIN q : q[i] <= sent

\* What is in writeQueue_ may still be written.  When this is false a message
\* that was written as its connection died is still at the front of the queue,
\* and doReconnect drops it before the next attempt.
Live == connected \/ Attempts > 0 \/ ops["write"] > 0 \/ io \in {"idle", "spawned"}

WireInv ==
    /\ Ascending(wired) /\ Ascending(writeQueue) /\ Ascending(posted)
    /\ Precedes(writeQueue, posted) /\ Precedes(wired, posted)
    /\ Live => Precedes(wired, writeQueue)
    /\ Issued(wired) /\ Issued(writeQueue) /\ Issued(posted)

\* A queue comes to life again only empty, in doReconnect.
LEMMA LiveStep ==
  ASSUME IInv, Next, Live', ~Live
  PROVE  writeQueue' = <<>> /\ UNCHANGED <<posted, wired, sent>>
  <1>1. /\ ops \in [OpKinds -> Nat] /\ ops["write"] \in Nat
        /\ ops["resolve"] \in Nat /\ ops["connect"] \in Nat /\ ops["ssl"] \in Nat
        /\ ops["handshake"] \in Nat
    BY OpsNat DEF IInv, TypeOK, NumbersOK
  <1>2. /\ ~connected /\ io \notin {"idle", "spawned"}
        /\ ops["write"] = 0 /\ \A k \in Stages : ops[k] = 0
    BY <1>1 DEF Live, Attempts, Stages
  <1>3. CASE onReconnectTimer /\ doReconnect
    BY <1>3 DEF onReconnectTimer, doReconnect
  <1>4. CASE ~(onReconnectTimer /\ doReconnect)
    <2>0. /\ ~(ops["resolve"] > 0) /\ ~(ops["connect"] > 0) /\ ~(ops["ssl"] > 0)
          /\ ~(ops["handshake"] > 0) /\ ~(ops["write"] > 0)
      <3>1. /\ ops["resolve"] = 0 /\ ops["connect"] = 0 /\ ops["ssl"] = 0
            /\ ops["handshake"] = 0 /\ ops["write"] = 0
        BY <1>2 DEF Stages
      <3> QED BY <3>1
    <2>1. ~connected'
      <3>1. connected' = connected \/ connected' = FALSE
        BY <2>0 DEF Next, Application, Network, IoThread, Terminated, vars, flags, history,
           Send, Spawn, Start,
           StopFlag, StopCancelReconnect, StopCancelPing, StopPostClose, Join, ControlPong,
           ReadCompletes, RunNextPosted, RunSend, RunPing, doClose, onResolve, onConnect,
           onSslHandshake, onWsHandshake, AttemptFails, AttemptAdvances, HandshakeOk,
           onReadData, onReadError, onClosed, onWriteOk, onWriteError, ReconnectExpires,
           onReconnectTimer, PingExpires, onPingTimer, RunReturns, doPing, PongTimeout, SendPing
      <3> QED BY <1>2, <3>1
    <2>2. io' \notin {"idle", "spawned"}
      BY <1>2 DEF Next, Application, Network, IoThread, Terminated, vars, flags, history,
         Send, Spawn, Start,
         StopFlag, StopCancelReconnect, StopCancelPing, StopPostClose, Join, ControlPong,
         ReadCompletes, RunNextPosted, RunSend, RunPing, doClose, onResolve, onConnect,
         onSslHandshake, onWsHandshake, AttemptFails, AttemptAdvances, HandshakeOk,
         onReadData, onReadError, onClosed, onWriteOk, onWriteError, ReconnectExpires,
         onReconnectTimer, PingExpires, onPingTimer, RunReturns, doPing, PongTimeout, SendPing
    <2>3. \A m : pushAndWrite(m) => ops' = ops
      BY <1>1, <1>2 DEF pushAndWrite, Count
    <2>4. \/ ops' = ops
          \/ \E k \in OpKinds \ (Stages \cup {"write"}) : ops' = Finish(k)
          \/ \E k, l \in OpKinds \ (Stages \cup {"write"}) : ops' = Replace(k, l)
      BY <1>2, <1>4, <2>0, <2>3 DEF Stages, OpKinds, Next, Application, Network, IoThread, Terminated, vars, flags, history,
         Send, Spawn, Start,
         StopFlag, StopCancelReconnect, StopCancelPing, StopPostClose, Join, ControlPong,
         ReadCompletes, RunNextPosted, RunSend, RunPing, doClose, onResolve, onConnect,
         onSslHandshake, onWsHandshake, AttemptFails, AttemptAdvances, HandshakeOk,
         onReadData, onReadError, onClosed, onWriteOk, onWriteError, ReconnectExpires,
         onReconnectTimer, PingExpires, onPingTimer, RunReturns, doPing, PongTimeout, SendPing
    <2>5. \A k \in Stages \cup {"write"} : ops'[k] = 0
      BY <1>1, <1>2, <2>4 DEF Finish, Replace, OpKinds
    <2> QED BY <2>1, <2>2, <2>5 DEF Live, Attempts, Stages
  <1> QED BY <1>3, <1>4

\* What a step does with the messages on their way.
LEMMA WireShapes ==
  ASSUME IInv, Next
  PROVE  \/ /\ posted' = Append(posted, sent + 1) /\ sent' = sent + 1
            /\ UNCHANGED <<writeQueue, wired>>
         \/ /\ \E x \in {Ping, Close} : posted' = Append(posted, x)
            /\ UNCHANGED <<writeQueue, wired, sent>>
         \/ /\ posted # <<>> /\ posted' = Tail(posted)
            /\ \E m \in Queueable : m = Head(posted) /\ writeQueue' = Append(writeQueue, m)
            /\ UNCHANGED <<wired, sent>>
         \/ /\ posted # <<>> /\ posted' = Tail(posted)
            /\ UNCHANGED <<writeQueue, wired, sent>>
         \/ /\ ops["write"] > 0 /\ connected /\ writeQueue' = Tail(writeQueue)
            /\ wired' = Written /\ UNCHANGED <<posted, sent>>
         \/ /\ ops["write"] > 0 /\ ~connected /\ ops' = Finish("write") /\ connected' = connected
            /\ io = "running" /\ io' = io
            /\ wired' = Written /\ UNCHANGED <<posted, writeQueue, sent>>
         \/ writeQueue' = <<>> /\ UNCHANGED <<posted, wired, sent>>
         \/ UNCHANGED <<posted, writeQueue, wired, sent>>
  BY DEF Next, Application, Network, IoThread, Terminated, vars, flags, history,
     Send, Spawn, Start,
     StopFlag, StopCancelReconnect, StopCancelPing, StopPostClose, Join, ControlPong,
     ReadCompletes, RunNextPosted, RunSend, RunPing, doClose, onResolve, onConnect,
     onSslHandshake, onWsHandshake, AttemptFails, AttemptAdvances, HandshakeOk,
     onReadData, onReadError, onClosed, onWriteOk, onWriteError, ReconnectExpires,
     onReconnectTimer, PingExpires, onPingTimer, RunReturns, doPing, PongTimeout, SendPing,
     pushAndWrite, doReconnect, Queueable

\* The order of a sequence that grows at its end, and that loses its head.
LEMMA GrowsInOrder ==
  ASSUME NEW q \in Seq(Int), NEW r \in Seq(Int), NEW x \in Int
  PROVE  /\ Ascending(q) /\ Precedes(q, <<x>>) => Ascending(Append(q, x))
         /\ Precedes(q, r) /\ Precedes(<<x>>, r) => Precedes(Append(q, x), r)
         /\ Precedes(r, q) /\ Precedes(r, <<x>>) => Precedes(r, Append(q, x))
  <1> DEFINE l == Len(q) + 1
  <1>1. /\ DOMAIN Append(q, x) = DOMAIN q \cup {l} /\ Append(q, x)[l] = x
        /\ \A i \in DOMAIN q : Append(q, x)[i] = q[i] /\ i \in Nat /\ i < l
        /\ l \in Nat
    OBVIOUS
  <1>2. DOMAIN <<x>> = {1} /\ <<x>>[1] = x
    OBVIOUS
  <1>3. Precedes(q, <<x>>) => \A i \in DOMAIN q : q[i] > 0 /\ x > 0 => q[i] < x
    BY <1>2 DEF Precedes
  <1>4. Precedes(<<x>>, r) => \A i \in DOMAIN r : r[i] > 0 /\ x > 0 => x < r[i]
    BY <1>2 DEF Precedes
  <1>5. Precedes(r, <<x>>) => \A i \in DOMAIN r : r[i] > 0 /\ x > 0 => r[i] < x
    BY <1>2 DEF Precedes
  <1> HIDE DEF l
  <1>6. Ascending(q) /\ Precedes(q, <<x>>) => Ascending(Append(q, x))
    <2> SUFFICES ASSUME Ascending(q), Precedes(q, <<x>>),
                        NEW i \in DOMAIN Append(q, x), NEW j \in DOMAIN Append(q, x),
                        i < j, Append(q, x)[i] > 0, Append(q, x)[j] > 0
                 PROVE  Append(q, x)[i] < Append(q, x)[j]
      BY DEF Ascending
    <2>1. i \in DOMAIN q
      BY <1>1
    <2> QED BY <1>1, <1>3, <2>1 DEF Ascending
  <1>7. Precedes(q, r) /\ Precedes(<<x>>, r) => Precedes(Append(q, x), r)
    BY <1>1, <1>4 DEF Precedes
  <1>8. Precedes(r, q) /\ Precedes(r, <<x>>) => Precedes(r, Append(q, x))
    BY <1>1, <1>5 DEF Precedes
  <1> QED BY <1>6, <1>7, <1>8

LEMMA HeadLeaves ==
  ASSUME NEW q \in Seq(Int), q # <<>>, NEW r \in Seq(Int)
  PROVE  /\ Ascending(q) => Ascending(Tail(q)) /\ Precedes(<<Head(q)>>, Tail(q))
         /\ Precedes(q, r) => Precedes(Tail(q), r) /\ Precedes(<<Head(q)>>, r)
         /\ Precedes(r, q) => Precedes(r, Tail(q)) /\ Precedes(r, <<Head(q)>>)
  <1>1. /\ 1 \in DOMAIN q /\ q[1] = Head(q)
        /\ \A i \in DOMAIN Tail(q) :
             i + 1 \in DOMAIN q /\ Tail(q)[i] = q[i + 1] /\ i \in Nat /\ i > 0
    OBVIOUS
  <1>2. PICK x : x = Head(q)
    OBVIOUS
  <1>3. DOMAIN <<x>> = {1} /\ <<x>>[1] = x
    OBVIOUS
  <1>4. Ascending(q) => Ascending(Tail(q))
    <2> SUFFICES ASSUME Ascending(q), NEW i \in DOMAIN Tail(q), NEW j \in DOMAIN Tail(q),
                        i < j, Tail(q)[i] > 0, Tail(q)[j] > 0
                 PROVE  Tail(q)[i] < Tail(q)[j]
      BY DEF Ascending
    <2>1. i + 1 < j + 1 /\ i + 1 \in DOMAIN q /\ j + 1 \in DOMAIN q
      BY <1>1
    <2> QED BY <1>1, <2>1 DEF Ascending
  <1>5. Ascending(q) => Precedes(<<x>>, Tail(q))
    <2> SUFFICES ASSUME Ascending(q), NEW j \in DOMAIN Tail(q), x > 0, Tail(q)[j] > 0
                 PROVE  x < Tail(q)[j]
      BY <1>3 DEF Precedes
    <2>1. 1 < j + 1 /\ j + 1 \in DOMAIN q
      BY <1>1
    <2> QED BY <1>1, <1>2, <2>1 DEF Ascending
  <1>6. Precedes(q, r) => Precedes(Tail(q), r) /\ Precedes(<<x>>, r)
    BY <1>1, <1>2, <1>3 DEF Precedes
  <1>7. Precedes(r, q) => Precedes(r, Tail(q)) /\ Precedes(r, <<x>>)
    BY <1>1, <1>2, <1>3 DEF Precedes
  <1> QED BY <1>2, <1>4, <1>5, <1>6, <1>7

LEMMA IssuedElements ==
  ASSUME NEW q \in Seq(Int), NEW x \in Int, sent \in Nat
  PROVE  /\ Issued(q) /\ x <= sent => Issued(Append(q, x))
         /\ Issued(q) /\ q # <<>> => Issued(Tail(q)) /\ Head(q) <= sent
         /\ Issued(q) => Precedes(q, <<sent + 1>>)
  <1>1. \A i \in DOMAIN Append(q, x) :
            (i \in DOMAIN q /\ Append(q, x)[i] = q[i]) \/ Append(q, x)[i] = x
    OBVIOUS
  <1>2. q # <<>> => /\ 1 \in DOMAIN q /\ q[1] = Head(q)
                    /\ \A i \in DOMAIN Tail(q) : i + 1 \in DOMAIN q /\ Tail(q)[i] = q[i + 1]
    OBVIOUS
  <1>3. /\ DOMAIN <<sent + 1>> = {1} /\ <<sent + 1>>[1] = sent + 1
        /\ \A i \in DOMAIN q : q[i] \in Int
    OBVIOUS
  <1>4. Issued(q) /\ x <= sent => Issued(Append(q, x))
    BY <1>1 DEF Issued
  <1>5. Issued(q) /\ q # <<>> => Issued(Tail(q)) /\ Head(q) <= sent
    BY <1>2 DEF Issued
  <1>6. Issued(q) => Precedes(q, <<sent + 1>>)
    BY <1>3 DEF Issued, Precedes
  <1> QED BY <1>4, <1>5, <1>6

\* A step that only moves a message, or drops the queue, keeps the order.
LEMMA WireStep ==
  ASSUME IInv, WireInv, Next
  PROVE  WireInv'
  <1>1. /\ posted \in Seq(Int) /\ writeQueue \in Seq(Int) /\ wired \in Seq(Int)
        /\ sent \in Nat
    <2>1. ASSUME NEW S, S \subseteq Int, NEW q \in Seq(S) PROVE q \in Seq(Int)
      <3>1. q \in [1 .. Len(q) -> S] /\ Len(q) \in Nat
        OBVIOUS
      <3>2. q \in [1 .. Len(q) -> Int]
        BY <2>1, <3>1
      <3> QED BY <3>1, <3>2
    <2>2. Queueable \subseteq Int /\ Queueable \cup {Close} \subseteq Int /\ Sends \subseteq Int
      BY DEF Queueable, Sends, Ping, Close
    <2>3. posted \in Seq(Queueable \cup {Close}) /\ writeQueue \in Seq(Queueable) /\ wired \in Seq(Sends)
      BY DEF IInv, TypeOK, QueuesOK
    <2>4. sent \in Nat
      BY DEF IInv, TypeOK, NumbersOK
    <2> QED BY <2>1, <2>2, <2>3, <2>4
  <1>2. /\ Ascending(wired) /\ Ascending(writeQueue) /\ Ascending(posted)
        /\ Precedes(writeQueue, posted) /\ Precedes(wired, posted)
        /\ Issued(wired) /\ Issued(writeQueue) /\ Issued(posted)
        /\ Live => Precedes(wired, writeQueue)
    BY DEF WireInv
  <1>3. Live' => Live \/ (writeQueue' = <<>> /\ UNCHANGED <<posted, wired, sent>>)
    BY LiveStep
  <1>4. ops["write"] > 0 => writeQueue # <<>> /\ Live
    <2>1. ops["write"] \in Nat
      BY OpsNat DEF IInv, TypeOK
    <2> QED BY <2>1 DEF IInv, ConnectionInv, OneWrite, Live
  <1>5. CASE /\ posted' = Append(posted, sent + 1) /\ sent' = sent + 1
             /\ UNCHANGED <<writeQueue, wired>>
    <2>1. /\ Ascending(posted') /\ Precedes(writeQueue, posted') /\ Precedes(wired, posted')
      <3>1. /\ Precedes(posted, <<sent + 1>>) /\ Precedes(writeQueue, <<sent + 1>>)
            /\ Precedes(wired, <<sent + 1>>) /\ sent + 1 \in Int
        BY <1>1, <1>2, IssuedElements
      <3> QED BY <1>1, <1>2, <1>5, <3>1, GrowsInOrder
    <2>2. Issued(wired)' /\ Issued(writeQueue)' /\ Issued(posted)'
      <3>1. \A i \in DOMAIN posted' :
              (i \in DOMAIN posted /\ posted'[i] = posted[i]) \/ posted'[i] = sent + 1
        BY <1>1, <1>5
      <3>2. /\ \A i \in DOMAIN posted : posted[i] \in Int
            /\ \A i \in DOMAIN writeQueue : writeQueue[i] \in Int
            /\ \A i \in DOMAIN wired : wired[i] \in Int
        BY <1>1
      <3> QED BY <1>1, <1>2, <1>5, <3>1, <3>2 DEF Issued
    <2>3. Live' => Precedes(wired', writeQueue')
      <3>1. sent' # sent
        BY <1>1, <1>5
      <3> QED BY <1>2, <1>3, <1>5, <3>1
    <2> QED BY <1>2, <1>5, <2>1, <2>2, <2>3 DEF WireInv
  <1>6. CASE /\ \E x \in {Ping, Close} : posted' = Append(posted, x)
             /\ UNCHANGED <<writeQueue, wired, sent>>
    <2>1. PICK x \in {Ping, Close} : posted' = Append(posted, x)
      BY <1>6
    <2>2. x \in Int /\ x <= 0
      BY DEF Ping, Close
    <2>3. Precedes(posted, <<x>>) /\ Precedes(writeQueue, <<x>>) /\ Precedes(wired, <<x>>)
      BY <2>2 DEF Precedes
    <2>4. Ascending(posted') /\ Precedes(writeQueue, posted') /\ Precedes(wired, posted')
      BY <1>1, <1>2, <2>1, <2>2, <2>3, GrowsInOrder
    <2>5. x <= sent
      BY <1>1, <2>2
    <2>6. Issued(posted)'
      <3>1. Issued(posted')
        BY <1>1, <1>2, <2>1, <2>2, <2>5, IssuedElements
      <3> QED BY <1>6, <3>1 DEF Issued
    <2>7. Issued(wired)' /\ Issued(writeQueue)'
      BY <1>2, <1>6 DEF Issued
    <2>8. Live' => Precedes(wired', writeQueue')
      BY <1>2, <1>3, <1>6 DEF Precedes
    <2> QED BY <1>2, <1>6, <2>4, <2>6, <2>7, <2>8 DEF WireInv
  <1>7. CASE /\ posted # <<>> /\ posted' = Tail(posted)
             /\ \E m \in Queueable : m = Head(posted) /\ writeQueue' = Append(writeQueue, m)
             /\ UNCHANGED <<wired, sent>>
    <2>1. PICK m : m = Head(posted) /\ writeQueue' = Append(writeQueue, m) /\ m \in Int
      BY <1>7 DEF Queueable, Sends, Ping
    <2>2. /\ Ascending(Tail(posted)) /\ Precedes(<<m>>, Tail(posted))
          /\ Precedes(writeQueue, Tail(posted)) /\ Precedes(writeQueue, <<m>>)
          /\ Precedes(wired, Tail(posted)) /\ Precedes(wired, <<m>>)
      BY <1>1, <1>2, <1>7, <2>1, HeadLeaves
    <2>3. Tail(posted) \in Seq(Int) /\ Issued(Tail(posted)) /\ m <= sent
      BY <1>1, <1>2, <1>7, <2>1, IssuedElements
    <2>4. /\ Ascending(writeQueue') /\ Precedes(writeQueue', posted')
          /\ (Live => Precedes(wired, writeQueue'))
      BY <1>1, <1>2, <1>7, <2>1, <2>2, <2>3, GrowsInOrder
    <2>5. Issued(writeQueue') /\ Issued(posted')
      BY <1>1, <1>2, <1>7, <2>1, <2>3, IssuedElements
    <2>6. Issued(writeQueue)' /\ Issued(posted)' /\ Issued(wired)'
      BY <1>2, <1>7, <2>5 DEF Issued
    <2>7. Live' => Live
      <3>1. writeQueue' # <<>>
        BY <1>1, <2>1
      <3> QED BY <1>3, <3>1
    <2> QED BY <1>2, <1>7, <2>2, <2>4, <2>6, <2>7 DEF WireInv
  <1>8. CASE /\ posted # <<>> /\ posted' = Tail(posted)
             /\ UNCHANGED <<writeQueue, wired, sent>>
    <2>1. Ascending(posted') /\ Precedes(writeQueue, posted') /\ Precedes(wired, posted')
      BY <1>1, <1>2, <1>8, HeadLeaves
    <2>2. Issued(posted')
      BY <1>1, <1>2, <1>8, IssuedElements
    <2>3. Issued(posted)' /\ Issued(writeQueue)' /\ Issued(wired)'
      BY <1>2, <1>8, <2>2 DEF Issued
    <2>4. Live' => Precedes(wired', writeQueue')
      BY <1>2, <1>3, <1>8 DEF Precedes
    <2> QED BY <1>2, <1>8, <2>1, <2>3, <2>4 DEF WireInv
  <1>9. CASE writeQueue' = <<>> /\ UNCHANGED <<posted, wired, sent>>
    <2>1. /\ Ascending(writeQueue') /\ Precedes(writeQueue', posted')
          /\ Precedes(wired', writeQueue') /\ Issued(writeQueue)'
      BY <1>9 DEF Ascending, Precedes, Issued
    <2>2. Issued(posted)' /\ Issued(wired)'
      BY <1>2, <1>9 DEF Issued
    <2> QED BY <1>2, <1>9, <2>1, <2>2 DEF WireInv
  <1>10. CASE UNCHANGED <<posted, writeQueue, wired, sent>>
    <2>1. Issued(posted)' /\ Issued(writeQueue)' /\ Issued(wired)'
      BY <1>2, <1>10 DEF Issued
    <2>2. Live' => Precedes(wired', writeQueue')
      BY <1>2, <1>3, <1>10 DEF Precedes
    <2> QED BY <1>2, <1>10, <2>1, <2>2 DEF WireInv
  <1>11. CASE ops["write"] > 0 /\ wired' = Written
    <2>1. PICK m : m = Head(writeQueue)
      OBVIOUS
    <2>2. m \in Int /\ writeQueue # <<>> /\ Live
      BY <1>1, <1>4, <1>11, <2>1
    <2>3. /\ Precedes(wired, writeQueue)
          /\ Ascending(Tail(writeQueue)) /\ Precedes(<<m>>, Tail(writeQueue))
          /\ Precedes(wired, Tail(writeQueue)) /\ Precedes(wired, <<m>>)
          /\ Precedes(Tail(writeQueue), posted) /\ Precedes(<<m>>, posted)
      BY <1>1, <1>2, <2>1, <2>2, HeadLeaves
    <2>4. m <= sent /\ Issued(Tail(writeQueue)) /\ Tail(writeQueue) \in Seq(Int)
      BY <1>1, <1>2, <2>1, <2>2, IssuedElements
    <2>5. wired' = Append(wired, m) \/ wired' = wired
      BY <1>11, <2>1 DEF Written
    <2>6. /\ Ascending(wired') /\ Precedes(wired', posted) /\ Precedes(wired', Tail(writeQueue))
      <3>1. CASE wired' = Append(wired, m)
        BY <1>1, <1>2, <2>2, <2>3, <2>4, <3>1, GrowsInOrder
      <3>2. CASE wired' = wired
        BY <1>2, <2>3, <3>2
      <3> QED BY <2>5, <3>1, <3>2
    <2>7. Issued(wired')
      BY <1>1, <1>2, <2>2, <2>4, <2>5, IssuedElements
    <2>8. CASE writeQueue' = Tail(writeQueue) /\ UNCHANGED <<posted, sent>>
      <3>1. Issued(posted)' /\ Issued(writeQueue)' /\ Issued(wired)'
        BY <1>2, <2>4, <2>7, <2>8 DEF Issued
      <3> QED BY <1>2, <2>3, <2>6, <2>8, <3>1 DEF WireInv
    <2>9. CASE /\ ~connected /\ ops' = Finish("write") /\ connected' = connected
               /\ io = "running" /\ io' = io
               /\ UNCHANGED <<posted, writeQueue, sent>>
      <3>1. Issued(posted)' /\ Issued(writeQueue)' /\ Issued(wired)'
        BY <1>2, <2>7, <2>9 DEF Issued
      <3>2. ~Live'
        <4>1. ops \in [OpKinds -> Nat] /\ ops["write"] = 1 /\ Attempts = 0
          <5>1. ops["write"] \in Nat /\ Attempts \in Nat /\ ops \in [OpKinds -> Nat]
            BY OpsNat, SumsNat DEF IInv, TypeOK, NumbersOK
          <5>2. ops["write"] <= 1
            BY DEF IInv, ConnectionInv, OneWrite
          <5>3. ops["write"] = 1
            BY <1>11, <5>1, <5>2
          <5>4. ~(Attempts > 0)
            BY <5>3 DEF IInv, ConnectionInv, StreamInv
          <5> QED BY <5>1, <5>3, <5>4
        <4>2. ops'["write"] = 0 /\ \A k \in Stages : ops'[k] = ops[k]
          BY <2>9, <4>1 DEF Finish, OpKinds, Stages
        <4>3. Attempts' = 0
          BY <4>1, <4>2 DEF Attempts, Stages
        <4> QED BY <2>9, <4>2, <4>3 DEF Live
      <3> QED BY <1>2, <2>6, <2>9, <3>1, <3>2 DEF WireInv
    <2> QED BY <1>11, <2>8, <2>9, WireShapes, <1>5, <1>6, <1>7, <1>8, <1>9, <1>10
  <1> QED BY <1>5, <1>6, <1>7, <1>8, <1>9, <1>10, <1>11, WireShapes

LEMMA WireInvariant == Spec => []WireInv
  <1>1. Init => WireInv
    BY DEF Init, WireInv, Ascending, Precedes, Issued
  <1>2. IInv /\ WireInv /\ [Next]_vars => WireInv'
    <2>1. WireInv /\ UNCHANGED vars => WireInv'
      BY DEF vars, flags, history, WireInv, Ascending, Precedes, Issued, Live, Attempts
    <2> QED BY <2>1, WireStep
  <1> QED BY <1>1, <1>2, InductiveInvariant, PTL DEF Spec

\* Application messages reach the peer in the order of the send() calls and at
\* most once: what was written as a connection died is never written again.
THEOREM MessagesInOrder == Spec => []WiredInOrder
  <1>1. IInv /\ WireInv => WiredInOrder
    <2> SUFFICES ASSUME IInv, WireInv, NEW i \in DOMAIN wired, NEW j \in DOMAIN wired, i < j
                 PROVE  wired[i] < wired[j]
      BY DEF WiredInOrder
    <2>1. wired \in Seq(Sends)
      BY DEF IInv, TypeOK, QueuesOK
    <2>2. wired[i] \in Sends /\ wired[j] \in Sends
      BY <2>1
    <2> QED BY <2>2 DEF WireInv, Ascending, Sends
  <1> QED BY <1>1, WireInvariant, InductiveInvariant, PTL

-----------------------------------------------------------------------------
(* The keep-alive cycle. *)

HasPing(q) == \E i \in DOMAIN q : q[i] = Ping
OnePing(q) == \A i, j \in DOMAIN q : q[i] = Ping /\ q[j] = Ping => i = j

LEMMA PingAppended ==
  ASSUME NEW q \in Seq(Int), NEW x \in Int, OnePing(q)
  PROVE  /\ x # Ping => OnePing(Append(q, x)) /\ (HasPing(Append(q, x)) <=> HasPing(q))
         /\ x = Ping /\ ~HasPing(q) => OnePing(Append(q, x)) /\ HasPing(Append(q, x))
  <1> DEFINE l == Len(q) + 1
  <1>1. /\ DOMAIN Append(q, x) = DOMAIN q \cup {l} /\ Append(q, x)[l] = x
        /\ \A i \in DOMAIN q : Append(q, x)[i] = q[i]
    OBVIOUS
  <1> HIDE DEF l
  <1> QED BY <1>1 DEF OnePing, HasPing

LEMMA PingTaken ==
  ASSUME NEW q \in Seq(Int), q # <<>>, OnePing(q)
  PROVE  /\ OnePing(Tail(q))
         /\ Head(q) = Ping => HasPing(q) /\ ~HasPing(Tail(q))
         /\ Head(q) # Ping => (HasPing(Tail(q)) <=> HasPing(q))
  <1>1. /\ 1 \in DOMAIN q /\ q[1] = Head(q)
        /\ \A i \in DOMAIN Tail(q) :
             i + 1 \in DOMAIN q /\ Tail(q)[i] = q[i + 1] /\ i \in Nat /\ i > 0
        /\ \A i \in DOMAIN q :
             i = 1 \/ (i - 1 \in DOMAIN Tail(q) /\ Tail(q)[i - 1] = q[i])
    OBVIOUS
  <1>2. OnePing(Tail(q))
    <2> SUFFICES ASSUME NEW i \in DOMAIN Tail(q), NEW j \in DOMAIN Tail(q),
                        Tail(q)[i] = Ping, Tail(q)[j] = Ping
                 PROVE  i = j
      BY DEF OnePing
    <2>1. i + 1 = j + 1
      BY <1>1 DEF OnePing
    <2> QED BY <1>1, <2>1
  <1>3. ASSUME Head(q) = Ping, NEW i \in DOMAIN Tail(q), Tail(q)[i] = Ping PROVE FALSE
    <2>1. i + 1 = 1
      BY <1>1, <1>3 DEF OnePing
    <2> QED BY <1>1, <2>1
  <1>4. Head(q) = Ping => HasPing(q) /\ ~HasPing(Tail(q))
    BY <1>1, <1>3 DEF HasPing
  <1>5. Head(q) # Ping => (HasPing(Tail(q)) <=> HasPing(q))
    BY <1>1 DEF HasPing
  <1> QED BY <1>2, <1>4, <1>5

\* A new connection is on its way, or may be.
Renewing == Attempts > 0 \/ reconnectFired > 0 \/ io \in {"idle", "spawned"}

\* The cycle is in one place: the timer waits, its handler is ready, or the ping
\* is posted.  It runs on a live connection until stop() ends it, and has ended
\* before the next attempt begins, which starts its own.
KeepAliveInv ==
    /\ OnePing(posted) /\ pingFired <= 1
    /\ ~(pingTimer /\ pingFired = 1)
    /\ ~(pingTimer /\ PingPosted)
    /\ ~(pingFired = 1 /\ PingPosted)
    /\ connected /\ user \in {"active", "flagged", "reconnectCancelled"} =>
         pingTimer \/ pingFired = 1 \/ PingPosted
    /\ ~connected \/ stopping => ~pingTimer
    /\ Renewing => pingFired = 0 /\ ~PingPosted

LEMMA NotConnectedYet == ASSUME IInv, Renewing PROVE ~connected /\ ~stopping
  <1>1. Attempts \in Nat /\ ReconnectWaits \in Nat /\ reconnectFired \in Nat
    BY SumsNat DEF IInv, TypeOK, NumbersOK
  <1>2. Attempts + ReconnectWaits + Count(connected) <= 1 /\ (stopping => connected)
    BY DEF IInv, ConnectionInv, OneActivity
  <1>3. reconnectFired > 0 => ReconnectWaits > 0
    BY <1>1 DEF ReconnectWaits, Count
  <1>4. io \in {"idle", "spawned"} => ~connected
    BY DEF IInv, IdleInv
  <1> QED BY <1>1, <1>2, <1>3, <1>4 DEF Renewing, Count

LEMMA NoneOfFour ==
  ASSUME NEW a \in Nat, NEW b \in Nat, NEW c \in Nat, NEW d \in Nat, ~(a + b + c + d > 0)
  PROVE  a = 0 /\ b = 0 /\ c = 0 /\ d = 0
  OBVIOUS

\* Only the expiry of the reconnect timer begins this, and then every handler
\* that was ready has run.
LEMMA RenewingStep ==
  ASSUME IInv, Next, Renewing', ~Renewing
  PROVE  pingFired = 0 /\ posted = <<>> /\ UNCHANGED <<pingFired, posted>>
  <1>1. /\ ops \in [OpKinds -> Nat] /\ reconnectFired \in Nat
        /\ ops["resolve"] \in Nat /\ ops["connect"] \in Nat /\ ops["ssl"] \in Nat
        /\ ops["handshake"] \in Nat
    BY OpsNat DEF IInv, TypeOK, NumbersOK
  <1>2. /\ io \notin {"idle", "spawned"} /\ reconnectFired = 0
        /\ ops["resolve"] = 0 /\ ops["connect"] = 0 /\ ops["ssl"] = 0 /\ ops["handshake"] = 0
    <2>1. /\ io \notin {"idle", "spawned"} /\ ~(reconnectFired > 0)
          /\ ~(ops["resolve"] + ops["connect"] + ops["ssl"] + ops["handshake"] > 0)
      BY DEF Renewing, Attempts
    <2>2. ops["resolve"] = 0 /\ ops["connect"] = 0 /\ ops["ssl"] = 0 /\ ops["handshake"] = 0
      BY <1>1, <2>1, NoneOfFour, Zenon
    <2>3. reconnectFired = 0
      BY <1>1, <2>1, SMT
    <2> QED BY <2>1, <2>2, <2>3, Zenon
  <1>3. /\ ~(ops["resolve"] > 0) /\ ~(ops["connect"] > 0) /\ ~(ops["ssl"] > 0)
        /\ ~(ops["handshake"] > 0) /\ ~(reconnectFired > 0)
    BY <1>2
  <1>4. CASE ReconnectExpires
    BY <1>4 DEF ReconnectExpires, Quiet, ping
  <1>5. CASE ~ReconnectExpires
    <2> USE DEF Next, Application, Network, IoThread, Terminated, vars, flags, reconnect, history,
         Send, Spawn, Start,
         StopFlag, StopCancelReconnect, StopCancelPing, StopPostClose, Join, ControlPong,
         ReadCompletes, RunNextPosted, RunSend, RunPing, doClose, onResolve, onConnect,
         onSslHandshake, onWsHandshake, AttemptFails, AttemptAdvances, HandshakeOk,
         onReadData, onReadError, onClosed, onWriteOk, onWriteError,
         onReconnectTimer, PingExpires, onPingTimer, RunReturns, doPing, PongTimeout, SendPing
    <2>1. reconnectFired' = reconnectFired
      BY <1>3, <1>5
    <2>2. io' \notin {"idle", "spawned"}
      BY <1>2, <1>5
    <2>3. \/ ops' = ops
          \/ \E k \in OpKinds \ Stages : ops' = Finish(k)
          \/ \E k, l \in OpKinds \ Stages : ops' = Replace(k, l)
          \/ \E n : ops' = [ops EXCEPT !["write"] = n]
          \/ ops' = [ops EXCEPT !["read"] = 0, !["readFail"] = @ + ops["read"]]
      BY <1>2, <1>3, <1>5 DEF pushAndWrite, Stages, OpKinds
    <2> HIDE DEF Next
    <2>4. \A k \in Stages : ops'[k] = ops[k]
      BY <1>1, <2>3 DEF Finish, Replace, OpKinds, Stages
    <2>5. Attempts' = 0
      BY <1>2, <2>4 DEF Attempts, Stages
    <2> QED BY <1>2, <2>1, <2>2, <2>5 DEF Renewing
  <1> QED BY <1>4, <1>5

\* Elements of posted are numbers.
LEMMA PostedInts == ASSUME IInv PROVE posted \in Seq(Int) /\ pingFired \in Nat /\ sent \in Nat
  <1>1. posted \in Seq(Queueable \cup {Close}) /\ Queueable \cup {Close} \subseteq Int
    BY DEF IInv, TypeOK, QueuesOK, Queueable, Sends, Ping, Close
  <1>2. posted \in [1 .. Len(posted) -> Int] /\ Len(posted) \in Nat
    BY <1>1
  <1>3. posted \in Seq(Int)
    BY <1>2
  <1>4. pingFired \in Nat /\ sent \in Nat
    BY DEF IInv, TypeOK, NumbersOK
  <1> QED BY <1>3, <1>4

\* Every step but these four leaves the cycle where it is, or ends it together
\* with the connection or inside stop().
LEMMA CycleStays ==
  ASSUME IInv, KeepAliveInv, Next,
         ~PingExpires, ~onPingTimer, ~RunPing, ~HandshakeOk
  PROVE  KeepAliveInv'
  <1> DEFINE early == {"active", "flagged", "reconnectCancelled"}
  <1>1. posted \in Seq(Int) /\ pingFired \in Nat /\ sent \in Nat
    BY PostedInts
  <1>2. /\ posted # <<>> /\ Head(posted) = Close => user \notin early
        /\ ops["close"] > 0 => stopping
        /\ stopping => connected
        /\ stopping => user \notin early
    <2>1. posted # <<>> /\ Head(posted) = Close => ClosePosted
      BY <1>1 DEF ClosePosted
    <2> QED BY <2>1 DEF IInv, StopInv, ConnectionInv, StreamInv, OneActivity
  <1>3. \A stage \in Stages : ops[stage] > 0 => ~connected
    BY DuringAttempt DEF IInv, TypeOK
  <1> USE DEF Next, Application, Network, IoThread, Terminated, vars, flags, reconnect, ping,
        history, Send, Spawn, Start, StopFlag, StopCancelReconnect, StopCancelPing,
        StopPostClose, Join, ControlPong, ReadCompletes, RunNextPosted, RunSend,
        doClose, onResolve, onConnect, onSslHandshake, onWsHandshake, AttemptFails,
        AttemptAdvances, onReadData, onReadError, onClosed, onWriteOk,
        onWriteError, ReconnectExpires, onReconnectTimer, RunReturns
  <1>4. pingFired' = pingFired
    OBVIOUS
  <1>5. \/ posted' = posted
        \/ \E x \in {sent + 1, Close} : posted' = Append(posted, x)
        \/ \E m \in Sends \cup {Close} :
              posted # <<>> /\ Head(posted) = m /\ posted' = Tail(posted)
    OBVIOUS
  <1>6. /\ connected' = connected \/ connected' = FALSE
        /\ user' = user \/ user = "active" \/ user = "flagged" \/ user' \notin early
    OBVIOUS
  <1>7. \/ pingTimer' = pingTimer
        \/ pingTimer' = FALSE /\ (~connected' \/ user' \notin early)
    BY <1>2, <1>3 DEF scheduleReconnect, Stages
  <1>8. \/ pingTimer' = FALSE
        \/ pingTimer' = pingTimer /\ (~connected' \/ stopping' => ~connected \/ stopping)
    BY <1>2, <1>3 DEF scheduleReconnect, Stages
  <1> HIDE DEF Next, early
  <1>9. OnePing(posted') /\ (HasPing(posted') <=> HasPing(posted))
    <2>1. OnePing(posted)
      BY DEF KeepAliveInv
    <2>2. sent + 1 # Ping /\ Close # Ping /\ sent + 1 \in Int /\ Close \in Int
          /\ \A m \in Sends \cup {Close} : m # Ping
      BY <1>1 DEF Ping, Close, Sends
    <2>3. CASE \E x \in {sent + 1, Close} : posted' = Append(posted, x)
      BY <1>1, <2>1, <2>2, <2>3, PingAppended
    <2>4. CASE \E m \in Sends \cup {Close} :
                  posted # <<>> /\ Head(posted) = m /\ posted' = Tail(posted)
      BY <1>1, <2>1, <2>2, <2>4, PingTaken
    <2>5. CASE posted' = posted
      BY <2>1, <2>5
    <2> QED BY <1>5, <2>3, <2>4, <2>5
  <1>10. PingPosted' <=> PingPosted
    BY <1>9 DEF PingPosted, HasPing
  <1>11. Renewing' => pingFired' = 0 /\ ~PingPosted'
    <2>1. posted = <<>> => ~PingPosted
      BY DEF PingPosted
    <2> QED BY <1>4, <1>10, <2>1, RenewingStep DEF KeepAliveInv
  <1>12. ~(pingTimer' /\ pingFired' = 1) /\ ~(pingTimer' /\ PingPosted')
         /\ ~(pingFired' = 1 /\ PingPosted')
    BY <1>4, <1>7, <1>10 DEF KeepAliveInv
  <1>13. connected' /\ user' \in early => pingTimer' \/ pingFired' = 1 \/ PingPosted'
    BY <1>4, <1>6, <1>7, <1>10 DEF KeepAliveInv, early
  <1>14. ~connected' \/ stopping' => ~pingTimer'
    BY <1>8 DEF KeepAliveInv
  <1>15. pingFired' <= 1
    BY <1>4 DEF KeepAliveInv
  <1>16. OnePing(posted)'
    BY <1>9 DEF OnePing
  <1> QED BY <1>11, <1>12, <1>13, <1>14, <1>15, <1>16 DEF KeepAliveInv, early

\* The four steps that move the cycle on: the timer expires, its handler posts
\* the ping or gives the connection up, the ping is queued and the timer started
\* again, and a new connection starts its own.
LEMMA CycleMoves ==
  ASSUME IInv, KeepAliveInv, Next, PingExpires \/ onPingTimer \/ RunPing \/ HandshakeOk
  PROVE  KeepAliveInv'
  <1> DEFINE early == {"active", "flagged", "reconnectCancelled"}
  <1>1. posted \in Seq(Int) /\ pingFired \in Nat /\ pingFired <= 1 /\ OnePing(posted)
    BY PostedInts DEF KeepAliveInv
  <1>2. PingPosted <=> HasPing(posted)
    BY DEF PingPosted, HasPing
  <1>3. (posted' = posted) => (PingPosted' <=> PingPosted) /\ OnePing(posted)'
    BY <1>1 DEF PingPosted, OnePing
  <1>4. stopping => user \notin early
    BY DEF IInv, StopInv
  <1>5. Renewing' => Renewing \/ (pingFired = 0 /\ posted = <<>> /\ UNCHANGED <<pingFired, posted>>)
    BY RenewingStep
  <1>6. CASE PingExpires
    <2>1. /\ pingTimer /\ pingTimer' = FALSE /\ pingFired' = pingFired + 1
          /\ UNCHANGED <<posted, connected, stopping, user>>
      BY <1>6 DEF PingExpires, flags
    <2>2. connected /\ ~PingPosted /\ pingFired = 0
      BY <1>1, <2>1 DEF KeepAliveInv
    <2>3. ~Renewing
      BY <2>2, NotConnectedYet
    <2>4. ~Renewing'
      BY <1>5, <2>1, <2>2, <2>3
    <2> QED BY <1>3, <2>1, <2>2, <2>4 DEF KeepAliveInv
  <1>7. CASE onPingTimer
    <2>1. pingFired = 1 /\ pingFired' = 0 /\ ~pingTimer /\ ~PingPosted /\ ~Renewing
      <3>1. pingFired > 0 /\ pingFired' = pingFired - 1
        BY <1>7 DEF onPingTimer
      <3>2. pingFired = 1 /\ pingFired' = 0
        BY <1>1, <3>1
      <3> QED BY <3>2 DEF KeepAliveInv
    <2>2. ~Renewing'
      BY <1>5, <2>1
    <2>3. UNCHANGED <<user, stopping>>
      BY <1>7 DEF onPingTimer
    <2>4. CASE stopping \/ ~connected
      <3>1. UNCHANGED <<posted, pingTimer, connected>>
        BY <1>7, <2>4 DEF onPingTimer
      <3> QED BY <1>3, <1>4, <2>1, <2>2, <2>3, <2>4, <3>1 DEF KeepAliveInv
    <2>5. CASE ~stopping /\ connected /\ PongTimeout
      <3>1. posted' = posted /\ pingTimer' = FALSE /\ connected' = FALSE
        BY <2>5 DEF PongTimeout, scheduleReconnect
      <3> QED BY <1>3, <2>1, <2>2, <3>1 DEF KeepAliveInv
    <2>6. CASE ~stopping /\ connected /\ SendPing
      <3>1. posted' = Append(posted, Ping) /\ UNCHANGED <<pingTimer, connected>>
        BY <2>6 DEF SendPing
      <3>2. OnePing(posted') /\ HasPing(posted')
        <4>1. Ping \in Int /\ ~HasPing(posted)
          BY <1>2, <2>1 DEF Ping
        <4> QED BY <1>1, <3>1, <4>1, PingAppended
      <3>3. PingPosted' /\ OnePing(posted)'
        BY <3>2 DEF PingPosted, HasPing, OnePing
      <3> QED BY <2>1, <2>2, <2>3, <2>6, <3>1, <3>3 DEF KeepAliveInv
    <2> QED BY <1>7, <2>4, <2>5, <2>6 DEF onPingTimer, doPing
  <1>8. CASE RunPing
    <2>1. /\ posted # <<>> /\ Head(posted) = Ping /\ posted' = Tail(posted)
          /\ pingTimer' = IF stopping \/ ~connected THEN pingTimer ELSE TRUE
          /\ UNCHANGED <<user, connected, stopping, pingFired>>
      BY <1>8 DEF RunPing, RunNextPosted, startPingTimer
    <2>2. OnePing(posted') /\ ~HasPing(posted') /\ PingPosted
      BY <1>1, <1>2, <2>1, PingTaken
    <2>3. ~PingPosted' /\ OnePing(posted)'
      BY <2>2 DEF PingPosted, HasPing, OnePing
    <2>4. ~pingTimer /\ pingFired = 0 /\ ~Renewing
      BY <1>1, <2>2 DEF KeepAliveInv
    <2>5. ~Renewing'
      BY <1>5, <2>1, <2>4
    <2> QED BY <1>4, <2>1, <2>3, <2>4, <2>5 DEF KeepAliveInv
  <1>9. CASE HandshakeOk
    <2>1. ~connected /\ ~stopping /\ Attempts = 1 /\ ReconnectWaits = 0 /\ reconnectFired = 0
      BY <1>9, DuringAttempt DEF IInv, TypeOK, HandshakeOk, Stages
    <2>2. Renewing /\ pingFired = 0 /\ ~PingPosted
      BY <2>1 DEF Renewing, KeepAliveInv
    <2>3. /\ pingTimer' = TRUE /\ connected' = TRUE
          /\ UNCHANGED <<posted, pingFired, user, stopping>>
      BY <1>9, <2>1 DEF HandshakeOk, startPingTimer
    <2> QED BY <1>3, <2>1, <2>2, <2>3 DEF KeepAliveInv
  <1> QED BY <1>6, <1>7, <1>8, <1>9

LEMMA KeepAliveInvariant == Spec => []KeepAliveInv
  <1>1. Init => KeepAliveInv
    BY DEF Init, KeepAliveInv, OnePing, PingPosted
  <1>2. IInv /\ KeepAliveInv /\ [Next]_vars => KeepAliveInv'
    <2>1. KeepAliveInv /\ UNCHANGED vars => KeepAliveInv'
      BY DEF vars, flags, reconnect, ping, KeepAliveInv, OnePing, PingPosted, Renewing, Attempts
    <2> QED BY <2>1, CycleStays, CycleMoves
  <1> QED BY <1>1, <1>2, InductiveInvariant, PTL DEF Spec

\* There is never a second keep-alive cycle, of this connection or left over
\* from the one before, and a live connection never lacks one before stop().
THEOREM OneKeepAliveCycle == Spec => []OneKeepAlive
  <1>1. IInv /\ KeepAliveInv => OneKeepAlive
    <2> SUFFICES ASSUME IInv, KeepAliveInv PROVE OneKeepAlive
      OBVIOUS
    <2>1. pingFired \in Nat /\ pingFired <= 1
      BY PostedInts DEF KeepAliveInv
    <2>2. /\ pingTimer \/ pingFired = 1 \/ PingPosted =>
             Count(pingTimer) + pingFired + Count(PingPosted) = 1
          /\ Count(pingTimer) + pingFired + Count(PingPosted) <= 1
      BY <2>1 DEF KeepAliveInv, Count
    <2> QED BY <2>2 DEF KeepAliveInv, OneKeepAlive, OnePing
  <1> QED BY <1>1, KeepAliveInvariant, InductiveInvariant, PTL

-----------------------------------------------------------------------------
(* One unanswered ping. *)

\* When the ping timer's handler is ready, the interval has passed since the
\* last pong: an unanswered ping is found overdue.
PongInv == pendingPong /\ pingFired > 0 => pongAge = PING_INTERVAL_SECS

LEMMA PongStep == ASSUME IInv, KeepAliveInv, PongInv, [Next]_vars PROVE PongInv'
  <1>1. pingFired \in Nat /\ pingFired <= 1
    BY PostedInts DEF KeepAliveInv
  <1>2. CASE onPingTimer
    <2>1. pingFired > 0 /\ pingFired' = pingFired - 1
      BY <1>2 DEF onPingTimer
    <2>2. ~(pingFired' > 0)
      BY <1>1, <2>1
    <2> QED BY <2>2 DEF PongInv
  <1>3. CASE ~onPingTimer
    <2>1. \/ /\ UNCHANGED <<pingFired, pongAge>>
             /\ pendingPong' = pendingPong \/ pendingPong' = FALSE
          \/ pendingPong' = FALSE
          \/ pongAge' = PING_INTERVAL_SECS
      BY <1>3 DEF Next, Application, Network, IoThread, Terminated, vars, ping, Send, Spawn, Start,
         StopFlag, StopCancelReconnect, StopCancelPing, StopPostClose, Join, ControlPong,
         ReadCompletes, RunSend, RunPing, doClose, onResolve, onConnect,
         onSslHandshake, onWsHandshake, AttemptFails, AttemptAdvances, HandshakeOk,
         onReadData, onReadError, onClosed, onWriteOk, onWriteError, ReconnectExpires,
         onReconnectTimer, doReconnect, PingExpires, RunReturns
    <2> QED BY <2>1 DEF PongInv
  <1> QED BY <1>2, <1>3

\* doPing never sends a second ping while the first is unanswered: by the time
\* it runs, the pong is overdue and the connection is declared dead.
THEOREM OneUnansweredPing == Spec => NoPingWhileUnanswered
  <1>1. Init => PongInv
    BY DEF Init, PongInv
  <1>2. IInv /\ KeepAliveInv /\ PongInv /\ [Next]_vars => PongInv'
    BY PongStep
  <1>3. IInv /\ KeepAliveInv /\ PongInv /\ [Next]_vars
          => [posted' = Append(posted, Ping) => ~pendingPong]_vars
    <2> SUFFICES ASSUME IInv, PongInv, Next, posted' = Append(posted, Ping), pendingPong
                 PROVE  FALSE
      OBVIOUS
    <2>1. posted \in Seq(Int) /\ pingFired \in Nat /\ sent \in Nat
      BY PostedInts
    <2>2. posted' # posted /\ (posted # <<>> => posted' # Tail(posted))
      <3>1. Len(posted') = Len(posted) + 1 /\ Len(posted) \in Nat
        BY <2>1 DEF Ping
      <3>2. posted # <<>> => Len(Tail(posted)) = Len(posted) - 1
        BY <2>1
      <3> QED BY <3>1, <3>2
    <2>3. posted' # Append(posted, sent + 1) /\ posted' # Append(posted, Close)
      <3>1. \A x \in Int : Append(posted, x)[Len(posted) + 1] = x
        BY <2>1
      <3>2. Ping \in Int /\ sent + 1 \in Int /\ Close \in Int /\ sent + 1 # Ping /\ Close # Ping
        BY <2>1 DEF Ping, Close
      <3> QED BY <3>1, <3>2
    <2>4. onPingTimer /\ SendPing /\ ~(pendingPong /\ pongAge > PONG_TIMEOUT_SECS)
      BY <2>2, <2>3 DEF Next, Application, Network, IoThread, Terminated, vars, Send, Spawn, Start,
         StopFlag, StopCancelReconnect, StopCancelPing, StopPostClose, Join, ControlPong,
         ReadCompletes, RunNextPosted, RunSend, RunPing, doClose, onResolve, onConnect,
         onSslHandshake, onWsHandshake, AttemptFails, AttemptAdvances, HandshakeOk,
         onReadData, onReadError, onClosed, onWriteOk, onWriteError, ReconnectExpires,
         onReconnectTimer, PingExpires, onPingTimer, doPing, PongTimeout, RunReturns
    <2>5. pongAge = PING_INTERVAL_SECS
      BY <2>4 DEF PongInv, onPingTimer
    <2> QED BY <2>4, <2>5 DEF PING_INTERVAL_SECS, PONG_TIMEOUT_SECS
  <1> QED BY <1>1, <1>2, <1>3, InductiveInvariant, KeepAliveInvariant, PTL
          DEF Spec, NoPingWhileUnanswered

-----------------------------------------------------------------------------
(* The backoff. *)

\* 2, 4, 8, 16, 32 and then 60 seconds.
LEMMA BackoffValues ==
    /\ Backoff(1) = 2 /\ Backoff(2) = 4 /\ Backoff(3) = 8 /\ Backoff(4) = 16
    /\ Backoff(5) = 32 /\ \A n \in Nat : n >= 6 => Backoff(n) = 60
  <1>1. 2 ^ 1 = 2 /\ 2 ^ 2 = 4 /\ 2 ^ 3 = 8 /\ 2 ^ 4 = 16 /\ 2 ^ 5 = 32
    OBVIOUS
  <1>2. /\ Backoff(1) = 2 /\ Backoff(2) = 4 /\ Backoff(3) = 8 /\ Backoff(4) = 16
        /\ Backoff(5) = 32
    BY <1>1 DEF Backoff, MAX_BACKOFF_SECS
  <1>3. ASSUME NEW n \in Nat, n >= 6 PROVE Backoff(n) = 60
    <2>1. PICK e \in {6, 7, 8, 9, 10, 11, 12, 13, 14, 15, 16} :
             e = IF n < 16 THEN n ELSE 16
      BY <1>3
    <2>2. ~(2 ^ e < 60)
      <3>6. CASE e = 6
        BY <3>6
      <3>7. CASE e = 7
        BY <3>7
      <3>8. CASE e = 8
        BY <3>8
      <3>9. CASE e = 9
        BY <3>9
      <3>10. CASE e = 10
        BY <3>10
      <3>11. CASE e = 11
        BY <3>11
      <3>12. CASE e = 12
        BY <3>12
      <3>13. CASE e = 13
        BY <3>13
      <3>14. CASE e = 14
        BY <3>14
      <3>15. CASE e = 15
        BY <3>15
      <3>16. CASE e = 16
        BY <3>16
      <3> QED BY <3>6, <3>7, <3>8, <3>9, <3>10, <3>11, <3>12, <3>13, <3>14, <3>15, <3>16
    <2> QED BY <2>1, <2>2 DEF Backoff, MAX_BACKOFF_SECS
  <1> QED BY <1>2, <1>3

\* Without a connection the delay is that of the last failure; a connection
\* forgets the failures before it.
BackoffInv ==
    /\ connected => reconnectAttempts = 0
    /\ ~connected /\ ~closed =>
         delaySecs = IF reconnectAttempts = 0 THEN 0 ELSE Backoff(reconnectAttempts)

NextAttempts == IF reconnectAttempts < AttemptCap THEN reconnectAttempts + 1 ELSE AttemptCap

LEMMA BackoffShapes ==
  ASSUME IInv, Next
  PROVE  \/ connected' = TRUE /\ reconnectAttempts' = 0 /\ reconnectTimer' = FALSE
         \/ /\ UNCHANGED <<reconnectAttempts, delaySecs, connected, closed>>
            /\ reconnectTimer' = reconnectTimer \/ reconnectTimer' = FALSE
         \/ closed' = TRUE /\ connected' = FALSE /\ reconnectTimer' = reconnectTimer
         \/ /\ reconnectAttempts' = NextAttempts /\ delaySecs' = Backoff(reconnectAttempts')
            /\ connected' = FALSE /\ closed' = closed /\ (connected \/ ~closed)
  <1>1. \A stage \in Stages : ops[stage] > 0 => ~stopping /\ ~closed /\ ~connected
    BY DuringAttempt DEF IInv, TypeOK
  <1>2. ASSUME NEW stage \in Stages, AttemptFails(stage)
        PROVE  /\ reconnectAttempts' = NextAttempts /\ delaySecs' = Backoff(reconnectAttempts')
               /\ connected' = FALSE /\ closed' = closed /\ (connected \/ ~closed)
    <2>1. ~stopping /\ ~closed /\ ~connected /\ connected \in BOOLEAN
      BY <1>1, <1>2 DEF AttemptFails, IInv, TypeOK, FlagsOK
    <2>2. /\ reconnectAttempts' = NextAttempts /\ delaySecs' = Backoff(reconnectAttempts')
          /\ connected' = connected /\ closed' = closed
      BY <1>2, <2>1 DEF AttemptFails, scheduleReconnect, NextAttempts, flags, history
    <2> QED BY <2>1, <2>2
  <1>3. CASE \E k \in {"readFail", "oldRead"} : onReadError(k)
    <2>1. \/ UNCHANGED <<reconnectAttempts, delaySecs, connected, closed, reconnectTimer>>
          \/ ~StaleRead /\ ~stopping /\ connected' = FALSE /\ scheduleReconnect /\ closed' = closed
      BY <1>3 DEF onReadError
    <2> QED BY <2>1 DEF scheduleReconnect, NextAttempts, StaleRead
  <1>4. CASE onPingTimer
    BY <1>4 DEF onPingTimer, doPing, PongTimeout, SendPing, scheduleReconnect, NextAttempts
  <1>5. onResolve \/ onConnect \/ onSslHandshake \/ onWsHandshake =>
           \/ \E stage \in Stages : AttemptFails(stage)
           \/ \E stage, next \in Stages : AttemptAdvances(stage, next)
           \/ HandshakeOk
    BY DEF onResolve, onConnect, onSslHandshake, onWsHandshake, Stages
  <1>6. CASE /\ ~onPingTimer /\ ~(\E k \in {"readFail", "oldRead"} : onReadError(k))
             /\ ~(\E stage \in Stages : AttemptFails(stage))
    BY <1>5, <1>6 DEF Next, Application, Network, IoThread, Terminated, vars, flags, reconnect,
       history, Send, Spawn, Start,
       StopFlag, StopCancelReconnect, StopCancelPing, StopPostClose, Join, ControlPong,
       ReadCompletes, RunNextPosted, RunSend, RunPing, doClose, AttemptAdvances, HandshakeOk,
       onReadData, onClosed, onWriteOk, onWriteError, ReconnectExpires,
       onReconnectTimer, doReconnect, PingExpires, RunReturns
  <1> QED BY <1>2, <1>3, <1>4, <1>6

LEMMA BackoffStep == ASSUME IInv, BackoffInv, [Next]_vars PROVE BackoffInv'
  <1>1. AttemptCap \in Nat \ {0} /\ reconnectAttempts \in 0 .. AttemptCap
    BY BoundsAssumption DEF IInv, TypeOK, NumbersOK
  <1>2. NextAttempts # 0
    BY <1>1 DEF NextAttempts
  <1>3. CASE UNCHANGED <<reconnectAttempts, delaySecs, connected, closed>>
    BY <1>3 DEF BackoffInv
  <1>4. CASE connected' = TRUE /\ reconnectAttempts' = 0
    BY <1>4 DEF BackoffInv
  <1>5. CASE closed' = TRUE /\ connected' = FALSE
    BY <1>5 DEF BackoffInv
  <1>6. CASE /\ reconnectAttempts' = NextAttempts /\ delaySecs' = Backoff(reconnectAttempts')
             /\ connected' = FALSE
    <2>1. reconnectAttempts' # 0
      BY <1>2, <1>6
    <2> QED BY <1>6, <2>1 DEF BackoffInv
  <1>7. UNCHANGED vars => UNCHANGED <<reconnectAttempts, delaySecs, connected, closed>>
    BY DEF vars, flags, reconnect, history
  <1>8. Next => \/ UNCHANGED <<reconnectAttempts, delaySecs, connected, closed>>
                \/ connected' = TRUE /\ reconnectAttempts' = 0
                \/ closed' = TRUE /\ connected' = FALSE
                \/ /\ reconnectAttempts' = NextAttempts /\ delaySecs' = Backoff(reconnectAttempts')
                   /\ connected' = FALSE
    BY BackoffShapes, Zenon
  <1> QED BY <1>3, <1>4, <1>5, <1>6, <1>7, <1>8, Zenon

\* The delay doubles from 2 s to the 60 s of MAX_BACKOFF_SECS and stays there,
\* and a connection, however it ends, sets it back to 2 s.  (AttemptCap bounds
\* the counter of the model; the code's has no bound.)
THEOREM BackoffDoublesAlways ==
  ASSUME AttemptCap >= 6
  PROVE  Spec => BackoffDoubles
  <1>1. Init => BackoffInv
    BY DEF Init, BackoffInv
  <1>2. IInv /\ BackoffInv /\ [Next]_vars => BackoffInv'
    BY BackoffStep
  <1>3. IInv /\ BackoffInv /\ [Next]_vars =>
          [(~reconnectTimer /\ reconnectTimer') =>
             IF connected \/ delaySecs = 0 THEN delaySecs' = 2
             ELSE delaySecs' = IF 2 * delaySecs < MAX_BACKOFF_SECS
                               THEN 2 * delaySecs ELSE MAX_BACKOFF_SECS]_vars
    <2> SUFFICES ASSUME IInv, BackoffInv, Next, ~reconnectTimer, reconnectTimer'
                 PROVE  IF connected \/ delaySecs = 0 THEN delaySecs' = 2
                        ELSE delaySecs' = IF 2 * delaySecs < MAX_BACKOFF_SECS
                                          THEN 2 * delaySecs ELSE MAX_BACKOFF_SECS
      OBVIOUS
    <2>1. AttemptCap \in Nat /\ reconnectAttempts \in 0 .. AttemptCap
      BY BoundsAssumption DEF IInv, TypeOK, NumbersOK
    <2>2. delaySecs' = Backoff(NextAttempts) /\ (connected \/ ~closed)
      <3>1. /\ reconnectAttempts' = NextAttempts /\ delaySecs' = Backoff(reconnectAttempts')
            /\ (connected \/ ~closed)
        BY BackoffShapes, Zenon
      <3> QED BY <3>1
    <2>3. CASE reconnectAttempts = 0
      <3>1. NextAttempts = 1
        BY <2>1, <2>3 DEF NextAttempts
      <3>2. connected \/ delaySecs = 0
        BY <2>2, <2>3 DEF BackoffInv
      <3> QED BY <2>2, <3>1, <3>2, BackoffValues
    <2>4. CASE reconnectAttempts # 0
      <3>1. ~connected /\ delaySecs = Backoff(reconnectAttempts)
        BY <2>2, <2>4 DEF BackoffInv
      <3>2. CASE reconnectAttempts >= 6
        <4>1. NextAttempts \in Nat /\ NextAttempts >= 6
          BY <2>1, <3>2 DEF NextAttempts
        <4>2. delaySecs = 60 /\ delaySecs' = 60
          BY <2>1, <2>2, <3>1, <3>2, <4>1, BackoffValues
        <4> QED BY <3>1, <4>2 DEF MAX_BACKOFF_SECS
      <3>3. CASE reconnectAttempts < 6
        <4>1. NextAttempts = reconnectAttempts + 1 /\ reconnectAttempts \in {1, 2, 3, 4, 5}
          BY <2>1, <2>4, <3>3 DEF NextAttempts
        <4>2. CASE reconnectAttempts = 5
          <5>1. NextAttempts = 6
            BY <4>1, <4>2
          <5>2. delaySecs = 32 /\ delaySecs' = 60
            BY <2>2, <3>1, <4>2, <5>1, BackoffValues
          <5> QED BY <3>1, <5>2 DEF MAX_BACKOFF_SECS
        <4>3. CASE reconnectAttempts \in {1, 2, 3, 4}
          <5>1. CASE reconnectAttempts = 1
            <6>1. NextAttempts = 2
              BY <4>1, <5>1
            <6> QED BY <2>2, <3>1, <5>1, <6>1, BackoffValues DEF MAX_BACKOFF_SECS
          <5>2. CASE reconnectAttempts = 2
            <6>1. NextAttempts = 3
              BY <4>1, <5>2
            <6> QED BY <2>2, <3>1, <5>2, <6>1, BackoffValues DEF MAX_BACKOFF_SECS
          <5>3. CASE reconnectAttempts = 3
            <6>1. NextAttempts = 4
              BY <4>1, <5>3
            <6> QED BY <2>2, <3>1, <5>3, <6>1, BackoffValues DEF MAX_BACKOFF_SECS
          <5>4. CASE reconnectAttempts = 4
            <6>1. NextAttempts = 5
              BY <4>1, <5>4
            <6> QED BY <2>2, <3>1, <5>4, <6>1, BackoffValues DEF MAX_BACKOFF_SECS
          <5> QED BY <4>3, <5>1, <5>2, <5>3, <5>4
        <4> QED BY <4>1, <4>2, <4>3
      <3> QED BY <2>1, <3>2, <3>3
    <2> QED BY <2>3, <2>4
  <1> QED BY <1>1, <1>2, <1>3, InductiveInvariant, PTL DEF Spec, BackoffDoubles
=============================================================================
