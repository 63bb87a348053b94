----------------------- MODULE WebsocketRunnerProofs -----------------------
(***************************************************************************)
(* The safety properties of WebsocketRunner, for any number of messages and *)
(* any bounds: IInv holds initially and every action preserves it.          *)
(*                                                                         *)
(* OpsOf... lemmas say how a step changes the counts that ConnectionInv     *)
(* speaks about (Attempts, Reads, ReconnectWaits and single entries of      *)
(* ops); the lemmas about the actions use only those.                      *)
(***************************************************************************)
EXTENDS WebsocketRunner, TLAPS

USE BoundsAssumption

\* Every entry of ops is a number.
LEMMA OpsNat == NumbersOK =>
    /\ ops["resolve"] \in Nat /\ ops["connect"] \in Nat /\ ops["ssl"] \in Nat
    /\ ops["handshake"] \in Nat /\ ops["read"] \in Nat /\ ops["readData"] \in Nat
    /\ ops["readFail"] \in Nat /\ ops["write"] \in Nat /\ ops["close"] \in Nat
    /\ ops["oldRead"] \in Nat /\ ops["oldWrite"] \in Nat
  BY DEF NumbersOK, OpKinds, Stages

\* So are the sums ConnectionInv speaks about.
LEMMA SumsNat ==
  ASSUME NumbersOK
  PROVE  Attempts \in Nat /\ Reads \in Nat /\ ReconnectWaits \in Nat
  <1>1. Attempts \in Nat /\ Reads \in Nat
    BY OpsNat DEF Attempts, Reads
  <1>2. ReconnectWaits \in Nat
    BY DEF NumbersOK, ReconnectWaits, Count
  <1> QED BY <1>1, <1>2

\* The counts of operations outside connection attempts and reads.
SameRest ==
    /\ ops'["write"] = ops["write"] /\ ops'["close"] = ops["close"]
    /\ ops'["oldRead"] = ops["oldRead"] /\ ops'["oldWrite"] = ops["oldWrite"]

\* Finish(k) takes one operation away.
LEMMA FinishOps ==
  ASSUME NumbersOK, NEW k \in OpKinds, ops[k] > 0, ops' = Finish(k)
  PROVE  /\ ops' \in [OpKinds -> Nat]
         /\ ops'[k] = ops[k] - 1
         /\ \A j \in OpKinds \ {k} : ops'[j] = ops[j]
  <1>1. ops \in [OpKinds -> Nat]
    BY DEF NumbersOK
  <1>2. ops' = [ops EXCEPT ![k] = @ - 1]
    BY DEF Finish
  <1> QED BY <1>1, <1>2

\* Replace(k, l) turns one operation into another.
LEMMA ReplaceOps ==
  ASSUME NumbersOK, NEW k \in OpKinds, NEW l \in OpKinds, k # l, ops[k] > 0,
         ops' = Replace(k, l)
  PROVE  /\ ops' \in [OpKinds -> Nat]
         /\ ops'[k] = ops[k] - 1 /\ ops'[l] = ops[l] + 1
         /\ \A j \in OpKinds \ {k, l} : ops'[j] = ops[j]
  <1>1. ops \in [OpKinds -> Nat]
    BY DEF NumbersOK
  <1>2. ops' = [ops EXCEPT ![k] = @ - 1, ![l] = @ + 1]
    BY DEF Replace
  <1> QED BY <1>1, <1>2

\* A stage that ends ends one attempt and touches nothing else.
LEMMA StageEnds ==
  ASSUME NumbersOK, NEW stage \in Stages, ops[stage] > 0, ops' = Finish(stage)
  PROVE  /\ ops' \in [OpKinds -> Nat]
         /\ Attempts' = Attempts - 1 /\ Reads' = Reads /\ SameRest
  <1>1. stage \in OpKinds
    BY DEF OpKinds
  <1>2. /\ ops' \in [OpKinds -> Nat] /\ ops'[stage] = ops[stage] - 1
        /\ \A j \in OpKinds \ {stage} : ops'[j] = ops[j]
    BY <1>1, FinishOps
  <1>3. SameRest /\ Reads' = Reads
    BY <1>2 DEF SameRest, Reads, OpKinds, Stages
  <1>4. Attempts' = Attempts - 1
    BY <1>2, OpsNat DEF Attempts, OpKinds, Stages
  <1> QED BY <1>2, <1>3, <1>4

\* A stage that leads to the next keeps the number of attempts.
LEMMA StageAdvances ==
  ASSUME NumbersOK, NEW stage \in Stages, NEW next \in Stages, stage # next,
         ops[stage] > 0, ops' = Replace(stage, next)
  PROVE  /\ ops' \in [OpKinds -> Nat]
         /\ Attempts' = Attempts /\ Reads' = Reads /\ SameRest
  <1>1. stage \in OpKinds /\ next \in OpKinds
    BY DEF OpKinds
  <1>2. /\ ops' \in [OpKinds -> Nat]
        /\ ops'[stage] = ops[stage] - 1 /\ ops'[next] = ops[next] + 1
        /\ \A j \in OpKinds \ {stage, next} : ops'[j] = ops[j]
    BY <1>1, ReplaceOps
  <1>3. SameRest /\ Reads' = Reads
    BY <1>2 DEF SameRest, Reads, OpKinds, Stages
  <1>4. Attempts' = Attempts
    BY <1>2, OpsNat DEF Attempts, OpKinds, Stages
  <1> QED BY <1>2, <1>3, <1>4

\* Before a stage's handler runs, the attempt is all that is going on.
LEMMA DuringAttempt ==
  ASSUME NumbersOK, FlagsOK, ConnectionInv, NEW stage \in Stages, ops[stage] > 0
  PROVE  /\ Attempts = 1 /\ ReconnectWaits = 0 /\ ~connected /\ ~stopping /\ ~closed
         /\ Reads = 0 /\ ops["write"] = 0 /\ ~writing /\ ops["close"] = 0
         /\ ~reconnectTimer /\ reconnectFired = 0
  <1>1. Attempts >= 1
    BY OpsNat DEF Attempts, Stages
  <1>2. Attempts + ReconnectWaits + Count(connected) <= 1
    BY DEF ConnectionInv, OneActivity
  <1>3. Attempts = 1 /\ ReconnectWaits = 0 /\ ~connected
    BY <1>1, <1>2, SumsNat DEF Count
  <1>4. ~stopping /\ ops["close"] = 0 /\ ~closed
    BY <1>3 DEF ConnectionInv, OneActivity, ClosedForGood
  <1>5. Reads = 0 /\ ops["write"] = 0 /\ ~writing
    BY <1>3 DEF ConnectionInv, StreamInv
  <1>6. ~reconnectTimer /\ reconnectFired = 0
    BY <1>3 DEF ReconnectWaits, Count, NumbersOK
  <1> QED BY <1>3, <1>4, <1>5, <1>6

\* Steps that change neither operations, flags nor callbacks.  The waits for
\* the next attempt may only be cancelled, and only inside stop().
LEMMA FrameConnection ==
  ASSUME NumbersOK, ConnectionInv,
         UNCHANGED <<ops, connected, stopping, writing, writeQueue, notified, closed>>,
         ReconnectWaits' = ReconnectWaits \/ ReconnectWaits' = 0,
         ReconnectWaits' # ReconnectWaits => user' \notin {"active", "flagged"},
         io' = "running" /\ user' \in {"active", "flagged"} =>
             io = "running" /\ user \in {"active", "flagged"}
  PROVE  ConnectionInv'
  <1>1. Attempts' = Attempts /\ Reads' = Reads
    BY DEF Attempts, Reads
  <1>2. OneActivity'
    BY <1>1, SumsNat DEF OneActivity, ConnectionInv, Count
  <1>3. NeverStalls'
    BY <1>1 DEF NeverStalls, ConnectionInv
  <1>4. OneWrite' /\ CallbacksAlternate'
    BY DEF OneWrite, ConnectionInv, CallbacksAlternate, Count
  <1>5. ClosedForGood'
    BY <1>1, SumsNat DEF ClosedForGood, ConnectionInv
  <1>6. StreamInv'
    BY <1>1 DEF StreamInv, ConnectionInv, OldStreamGone
  <1> QED BY <1>2, <1>3, <1>4, <1>5, <1>6 DEF ConnectionInv

-----------------------------------------------------------------------------
(* ConnectionInv, action by action. *)

\* The steps that leave the connection alone.
LEMMA QuietStepsConnection ==
  ASSUME TypeOK, ConnectionInv, IdleInv,
         \/ Send \/ Spawn \/ StopFlag \/ StopCancelReconnect \/ StopCancelPing
         \/ StopPostClose \/ Join \/ ControlPong \/ PingExpires
         \/ ReconnectExpires \/ RunReturns
  PROVE  ConnectionInv'
  <1>1. UNCHANGED <<ops, connected, stopping, writing, writeQueue, notified, closed>>
    BY DEF Send, Spawn, StopFlag, StopCancelReconnect, StopCancelPing, StopPostClose,
           Join, ControlPong, PingExpires, ReconnectExpires, RunReturns, flags, history
  <1>2. io' = "running" /\ user' \in {"active", "flagged"} =>
            io = "running" /\ user \in {"active", "flagged"}
    BY DEF Send, Spawn, StopFlag, StopCancelReconnect, StopCancelPing, StopPostClose,
           Join, ControlPong, PingExpires, ReconnectExpires, RunReturns
  <1>3. /\ ReconnectWaits' = ReconnectWaits \/ ReconnectWaits' = 0
        /\ ReconnectWaits' # ReconnectWaits => user' \notin {"active", "flagged"}
    <2>1. CASE StopCancelReconnect
      <3>1. user' = "reconnectCancelled" /\ reconnectTimer' = FALSE
            /\ reconnectFired' = reconnectFired
        BY <2>1 DEF StopCancelReconnect
      <3>2. ReconnectWaits <= 1
        BY SumsNat DEF TypeOK, ConnectionInv, OneActivity, Count
      <3>3. reconnectFired \in Nat
        BY DEF TypeOK, NumbersOK
      <3> QED BY <3>1, <3>2, <3>3 DEF ReconnectWaits, Count
    <2>2. CASE ReconnectExpires
      <3>1. reconnectTimer /\ reconnectTimer' = FALSE
            /\ reconnectFired' = reconnectFired + 1
        BY <2>2 DEF ReconnectExpires
      <3>2. reconnectFired \in Nat
        BY DEF TypeOK, NumbersOK
      <3> QED BY <3>1, <3>2 DEF ReconnectWaits, Count
    <2>3. CASE ~StopCancelReconnect /\ ~ReconnectExpires
      <3>1. UNCHANGED <<reconnectTimer, reconnectFired>>
        BY <2>3 DEF Send, Spawn, StopFlag, StopCancelPing, StopPostClose, Join,
                    ControlPong, PingExpires, RunReturns, reconnect
      <3> QED BY <3>1 DEF ReconnectWaits
    <2> QED BY <2>1, <2>2, <2>3
  <1> QED BY <1>1, <1>2, <1>3, FrameConnection DEF TypeOK

\* The first attempt begins where nothing was going on.
LEMMA StartConnection ==
  ASSUME TypeOK, ConnectionInv, IdleInv, Start
  PROVE  ConnectionInv'
  <1>1. /\ ~connected /\ ~closed /\ ~writing /\ ~reconnectTimer /\ reconnectFired = 0
        /\ \A k \in OpKinds : ops[k] = 0
    BY DEF Start, IdleInv
  <1>2. ops \in [OpKinds -> Nat]
    BY DEF TypeOK, NumbersOK
  <1>3. ops' = [ops EXCEPT !["resolve"] = @ + 1]
    BY DEF Start
  <1>4. ops'["resolve"] = 1 /\ \A k \in OpKinds \ {"resolve"} : ops'[k] = 0
    BY <1>1, <1>2, <1>3 DEF OpKinds, Stages
  <1>5. /\ Attempts' = 1 /\ Reads' = 0 /\ ops'["write"] = 0 /\ ops'["close"] = 0
    BY <1>4 DEF Attempts, Reads, OpKinds, Stages
  <1>6. UNCHANGED <<connected, stopping, writing, closed, notified, reconnectTimer, reconnectFired>>
    BY DEF Start, flags, history, reconnect
  <1>7. ReconnectWaits' = 0
    BY <1>1, <1>6 DEF ReconnectWaits, Count
  <1>8. ~stopping
    BY <1>1 DEF ConnectionInv, OneActivity
  <1>9. OneActivity' /\ NeverStalls'
    BY <1>1, <1>5, <1>6, <1>7, <1>8 DEF OneActivity, NeverStalls, Count
  <1>10. OneWrite' /\ CallbacksAlternate' /\ ClosedForGood' /\ StreamInv'
    BY <1>1, <1>5, <1>6 DEF ConnectionInv, OneWrite, CallbacksAlternate, Count,
                            ClosedForGood, StreamInv
  <1> QED BY <1>9, <1>10 DEF ConnectionInv

\* A failed stage: the attempt becomes a wait.
LEMMA AttemptFailsConnection ==
  ASSUME TypeOK, ConnectionInv, NEW stage \in Stages, AttemptFails(stage)
  PROVE  ConnectionInv'
  <1>1. /\ Attempts = 1 /\ ReconnectWaits = 0 /\ ~connected /\ ~stopping /\ ~closed
        /\ Reads = 0 /\ ops["write"] = 0 /\ ~writing /\ ops["close"] = 0
        /\ ~reconnectTimer /\ reconnectFired = 0
    BY DuringAttempt DEF TypeOK, AttemptFails
  <1>2. Attempts' = 0 /\ Reads' = 0 /\ SameRest
    BY <1>1, StageEnds DEF TypeOK, AttemptFails
  <1>3. /\ UNCHANGED <<connected, stopping, writing, writeQueue, closed, notified, reconnectFired>>
        /\ reconnectTimer' = TRUE
    BY <1>1 DEF AttemptFails, scheduleReconnect, flags, history
  <1>4. ReconnectWaits' = 1
    BY <1>1, <1>3 DEF ReconnectWaits, Count
  <1>5. OneActivity' /\ NeverStalls'
    BY <1>1, <1>2, <1>3, <1>4 DEF OneActivity, NeverStalls, Count, SameRest
  <1>6. OneWrite' /\ CallbacksAlternate' /\ ClosedForGood' /\ StreamInv'
    BY <1>1, <1>2, <1>3 DEF ConnectionInv, OneWrite, CallbacksAlternate, Count,
                            ClosedForGood, StreamInv, SameRest
  <1> QED BY <1>5, <1>6 DEF ConnectionInv

\* A stage that succeeds: the attempt goes on.
LEMMA AttemptAdvancesConnection ==
  ASSUME TypeOK, ConnectionInv, NEW stage \in Stages, NEW next \in Stages,
         stage # next, AttemptAdvances(stage, next)
  PROVE  ConnectionInv'
  <1>1. /\ Attempts = 1 /\ ReconnectWaits = 0 /\ ~connected /\ ~stopping /\ ~closed
        /\ Reads = 0 /\ ops["write"] = 0 /\ ~writing /\ ops["close"] = 0
        /\ ~reconnectTimer /\ reconnectFired = 0
    BY DuringAttempt DEF TypeOK, AttemptAdvances
  <1>2. Attempts' = 1 /\ Reads' = 0 /\ SameRest
    BY <1>1, StageAdvances DEF TypeOK, AttemptAdvances
  <1>3. UNCHANGED <<connected, stopping, writing, writeQueue, closed, notified,
                    reconnectFired, reconnectTimer>>
    BY DEF AttemptAdvances, flags, history, reconnect
  <1>4. ReconnectWaits' = 0
    BY <1>1, <1>3 DEF ReconnectWaits
  <1>5. OneActivity' /\ NeverStalls'
    BY <1>1, <1>2, <1>3, <1>4 DEF OneActivity, NeverStalls, Count, SameRest
  <1>6. OneWrite' /\ CallbacksAlternate' /\ ClosedForGood' /\ StreamInv'
    BY <1>1, <1>2, <1>3 DEF ConnectionInv, OneWrite, CallbacksAlternate, Count,
                            ClosedForGood, StreamInv, SameRest
  <1> QED BY <1>5, <1>6 DEF ConnectionInv

\* The attempt succeeds: it becomes the connection, with its first read and,
\* if messages wait, its first write.
LEMMA HandshakeOkConnection ==
  ASSUME TypeOK, ConnectionInv, HandshakeOk
  PROVE  ConnectionInv' /\ ops' \in [OpKinds -> Nat]
  <1> DEFINE n == IF writeQueue # <<>> THEN 1 ELSE 0
  <1>1. /\ Attempts = 1 /\ ReconnectWaits = 0 /\ ~connected /\ ~stopping /\ ~closed
        /\ Reads = 0 /\ ops["write"] = 0 /\ ~writing /\ ops["close"] = 0
        /\ ~reconnectTimer /\ reconnectFired = 0
    BY DuringAttempt DEF TypeOK, HandshakeOk, Stages
  <1>2. ops \in [OpKinds -> Nat] /\ ops["handshake"] > 0
    BY DEF TypeOK, NumbersOK, HandshakeOk
  <1>3. ops' = [ops EXCEPT !["handshake"] = @ - 1, !["read"] = @ + 1, !["write"] = @ + n]
    BY DEF HandshakeOk, Count
  <1>4. n \in {0, 1} /\ (n = 1 <=> writeQueue # <<>>)
    OBVIOUS
  <1> HIDE DEF n
  <1>5. /\ ops'["resolve"] = ops["resolve"] /\ ops'["connect"] = ops["connect"]
        /\ ops'["ssl"] = ops["ssl"] /\ ops'["handshake"] = ops["handshake"] - 1
        /\ ops'["read"] = ops["read"] + 1 /\ ops'["readData"] = ops["readData"]
        /\ ops'["readFail"] = ops["readFail"] /\ ops'["write"] = ops["write"] + n
        /\ ops'["close"] = ops["close"] /\ ops'["oldRead"] = ops["oldRead"]
        /\ ops'["oldWrite"] = ops["oldWrite"]
    BY <1>2, <1>3, <1>4 DEF OpKinds, Stages
  <1>6. ops' \in [OpKinds -> Nat]
    <2>1. ops' = [k \in OpKinds |-> ops'[k]]
      BY <1>2, <1>3
    <2>2. \A k \in OpKinds : ops'[k] \in Nat
      BY <1>2, <1>4, <1>5, OpsNat DEF TypeOK, OpKinds, Stages
    <2> QED BY <2>1, <2>2
  <1>7. Attempts' = 0 /\ Reads' = 1
    BY <1>1, <1>5, OpsNat DEF TypeOK, Attempts, Reads
  <1>8. /\ connected' = TRUE /\ stopping' = stopping /\ closed' = closed
        /\ writeQueue' = writeQueue /\ writing' = (writing \/ writeQueue # <<>>)
        /\ notified' = notified + 1
        /\ reconnectTimer' = FALSE /\ reconnectFired' = reconnectFired
    BY DEF HandshakeOk
  <1>9. ReconnectWaits' = 0
    BY <1>1, <1>8 DEF ReconnectWaits, Count
  <1>10. OneActivity' /\ NeverStalls' /\ ClosedForGood'
    BY <1>1, <1>5, <1>7, <1>8, <1>9 DEF OneActivity, NeverStalls, Count, ClosedForGood
  <1>11. OneWrite'
    <2>1. writing' <=> n = 1
      BY <1>1, <1>4, <1>8
    <2>2. ops'["write"] = n
      BY <1>1, <1>4, <1>5
    <2>3. writeQueue' # <<>> <=> n = 1
      BY <1>4, <1>8
    <2> QED BY <1>4, <2>1, <2>2, <2>3 DEF OneWrite
  <1>12. CallbacksAlternate'
    BY <1>1, <1>8 DEF ConnectionInv, CallbacksAlternate, Count
  <1>13. OldStreamGone'
    BY <1>5 DEF HandshakeOk, OldStreamGone
  <1>14. StreamInv'
    BY <1>1, <1>5, <1>7, <1>8, <1>13 DEF StreamInv
  <1> QED BY <1>6, <1>10, <1>11, <1>12, <1>14 DEF ConnectionInv

\* What a step preserves that changes only the operations of the stream.
LEMMA SameActivity ==
  ASSUME ConnectionInv, UNCHANGED <<user, io, connected, notified, closed>>,
         Attempts' = Attempts, ReconnectWaits' = ReconnectWaits
  PROVE  NeverStalls' /\ CallbacksAlternate' /\ ClosedForGood'
  BY DEF ConnectionInv, NeverStalls, CallbacksAlternate, ClosedForGood

\* Queueing a message starts a write exactly when none is going on.
LEMMA PushConnection ==
  ASSUME TypeOK, ConnectionInv, NEW m \in Queueable, pushAndWrite(m),
         UNCHANGED <<user, io, connected, stopping, reconnectTimer, reconnectFired,
                     notified, closed>>
  PROVE  ConnectionInv' /\ ops' \in [OpKinds -> Nat]
  <1> DEFINE n == IF connected /\ ~writing THEN 1 ELSE 0
  <1>1. ops \in [OpKinds -> Nat] /\ writeQueue \in Seq(Queueable)
    BY DEF TypeOK, NumbersOK, QueuesOK
  <1>2. ops' = [ops EXCEPT !["write"] = @ + n]
    BY DEF pushAndWrite, Count
  <1>3. n \in {0, 1} /\ (n = 1 <=> connected /\ ~writing)
    OBVIOUS
  <1> HIDE DEF n
  <1>4. /\ ops' \in [OpKinds -> Nat] /\ ops'["write"] = ops["write"] + n
        /\ \A k \in OpKinds \ {"write"} : ops'[k] = ops[k]
    BY <1>1, <1>2, <1>3 DEF OpKinds, Stages
  <1>5. /\ Attempts' = Attempts /\ Reads' = Reads /\ ops'["close"] = ops["close"]
        /\ ops'["oldRead"] = ops["oldRead"] /\ ops'["oldWrite"] = ops["oldWrite"]
    BY <1>4 DEF Attempts, Reads, OpKinds, Stages
  <1>6. ReconnectWaits' = ReconnectWaits
    BY DEF ReconnectWaits
  <1>7. NeverStalls' /\ CallbacksAlternate' /\ ClosedForGood'
    BY <1>5, <1>6, SameActivity
  <1>8. OneActivity'
    BY <1>5, <1>6 DEF ConnectionInv, OneActivity
  <1>9. writing' <=> writing \/ connected
    BY DEF pushAndWrite
  <1>10. OneWrite'
    <2>1. writeQueue' # <<>>
      BY <1>1 DEF pushAndWrite
    <2>2. ops["write"] \in Nat /\ OneWrite
      BY OpsNat DEF TypeOK, ConnectionInv
    <2>3. CASE n = 0
      BY <1>3, <1>4, <1>9, <2>1, <2>2, <2>3 DEF OneWrite
    <2>4. CASE n = 1
      BY <1>3, <1>4, <1>9, <2>1, <2>2, <2>4 DEF OneWrite
    <2> QED BY <1>3, <2>3, <2>4
  <1>11. StreamInv'
    <2>1. Attempts > 0 => ~connected
      BY SumsNat DEF TypeOK, ConnectionInv, OneActivity, Count
    <2>2. Attempts > 0 => Reads = 0 /\ ops["write"] = 0 /\ ~writing
      BY DEF ConnectionInv, StreamInv
    <2>3. Attempts' > 0 => Reads' = 0 /\ ops'["write"] = 0 /\ ~writing'
      BY <1>3, <1>4, <1>5, <1>9, <2>1, <2>2
    <2> QED BY <1>5, <2>3 DEF ConnectionInv, StreamInv, OldStreamGone
  <1> QED BY <1>4, <1>7, <1>8, <1>10, <1>11 DEF ConnectionInv

\* doClose turns the waiting read into a failed one.
LEMMA doCloseConnection ==
  ASSUME TypeOK, ConnectionInv, doClose
  PROVE  ConnectionInv' /\ ops' \in [OpKinds -> Nat]
  <1>1. ops \in [OpKinds -> Nat]
    BY DEF TypeOK, NumbersOK
  <1>2. UNCHANGED <<user, io, connected, notified, closed, writing, writeQueue,
                    reconnectTimer, reconnectFired>>
    BY DEF doClose, history, reconnect
  <1>3. ReconnectWaits' = ReconnectWaits
    BY <1>2 DEF ReconnectWaits
  <1>4. CASE ~connected \/ stopping
    <2>1. UNCHANGED <<stopping, ops>>
      BY <1>4 DEF doClose
    <2>2. Attempts' = Attempts /\ Reads' = Reads
      BY <2>1 DEF Attempts, Reads
    <2>3. NeverStalls' /\ CallbacksAlternate' /\ ClosedForGood'
      BY <1>2, <1>3, <2>2, SameActivity
    <2>4. OneActivity' /\ OneWrite' /\ StreamInv'
      BY <1>2, <1>3, <2>1, <2>2
      DEF ConnectionInv, OneActivity, OneWrite, StreamInv, OldStreamGone
    <2> QED BY <1>1, <2>1, <2>3, <2>4 DEF ConnectionInv
  <1>5. CASE connected /\ ~stopping
    <2>1. stopping' = TRUE
      BY <1>5 DEF doClose
    <2>2. ops' = [ops EXCEPT !["read"] = 0, !["readFail"] = @ + ops["read"]]
      BY <1>5 DEF doClose
    <2>3. /\ ops'["read"] = 0 /\ ops'["readFail"] = ops["readFail"] + ops["read"]
          /\ ops' \in [OpKinds -> Nat]
          /\ \A k \in OpKinds \ {"read", "readFail"} : ops'[k] = ops[k]
      BY <1>1, <2>2 DEF OpKinds, Stages
    <2>4. Attempts' = Attempts /\ Reads' = Reads /\ SameRest
      BY <2>3, OpsNat DEF TypeOK, Attempts, Reads, SameRest, OpKinds, Stages
    <2>5. NeverStalls' /\ CallbacksAlternate' /\ ClosedForGood'
      BY <1>2, <1>3, <2>4, SameActivity
    <2>6. OneActivity' /\ OneWrite' /\ StreamInv'
      BY <1>2, <1>3, <1>5, <2>1, <2>4
      DEF ConnectionInv, OneActivity, OneWrite, StreamInv, OldStreamGone, SameRest
    <2> QED BY <2>3, <2>5, <2>6 DEF ConnectionInv
  <1> QED BY <1>4, <1>5

\* A read that becomes ready, or that onRead starts again, is the same read.
LEMMA ReadGoesOnConnection ==
  ASSUME TypeOK, ConnectionInv,
         NEW k \in {"read", "readData", "readFail"},
         NEW l \in {"read", "readData", "readFail"}, k # l,
         ops[k] > 0, ops' = Replace(k, l),
         UNCHANGED <<user, io, connected, stopping, writing, writeQueue, notified, closed,
                     reconnectTimer, reconnectFired>>
  PROVE  ConnectionInv' /\ ops' \in [OpKinds -> Nat]
  <1>1. k \in OpKinds /\ l \in OpKinds
    BY DEF OpKinds
  <1>2. /\ ops' \in [OpKinds -> Nat]
        /\ ops'[k] = ops[k] - 1 /\ ops'[l] = ops[l] + 1
        /\ \A j \in OpKinds \ {k, l} : ops'[j] = ops[j]
    BY <1>1, ReplaceOps DEF TypeOK
  <1>3. Attempts' = Attempts /\ SameRest
    BY <1>2 DEF Attempts, SameRest, OpKinds, Stages
  <1>4. Reads' = Reads
    BY <1>2, OpsNat DEF TypeOK, Reads, OpKinds, Stages
  <1>5. ReconnectWaits' = ReconnectWaits
    BY DEF ReconnectWaits
  <1>6. NeverStalls' /\ CallbacksAlternate' /\ ClosedForGood'
    BY <1>3, <1>5, SameActivity
  <1>7. OneActivity' /\ OneWrite' /\ StreamInv'
    BY <1>3, <1>4, <1>5
    DEF ConnectionInv, OneActivity, OneWrite, StreamInv, OldStreamGone, SameRest
  <1> QED BY <1>2, <1>6, <1>7 DEF ConnectionInv

\* A stale read ends without any effect.
LEMMA StaleReadConnection ==
  ASSUME TypeOK, ConnectionInv, NEW k \in {"readData", "readFail", "oldRead"},
         ops[k] > 0, ops' = Finish(k), ~connected,
         UNCHANGED <<user, io, connected, stopping, writing, writeQueue, notified, closed,
                     reconnectTimer, reconnectFired>>
  PROVE  ConnectionInv' /\ ops' \in [OpKinds -> Nat]
  <1>1. k \in OpKinds
    BY DEF OpKinds
  <1>2. /\ ops' \in [OpKinds -> Nat] /\ ops'[k] = ops[k] - 1
        /\ \A j \in OpKinds \ {k} : ops'[j] = ops[j]
    BY <1>1, FinishOps DEF TypeOK
  <1>3. /\ Attempts' = Attempts /\ ops'["write"] = ops["write"]
        /\ ops'["close"] = ops["close"]
    BY <1>2 DEF Attempts, OpKinds, Stages
  <1>4. Reads = 0 => Reads' = 0
    <2>1. NumbersOK
      BY DEF TypeOK
    <2>2. CASE k = "oldRead"
      BY <1>2, <2>2 DEF Reads, OpKinds, Stages
    <2>3. CASE k = "readData"
      BY <2>1, <2>3, OpsNat DEF Reads
    <2>4. CASE k = "readFail"
      BY <2>1, <2>4, OpsNat DEF Reads
    <2> QED BY <2>2, <2>3, <2>4
  <1>5. ReconnectWaits' = ReconnectWaits
    BY DEF ReconnectWaits
  <1>6. NeverStalls' /\ CallbacksAlternate' /\ ClosedForGood'
    BY <1>3, <1>5, SameActivity
  <1>7. OneActivity' /\ OneWrite' /\ StreamInv'
    BY <1>3, <1>4, <1>5 DEF ConnectionInv, OneActivity, OneWrite, StreamInv
  <1> QED BY <1>2, <1>6, <1>7 DEF ConnectionInv

\* A connection has one read or one close, and no other activity.
LEMMA WhileConnected ==
  ASSUME TypeOK, ConnectionInv, connected
  PROVE  /\ Attempts = 0 /\ ReconnectWaits = 0 /\ ~closed /\ notified = 1
         /\ ~reconnectTimer /\ reconnectFired = 0
         /\ ops["oldRead"] = 0 /\ ops["oldWrite"] = 0
         /\ Reads + ops["close"] = 1
  <1>1. Attempts = 0 /\ ReconnectWaits = 0 /\ Reads + ops["close"] = 1
    BY SumsNat DEF TypeOK, ConnectionInv, OneActivity, Count
  <1>2. ~closed /\ notified = 1 /\ ops["oldRead"] = 0 /\ ops["oldWrite"] = 0
    BY DEF ConnectionInv, ClosedForGood, CallbacksAlternate, Count, StreamInv, OldStreamGone
  <1>3. ~reconnectTimer /\ reconnectFired = 0
    BY <1>1 DEF ReconnectWaits, Count, TypeOK, NumbersOK
  <1> QED BY <1>1, <1>2, <1>3

\* The connection is lost: onRead's error path and the pong timeout.
LEMMA LostConnection ==
  ASSUME TypeOK, ConnectionInv, connected, ~stopping,
         connected' = FALSE, notified' = notified - 1, scheduleReconnect,
         UNCHANGED <<user, io, stopping, writing, writeQueue, reconnectFired, closed>>,
         Attempts' = Attempts, ops'["write"] = ops["write"],
         ops'["close"] = ops["close"]
  PROVE  ConnectionInv'
  <1>1. /\ Attempts = 0 /\ ReconnectWaits = 0 /\ ~closed /\ notified = 1
        /\ ~reconnectTimer /\ reconnectFired = 0
    BY WhileConnected
  <1>2. ops["close"] = 0
    BY DEF ConnectionInv, StreamInv
  <1>3. reconnectTimer' = TRUE
    BY DEF scheduleReconnect
  <1>4. ReconnectWaits' = 1
    BY <1>1, <1>3 DEF ReconnectWaits, Count
  <1>5. OneActivity' /\ NeverStalls' /\ ClosedForGood' /\ StreamInv'
    BY <1>1, <1>2, <1>4 DEF OneActivity, NeverStalls, ClosedForGood, StreamInv, Count
  <1>6. CallbacksAlternate'
    BY <1>1 DEF CallbacksAlternate, Count
  <1>7. OneWrite'
    BY DEF ConnectionInv, OneWrite
  <1> QED BY <1>5, <1>6, <1>7 DEF ConnectionInv

\* onRead, with or without an error.
LEMMA onReadDataConnection ==
  ASSUME TypeOK, ConnectionInv, NEW isPong \in BOOLEAN, onReadData(isPong)
  PROVE  ConnectionInv' /\ ops' \in [OpKinds -> Nat]
  <1>1. /\ ops["readData"] > 0
        /\ UNCHANGED <<user, io, connected, stopping, writing, writeQueue, notified,
                       closed, reconnectTimer, reconnectFired>>
    BY DEF onReadData, flags, reconnect, history
  <1>2. CASE StaleRead
    <2>1. ops' = Finish("readData") /\ ~connected
      BY <1>2 DEF onReadData, StaleRead
    <2> QED BY <1>1, <2>1, StaleReadConnection
  <1>3. CASE ~StaleRead
    <2>1. ops' = Replace("readData", "read")
      BY <1>3 DEF onReadData
    <2> QED BY <1>1, <2>1, ReadGoesOnConnection
  <1> QED BY <1>2, <1>3

\* A failed read ends the connection, goes on to the close, or is stale.
LEMMA onReadErrorConnection ==
  ASSUME TypeOK, ConnectionInv, NEW k \in {"readFail", "oldRead"}, onReadError(k)
  PROVE  ConnectionInv' /\ ops' \in [OpKinds -> Nat]
  <1>1. /\ ops[k] > 0 /\ k \in OpKinds
        /\ UNCHANGED <<user, io, stopping, writing, writeQueue, reconnectFired, closed>>
    BY DEF onReadError, OpKinds
  <1>2. CASE StaleRead
    <2>1. /\ ops' = Finish(k) /\ ~connected
          /\ UNCHANGED <<connected, notified, reconnectTimer>>
      BY <1>2 DEF onReadError, StaleRead
    <2> QED BY <1>1, <2>1, StaleReadConnection
  <1>3. CASE ~StaleRead
    <2>1. connected
      BY <1>3 DEF StaleRead, ConnectionInv, OneActivity
    <2>2. /\ Attempts = 0 /\ ReconnectWaits = 0 /\ ~closed
          /\ ops["oldRead"] = 0 /\ Reads + ops["close"] = 1
      BY <2>1, WhileConnected
    <2>3. k = "readFail"
      BY <1>1, <2>2
    <2>4. Reads = 1 /\ ops["close"] = 0 /\ ops["readFail"] = 1
      <3>1. ops["readFail"] > 0 /\ NumbersOK
        BY <1>1, <2>3 DEF TypeOK
      <3> QED BY <2>2, <3>1, OpsNat DEF Reads
    <2>5. CASE stopping
      <3>1. /\ ops' = Replace(k, "close")
            /\ UNCHANGED <<connected, notified, reconnectTimer>>
        BY <1>3, <2>5 DEF onReadError
      <3>2. /\ ops' \in [OpKinds -> Nat]
            /\ ops'["readFail"] = 0 /\ ops'["close"] = 1
            /\ \A j \in OpKinds \ {"readFail", "close"} : ops'[j] = ops[j]
        BY <1>1, <2>3, <2>4, <3>1, ReplaceOps DEF TypeOK, OpKinds
      <3>3. /\ Attempts' = Attempts /\ ops'["write"] = ops["write"]
            /\ ops'["oldRead"] = ops["oldRead"] /\ ops'["oldWrite"] = ops["oldWrite"]
        BY <3>2 DEF Attempts, OpKinds, Stages
      <3>4. Reads' = 0
        BY <2>4, <3>2, OpsNat DEF TypeOK, Reads, OpKinds, Stages
      <3>5. ReconnectWaits' = ReconnectWaits
        BY <1>1, <3>1 DEF ReconnectWaits
      <3>6. NeverStalls' /\ CallbacksAlternate' /\ ClosedForGood'
        BY <1>1, <3>1, <3>3, <3>5, SameActivity
      <3>7. OneActivity'
        BY <1>1, <2>1, <2>2, <3>1, <3>2, <3>3, <3>4, <3>5 DEF OneActivity, Count
      <3>8. OneWrite' /\ StreamInv'
        BY <1>1, <2>1, <2>2, <2>5, <3>1, <3>3
        DEF ConnectionInv, OneWrite, StreamInv, OldStreamGone
      <3> QED BY <3>2, <3>6, <3>7, <3>8 DEF ConnectionInv
    <2>6. CASE ~stopping
      <3>1. /\ ops' = Finish(k) /\ notified' = notified - 1 /\ connected' = FALSE
            /\ scheduleReconnect
        BY <1>3, <2>6 DEF onReadError
      <3>2. /\ ops' \in [OpKinds -> Nat]
            /\ \A j \in OpKinds \ {"readFail"} : ops'[j] = ops[j]
        BY <1>1, <2>3, <3>1, FinishOps DEF TypeOK
      <3>3. /\ Attempts' = Attempts /\ ops'["write"] = ops["write"]
            /\ ops'["close"] = ops["close"]
        BY <3>2 DEF Attempts, OpKinds, Stages
      <3> QED BY <1>1, <2>1, <2>6, <3>1, <3>2, <3>3, LostConnection
    <2> QED BY <2>5, <2>6
  <1> QED BY <1>2, <1>3

\* The orderly close ends the connection for good.
LEMMA onClosedConnection ==
  ASSUME TypeOK, ConnectionInv, StopInv, onClosed
  PROVE  ConnectionInv' /\ ops' \in [OpKinds -> Nat]
  <1>1. /\ ops["close"] > 0 /\ ops' = Finish("close") /\ notified' = notified - 1
        /\ connected' = FALSE /\ stopping' = FALSE
        /\ UNCHANGED <<user, io, writing, writeQueue, reconnectTimer, reconnectFired>>
    BY DEF onClosed, reconnect
  <1>2. connected /\ stopping
    BY <1>1 DEF ConnectionInv, OneActivity, StreamInv
  <1>3. /\ Attempts = 0 /\ ReconnectWaits = 0 /\ notified = 1
        /\ Reads + ops["close"] = 1
    BY <1>2, WhileConnected
  <1>4. ops["close"] = 1
    BY <1>1, <1>3, OpsNat, SumsNat DEF TypeOK
  <1>5. /\ ops' \in [OpKinds -> Nat] /\ ops'["close"] = 0
        /\ \A j \in OpKinds \ {"close"} : ops'[j] = ops[j]
    BY <1>1, <1>4, FinishOps DEF TypeOK, OpKinds
  <1>6. Attempts' = 0 /\ ops'["write"] = ops["write"]
    BY <1>3, <1>5 DEF Attempts, OpKinds, Stages
  <1>7. ReconnectWaits' = 0
    BY <1>1, <1>3 DEF ReconnectWaits
  <1>8. user \in {"joining", "joined"}
    BY <1>2 DEF StopInv
  <1>9. OneActivity' /\ NeverStalls' /\ ClosedForGood' /\ StreamInv'
    BY <1>1, <1>5, <1>6, <1>7, <1>8
    DEF OneActivity, NeverStalls, ClosedForGood, StreamInv, Count
  <1>10. OneWrite' /\ CallbacksAlternate'
    BY <1>1, <1>3, <1>6 DEF ConnectionInv, OneWrite, CallbacksAlternate, Count
  <1> QED BY <1>5, <1>9, <1>10 DEF ConnectionInv

\* A write that ends, of the current stream or of a replaced one.
LEMMA WriteEnds ==
  ASSUME TypeOK, ConnectionInv, NEW k \in {"write", "oldWrite"}, ops[k] > 0,
         ops' = Finish(k)
  PROVE  /\ ops' \in [OpKinds -> Nat]
         /\ Attempts' = Attempts /\ Reads' = Reads /\ ops'["close"] = ops["close"]
         /\ ops'["oldRead"] = ops["oldRead"]
         /\ k = "write" => ops'["write"] = 0 /\ ops'["oldWrite"] = ops["oldWrite"]
         /\ k = "oldWrite" => ops'["write"] = ops["write"] /\ ~connected
  <1>1. k \in OpKinds /\ NumbersOK
    BY DEF OpKinds, TypeOK
  <1>2. /\ ops' \in [OpKinds -> Nat] /\ ops'[k] = ops[k] - 1
        /\ \A j \in OpKinds \ {k} : ops'[j] = ops[j]
    BY <1>1, FinishOps
  <1>3. Attempts' = Attempts /\ Reads' = Reads /\ ops'["close"] = ops["close"]
        /\ ops'["oldRead"] = ops["oldRead"]
    BY <1>2 DEF Attempts, Reads, OpKinds, Stages
  <1>4. ASSUME k = "write" PROVE ops'["write"] = 0 /\ ops'["oldWrite"] = ops["oldWrite"]
    <2>1. ops["write"] <= 1 /\ ops["write"] \in Nat
      BY <1>1, OpsNat DEF ConnectionInv, OneWrite
    <2> QED BY <1>2, <1>4, <2>1 DEF OpKinds, Stages
  <1>5. ASSUME k = "oldWrite" PROVE ops'["write"] = ops["write"] /\ ~connected
    <2>1. ops'["write"] = ops["write"]
      BY <1>2, <1>5 DEF OpKinds, Stages
    <2>2. ~connected
      BY <1>5 DEF ConnectionInv, StreamInv, OldStreamGone
    <2> QED BY <2>1, <2>2
  <1> QED BY <1>2, <1>3, <1>4, <1>5

\* onWrite after a successful write: the next message, if any, is written.
LEMMA onWriteOkConnection ==
  ASSUME TypeOK, ConnectionInv, onWriteOk
  PROVE  ConnectionInv' /\ ops' \in [OpKinds -> Nat]
  <1>1. /\ ops["write"] > 0
        /\ UNCHANGED <<user, io, connected, stopping, notified, closed,
                       reconnectTimer, reconnectFired>>
    BY DEF onWriteOk, reconnect
  <1>2. ReconnectWaits' = ReconnectWaits
    BY <1>1 DEF ReconnectWaits
  <1>3. ops["write"] = 1 /\ ops \in [OpKinds -> Nat]
    <2>1. ops["write"] <= 1 /\ ops["write"] \in Nat
      BY OpsNat DEF TypeOK, ConnectionInv, OneWrite
    <2>2. ops \in [OpKinds -> Nat]
      BY DEF TypeOK, NumbersOK
    <2> QED BY <1>1, <2>1, <2>2
  <1>4. Attempts = 0
    BY <1>3, SumsNat DEF TypeOK, ConnectionInv, StreamInv
  <1>5. CASE ops' = Finish("write")
    <2>1. /\ ops' \in [OpKinds -> Nat]
          /\ Attempts' = Attempts /\ Reads' = Reads /\ ops'["close"] = ops["close"]
          /\ ops'["oldRead"] = ops["oldRead"]
          /\ ops'["write"] = 0 /\ ops'["oldWrite"] = ops["oldWrite"]
      BY <1>1, <1>5, WriteEnds
    <2>2. NeverStalls' /\ CallbacksAlternate' /\ ClosedForGood'
      BY <1>1, <1>2, <2>1, SameActivity
    <2>3. OneActivity' /\ StreamInv'
      BY <1>1, <1>2, <1>4, <2>1 DEF ConnectionInv, OneActivity, StreamInv, OldStreamGone
    <2>4. ~(connected' /\ writing')
      <3>1. ops' # ops
        BY <1>3, <2>1
      <3> QED BY <1>1, <3>1 DEF onWriteOk
    <2>5. OneWrite'
      BY <2>1, <2>4 DEF OneWrite
    <2> QED BY <2>1, <2>2, <2>3, <2>5 DEF ConnectionInv
  <1>6. CASE ops' # Finish("write")
    <2>1. /\ writeQueue' = Tail(writeQueue) /\ Tail(writeQueue) # <<>>
          /\ writing' = TRUE /\ UNCHANGED ops
      BY <1>6 DEF onWriteOk
    <2>2. Attempts' = Attempts /\ Reads' = Reads
      BY <2>1 DEF Attempts, Reads
    <2>3. NeverStalls' /\ CallbacksAlternate' /\ ClosedForGood'
      BY <1>1, <1>2, <2>2, SameActivity
    <2>4. OneActivity' /\ StreamInv'
      BY <1>1, <1>2, <1>4, <2>1, <2>2
      DEF ConnectionInv, OneActivity, StreamInv, OldStreamGone
    <2>5. OneWrite'
      BY <1>3, <2>1 DEF OneWrite
    <2> QED BY <1>3, <2>1, <2>3, <2>4, <2>5 DEF ConnectionInv
  <1> QED BY <1>5, <1>6

\* onWrite after an error: writing_ is reset unless the connection is gone.
LEMMA onWriteErrorConnection ==
  ASSUME TypeOK, ConnectionInv, NEW k \in {"write", "oldWrite"}, onWriteError(k)
  PROVE  ConnectionInv' /\ ops' \in [OpKinds -> Nat]
  <1>1. /\ ops[k] > 0 /\ ops' = Finish(k)
        /\ writing' = IF connected THEN FALSE ELSE writing
        /\ UNCHANGED <<user, io, connected, stopping, writeQueue, notified, closed,
                       reconnectTimer, reconnectFired>>
    BY DEF onWriteError, reconnect, history
  <1>2. ReconnectWaits' = ReconnectWaits
    BY <1>1 DEF ReconnectWaits
  <1>3. /\ ops' \in [OpKinds -> Nat]
        /\ Attempts' = Attempts /\ Reads' = Reads /\ ops'["close"] = ops["close"]
        /\ ops'["oldRead"] = ops["oldRead"]
        /\ k = "write" => ops'["write"] = 0 /\ ops'["oldWrite"] = ops["oldWrite"]
        /\ k = "oldWrite" => ops'["write"] = ops["write"] /\ ~connected
    BY <1>1, WriteEnds
  <1>4. NeverStalls' /\ CallbacksAlternate' /\ ClosedForGood'
    BY <1>1, <1>2, <1>3, SameActivity
  <1>5. OneActivity'
    BY <1>1, <1>2, <1>3 DEF ConnectionInv, OneActivity
  <1>6. OneWrite' /\ StreamInv'
    <2>1. CASE k = "write"
      BY <1>1, <1>3, <2>1 DEF ConnectionInv, OneWrite, StreamInv, OldStreamGone
    <2>2. CASE k = "oldWrite"
      BY <1>1, <1>3, <2>2 DEF ConnectionInv, OneWrite, StreamInv
    <2> QED BY <2>1, <2>2
  <1> QED BY <1>3, <1>4, <1>5, <1>6 DEF ConnectionInv

\* The reconnect timer's handler: the wait becomes an attempt on a new stream.
LEMMA onReconnectTimerConnection ==
  ASSUME TypeOK, ConnectionInv, onReconnectTimer
  PROVE  ConnectionInv' /\ ops' \in [OpKinds -> Nat]
  <1>1. /\ reconnectFired > 0 /\ reconnectFired' = reconnectFired - 1
        /\ UNCHANGED <<user, io, connected, stopping, notified, closed>>
    BY DEF onReconnectTimer
  <1>2. reconnectFired \in Nat /\ ops \in [OpKinds -> Nat] /\ NumbersOK
    BY DEF TypeOK, NumbersOK
  <1>3. ReconnectWaits >= 1
    BY <1>1, <1>2 DEF ReconnectWaits, Count
  <1>4. Attempts = 0 /\ ReconnectWaits = 1 /\ ~connected
    BY <1>2, <1>3, SumsNat DEF ConnectionInv, OneActivity, Count
  <1>5. ~stopping /\ ~closed /\ ops["close"] = 0
    BY <1>4 DEF ConnectionInv, OneActivity, ClosedForGood
  <1>6. doReconnect
    BY <1>4, <1>5 DEF onReconnectTimer
  <1>7. reconnectTimer' = FALSE /\ writing' = FALSE
    BY <1>6 DEF doReconnect
  <1>8. reconnectFired = 1
    BY <1>1, <1>2, <1>4 DEF ReconnectWaits, Count
  <1>9. ReconnectWaits' = 0
    BY <1>1, <1>7, <1>8 DEF ReconnectWaits, Count
  <1>10. ops' = [ops EXCEPT !["read"] = 0, !["readData"] = 0, !["readFail"] = 0,
                            !["write"] = 0,
                            !["oldRead"] = @ + Reads,
                            !["oldWrite"] = @ + ops["write"],
                            !["resolve"] = @ + 1]
    BY <1>6 DEF doReconnect
  <1>11. /\ ops'["resolve"] = ops["resolve"] + 1 /\ ops'["connect"] = ops["connect"]
         /\ ops'["ssl"] = ops["ssl"] /\ ops'["handshake"] = ops["handshake"]
         /\ ops'["read"] = 0 /\ ops'["readData"] = 0 /\ ops'["readFail"] = 0
         /\ ops'["write"] = 0 /\ ops'["close"] = ops["close"]
         /\ ops'["oldRead"] = ops["oldRead"] + Reads
         /\ ops'["oldWrite"] = ops["oldWrite"] + ops["write"]
    BY <1>2, <1>10 DEF OpKinds, Stages
  <1>12. ops' \in [OpKinds -> Nat]
    <2>1. ops' = [k \in OpKinds |-> ops'[k]]
      BY <1>2, <1>10
    <2>2. Reads \in Nat
      BY <1>2, SumsNat
    <2>3. \A k \in OpKinds : ops'[k] \in Nat
      BY <1>2, <1>11, <2>2, OpsNat DEF OpKinds, Stages
    <2> QED BY <2>1, <2>3
  <1>13. Attempts' = 1 /\ Reads' = 0
    <2>1. Attempts' = Attempts + 1
      BY <1>2, <1>11, OpsNat DEF Attempts
    <2>2. Reads' = 0
      BY <1>11 DEF Reads
    <2> QED BY <1>4, <2>1, <2>2
  <1>14. OneActivity' /\ NeverStalls' /\ ClosedForGood' /\ StreamInv'
    BY <1>1, <1>4, <1>5, <1>7, <1>9, <1>11, <1>13
    DEF OneActivity, NeverStalls, ClosedForGood, StreamInv, Count
  <1>15. OneWrite' /\ CallbacksAlternate'
    BY <1>1, <1>7, <1>11 DEF ConnectionInv, OneWrite, CallbacksAlternate, Count
  <1> QED BY <1>12, <1>14, <1>15 DEF ConnectionInv

\* The ping timer's handler: a pong timeout gives the connection up, anything
\* else leaves it alone.
LEMMA onPingTimerConnection ==
  ASSUME TypeOK, ConnectionInv, onPingTimer
  PROVE  ConnectionInv'
  <1>1. UNCHANGED <<user, io, stopping, writing, writeQueue, reconnectFired, ops, closed>>
    BY DEF onPingTimer
  <1>2. CASE stopping \/ ~connected \/ ~(pendingPong /\ pongAge > PONG_TIMEOUT_SECS)
    <2>1. UNCHANGED <<connected, notified, reconnectTimer>>
      BY <1>2 DEF onPingTimer, doPing, SendPing
    <2>2. ReconnectWaits' = ReconnectWaits
      BY <1>1, <2>1 DEF ReconnectWaits
    <2> QED BY <1>1, <2>1, <2>2, FrameConnection DEF TypeOK
  <1>3. CASE ~stopping /\ connected /\ pendingPong /\ pongAge > PONG_TIMEOUT_SECS
    <2>1. connected' = FALSE /\ notified' = notified - 1 /\ scheduleReconnect
      BY <1>3 DEF onPingTimer, doPing, PongTimeout
    <2>2. Attempts' = Attempts
      BY <1>1 DEF Attempts
    <2> QED BY <1>1, <1>3, <2>1, <2>2, LostConnection
  <1> QED BY <1>2, <1>3

-----------------------------------------------------------------------------
(* The other parts of IInv. *)

\* Every step keeps ops a function into Nat and ConnectionInv.
LEMMA ConnectionStep ==
  ASSUME IInv, Next
  PROVE  ConnectionInv' /\ ops' \in [OpKinds -> Nat]
  <1>1. TypeOK /\ ConnectionInv /\ IdleInv /\ StopInv /\ NumbersOK /\ FlagsOK
    BY DEF IInv, TypeOK
  <1>2. ops \in [OpKinds -> Nat]
    BY <1>1 DEF NumbersOK
  <1>3. CASE \/ Send \/ Spawn \/ StopFlag \/ StopCancelReconnect \/ StopCancelPing
             \/ StopPostClose \/ Join \/ ControlPong \/ PingExpires
             \/ ReconnectExpires \/ RunReturns
    <2>1. ConnectionInv'
      BY <1>1, <1>3, QuietStepsConnection
    <2>2. UNCHANGED ops
      BY <1>3 DEF Send, Spawn, StopFlag, StopCancelReconnect, StopCancelPing,
           StopPostClose, Join, ControlPong, PingExpires, ReconnectExpires, RunReturns
    <2> QED BY <1>2, <2>1, <2>2
  <1>4. CASE Start
    <2>1. ops' = [ops EXCEPT !["resolve"] = @ + 1]
      BY <1>4 DEF Start
    <2>2. ops' \in [OpKinds -> Nat]
      BY <1>2, <2>1 DEF OpKinds, Stages
    <2> QED BY <1>1, <1>4, <2>2, StartConnection
  <1>5. ASSUME NEW m \in Sends, RunSend(m) PROVE ConnectionInv' /\ ops' \in [OpKinds -> Nat]
    <2>1. m \in Queueable
      BY DEF Queueable
    <2>2. /\ pushAndWrite(m)
          /\ UNCHANGED <<user, io, connected, stopping, reconnectTimer, reconnectFired,
                         notified, closed>>
      BY <1>5 DEF RunSend, reconnect
    <2> QED BY <1>1, <2>1, <2>2, PushConnection
  <1>6. CASE RunPing
    <2>1. Ping \in Queueable
      BY DEF Queueable
    <2>2. /\ pushAndWrite(Ping)
          /\ UNCHANGED <<user, io, connected, stopping, reconnectTimer, reconnectFired,
                         notified, closed>>
      BY <1>6 DEF RunPing, reconnect, history
    <2> QED BY <1>1, <2>1, <2>2, PushConnection
  <1>7. CASE doClose
    BY <1>1, <1>7, doCloseConnection
  <1>8. ASSUME NEW stage \in Stages, AttemptFails(stage)
        PROVE  ConnectionInv' /\ ops' \in [OpKinds -> Nat]
    <2>1. ops[stage] > 0 /\ ops' = Finish(stage)
      BY <1>8 DEF AttemptFails
    <2> QED BY <1>1, <1>8, <2>1, StageEnds, AttemptFailsConnection
  <1>9. ASSUME NEW stage \in Stages, NEW next \in Stages, stage # next,
               AttemptAdvances(stage, next)
        PROVE  ConnectionInv' /\ ops' \in [OpKinds -> Nat]
    <2>1. ops[stage] > 0 /\ ops' = Replace(stage, next)
      BY <1>9 DEF AttemptAdvances
    <2> QED BY <1>1, <1>9, <2>1, StageAdvances, AttemptAdvancesConnection
  <1>10. CASE HandshakeOk
    BY <1>1, <1>10, HandshakeOkConnection
  <1>11. ASSUME NEW outcome \in {"readData", "readFail"}, ReadCompletes(outcome)
         PROVE  ConnectionInv' /\ ops' \in [OpKinds -> Nat]
    <2>1. /\ ops["read"] > 0 /\ ops' = Replace("read", outcome)
          /\ UNCHANGED <<user, io, connected, stopping, writing, writeQueue, notified,
                         closed, reconnectTimer, reconnectFired>>
      BY <1>11 DEF ReadCompletes, flags, reconnect, history
    <2> QED BY <1>1, <2>1, ReadGoesOnConnection
  <1>12. ASSUME NEW isPong \in BOOLEAN, onReadData(isPong)
         PROVE  ConnectionInv' /\ ops' \in [OpKinds -> Nat]
    BY <1>1, <1>12, onReadDataConnection
  <1>13. ASSUME NEW k \in {"readFail", "oldRead"}, onReadError(k)
         PROVE  ConnectionInv' /\ ops' \in [OpKinds -> Nat]
    BY <1>1, <1>13, onReadErrorConnection
  <1>14. CASE onClosed
    BY <1>1, <1>14, onClosedConnection
  <1>15. CASE onWriteOk
    BY <1>1, <1>15, onWriteOkConnection
  <1>16. ASSUME NEW k \in {"write", "oldWrite"}, onWriteError(k)
         PROVE  ConnectionInv' /\ ops' \in [OpKinds -> Nat]
    BY <1>1, <1>16, onWriteErrorConnection
  <1>17. CASE onReconnectTimer
    BY <1>1, <1>17, onReconnectTimerConnection
  <1>18. CASE onPingTimer
    <2>1. UNCHANGED ops
      BY <1>18 DEF onPingTimer
    <2> QED BY <1>1, <1>2, <1>18, <2>1, onPingTimerConnection
  <1>19. CASE UNCHANGED vars
    <2>1. /\ UNCHANGED <<ops, connected, stopping, writing, writeQueue, notified, closed>>
          /\ UNCHANGED <<user, io, reconnectTimer, reconnectFired>>
      BY <1>19 DEF vars, flags, history, reconnect
    <2>2. ReconnectWaits' = ReconnectWaits
      BY <2>1 DEF ReconnectWaits
    <2> QED BY <1>1, <1>2, <2>1, <2>2, FrameConnection
  <1>20. onResolve \/ onConnect \/ onSslHandshake \/ onWsHandshake =>
           \/ \E stage \in Stages : AttemptFails(stage)
           \/ \E stage, next \in Stages : stage # next /\ AttemptAdvances(stage, next)
           \/ HandshakeOk
    BY DEF onResolve, onConnect, onSslHandshake, onWsHandshake, Stages
  <1> QED
    BY <1>3, <1>4, <1>5, <1>6, <1>7, <1>8, <1>9, <1>10, <1>11, <1>12, <1>13, <1>14,
       <1>15, <1>16, <1>17, <1>18, <1>19, <1>20
    DEF Next, Application, Network, IoThread, Terminated

\* TypeOK, given what ConnectionStep says about ops and the callbacks.  The
\* steps up to <1>6 say which values the actions give a variable.
LEMMA TypeStep ==
  ASSUME IInv, Next
  PROVE  TypeOK'
  <1>1. FlagsOK /\ NumbersOK /\ QueuesOK /\ OneWrite
    BY DEF IInv, TypeOK, ConnectionInv
  <1>2. ops' \in [OpKinds -> Nat] /\ CallbacksAlternate'
    BY ConnectionStep DEF ConnectionInv
  <1> USE DEF Next, Application, Network, IoThread, Terminated, vars, flags, reconnect,
        ping, history, Send, Spawn, Start, StopFlag, StopCancelReconnect, StopCancelPing,
        StopPostClose, Join, ControlPong, ReadCompletes, RunNextPosted, RunSend, RunPing,
        doClose, onResolve, onConnect, onSslHandshake, onWsHandshake, AttemptFails,
        AttemptAdvances, HandshakeOk, onReadData, onReadError, onClosed, onWriteOk,
        onWriteError, ReconnectExpires, onReconnectTimer, PingExpires, onPingTimer,
        RunReturns, doPing, PongTimeout, SendPing
  <1>3. /\ \/ reconnectFired' = reconnectFired
           \/ reconnectFired' = reconnectFired + 1
           \/ reconnectFired > 0 /\ reconnectFired' = reconnectFired - 1
        /\ \/ pingFired' = pingFired
           \/ pingFired' = pingFired + 1
           \/ pingFired > 0 /\ pingFired' = pingFired - 1
        /\ \/ sent' = sent
           \/ sent < MaxSends /\ sent' = sent + 1
    OBVIOUS
  <1>4. \/ reconnectAttempts' = reconnectAttempts
        \/ reconnectAttempts' = 0
        \/ reconnectAttempts' = IF reconnectAttempts < AttemptCap
                                THEN reconnectAttempts + 1 ELSE AttemptCap
    BY DEF scheduleReconnect
  <1>5. /\ \/ posted' = posted
           \/ posted # <<>> /\ posted' = Tail(posted)
           \/ sent < MaxSends /\ posted' = Append(posted, sent + 1)
           \/ posted' = Append(posted, Close)
           \/ posted' = Append(posted, Ping)
        /\ \/ wired' = wired
           \/ wired' = Written
    OBVIOUS
  <1>6. \/ writeQueue' = writeQueue
        \/ writeQueue' = <<>>
        \/ \E m \in Queueable : writeQueue' = Append(writeQueue, m)
        \/ connected /\ ops["write"] > 0 /\ writeQueue' = Tail(writeQueue)
    BY DEF pushAndWrite, doReconnect, Queueable
  <1>7. user' \in {"active", "flagged", "reconnectCancelled", "pingCancelled",
                   "joining", "joined"}
    BY <1>1 DEF NumbersOK
  <1>8. io' \in {"idle", "spawned", "running", "done"}
    BY <1>1 DEF NumbersOK
  <1>9. pongAge' \in {0, PING_INTERVAL_SECS}
    BY <1>1 DEF NumbersOK
  <1>10. connected' \in BOOLEAN /\ stopping' \in BOOLEAN /\ writing' \in BOOLEAN
    BY <1>1 DEF FlagsOK, pushAndWrite, doReconnect
  <1>11. reconnectTimer' \in BOOLEAN /\ pingTimer' \in BOOLEAN
    BY <1>1 DEF FlagsOK, scheduleReconnect, startPingTimer, doReconnect
  <1>12. /\ pendingPong' \in BOOLEAN /\ owed' \in BOOLEAN /\ offline' \in BOOLEAN
         /\ closed' \in BOOLEAN
    BY <1>1 DEF FlagsOK, doReconnect
  <1>13. reconnectFired' \in Nat /\ pingFired' \in Nat /\ sent' \in 0 .. MaxSends
    <2>1. reconnectFired \in Nat /\ pingFired \in Nat /\ sent \in 0 .. MaxSends
      BY <1>1 DEF NumbersOK
    <2> HIDE DEF Next
    <2> QED BY <1>3, <2>1
  <1>14. reconnectAttempts' \in 0 .. AttemptCap
    <2>1. reconnectAttempts \in 0 .. AttemptCap
      BY <1>1 DEF NumbersOK
    <2> HIDE DEF Next
    <2> QED BY <1>4, <2>1
  <1> HIDE DEF Next
  <1>15. writeQueue' \in Seq(Queueable)
    <2>1. writeQueue \in Seq(Queueable)
      BY <1>1 DEF QueuesOK
    <2>2. ops["write"] > 0 => writeQueue # <<>>
      <3>1. ops["write"] \in Nat /\ ops["write"] <= 1
        BY <1>1, OpsNat DEF OneWrite
      <3> QED BY <1>1, <3>1 DEF OneWrite
    <2>3. ASSUME NEW m \in Queueable, writeQueue' = Append(writeQueue, m)
          PROVE  writeQueue' \in Seq(Queueable)
      BY <2>1, <2>3
    <2>4. CASE ops["write"] > 0 /\ writeQueue' = Tail(writeQueue)
      BY <2>1, <2>2, <2>4
    <2>5. CASE writeQueue' = <<>>
      BY <2>5
    <2> QED BY <1>6, <2>1, <2>3, <2>4, <2>5
  <1>16. posted' \in Seq(Queueable \cup {Close})
    <2>1. posted \in Seq(Queueable \cup {Close})
      BY <1>1 DEF QueuesOK
    <2>2. sent < MaxSends => sent + 1 \in Queueable
      BY <1>1 DEF NumbersOK, Queueable, Sends
    <2>3. Ping \in Queueable
      BY DEF Queueable
    <2> QED BY <1>5, <2>1, <2>2, <2>3
  <1>17. wired' \in Seq(Sends)
    <2>1. wired \in Seq(Sends)
      BY <1>1 DEF QueuesOK
    <2> QED BY <1>5, <2>1 DEF Written
  <1>18. notified' \in Int
    BY <1>2 DEF CallbacksAlternate, Count
  <1> QED
    BY <1>2, <1>7, <1>8, <1>9, <1>10, <1>11, <1>12, <1>13, <1>14, <1>15, <1>16, <1>17,
       <1>18
    DEF TypeOK, FlagsOK, NumbersOK, QueuesOK

\* IdleInv: nothing but Start leaves the idle states once they are left, and
\* while they last only send(), stop() and the spawning of the thread happen.
LEMMA IdleStep ==
  ASSUME IInv, Next
  PROVE  IdleInv'
  <1> SUFFICES ASSUME io' \in {"idle", "spawned"}
               PROVE  /\ ~connected' /\ ~closed' /\ ~writing'
                      /\ ~reconnectTimer' /\ reconnectFired' = 0
                      /\ \A k \in OpKinds : ops'[k] = 0
    BY DEF IdleInv
  <1>1. io \in {"idle", "spawned"} /\ IdleInv
    BY DEF IInv, Next, Application, Network, IoThread, Terminated, vars, Send, Spawn, Start,
       StopFlag, StopCancelReconnect, StopCancelPing, StopPostClose, Join, ControlPong,
       ReadCompletes, RunNextPosted, RunSend, RunPing, doClose, onResolve, onConnect,
       onSslHandshake, onWsHandshake, AttemptFails, AttemptAdvances, HandshakeOk,
       onReadData, onReadError, onClosed, onWriteOk, onWriteError, ReconnectExpires,
       onReconnectTimer, PingExpires, onPingTimer, RunReturns
  <1>2. /\ UNCHANGED <<connected, closed, writing, reconnectFired, ops>>
        /\ reconnectTimer' = reconnectTimer \/ reconnectTimer' = FALSE
    BY <1>1 DEF Next, Application, Network, IoThread, Terminated, vars, flags, reconnect,
       history, Send, Spawn, Start,
       StopFlag, StopCancelReconnect, StopCancelPing, StopPostClose, Join, ControlPong,
       ReadCompletes, RunNextPosted, RunSend, RunPing, doClose, onResolve, onConnect,
       onSslHandshake, onWsHandshake, AttemptFails, AttemptAdvances, HandshakeOk,
       onReadData, onReadError, onClosed, onWriteOk, onWriteError, ReconnectExpires,
       onReconnectTimer, PingExpires, onPingTimer, RunReturns
  <1> QED BY <1>1, <1>2 DEF IdleInv

\* The elements of a sequence after one is appended.
LEMMA AppendElement ==
  ASSUME NEW S, NEW s \in Seq(S), NEW x \in S, NEW i \in DOMAIN Append(s, x)
  PROVE  (i \in DOMAIN s /\ Append(s, x)[i] = s[i]) \/ Append(s, x)[i] = x
  OBVIOUS

\* The elements of a sequence after its first is removed.
LEMMA TailElement ==
  ASSUME NEW S, NEW s \in Seq(S), s # <<>>, NEW i \in DOMAIN Tail(s)
  PROVE  i + 1 \in DOMAIN s /\ Tail(s)[i] = s[i + 1]
  OBVIOUS

\* StopInv: only StopPostClose posts doClose, and only doClose sets stopping_.
LEMMA StopStep ==
  ASSUME IInv, Next
  PROVE  StopInv'
  <1>1. StopInv /\ posted \in Seq(Queueable \cup {Close}) /\ sent \in 0 .. MaxSends
        /\ ConnectionInv
    BY DEF IInv, TypeOK, QueuesOK, NumbersOK
  <1>2. /\ user \in {"joining", "joined"} => user' \in {"joining", "joined"}
        /\ \/ posted' = posted
           \/ posted # <<>> /\ posted' = Tail(posted)
           \/ sent < MaxSends /\ posted' = Append(posted, sent + 1)
           \/ posted' = Append(posted, Ping)
           \/ posted' = Append(posted, Close) /\ user' = "joining"
        /\ \/ stopping' = stopping \/ stopping' = FALSE
           \/ posted # <<>> /\ Head(posted) = Close
        /\ closed' = closed \/ ops["close"] > 0
    BY DEF Next, Application, Network, IoThread, Terminated, vars, flags, reconnect, ping,
       history, Send, Spawn, Start,
       StopFlag, StopCancelReconnect, StopCancelPing, StopPostClose, Join, ControlPong,
       ReadCompletes, RunNextPosted, RunSend, RunPing, doClose, onResolve, onConnect,
       onSslHandshake, onWsHandshake, AttemptFails, AttemptAdvances, HandshakeOk,
       onReadData, onReadError, onClosed, onWriteOk, onWriteError, ReconnectExpires,
       onReconnectTimer, PingExpires, onPingTimer, RunReturns, doPing, PongTimeout, SendPing
  <1>3. ops["close"] > 0 => stopping
    BY <1>1 DEF ConnectionInv, OneActivity, StreamInv
  <1>4. posted # <<>> /\ Head(posted) = Close => ClosePosted
    BY <1>1 DEF ClosePosted
  <1>5. stopping' => stopping \/ ClosePosted
    BY <1>2, <1>4
  <1>6. closed' => closed \/ stopping
    BY <1>2, <1>3
  <1>7. ClosePosted' => ClosePosted \/ user' = "joining"
    <2> SUFFICES ASSUME NEW i \in DOMAIN posted', posted'[i] = Close, ~(user' = "joining")
                 PROVE  ClosePosted
      BY DEF ClosePosted
    <2>1. ASSUME NEW x \in Queueable, posted' = Append(posted, x) PROVE ClosePosted
      <3>1. x # Close /\ x \in Queueable \cup {Close}
        BY DEF Queueable, Sends, Ping, Close
      <3>2. (i \in DOMAIN posted /\ posted'[i] = posted[i]) \/ posted'[i] = x
        BY <1>1, <2>1, <3>1, AppendElement
      <3> QED BY <3>1, <3>2 DEF ClosePosted
    <2>2. CASE posted # <<>> /\ posted' = Tail(posted)
      BY <1>1, <2>2, TailElement DEF ClosePosted
    <2>3. CASE posted' = posted
      BY <2>3 DEF ClosePosted
    <2>4. Ping \in Queueable /\ (sent < MaxSends => sent + 1 \in Queueable)
      BY <1>1 DEF Queueable, Sends
    <2> QED BY <1>2, <2>1, <2>2, <2>3, <2>4
  <1> QED BY <1>1, <1>2, <1>5, <1>6, <1>7 DEF StopInv

-----------------------------------------------------------------------------
(* The theorems. *)

\* IInv holds before the runner is started.
LEMMA InitInv == Init => IInv
  <1> SUFFICES ASSUME Init PROVE IInv
    OBVIOUS
  <1>1. FlagsOK
    BY DEF Init, FlagsOK
  <1>2. ops \in [OpKinds -> Nat] /\ \A k \in OpKinds : ops[k] = 0
    BY DEF Init
  <1>3. sent \in 0 .. MaxSends /\ reconnectAttempts \in 0 .. AttemptCap
    BY DEF Init
  <1>4. NumbersOK
    BY <1>2, <1>3 DEF Init, NumbersOK
  <1>5. QueuesOK
    BY DEF Init, QueuesOK
  <1>6. /\ Attempts = 0 /\ Reads = 0 /\ ReconnectWaits = 0
        /\ ops["write"] = 0 /\ ops["close"] = 0
    BY <1>2 DEF Init, Attempts, Reads, ReconnectWaits, Count, OpKinds, Stages
  <1>7. ConnectionInv
    BY <1>6 DEF Init, ConnectionInv, OneActivity, NeverStalls, OneWrite,
                CallbacksAlternate, ClosedForGood, StreamInv, Count
  <1>8. IdleInv /\ StopInv
    BY <1>2 DEF Init, IdleInv, StopInv, ClosePosted
  <1> QED BY <1>1, <1>4, <1>5, <1>7, <1>8 DEF IInv, TypeOK

\* A stuttering step changes nothing that IInv speaks about.
LEMMA StutterInv == IInv /\ UNCHANGED vars => IInv'
  BY DEF IInv, TypeOK, FlagsOK, NumbersOK, QueuesOK, ConnectionInv, OneActivity,
         NeverStalls, OneWrite, CallbacksAlternate, ClosedForGood, StreamInv, IdleInv,
         StopInv, ClosePosted, Attempts, Reads, ReconnectWaits, OldStreamGone,
         vars, flags, reconnect, ping, history

\* The inductive invariant holds in every state of every behaviour of the
\* runner: whatever fails, and whenever send() and stop() are called.
THEOREM InductiveInvariant == Spec => []IInv
  <1>1. IInv /\ [Next]_vars => IInv'
    BY ConnectionStep, TypeStep, IdleStep, StopStep, StutterInv DEF IInv
  <1> QED BY <1>1, InitInv, PTL DEF Spec

\* Every variable keeps its type.
THEOREM TypeCorrect == Spec => []TypeOK
  <1>1. IInv => TypeOK
    BY DEF IInv
  <1> QED BY <1>1, InductiveInvariant, PTL

\* The runner does one thing at a time: it never has two attempts, two read
\* loops or a wait beside a live connection.
THEOREM OneActivityAtATime == Spec => []OneActivity
  <1>1. IInv => OneActivity
    BY DEF IInv, ConnectionInv
  <1> QED BY <1>1, InductiveInvariant, PTL

\* No error path of a started runner forgets to schedule the next attempt.
THEOREM RunnerNeverStalls == Spec => []NeverStalls
  <1>1. IInv => NeverStalls
    BY DEF IInv, ConnectionInv
  <1> QED BY <1>1, InductiveInvariant, PTL

\* There is never more than one async_write of a stream, and its buffer stays
\* at the front of the queue meanwhile.
THEOREM OneWriteAtATime == Spec => []OneWrite
  <1>1. IInv => OneWrite
    BY DEF IInv, ConnectionInv
  <1> QED BY <1>1, InductiveInvariant, PTL

\* onConnected and onDisconnected are called in turn.
THEOREM ListenerAlternates == Spec => []CallbacksAlternate
  <1>1. IInv => CallbacksAlternate
    BY DEF IInv, ConnectionInv
  <1> QED BY <1>1, InductiveInvariant, PTL

\* After the orderly close there is no further connection.
THEOREM CloseIsFinal == Spec => []ClosedForGood
  <1>1. IInv => ClosedForGood
    BY DEF IInv, ConnectionInv
  <1> QED BY <1>1, InductiveInvariant, PTL

=============================================================================
