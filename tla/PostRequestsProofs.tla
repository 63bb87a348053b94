------------------------- MODULE PostRequestsProofs -------------------------
(***************************************************************************)
(* WebsocketApi's posts and subscriptions, for any set of threads and        *)
(* endpoint types and any number of calls, answers and lost connections:     *)
(* answers reach the call they are for, once; one thread's nonces arrive in   *)
(* order; and the exchange's subscription follows the application's wish as   *)
(* far as the race of unsubscribe() with onConnected() lets it.              *)
(***************************************************************************)
EXTENDS PostRequests, TLAPS

USE PostAssumption

\* What is to be said of call n.
IsPost(n) == calls[n].type \notin Subscriptions

At(n, steps) == \E c \in Callers : current[c] = n /\ pc[c] \in steps

\* n is a post that has its id, is in postRequestInfo or was, has been sent.
Numbered(n) == n \in DOMAIN calls /\ IsPost(n) /\ ~At(n, {"number"})
Recorded(n) == n \in DOMAIN calls /\ IsPost(n) /\ ~At(n, {"number", "record"})
Sent(n) == n \in DOMAIN calls /\ IsPost(n) /\ ~At(n, {"number", "record", "send"})

Responded(n) == \E i \in DOMAIN responses : responses[i].of = n

CallRecord == [by : Callers, type : Types, id : Nat, nonce : Nat]

PostTypeOK ==
    /\ pc \in [Callers -> {"idle", "number", "record", "send"}]
    /\ current \in [Callers -> Nat]
    /\ calls \in Seq(CallRecord)
    /\ counter \in Nat /\ lastNonce \in Nat /\ losses \in Nat /\ wanted \in Nat
    /\ link \in {"down", "connecting", "up"}
    /\ queue \in Seq(Nat) /\ wired \in Seq(Nat)
    /\ inbox \in Seq([of : Nat, kind : Kinds])
    /\ responses \in Seq([of : Nat, correlationId : Nat, type : Types])
    /\ stopping \in BOOLEAN /\ subscribed \in BOOLEAN

\* A thread inside a method works on its own latest call.
CallerInv ==
    /\ \A n \in DOMAIN calls : n <= current[calls[n].by]
    /\ \A c \in Callers : pc[c] # "idle" =>
        /\ current[c] \in DOMAIN calls
        /\ calls[current[c]].by = c
        /\ pc[c] # "send" => IsPost(current[c])

\* postRequestCounter is ahead of every id it gave, and gave each once.
IdsInv ==
    \A n \in Nat : Numbered(n) =>
        /\ calls[n].id < counter
        /\ \A m \in Nat : Numbered(m) /\ calls[m].id = calls[n].id => m = n

\* postRequestInfo holds the recorded calls that are not answered.
InfoInv ==
    /\ \A id \in DOMAIN info :
        LET n == info[id].correlationId
        IN  /\ n \in Nat /\ Recorded(n) /\ ~Responded(n)
            /\ calls[n].id = id /\ info[id].type = calls[n].type
    /\ \A n \in Nat : Recorded(n) =>
        calls[n].id \in DOMAIN info \/ n \in malformed \/ Responded(n)

\* What the exchange may answer was sent, hence recorded before.
SentInv ==
    /\ \A i \in DOMAIN queue :
        queue[i] \in DOMAIN calls /\ (IsPost(queue[i]) => Sent(queue[i]))
    /\ \A n \in DOMAIN answered : n \in Nat /\ Sent(n)
    /\ \A i \in DOMAIN inbox : Sent(inbox[i].of)
    /\ \A i \in DOMAIN responses : Sent(responses[i].of)

PostInv ==
    /\ PostTypeOK /\ CallerInv /\ IdsInv /\ InfoInv /\ SentInv
    /\ RightCall /\ AnsweredOnce /\ KnownIds

\* Nonces follow the numbers of the calls; a post is signed once, so a nonce on
\* the wire is that of a call sent.
NonceInv ==
    /\ \A n \in DOMAIN calls : calls[n].nonce <= lastNonce
    /\ \A n \in DOMAIN calls : ~IsPost(n) => calls[n].nonce = 0
    /\ \A m, n \in DOMAIN calls :
        m < n /\ calls[m].nonce # 0 /\ calls[n].nonce # 0 => calls[m].nonce < calls[n].nonce
    /\ \A i \in DOMAIN wired : wired[i] # 0 /\ \E n \in DOMAIN calls : calls[n].nonce = wired[i]
    /\ \A i \in DOMAIN wired, n \in DOMAIN calls : calls[n].nonce = wired[i] => Sent(n)

\* The signed calls of one thread leave the queue in the order they were made.
OrderInv ==
    /\ \A i, j \in DOMAIN queue :
        /\ i < j /\ calls[queue[i]].nonce # 0 /\ calls[queue[j]].nonce # 0
        /\ calls[queue[i]].by = calls[queue[j]].by
        => queue[i] < queue[j]
    /\ \A i \in DOMAIN wired, j \in DOMAIN queue, m \in DOMAIN calls :
        /\ calls[m].nonce = wired[i] /\ calls[queue[j]].nonce # 0
        /\ calls[m].by = calls[queue[j]].by
        => m < queue[j]
    /\ \A i, j \in DOMAIN wired : \A m, n \in DOMAIN calls :
        /\ i < j /\ calls[m].nonce = wired[i] /\ calls[n].nonce = wired[j]
        /\ calls[m].by = calls[n].by
        => m < n

\* Entry k of the queue is the last message about the subscription.
LastWord(k) ==
    /\ k \in DOMAIN queue /\ ~IsPost(queue[k])
    /\ \A j \in DOMAIN queue : j > k => IsPost(queue[j])

Asks(n) == calls[n].type = "subscribe"

\* Neither a thread nor onConnected() has a message to queue about the
\* subscription, and no unsubscribe() was overtaken.
Settled ==
    link = "up" /\ ~Subscribing /\ IoFree /\ (wanted # 0 \/ ~overtaken)

\* What the exchange has, or will have once the queue is written, is then what
\* the application wants.  Before the handshake only a subscription nobody wants
\* would be wrong: a wanted one is asked for in onConnected().
WishInv ==
    /\ wanted # 0 => wanted \in DOMAIN calls /\ Asks(wanted)
    /\ resubscribing # 0 =>
        link = "up" /\ resubscribing \in DOMAIN calls /\ Asks(resubscribing)
    /\ \A c \in Callers : pc[c] = "send" /\ ~IsPost(current[c]) =>
        /\ (Asks(current[c]) <=> wanted # 0)
        /\ \A d \in Callers : pc[d] = "send" /\ ~IsPost(current[d]) => c = d
    /\ link # "up" => ~subscribed
    /\ Settled =>
        /\ \A k \in Nat : LastWord(k) => (Asks(queue[k]) <=> wanted # 0)
        /\ (\A k \in DOMAIN queue : IsPost(queue[k])) => subscribed = (wanted # 0)
    /\ resubscribing # 0 /\ ~Subscribing /\ wanted = 0 => overtaken
    /\ link = "connecting" /\ ~Subscribing /\ wanted = 0 =>
        \A k \in Nat : LastWord(k) => ~Asks(queue[k])

\* A message about the subscription is on its way from its thread to the queue.
Sending(c) == pc[c] = "send" /\ ~IsPost(current[c])

\* Everything together.
ApiInv == PostInv /\ NonceInv /\ OrderInv /\ WishInv

-----------------------------------------------------------------------------
\* Elements of sequences, also after Append and Tail.
LEMMA Element ==
  ASSUME NEW S, NEW q \in Seq(S), NEW i \in DOMAIN q
  PROVE  q[i] \in S /\ i \in Nat /\ i > 0 /\ i <= Len(q)
  OBVIOUS

LEMMA TailOf ==
  ASSUME NEW S, NEW q \in Seq(S), q # <<>>
  PROVE  /\ Head(q) \in S /\ Tail(q) \in Seq(S)
         /\ 1 \in DOMAIN q /\ q[1] = Head(q)
         /\ \A i \in DOMAIN Tail(q) :
                i + 1 \in DOMAIN q /\ Tail(q)[i] = q[i + 1] /\ i \in Nat /\ i > 0
         /\ \A i \in DOMAIN q : i = 1 \/ (i - 1 \in DOMAIN Tail(q) /\ i \in Nat)
  OBVIOUS

(* A call is begun. *)

\* What is said of the calls there were stays true: the thread was idle and the
\* new call has a number of its own.
LEMMA OldCalls ==
  ASSUME PostTypeOK, CallerInv, NEW c \in Callers, NEW type \in Types, NEW nonce \in Nat,
         NEW next \in {"number", "send"}, next = "number" \/ type \in Subscriptions,
         StartCall(c, type, next, nonce)
  PROVE  /\ calls' \in Seq(CallRecord)
         /\ DOMAIN calls' = DOMAIN calls \cup {Len(calls) + 1}
         /\ Len(calls) + 1 \notin DOMAIN calls
         /\ calls'[Len(calls) + 1] = [by |-> c, type |-> type, id |-> 0, nonce |-> nonce]
         /\ \A n \in DOMAIN calls :
                /\ calls'[n] = calls[n]
                /\ n \in Nat /\ n < Len(calls) + 1
                /\ (IsPost(n)' <=> IsPost(n))
         /\ \A n : (Numbered(n)' <=> Numbered(n)) /\ (Recorded(n)' <=> Recorded(n))
                   /\ (Sent(n)' <=> Sent(n))
  <1> DEFINE call == [by |-> c, type |-> type, id |-> 0, nonce |-> nonce]
  <1>1. call \in CallRecord /\ calls \in Seq(CallRecord) /\ calls' = Append(calls, call)
    BY DEF PostTypeOK, StartCall, CallRecord
  <1>2. calls' \in Seq(CallRecord) /\ DOMAIN calls' = DOMAIN calls \cup {Len(calls) + 1}
        /\ Len(calls) + 1 \notin DOMAIN calls /\ calls'[Len(calls) + 1] = call
        /\ \A n \in DOMAIN calls : calls'[n] = calls[n] /\ n \in Nat /\ n < Len(calls) + 1
    <2> HIDE DEF call
    <2> QED BY <1>1
  <1>3. ASSUME NEW n \in DOMAIN calls, NEW steps, "idle" \notin steps
        PROVE  At(n, steps)' = At(n, steps)
    <2>1. \A d \in Callers \ {c} : current'[d] = current[d] /\ pc'[d] = pc[d]
      BY DEF StartCall, PostTypeOK
    <2>2. current'[c] # n /\ pc[c] = "idle"
      BY <1>2 DEF StartCall, PostTypeOK
    <2> QED BY <1>3, <2>1, <2>2, Zenon DEF At
  <1>4. ASSUME NEW n \in DOMAIN calls
        PROVE  /\ (IsPost(n)' <=> IsPost(n))
               /\ (Numbered(n)' <=> Numbered(n))
               /\ (Recorded(n)' <=> Recorded(n))
               /\ (Sent(n)' <=> Sent(n))
    <2>1. (IsPost(n)' <=> IsPost(n))
      BY <1>2 DEF IsPost
    <2>2. /\ At(n, {"number"})' = At(n, {"number"})
          /\ At(n, {"number", "record"})' = At(n, {"number", "record"})
          /\ At(n, {"number", "record", "send"})' = At(n, {"number", "record", "send"})
      BY <1>3
    <2> QED BY <1>2, <2>1, <2>2 DEF Numbered, Recorded, Sent
  <1>5. ASSUME NEW n, n \notin DOMAIN calls
        PROVE  /\ ~Numbered(n) /\ ~Recorded(n) /\ ~Sent(n)
               /\ ~Numbered(n)' /\ ~Recorded(n)' /\ ~Sent(n)'
    <2>1. CASE n = Len(calls) + 1
      <3>1. current'[c] = n /\ pc'[c] = next
        BY <2>1 DEF StartCall, PostTypeOK
      <3>2. calls'[n].type = type
        BY <1>2, <2>1
      <3>3. IsPost(n)' => next = "number"
        BY <3>2 DEF IsPost
      <3>4. next = "number" => /\ At(n, {"number"})' /\ At(n, {"number", "record"})'
                               /\ At(n, {"number", "record", "send"})'
        BY <3>1 DEF At
      <3> QED BY <1>5, <3>3, <3>4 DEF Numbered, Recorded, Sent
    <2>2. CASE n # Len(calls) + 1
      BY <1>2, <1>5, <2>2 DEF Numbered, Recorded, Sent
    <2> QED BY <2>1, <2>2
  <1>6. \A n : (Numbered(n)' <=> Numbered(n)) /\ (Recorded(n)' <=> Recorded(n)) /\ (Sent(n)' <=> Sent(n))
    BY <1>4, <1>5, Zenon
  <1> QED BY <1>2, <1>4, <1>6

\* signAndSend(), subscribe() and unsubscribe() begin a call.
LEMMA StartCallStep ==
  ASSUME PostInv, NEW c \in Callers, NEW type \in Types, NEW nonce \in Nat,
         NEW next \in {"number", "send"},
         next = "send" <=> type \in Subscriptions,
         StartCall(c, type, next, nonce), lastNonce' \in Nat, wanted' \in Nat
  PROVE  PostInv'
  <1>0. PostTypeOK /\ CallerInv
    BY DEF PostInv
  <1>1. /\ calls' \in Seq(CallRecord)
        /\ DOMAIN calls' = DOMAIN calls \cup {Len(calls) + 1}
        /\ Len(calls) + 1 \notin DOMAIN calls
        /\ calls'[Len(calls) + 1] = [by |-> c, type |-> type, id |-> 0, nonce |-> nonce]
        /\ \A n \in DOMAIN calls :
               /\ calls'[n] = calls[n]
               /\ n \in Nat /\ n < Len(calls) + 1
               /\ (IsPost(n)' <=> IsPost(n))
        /\ \A n : (Numbered(n)' <=> Numbered(n)) /\ (Recorded(n)' <=> Recorded(n))
                  /\ (Sent(n)' <=> Sent(n))
    BY <1>0, OldCalls
  <1>2. /\ pc' = [pc EXCEPT ![c] = next] /\ pc[c] = "idle"
        /\ current' = [current EXCEPT ![c] = Len(calls) + 1]
        /\ UNCHANGED <<counter, info, link, queue, losses, lost, subscribed, inbox, stopping,
                       answered, wired, responses, unknown, malformed>>
    BY DEF StartCall, transport, listener
  <1>3. Len(calls) + 1 \in Nat
    BY <1>0 DEF PostTypeOK
  <1>4. PostTypeOK'
    BY <1>0, <1>1, <1>2, <1>3 DEF PostTypeOK
  <1>5. CallerInv'
    <2>1. ASSUME NEW n \in DOMAIN calls' PROVE n <= current'[calls'[n].by]
      <3>1. CASE n \in DOMAIN calls
        <4>1. calls'[n].by \in Callers /\ calls'[n] = calls[n] /\ n <= Len(calls) + 1
          <5>1. calls[n] \in CallRecord
            BY <1>0, <3>1, Element, Zenon DEF PostTypeOK
          <5> QED BY <1>1, <1>3, <3>1, <5>1 DEF CallRecord
        <4>2. n <= current[calls[n].by]
          BY <1>0, <3>1 DEF CallerInv
        <4> QED BY <1>0, <1>2, <4>1, <4>2 DEF PostTypeOK
      <3>2. CASE n = Len(calls) + 1
        BY <1>0, <1>1, <1>2, <1>3, <3>2 DEF PostTypeOK
      <3> QED BY <1>1, <3>1, <3>2
    <2>2. ASSUME NEW d \in Callers, pc'[d] # "idle"
          PROVE  /\ current'[d] \in DOMAIN calls'
                 /\ calls'[current'[d]].by = d
                 /\ pc'[d] # "send" => IsPost(current[d])'
      <3>1. CASE d = c
        BY <1>0, <1>1, <1>2, <3>1 DEF PostTypeOK, IsPost
      <3>2. CASE d # c
        <4>1. pc'[d] = pc[d] /\ current'[d] = current[d]
          BY <1>0, <1>2, <3>2 DEF PostTypeOK
        <4> QED BY <1>0, <1>1, <2>2, <4>1 DEF CallerInv, IsPost
      <3> QED BY <3>1, <3>2
    <2> QED BY <2>1, <2>2 DEF CallerInv
  <1>6. \A n : Numbered(n) => n \in DOMAIN calls
    BY DEF Numbered
  <1>7. \A n : Recorded(n) => n \in DOMAIN calls
    BY DEF Recorded
  <1>8. \A n : Sent(n) => n \in DOMAIN calls
    BY DEF Sent
  <1>9. IdsInv'
    BY <1>1, <1>2, <1>6 DEF IdsInv, PostInv
  <1>10. \A n : (Responded(n)' <=> Responded(n))
    BY <1>2 DEF Responded
  <1>11. InfoInv'
    BY <1>1, <1>2, <1>7, <1>10 DEF InfoInv, PostInv
  <1>12. SentInv'
    BY <1>1, <1>2, <1>8 DEF SentInv, PostInv
  <1>13. RightCall' /\ AnsweredOnce' /\ KnownIds'
    BY <1>1, <1>2, <1>8 DEF RightCall, AnsweredOnce, KnownIds, SentInv, PostInv
  <1> QED BY <1>4, <1>5, <1>9, <1>11, <1>12, <1>13 DEF PostInv

-----------------------------------------------------------------------------
(* A call goes on. *)

\* Only the thread whose call it is moves it from one step to the next.
LEMMA OwnCall ==
  ASSUME PostTypeOK, CallerInv, NEW c \in Callers, pc[c] # "idle", NEW k, k = current[c],
         NEW next \in {"idle", "record", "send"}, pc[c] # "send" \/ next = "idle",
         pc' = [pc EXCEPT ![c] = next], UNCHANGED current,
         DOMAIN calls' = DOMAIN calls,
         \A n \in DOMAIN calls : calls'[n].by = calls[n].by /\ calls'[n].type = calls[n].type
  PROVE  /\ CallerInv'
         /\ \A n \in DOMAIN calls : IsPost(n)' <=> IsPost(n)
         /\ \A n : n # k => (Numbered(n)' <=> Numbered(n)) /\ (Recorded(n)' <=> Recorded(n))
                           /\ (Sent(n)' <=> Sent(n))
         /\ k \in DOMAIN calls
         /\ (Numbered(k) <=> IsPost(k) /\ pc[c] # "number")
         /\ (Recorded(k) <=> IsPost(k) /\ pc[c] = "send")
         /\ ~Sent(k)
         /\ (Numbered(k)' <=> IsPost(k))
         /\ (Recorded(k)' <=> IsPost(k) /\ next # "record")
         /\ (Sent(k)' <=> IsPost(k) /\ next = "idle")
  <1>1. \A d \in Callers : current[d] = k /\ pc[d] # "idle" => d = c
    BY DEF CallerInv
  <1>2. pc'[c] = next /\ \A d \in Callers \ {c} : pc'[d] = pc[d]
    BY DEF PostTypeOK
  <1>3. k \in DOMAIN calls /\ calls[k].by = c
    BY DEF CallerInv
  <1>4. pc[c] \in {"idle", "number", "record", "send"}
    BY DEF PostTypeOK
  <1>5. \A n \in DOMAIN calls : IsPost(n)' <=> IsPost(n)
    BY DEF IsPost
  <1>6. ASSUME NEW steps, "idle" \notin steps
        PROVE  /\ (At(k, steps) <=> pc[c] \in steps)
               /\ (At(k, steps)' <=> next \in steps)
               /\ \A n : n # k => (At(n, steps)' <=> At(n, steps))
    BY <1>1, <1>2, <1>6, Zenon DEF At
  <1>7. \A n : n # k => (Numbered(n)' <=> Numbered(n)) /\ (Recorded(n)' <=> Recorded(n))
                           /\ (Sent(n)' <=> Sent(n))
    <2>1. \A n : n # k => (At(n, {"number"})' <=> At(n, {"number"}))
      BY <1>6
    <2>2. \A n : n # k => (At(n, {"number", "record"})' <=> At(n, {"number", "record"}))
      BY <1>6
    <2>3. \A n : n # k =>
            (At(n, {"number", "record", "send"})' <=> At(n, {"number", "record", "send"}))
      BY <1>6
    <2> SUFFICES ASSUME NEW n, n # k
                 PROVE  /\ (Numbered(n)' <=> Numbered(n))
                        /\ (Recorded(n)' <=> Recorded(n))
                        /\ (Sent(n)' <=> Sent(n))
      BY Zenon
    <2>4. CASE n \in DOMAIN calls
      <3>1. IsPost(n)' <=> IsPost(n)
        BY <1>5, <2>4
      <3> QED BY <2>1, <2>2, <2>3, <2>4, <3>1 DEF Numbered, Recorded, Sent
    <2>5. CASE n \notin DOMAIN calls
      BY <2>5 DEF Numbered, Recorded, Sent
    <2> QED BY <2>4, <2>5
  <1>8. /\ (Numbered(k) <=> IsPost(k) /\ pc[c] # "number")
        /\ (Numbered(k)' <=> IsPost(k))
    <2>1. (At(k, {"number"}) <=> pc[c] = "number") /\ ~At(k, {"number"})'
      BY <1>6
    <2> QED BY <1>3, <1>5, <2>1 DEF Numbered
  <1>9. /\ (Recorded(k) <=> IsPost(k) /\ pc[c] = "send")
        /\ (Recorded(k)' <=> IsPost(k) /\ next # "record")
    <2>1. /\ (At(k, {"number", "record"}) <=> pc[c] # "send")
          /\ (At(k, {"number", "record"})' <=> next = "record")
      BY <1>4, <1>6
    <2> QED BY <1>3, <1>5, <2>1 DEF Recorded
  <1>10. ~Sent(k) /\ (Sent(k)' <=> IsPost(k) /\ next = "idle")
    <2>1. /\ At(k, {"number", "record", "send"})
          /\ (At(k, {"number", "record", "send"})' <=> next # "idle")
      BY <1>4, <1>6
    <2> QED BY <1>3, <1>5, <2>1 DEF Sent
  <1>11. CallerInv'
    <2>1. \A n \in DOMAIN calls' : n <= current'[calls'[n].by]
      BY DEF CallerInv
    <2>2. ASSUME NEW d \in Callers, pc'[d] # "idle"
          PROVE  /\ current'[d] \in DOMAIN calls'
                 /\ calls'[current'[d]].by = d
                 /\ pc'[d] # "send" => IsPost(current[d])'
      <3>1. pc[d] # "idle" /\ (pc'[d] # "send" => pc[d] # "send")
        BY <2>2 DEF PostTypeOK
      <3> QED BY <2>2, <3>1 DEF CallerInv, IsPost
    <2> QED BY <2>1, <2>2 DEF CallerInv
  <1> QED BY <1>3, <1>5, <1>7, <1>8, <1>9, <1>10, <1>11, Zenon

\* postRequestCounter.fetch_add(1)
LEMMA NumberStep == ASSUME PostInv, NEW c \in Callers, Number(c) PROVE PostInv'
  <1>0. PostTypeOK /\ CallerInv
    BY DEF PostInv
  <1>1. PICK k : k = current[c]
    OBVIOUS
  <1>2. /\ pc[c] = "number" /\ pc' = [pc EXCEPT ![c] = "record"]
        /\ calls' = [calls EXCEPT ![k].id = counter]
        /\ counter' = counter + 1
        /\ UNCHANGED <<current, lastNonce, wanted, info, link, queue, losses, lost, subscribed,
                       inbox, stopping, answered, wired, responses, unknown, malformed>>
    BY <1>1 DEF Number, transport, listener
  <1>3. k \in DOMAIN calls /\ IsPost(k) /\ k \in Nat
    BY <1>0, <1>1, <1>2 DEF CallerInv, PostTypeOK
  <1>4. calls \in Seq(CallRecord) /\ calls[k] \in CallRecord /\ counter \in Nat
    BY <1>0, <1>3, Element DEF PostTypeOK
  <1>5. /\ calls' \in Seq(CallRecord) /\ DOMAIN calls' = DOMAIN calls
        /\ calls'[k] = [calls[k] EXCEPT !.id = counter]
        /\ \A n \in DOMAIN calls : n # k => calls'[n] = calls[n]
    <2>1. [calls[k] EXCEPT !.id = counter] \in CallRecord
      BY <1>4 DEF CallRecord
    <2> QED BY <1>2, <1>3, <1>4, <2>1
  <1>6. /\ calls'[k].id = counter /\ calls'[k].by = calls[k].by
        /\ calls'[k].type = calls[k].type /\ calls'[k].nonce = calls[k].nonce
    BY <1>4, <1>5 DEF CallRecord
  <1>7. \A n \in DOMAIN calls : /\ calls'[n].by = calls[n].by
                                /\ calls'[n].type = calls[n].type
                                /\ calls'[n].nonce = calls[n].nonce
    BY <1>5, <1>6
  <1>8. /\ CallerInv'
        /\ \A n \in DOMAIN calls : IsPost(n)' <=> IsPost(n)
        /\ ~Numbered(k) /\ ~Recorded(k) /\ ~Sent(k)
        /\ Numbered(k)' /\ ~Recorded(k)' /\ ~Sent(k)'
    BY <1>0, <1>1, <1>2, <1>3, <1>5, <1>7, OwnCall
  <1>9. \A n : n # k => (Numbered(n)' <=> Numbered(n)) /\ (Recorded(n)' <=> Recorded(n))
                       /\ (Sent(n)' <=> Sent(n))
    BY <1>0, <1>1, <1>2, <1>3, <1>5, <1>7, OwnCall
  <1>10. PostTypeOK'
    <2>1. pc' \in [Callers -> {"idle", "number", "record", "send"}] /\ counter' \in Nat
      BY <1>0, <1>2 DEF PostTypeOK
    <2> QED BY <1>0, <1>2, <1>5, <2>1 DEF PostTypeOK
  <1>11. UNCHANGED <<info, queue, inbox, answered, responses, unknown, malformed>>
    BY <1>2
  <1>12. IdsInv'
    <2>1. IdsInv /\ counter' = counter + 1
      BY <1>2 DEF PostInv
    <2>2. ASSUME NEW n, Numbered(n) PROVE n \in DOMAIN calls /\ calls[n].id \in Nat
      <3>1. calls[n] \in CallRecord
        BY <1>4, <2>2, Element, Zenon DEF Numbered
      <3> QED BY <2>2, <3>1 DEF Numbered, CallRecord
    <2>3. ASSUME NEW n \in Nat, Numbered(n)'
          PROVE  (n = k /\ calls'[n].id = counter)
                   \/ (n # k /\ Numbered(n) /\ calls'[n].id = calls[n].id
                       /\ calls[n].id \in Nat /\ calls[n].id < counter)
      BY <1>5, <1>6, <1>9, <2>1, <2>2, <2>3 DEF IdsInv
    <2>4. ASSUME NEW n \in Nat, Numbered(n)' PROVE calls'[n].id < counter'
      BY <1>4, <2>1, <2>3, <2>4
    <2>5. ASSUME NEW n \in Nat, Numbered(n)', NEW m \in Nat, Numbered(m)',
                 calls'[m].id = calls'[n].id
          PROVE  m = n
      <3>1. CASE n # k /\ m # k
        BY <2>1, <2>3, <2>5, <3>1 DEF IdsInv
      <3> QED BY <1>4, <2>3, <2>5, <3>1
    <2> QED BY <2>4, <2>5 DEF IdsInv
  <1>13. \A n : Responded(n)' <=> Responded(n)
    BY <1>11 DEF Responded
  <1>14. \A n : (Recorded(n)' <=> Recorded(n)) /\ (Recorded(n) => n \in DOMAIN calls /\ n # k)
    BY <1>8, <1>9 DEF Recorded
  <1>15. InfoInv'
    BY <1>5, <1>11, <1>13, <1>14 DEF InfoInv, PostInv
  <1>16. \A n : (Sent(n)' <=> Sent(n)) /\ (Sent(n) => n \in DOMAIN calls)
    BY <1>8, <1>9 DEF Sent
  <1>17. SentInv'
    BY <1>5, <1>8, <1>11, <1>16 DEF SentInv, PostInv
  <1>18. RightCall' /\ AnsweredOnce' /\ KnownIds'
    BY <1>7, <1>11, <1>16 DEF RightCall, AnsweredOnce, KnownIds, SentInv, PostInv
  <1> QED BY <1>8, <1>10, <1>12, <1>15, <1>17, <1>18 DEF PostInv

\* postRequestInfo[id] = {type, correlationId}
LEMMA RecordStep == ASSUME PostInv, NEW c \in Callers, Record(c) PROVE PostInv'
  <1>0. PostTypeOK /\ CallerInv
    BY DEF PostInv
  <1>1. PICK k : k = current[c]
    OBVIOUS
  <1>2. PICK id : id = calls[k].id
    OBVIOUS
  <1>3. /\ pc[c] = "record" /\ pc' = [pc EXCEPT ![c] = "send"]
        /\ info' = Put(info, id, [type |-> calls[k].type, correlationId |-> k])
        /\ UNCHANGED <<current, calls, counter, lastNonce, wanted, link, queue, losses, lost,
                       subscribed, inbox, stopping, answered, wired, responses, unknown,
                       malformed>>
    BY <1>1, <1>2 DEF Record, transport, listener
  <1>4. k \in DOMAIN calls /\ IsPost(k) /\ k \in Nat
    BY <1>0, <1>1, <1>3 DEF CallerInv, PostTypeOK
  <1>5. UNCHANGED <<calls, queue, inbox, answered, responses, unknown, malformed, counter>>
    BY <1>3
  <1>6. /\ CallerInv'
        /\ Numbered(k) /\ ~Recorded(k) /\ ~Sent(k)
        /\ Numbered(k)' /\ Recorded(k)' /\ ~Sent(k)'
    BY <1>0, <1>1, <1>3, <1>4, OwnCall
  <1>7. \A n : n # k => (Numbered(n)' <=> Numbered(n)) /\ (Recorded(n)' <=> Recorded(n))
                       /\ (Sent(n)' <=> Sent(n))
    BY <1>0, <1>1, <1>3, <1>4, OwnCall
  <1>8. PostTypeOK'
    <2>1. pc' \in [Callers -> {"idle", "number", "record", "send"}]
      BY <1>0, <1>3 DEF PostTypeOK
    <2> QED BY <1>0, <1>3, <2>1 DEF PostTypeOK
  <1>9. \A n : Numbered(n)' <=> Numbered(n)
    BY <1>6, <1>7
  <1>10. IdsInv'
    BY <1>5, <1>9 DEF IdsInv, PostInv
  <1>11. \A n : Responded(n)' <=> Responded(n)
    BY <1>5 DEF Responded
  <1>12. \A n : Sent(n)' <=> Sent(n)
    BY <1>6, <1>7
  <1>13. InfoInv'
    <2>1. /\ DOMAIN info' = DOMAIN info \cup {id}
          /\ info'[id].correlationId = k /\ info'[id].type = calls[k].type
          /\ \A i \in DOMAIN info : i # id => info'[i] = info[i]
      BY <1>3 DEF Put
    <2>2. ~Responded(k)
      BY <1>6 DEF Responded, PostInv, SentInv
    <2>3. \A n : Recorded(n) => Recorded(n)'
      BY <1>6, <1>7
    <2>4. ASSUME NEW i \in DOMAIN info', NEW n, n = info'[i].correlationId
          PROVE  /\ n \in Nat /\ Recorded(n)' /\ ~Responded(n)'
                 /\ calls'[n].id = i /\ info'[i].type = calls'[n].type
      <3>1. CASE i = id
        BY <1>2, <1>4, <1>5, <1>6, <1>11, <2>1, <2>2, <2>4, <3>1
      <3>2. CASE i # id
        BY <1>5, <1>11, <2>1, <2>3, <2>4, <3>2 DEF InfoInv, PostInv
      <3> QED BY <3>1, <3>2
    <2>5. ASSUME NEW n \in Nat, Recorded(n)'
          PROVE  calls'[n].id \in DOMAIN info' \/ n \in malformed' \/ Responded(n)'
      BY <1>2, <1>5, <1>7, <1>11, <2>1, <2>5 DEF InfoInv, PostInv
    <2> QED BY <2>4, <2>5 DEF InfoInv
  <1>14. SentInv'
    BY <1>5, <1>12 DEF SentInv, PostInv, IsPost
  <1>15. RightCall' /\ AnsweredOnce' /\ KnownIds'
    BY <1>5 DEF RightCall, AnsweredOnce, KnownIds, PostInv
  <1> QED BY <1>6, <1>8, <1>10, <1>13, <1>14, <1>15 DEF PostInv

\* The message is handed to the runner.
LEMMA SendStep == ASSUME PostInv, NEW c \in Callers, Send(c) PROVE PostInv'
  <1>0. PostTypeOK /\ CallerInv
    BY DEF PostInv
  <1>1. PICK k : k = current[c]
    OBVIOUS
  <1>2. /\ pc[c] = "send" /\ pc' = [pc EXCEPT ![c] = "idle"]
        /\ queue' = Append(queue, k)
        /\ UNCHANGED <<current, calls, counter, lastNonce, wanted, info, link, losses, lost,
                       subscribed, inbox, stopping, answered, wired, responses, unknown,
                       malformed>>
    BY <1>1 DEF Send, listener
  <1>3. k \in DOMAIN calls /\ k \in Nat
    BY <1>0, <1>1, <1>2 DEF CallerInv, PostTypeOK
  <1>4. UNCHANGED <<calls, info, inbox, answered, responses, unknown, malformed, counter>>
    BY <1>2
  <1>5. /\ CallerInv'
        /\ (Numbered(k)' <=> Numbered(k)) /\ (Recorded(k)' <=> Recorded(k))
        /\ ~Sent(k) /\ (Sent(k)' <=> IsPost(k))
    BY <1>0, <1>1, <1>2, <1>3, OwnCall
  <1>6. \A n : n # k => (Numbered(n)' <=> Numbered(n)) /\ (Recorded(n)' <=> Recorded(n))
                       /\ (Sent(n)' <=> Sent(n))
    BY <1>0, <1>1, <1>2, <1>3, OwnCall
  <1>7. /\ queue' \in Seq(Nat) /\ DOMAIN queue' = DOMAIN queue \cup {Len(queue) + 1}
        /\ queue'[Len(queue) + 1] = k /\ \A i \in DOMAIN queue : queue'[i] = queue[i]
    <2>1. queue \in Seq(Nat) /\ queue' = Append(queue, k)
      BY <1>0, <1>2 DEF PostTypeOK
    <2> QED BY <1>3, <2>1
  <1>8. PostTypeOK'
    <2>1. pc' \in [Callers -> {"idle", "number", "record", "send"}]
      BY <1>0, <1>2 DEF PostTypeOK
    <2> QED BY <1>0, <1>2, <1>7, <2>1 DEF PostTypeOK
  <1>9. \A n : (Numbered(n)' <=> Numbered(n)) /\ (Recorded(n)' <=> Recorded(n))
    BY <1>5, <1>6
  <1>10. \A n : (Sent(n) => Sent(n)') /\ (Responded(n)' <=> Responded(n))
    BY <1>4, <1>5, <1>6 DEF Responded
  <1>11. IdsInv'
    BY <1>4, <1>9 DEF IdsInv, PostInv
  <1>12. InfoInv'
    BY <1>4, <1>9, <1>10 DEF InfoInv, PostInv
  <1>13. SentInv'
    BY <1>3, <1>4, <1>5, <1>7, <1>10 DEF SentInv, PostInv, IsPost
  <1>14. RightCall' /\ AnsweredOnce' /\ KnownIds'
    BY <1>4 DEF RightCall, AnsweredOnce, KnownIds, PostInv
  <1> QED BY <1>5, <1>8, <1>11, <1>12, <1>13, <1>14 DEF PostInv

-----------------------------------------------------------------------------
(* The connection and the IO thread: no call begins or goes on. *)

LEMMA SameCalls ==
  ASSUME PostInv, UNCHANGED <<pc, current, calls, counter>>
  PROVE  /\ CallerInv' /\ IdsInv'
         /\ \A n : (Numbered(n)' <=> Numbered(n)) /\ (Recorded(n)' <=> Recorded(n))
                   /\ (Sent(n)' <=> Sent(n)) /\ (IsPost(n)' <=> IsPost(n))
  <1>1. \A n : (Numbered(n)' <=> Numbered(n)) /\ (Recorded(n)' <=> Recorded(n))
               /\ (Sent(n)' <=> Sent(n)) /\ (IsPost(n)' <=> IsPost(n))
    BY DEF Numbered, Recorded, Sent, IsPost, At
  <1>2. CallerInv'
    BY <1>1 DEF PostInv, CallerInv
  <1>3. IdsInv'
    BY <1>1 DEF PostInv, IdsInv
  <1> QED BY <1>1, <1>2, <1>3

\* Nothing is recorded, answered or reported.
LEMMA SameListener ==
  ASSUME PostInv, UNCHANGED <<pc, current, calls, counter, info, responses, unknown, malformed>>
  PROVE  InfoInv' /\ RightCall' /\ AnsweredOnce' /\ KnownIds'
  <1>1. \A n : (Recorded(n)' <=> Recorded(n)) /\ (Responded(n)' <=> Responded(n))
    BY SameCalls DEF Responded
  <1>2. InfoInv'
    BY <1>1 DEF PostInv, InfoInv
  <1> QED BY <1>2 DEF PostInv, RightCall, AnsweredOnce, KnownIds

\* onWsConnected(): the application looks at its wish.
LEMMA ConnectedStep == ASSUME PostInv, Connected PROVE PostInv'
  <1>1. /\ UNCHANGED <<pc, current, calls, counter, info, responses, unknown, malformed>>
        /\ UNCHANGED <<lastNonce, wanted, queue, losses, subscribed, inbox, stopping, answered,
                       wired>>
        /\ link' = "up"
    BY DEF Connected, callers, listener
  <1>2. PostTypeOK'
    BY <1>1 DEF PostInv, PostTypeOK
  <1>3. SentInv'
    BY <1>1, SameCalls DEF PostInv, SentInv
  <1> QED BY <1>1, <1>2, <1>3, SameCalls, SameListener DEF PostInv

\* ... and queues a subscribe() once more.
LEMMA SubscribeAgainStep == ASSUME PostInv, WishInv, SubscribeAgain PROVE PostInv'
  <1>0. PostTypeOK
    BY DEF PostInv
  <1>1. /\ UNCHANGED <<pc, current, calls, counter, info, responses, unknown, malformed>>
        /\ UNCHANGED <<lastNonce, wanted, link, losses, subscribed, inbox, stopping, answered,
                       wired>>
        /\ queue' = Append(queue, resubscribing)
    BY DEF SubscribeAgain, callers, listener
  <1>2. resubscribing \in DOMAIN calls /\ ~IsPost(resubscribing)
    BY DEF SubscribeAgain, WishInv, Asks, IsPost, Subscriptions
  <1>3. queue \in Seq(Nat) /\ resubscribing \in Nat
    BY <1>0, <1>2 DEF PostTypeOK
  <1>4. /\ queue' \in Seq(Nat)
        /\ \A i \in DOMAIN queue' :
             (i \in DOMAIN queue /\ queue'[i] = queue[i]) \/ queue'[i] = resubscribing
    BY <1>1, <1>3
  <1>5. PostTypeOK'
    BY <1>0, <1>1, <1>4 DEF PostTypeOK
  <1>6. SentInv'
    BY <1>1, <1>2, <1>4, SameCalls DEF PostInv, SentInv
  <1> QED BY <1>1, <1>5, <1>6, SameCalls, SameListener DEF PostInv

\* A write reaches the exchange.
LEMMA WriteStep == ASSUME PostInv, Write PROVE PostInv'
  <1>0. PostTypeOK
    BY DEF PostInv
  <1>1. /\ UNCHANGED <<pc, current, calls, counter, info, responses, unknown, malformed>>
        /\ UNCHANGED <<lastNonce, wanted, losses, link, inbox, stopping>>
        /\ queue' = Tail(queue) /\ queue # <<>>
    BY DEF Write, callers, listener
  <1>2. PICK n : n = Head(queue)
    OBVIOUS
  <1>3. /\ answered' = IF IsPost(n) THEN Put(answered, n, 0) ELSE answered
        /\ wired' = IF calls[n].nonce = 0 THEN wired ELSE Append(wired, calls[n].nonce)
        /\ subscribed' = IF IsPost(n) THEN subscribed ELSE calls[n].type = "subscribe"
    BY <1>2 DEF Write, IsPost
  <1>4. /\ queue' \in Seq(Nat) /\ 1 \in DOMAIN queue /\ queue[1] = n /\ n \in Nat
        /\ \A i \in DOMAIN queue' : i + 1 \in DOMAIN queue /\ queue'[i] = queue[i + 1]
    <2>1. queue \in Seq(Nat)
      BY <1>0 DEF PostTypeOK
    <2> QED BY <1>1, <1>2, <2>1
  <1>5. n \in DOMAIN calls /\ (IsPost(n) => Sent(n))
    BY <1>4 DEF PostInv, SentInv
  <1>6. calls[n] \in CallRecord
    BY <1>0, <1>5, Element DEF PostTypeOK
  <1>7. wired' \in Seq(Nat) /\ subscribed' \in BOOLEAN
    <2>1. calls[n].nonce \in Nat
      BY <1>6 DEF CallRecord
    <2>2. wired \in Seq(Nat) /\ subscribed \in BOOLEAN
      BY <1>0 DEF PostTypeOK
    <2>3. wired' \in Seq(Nat)
      BY <1>3, <2>1, <2>2
    <2>4. subscribed' \in BOOLEAN
      BY <1>3, <2>2, Zenon
    <2> QED BY <2>3, <2>4
  <1>8. PostTypeOK'
    BY <1>0, <1>1, <1>4, <1>7 DEF PostTypeOK
  <1>9. \A m \in DOMAIN answered' : m \in DOMAIN answered \/ (m = n /\ IsPost(n))
    BY <1>3 DEF Put
  <1>10. SentInv'
    <2>1. \A m : (Sent(m)' <=> Sent(m)) /\ (IsPost(m)' <=> IsPost(m))
      BY <1>1, SameCalls
    <2> QED BY <1>1, <1>4, <1>5, <1>9, <2>1 DEF PostInv, SentInv
  <1> QED BY <1>1, <1>8, <1>10, SameCalls, SameListener DEF PostInv

\* A connection is lost, or the next attempt begins.
LEMMA LoseStep == ASSUME PostInv, Lose \/ Reconnect PROVE PostInv'
  <1>1. /\ UNCHANGED <<pc, current, calls, counter, info, responses, unknown, malformed>>
        /\ UNCHANGED <<lastNonce, wanted, stopping, wired>>
    BY DEF Lose, Reconnect, callers, listener
  <1>2. PostTypeOK'
    <2>0. PostTypeOK
      BY DEF PostInv
    <2>1. CASE Lose
      <3>1. /\ link' = "down" /\ losses' = losses + 1 /\ inbox' = <<>>
            /\ subscribed' = FALSE /\ queue' = queue
        BY <2>1 DEF Lose
      <3>2. losses' \in Nat
        BY <2>0, <3>1 DEF PostTypeOK
      <3>3. inbox' \in Seq([of : Nat, kind : Kinds])
        <4> DEFINE M == [of : Nat, kind : Kinds]
        <4> HIDE DEF M
        <4>1. inbox' \in Seq(M)
          BY <3>1
        <4> QED BY <4>1 DEF M
      <3>4. subscribed' \in BOOLEAN
        BY <3>1, Zenon
      <3> QED BY <1>1, <2>0, <3>1, <3>2, <3>3, <3>4 DEF PostTypeOK
    <2>2. CASE Reconnect
      BY <1>1, <2>0, <2>2 DEF PostTypeOK, Reconnect
    <2> QED BY <2>1, <2>2
  <1>3. SentInv'
    <2>1. \A m : (Sent(m)' <=> Sent(m)) /\ (IsPost(m)' <=> IsPost(m))
      BY <1>1, SameCalls
    <2>2. \A i \in DOMAIN queue' : i \in DOMAIN queue /\ queue'[i] = queue[i]
      BY DEF Lose, Reconnect
    <2>3. \A i \in DOMAIN inbox' : i \in DOMAIN inbox /\ inbox'[i] = inbox[i]
      BY DEF Lose, Reconnect
    <2>4. \A m \in DOMAIN answered' : m \in DOMAIN answered
      BY DEF Lose, Reconnect
    <2> QED BY <1>1, <2>1, <2>2, <2>3, <2>4 DEF PostInv, SentInv
  <1> QED BY <1>1, <1>2, <1>3, SameCalls, SameListener DEF PostInv

\* The exchange answers, in whatever order and form.
LEMMA AnswerStep ==
  ASSUME PostInv, NEW n \in DOMAIN answered, NEW kind \in Kinds, Answer(n, kind)
  PROVE  PostInv'
  <1>1. /\ UNCHANGED <<pc, current, calls, counter, info, responses, unknown, malformed>>
        /\ UNCHANGED <<lastNonce, wanted, link, queue, losses, subscribed, stopping, wired>>
        /\ inbox' = Append(inbox, [of |-> n, kind |-> kind])
        /\ DOMAIN answered' = DOMAIN answered
    BY DEF Answer, callers, listener, transport
  <1>2. n \in Nat /\ Sent(n)
    BY DEF PostInv, SentInv
  <1>3. PICK message \in [of : Nat, kind : Kinds] : message = [of |-> n, kind |-> kind]
    BY <1>2
  <1>4. message.of = n
    BY <1>3
  <1>5. inbox \in Seq([of : Nat, kind : Kinds])
    BY DEF PostInv, PostTypeOK
  <1>6. /\ inbox' \in Seq([of : Nat, kind : Kinds])
        /\ \A i \in DOMAIN inbox' :
             (i \in DOMAIN inbox /\ inbox'[i] = inbox[i]) \/ inbox'[i] = message
    <2> DEFINE M == [of : Nat, kind : Kinds]
    <2>1. inbox \in Seq(M) /\ message \in M /\ inbox' = Append(inbox, message)
      BY <1>1, <1>3, <1>5
    <2> HIDE DEF M
    <2>2. /\ inbox' \in Seq(M)
          /\ \A i \in DOMAIN inbox' :
               (i \in DOMAIN inbox /\ inbox'[i] = inbox[i]) \/ inbox'[i] = message
      BY <2>1
    <2> QED BY <2>2 DEF M
  <1>7. PostTypeOK'
    BY <1>1, <1>6 DEF PostInv, PostTypeOK
  <1>8. SentInv'
    BY <1>1, <1>2, <1>4, <1>6, SameCalls DEF PostInv, SentInv
  <1> QED BY <1>1, <1>7, <1>8, SameCalls, SameListener DEF PostInv

\* handlePostChannelMessage(): an answer whose request is in the map reaches the
\* call it is for, since ids are not shared; one whose request is not was
\* answered, or lost its entry to a malformed answer, before.
LEMMA MessageStep ==
  ASSUME PostInv, NEW message, NEW n, n = message.of, Sent(n),
         UNCHANGED <<pc, current, calls, counter>>,
         handlePostChannelMessage(message)
  PROVE  /\ InfoInv' /\ RightCall' /\ AnsweredOnce' /\ KnownIds'
         /\ responses' \in Seq([of : Nat, correlationId : Nat, type : Types])
         /\ \A i \in DOMAIN responses' : Sent(responses'[i].of)
  <1> DEFINE R == [of : Nat, correlationId : Nat, type : Types]
  <1>0. /\ PostTypeOK /\ IdsInv /\ InfoInv /\ SentInv /\ RightCall /\ AnsweredOnce /\ KnownIds
        /\ responses \in Seq(R)
    BY DEF PostInv, PostTypeOK
  <1>1. PICK id : id = calls[n].id
    OBVIOUS
  <1>2. n \in Nat /\ n \in DOMAIN calls /\ Recorded(n) /\ Numbered(n)
    <2>1. n \in DOMAIN calls /\ Recorded(n) /\ Numbered(n)
      BY DEF Sent, Recorded, Numbered, At
    <2> QED BY <1>0, <2>1, Element DEF PostTypeOK
  <1>3. \A m : Recorded(m)' <=> Recorded(m)
    BY SameCalls
  <1>4. id \in DOMAIN info => info[id].correlationId = n /\ info[id].type = calls[n].type
    <2>1. \A m : Recorded(m) => Numbered(m)
      BY DEF Recorded, Numbered, At
    <2> QED BY <1>0, <1>1, <1>2, <2>1 DEF InfoInv, IdsInv
  <1>5. CASE UNCHANGED <<info, responses, unknown>> /\ malformed' = malformed \cup {n}
    <2>1. \A m : Responded(m)' <=> Responded(m)
      BY <1>5 DEF Responded
    <2>2. InfoInv'
      BY <1>0, <1>3, <1>5, <2>1 DEF InfoInv
    <2> QED BY <1>0, <1>5, <2>2 DEF RightCall, AnsweredOnce, KnownIds, SentInv
  <1>6. CASE /\ UNCHANGED <<info, responses, malformed>> /\ unknown' = unknown \cup {n}
             /\ id \notin DOMAIN info
    <2>1. \A m : Responded(m)' <=> Responded(m)
      BY <1>6 DEF Responded
    <2>2. InfoInv'
      BY <1>0, <1>3, <1>6, <2>1 DEF InfoInv
    <2>3. n \in malformed \/ Responded(n)
      BY <1>0, <1>1, <1>2, <1>6 DEF InfoInv
    <2>4. KnownIds'
      BY <1>0, <1>6, <2>3 DEF KnownIds, Responded
    <2> QED BY <1>0, <1>6, <2>2, <2>4 DEF RightCall, AnsweredOnce, SentInv
  <1>7. CASE /\ UNCHANGED <<responses, unknown>> /\ malformed' = malformed \cup {n}
             /\ info' = TakeInfo(id)
    <2>1. \A m : Responded(m)' <=> Responded(m)
      BY <1>7 DEF Responded
    <2>2. DOMAIN info' = DOMAIN info \ {id} /\ \A i \in DOMAIN info' : info'[i] = info[i]
      BY <1>7 DEF TakeInfo, Restrict
    <2>3. \A m \in Nat : Recorded(m) /\ calls[m].id = id => m = n
      BY <1>0, <1>1, <1>2 DEF IdsInv, Recorded, Numbered, At
    <2>4. InfoInv'
      BY <1>0, <1>3, <1>7, <2>1, <2>2, <2>3 DEF InfoInv
    <2> QED BY <1>0, <1>7, <2>4 DEF RightCall, AnsweredOnce, KnownIds, SentInv
  <1>8. CASE /\ UNCHANGED <<unknown, malformed>> /\ info' = TakeInfo(id)
             /\ id \in DOMAIN info
             /\ responses' = Append(responses, [of |-> n, type |-> info[id].type,
                                                correlationId |-> info[id].correlationId])
    <2>1. PICK r \in R : r = [of |-> n, type |-> calls[n].type, correlationId |-> n]
      <3>1. calls[n].type \in Types
        <4>1. calls[n] \in CallRecord
          BY <1>0, <1>2, Element DEF PostTypeOK
        <4> QED BY <4>1 DEF CallRecord
      <3> QED BY <1>2, <3>1
    <2>2. r.of = n /\ r.type = calls[n].type /\ r.correlationId = n
      BY <2>1
    <2>3. responses' = Append(responses, r)
      BY <1>4, <1>8, <2>1
    <2> HIDE DEF R
    <2>4. /\ responses' \in Seq(R) /\ DOMAIN responses' = DOMAIN responses \cup {Len(responses) + 1}
          /\ responses'[Len(responses) + 1] = r
          /\ \A i \in DOMAIN responses : responses'[i] = responses[i]
      BY <1>0, <2>1, <2>3
    <2>5. DOMAIN info' = DOMAIN info \ {id} /\ \A i \in DOMAIN info' : info'[i] = info[i]
      BY <1>8 DEF TakeInfo, Restrict
    <2>6. \A m \in Nat : Recorded(m) /\ calls[m].id = id => m = n
      BY <1>0, <1>1, <1>2 DEF IdsInv, Recorded, Numbered, At
    <2>7. \A m : Responded(m)' <=> Responded(m) \/ m = n
      BY <2>2, <2>4 DEF Responded
    <2>8. InfoInv'
      <3>1. ASSUME NEW i \in DOMAIN info', NEW m, m = info'[i].correlationId
            PROVE  /\ m \in Nat /\ Recorded(m)' /\ ~Responded(m)'
                   /\ calls'[m].id = i /\ info'[i].type = calls'[m].type
        BY <1>0, <1>1, <1>3, <2>5, <2>7, <3>1 DEF InfoInv
      <3>2. ASSUME NEW m \in Nat, Recorded(m)'
            PROVE  calls'[m].id \in DOMAIN info' \/ m \in malformed' \/ Responded(m)'
        BY <1>0, <1>3, <1>8, <2>5, <2>6, <2>7, <3>2 DEF InfoInv
      <3> QED BY <3>1, <3>2 DEF InfoInv
    <2>9. ~Responded(n)
      BY <1>0, <1>4, <1>8 DEF InfoInv
    <2>10. RightCall'
      BY <1>0, <2>2, <2>4 DEF RightCall
    <2>11. AnsweredOnce'
      <3>1. \A i \in DOMAIN responses : responses[i].correlationId # n
        BY <1>0, <2>9 DEF RightCall, Responded
      <3> QED BY <1>0, <2>2, <2>4, <3>1 DEF AnsweredOnce
    <2>12. KnownIds'
      BY <1>0, <1>8, <2>4 DEF KnownIds
    <2>13. \A i \in DOMAIN responses' : Sent(responses'[i].of)
      BY <1>0, <2>2, <2>4 DEF SentInv
    <2> QED BY <2>4, <2>8, <2>10, <2>11, <2>12, <2>13 DEF R
  <1>9. FindInfo(id) = {} <=> id \notin DOMAIN info
    BY DEF FindInfo
  <1>10. id \in DOMAIN info => FindInfo(id) = {info[id]}
    BY DEF FindInfo
  <1> QED BY <1>1, <1>5, <1>6, <1>7, <1>8, <1>9, <1>10 DEF handlePostChannelMessage

\* Impl::onWsMessage()
LEMMA OnWsMessageStep == ASSUME PostInv, onWsMessage PROVE PostInv'
  <1>1. /\ UNCHANGED <<pc, current, calls, counter>>
        /\ UNCHANGED <<lastNonce, wanted, link, queue, losses, subscribed, stopping, answered,
                       wired>>
        /\ inbox # <<>> /\ inbox' = Tail(inbox)
    BY DEF onWsMessage, callers, transport
  <1>2. PICK message : message = Head(inbox)
    OBVIOUS
  <1>3. /\ inbox' \in Seq([of : Nat, kind : Kinds]) /\ 1 \in DOMAIN inbox /\ inbox[1] = message
        /\ \A i \in DOMAIN inbox' : i + 1 \in DOMAIN inbox /\ inbox'[i] = inbox[i + 1]
    <2> DEFINE M == [of : Nat, kind : Kinds]
    <2>1. inbox \in Seq(M)
      BY DEF PostInv, PostTypeOK
    <2> HIDE DEF M
    <2>2. /\ inbox' \in Seq(M) /\ 1 \in DOMAIN inbox /\ inbox[1] = message
          /\ \A i \in DOMAIN inbox' : i + 1 \in DOMAIN inbox /\ inbox'[i] = inbox[i + 1]
      BY <1>1, <1>2, <2>1
    <2> QED BY <2>2 DEF M
  <1>4. PICK n : n = message.of
    OBVIOUS
  <1>5. Sent(n)
    BY <1>3, <1>4 DEF PostInv, SentInv
  <1>6. /\ InfoInv' /\ RightCall' /\ AnsweredOnce' /\ KnownIds'
        /\ responses' \in Seq([of : Nat, correlationId : Nat, type : Types])
        /\ \A i \in DOMAIN responses' : Sent(responses'[i].of)
    <2>1. CASE stopping
      <3>1. UNCHANGED <<info, responses, unknown, malformed>>
        BY <2>1 DEF onWsMessage, listener
      <3>2. InfoInv' /\ RightCall' /\ AnsweredOnce' /\ KnownIds'
        BY <1>1, <3>1, SameListener
      <3> QED BY <3>1, <3>2 DEF PostInv, PostTypeOK, SentInv
    <2>2. CASE ~stopping
      <3>1. handlePostChannelMessage(message)
        BY <1>2, <2>2 DEF onWsMessage
      <3> QED BY <1>1, <1>4, <1>5, <3>1, MessageStep
    <2> QED BY <2>1, <2>2
  <1>7. PostTypeOK'
    BY <1>1, <1>3, <1>6 DEF PostInv, PostTypeOK
  <1>8. SentInv'
    <2>1. \A m : (Sent(m)' <=> Sent(m)) /\ (IsPost(m)' <=> IsPost(m))
      BY <1>1, SameCalls
    <2> QED BY <1>1, <1>3, <1>6, <2>1 DEF PostInv, SentInv
  <1> QED BY <1>1, <1>6, <1>7, <1>8, SameCalls DEF PostInv

\* WebsocketApi::stop(), and a step that changes nothing.
LEMMA StopStep == ASSUME PostInv, Stop \/ UNCHANGED vars PROVE PostInv'
  <1>1. /\ UNCHANGED <<pc, current, calls, counter, info, responses, unknown, malformed>>
        /\ UNCHANGED <<lastNonce, wanted, link, queue, losses, subscribed, answered, wired, inbox>>
        /\ stopping' \in BOOLEAN
    BY DEF Stop, vars, callers, transport, listener, PostInv, PostTypeOK
  <1>2. PostTypeOK'
    BY <1>1 DEF PostInv, PostTypeOK
  <1>3. SentInv'
    BY <1>1, SameCalls DEF PostInv, SentInv
  <1> QED BY <1>1, <1>2, <1>3, SameCalls, SameListener DEF PostInv

-----------------------------------------------------------------------------
(* The steps of Next, as the lemmas need them. *)

\* Signing begins a post, subscribe() and unsubscribe() a message.
LEMMA Begins ==
  ASSUME PostInv, NEW c \in Callers,
         \/ \E type \in Types : Sign(c, type)
         \/ "subscribe" \in Types /\ Subscribe(c)
         \/ "unsubscribe" \in Types /\ Unsubscribe(c)
  PROVE  \E type \in Types, nonce \in Nat, next \in {"number", "send"} :
            /\ StartCall(c, type, next, nonce)
            /\ (next = "send" <=> type \in Subscriptions)
            /\ nonce # 0 => nonce = lastNonce + 1 /\ lastNonce' = nonce /\ next = "number"
            /\ nonce = 0 => lastNonce' = lastNonce
            /\ lastNonce' \in Nat
            /\ next = "number" => wanted' = wanted
            /\ type = "subscribe" => wanted' = Len(calls) + 1 /\ ~Subscribing
            /\ type = "unsubscribe" => wanted' = 0 /\ ~Subscribing
            /\ wanted' \in Nat
  <1>0. lastNonce \in Nat /\ wanted \in Nat /\ Len(calls) + 1 \in Nat
    BY DEF PostInv, PostTypeOK
  <1>1. ASSUME NEW type \in Types, Sign(c, type)
        PROVE  \E nonce \in Nat :
                 /\ StartCall(c, type, "number", nonce) /\ type \notin Subscriptions
                 /\ nonce # 0 => nonce = lastNonce + 1 /\ lastNonce' = nonce
                 /\ nonce = 0 => lastNonce' = lastNonce
                 /\ lastNonce' \in Nat /\ wanted' = wanted
    <2>1. CASE type \in Authenticated
      BY <1>0, <1>1, <2>1 DEF Sign
    <2>2. CASE type \notin Authenticated
      BY <1>0, <1>1, <2>2 DEF Sign
    <2> QED BY <2>1, <2>2
  <1>2. CASE \E type \in Types : Sign(c, type)
    BY <1>0, <1>1, <1>2 DEF Subscriptions
  <1>3. CASE "subscribe" \in Types /\ Subscribe(c)
    BY <1>0, <1>3 DEF Subscribe, Subscriptions
  <1>4. CASE "unsubscribe" \in Types /\ Unsubscribe(c)
    BY <1>0, <1>4 DEF Unsubscribe, Subscriptions
  <1> QED BY <1>2, <1>3, <1>4

\* The thread's own step changes no type, owner or nonce, and unsends nothing.
LEMMA GoesOn ==
  ASSUME PostInv, NEW c \in Callers, Calling(c)
  PROVE  /\ DOMAIN calls' = DOMAIN calls
         /\ \A n \in DOMAIN calls : /\ calls'[n].by = calls[n].by
                                    /\ calls'[n].type = calls[n].type
                                    /\ calls'[n].nonce = calls[n].nonce
         /\ \A n : Sent(n) => Sent(n)'
         /\ UNCHANGED <<current, lastNonce, wired, wanted, link, subscribed>>
         /\ (Number(c) \/ Record(c)) => UNCHANGED queue
  <1>0. PostTypeOK /\ CallerInv
    BY DEF PostInv
  <1>1. PICK k : k = current[c]
    OBVIOUS
  <1>2. PICK next \in {"idle", "record", "send"} :
            pc' = [pc EXCEPT ![c] = next] /\ (pc[c] # "send" \/ next = "idle") /\ pc[c] # "idle"
    BY DEF Calling, Number, Record, Send
  <1>3. k \in DOMAIN calls
    BY <1>0, <1>1, <1>2 DEF CallerInv
  <1>4. /\ DOMAIN calls' = DOMAIN calls
        /\ \A n \in DOMAIN calls : /\ calls'[n].by = calls[n].by
                                   /\ calls'[n].type = calls[n].type
                                   /\ calls'[n].nonce = calls[n].nonce
    <2>1. CASE Number(c)
      <3>1. calls \in Seq(CallRecord) /\ calls[k] \in CallRecord
        BY <1>0, <1>3, Element DEF PostTypeOK
      <3>2. calls' = [calls EXCEPT ![k].id = counter]
        BY <1>1, <2>1 DEF Number
      <3>3. /\ DOMAIN calls' = DOMAIN calls /\ calls'[k] = [calls[k] EXCEPT !.id = counter]
            /\ \A n \in DOMAIN calls : n # k => calls'[n] = calls[n]
        BY <1>3, <3>1, <3>2
      <3>4. /\ calls'[k].by = calls[k].by /\ calls'[k].type = calls[k].type
            /\ calls'[k].nonce = calls[k].nonce
        BY <3>1, <3>3 DEF CallRecord
      <3> QED BY <3>3, <3>4
    <2>2. CASE Record(c) \/ Send(c)
      BY <2>2 DEF Record, Send
    <2> QED BY <2>1, <2>2 DEF Calling
  <1>5. UNCHANGED <<current, lastNonce, wired, wanted, link, subscribed>>
    BY DEF Calling, Number, Record, Send, transport
  <1>6. \A n : Sent(n) => Sent(n)'
    <2>1. ~Sent(k) /\ \A n : n # k => (Sent(n)' <=> Sent(n))
      BY <1>0, <1>1, <1>2, <1>4, <1>5, OwnCall
    <2> QED BY <2>1
  <1> QED BY <1>4, <1>5, <1>6 DEF Number, Record, transport

-----------------------------------------------------------------------------
(* Nonces. *)

LEMMA SameNonces ==
  ASSUME NonceInv, DOMAIN calls' = DOMAIN calls,
         \A n \in DOMAIN calls :
            calls'[n].type = calls[n].type /\ calls'[n].nonce = calls[n].nonce,
         \A n : Sent(n) => Sent(n)',
         UNCHANGED <<lastNonce, wired>>
  PROVE  NonceInv'
  <1>1. \A n \in DOMAIN calls : IsPost(n)' <=> IsPost(n)
    BY DEF IsPost
  <1> QED BY <1>1 DEF NonceInv

LEMMA SameOrder ==
  ASSUME PostInv, OrderInv, DOMAIN calls' = DOMAIN calls,
         \A n \in DOMAIN calls : calls'[n].by = calls[n].by /\ calls'[n].nonce = calls[n].nonce,
         \A i \in DOMAIN queue' : i \in DOMAIN queue /\ queue'[i] = queue[i],
         UNCHANGED wired
  PROVE  OrderInv'
  <1>1. \A i \in DOMAIN queue : queue[i] \in DOMAIN calls
    BY DEF PostInv, SentInv
  <1> QED BY <1>1 DEF OrderInv

\* A new call gets a nonce above all others.
LEMMA StartCallNonces ==
  ASSUME PostInv, NonceInv, OrderInv, NEW c \in Callers, NEW type \in Types, NEW nonce \in Nat,
         NEW next \in {"number", "send"}, next = "send" <=> type \in Subscriptions,
         StartCall(c, type, next, nonce),
         nonce # 0 => nonce = lastNonce + 1 /\ lastNonce' = nonce /\ next = "number",
         nonce = 0 => lastNonce' = lastNonce
  PROVE  NonceInv' /\ OrderInv'
  <1>0. PostTypeOK /\ CallerInv
    BY DEF PostInv
  <1>1. PICK k \in Nat : k = Len(calls) + 1
    BY <1>0 DEF PostTypeOK
  <1>2. /\ DOMAIN calls' = DOMAIN calls \cup {k} /\ k \notin DOMAIN calls
        /\ calls'[k].by = c /\ calls'[k].type = type /\ calls'[k].nonce = nonce
        /\ \A n \in DOMAIN calls : calls'[n] = calls[n] /\ n \in Nat /\ n < k
        /\ \A n \in DOMAIN calls : IsPost(n)' <=> IsPost(n)
        /\ \A n : Sent(n)' <=> Sent(n)
    <2>1. /\ DOMAIN calls' = DOMAIN calls \cup {Len(calls) + 1}
          /\ Len(calls) + 1 \notin DOMAIN calls
          /\ calls'[Len(calls) + 1] = [by |-> c, type |-> type, id |-> 0, nonce |-> nonce]
          /\ \A n \in DOMAIN calls : /\ calls'[n] = calls[n]
                                     /\ n \in Nat /\ n < Len(calls) + 1
                                     /\ (IsPost(n)' <=> IsPost(n))
          /\ \A n : Sent(n)' <=> Sent(n)
      BY <1>0, OldCalls
    <2>2. calls'[k] = [by |-> c, type |-> type, id |-> 0, nonce |-> nonce]
      BY <1>1, <2>1
    <2>3. calls'[k].by = c /\ calls'[k].type = type /\ calls'[k].nonce = nonce
      BY <2>2
    <2> QED BY <1>1, <2>1, <2>3
  <1>3. \A n \in DOMAIN calls : calls[n].nonce \in Nat
    <2>1. \A n \in DOMAIN calls : calls[n] \in CallRecord
      BY <1>0, Element, Zenon DEF PostTypeOK
    <2> QED BY <2>1 DEF CallRecord
  <1>4. UNCHANGED <<wired, queue>> /\ lastNonce \in Nat
    BY <1>0 DEF StartCall, transport, PostTypeOK
  <1>5. \A n \in DOMAIN calls : calls[n].nonce <= lastNonce
    BY DEF NonceInv
  <1>6. IsPost(k)' <=> next = "number"
    BY <1>2 DEF IsPost
  <1>7. \A i \in DOMAIN wired : wired[i] # nonce
    BY <1>3, <1>4, <1>5 DEF NonceInv
  <1>8. NonceInv'
    <2>1. \A n \in DOMAIN calls' : calls'[n].nonce <= lastNonce'
      BY <1>2, <1>3, <1>4, <1>5
    <2>2. \A n \in DOMAIN calls' : ~IsPost(n)' => calls'[n].nonce = 0
      BY <1>2, <1>6 DEF NonceInv
    <2>3. ASSUME NEW m \in DOMAIN calls', NEW n \in DOMAIN calls', m < n,
                 calls'[m].nonce # 0, calls'[n].nonce # 0
          PROVE  calls'[m].nonce < calls'[n].nonce
      <3>1. m \in DOMAIN calls
        BY <1>2, <2>3
      <3>2. CASE n \in DOMAIN calls
        BY <1>2, <2>3, <3>1, <3>2 DEF NonceInv
      <3>3. CASE n = k
        BY <1>2, <1>3, <1>4, <1>5, <2>3, <3>1, <3>3
      <3> QED BY <1>2, <3>2, <3>3
    <2>4. \A i \in DOMAIN wired' :
             wired'[i] # 0 /\ \E n \in DOMAIN calls' : calls'[n].nonce = wired'[i]
      BY <1>2, <1>4 DEF NonceInv
    <2>5. \A i \in DOMAIN wired', n \in DOMAIN calls' : calls'[n].nonce = wired'[i] => Sent(n)'
      BY <1>2, <1>4, <1>7 DEF NonceInv
    <2> QED BY <2>1, <2>2, <2>3, <2>4, <2>5 DEF NonceInv
  <1>9. OrderInv'
    <2>1. \A i \in DOMAIN queue : queue[i] \in DOMAIN calls
      BY DEF PostInv, SentInv
    <2> QED BY <1>2, <1>4, <1>7, <2>1 DEF OrderInv
  <1> QED BY <1>8, <1>9

\* A message joins the queue: it has no nonce, or is its thread's latest call.
LEMMA QueuedInOrder ==
  ASSUME PostInv, OrderInv, NEW k \in DOMAIN calls, queue' = Append(queue, k),
         UNCHANGED <<calls, wired>>,
         calls[k].nonce # 0 =>
            /\ \A i \in DOMAIN queue :
                calls[queue[i]].nonce # 0 /\ calls[queue[i]].by = calls[k].by => queue[i] < k
            /\ \A i \in DOMAIN wired, m \in DOMAIN calls :
                calls[m].nonce = wired[i] /\ calls[m].by = calls[k].by => m < k
  PROVE  OrderInv'
  <1>1. k \in Nat /\ queue \in Seq(Nat)
    BY Element DEF PostInv, PostTypeOK
  <1>2. PICK l \in Nat : l = Len(queue) + 1
    BY <1>1
  <1>3. /\ DOMAIN queue' = DOMAIN queue \cup {l} /\ queue'[l] = k
        /\ \A i \in DOMAIN queue : queue'[i] = queue[i] /\ i \in Nat /\ i < l
    BY <1>1, <1>2
  <1>4. ASSUME NEW i \in DOMAIN queue', NEW j \in DOMAIN queue',
               i < j, calls[queue'[i]].nonce # 0, calls[queue'[j]].nonce # 0,
               calls[queue'[i]].by = calls[queue'[j]].by
        PROVE  queue'[i] < queue'[j]
    BY <1>2, <1>3, <1>4 DEF OrderInv
  <1>5. ASSUME NEW i \in DOMAIN wired, NEW j \in DOMAIN queue', NEW m \in DOMAIN calls,
               calls[m].nonce = wired[i], calls[queue'[j]].nonce # 0,
               calls[m].by = calls[queue'[j]].by
        PROVE  m < queue'[j]
    BY <1>3, <1>5 DEF OrderInv
  <1> QED BY <1>4, <1>5 DEF OrderInv

\* A thread sends its latest call, which was not sent before.
LEMMA CallingNonces ==
  ASSUME PostInv, NonceInv, OrderInv, NEW c \in Callers, Calling(c)
  PROVE  NonceInv' /\ OrderInv'
  <1>1. /\ DOMAIN calls' = DOMAIN calls
        /\ \A n \in DOMAIN calls : /\ calls'[n].by = calls[n].by
                                   /\ calls'[n].type = calls[n].type
                                   /\ calls'[n].nonce = calls[n].nonce
        /\ \A n : Sent(n) => Sent(n)'
        /\ UNCHANGED <<lastNonce, wired>>
        /\ (Number(c) \/ Record(c)) => UNCHANGED queue
    BY GoesOn
  <1>2. NonceInv'
    BY <1>1, SameNonces
  <1>3. CASE Number(c) \/ Record(c)
    BY <1>1, <1>2, <1>3, SameOrder
  <1>4. CASE Send(c)
    <2>1. PICK k : k = current[c]
      OBVIOUS
    <2>2. /\ queue' = Append(queue, k) /\ UNCHANGED <<calls, wired>>
          /\ pc[c] = "send"
      BY <1>4, <2>1 DEF Send
    <2>3. k \in DOMAIN calls /\ calls[k].by = c /\ ~Sent(k)
      BY <2>1, <2>2 DEF PostInv, CallerInv, Sent, At
    <2>4. \A n \in DOMAIN calls : n \in Nat /\ (calls[n].by = c /\ Sent(n) => n < k)
      <3>1. \A n \in DOMAIN calls : n \in Nat
        BY DEF PostInv, PostTypeOK
      <3>2. \A n \in DOMAIN calls : calls[n].by = c => n <= k
        BY <2>1 DEF PostInv, CallerInv
      <3> QED BY <2>3, <3>1, <3>2
    <2>5. \A i \in DOMAIN queue :
            calls[queue[i]].nonce # 0 /\ calls[queue[i]].by = calls[k].by => queue[i] < k
      BY <2>3, <2>4 DEF PostInv, SentInv, NonceInv
    <2>6. \A i \in DOMAIN wired, m \in DOMAIN calls :
            calls[m].nonce = wired[i] /\ calls[m].by = calls[k].by => m < k
      BY <2>3, <2>4 DEF NonceInv
    <2>7. OrderInv'
      BY <2>2, <2>3, <2>5, <2>6, QueuedInOrder
    <2> QED BY <1>2, <2>7
  <1> QED BY <1>3, <1>4 DEF Calling

\* The head of the queue goes to the wire.
LEMMA WriteNonces == ASSUME PostInv, NonceInv, OrderInv, Write PROVE NonceInv' /\ OrderInv'
  <1>1. PICK n : n = Head(queue)
    OBVIOUS
  <1>2. /\ queue' = Tail(queue) /\ queue # <<>> /\ UNCHANGED <<pc, current, calls, counter, lastNonce>>
        /\ wired' = IF calls[n].nonce = 0 THEN wired ELSE Append(wired, calls[n].nonce)
    BY <1>1 DEF Write, callers
  <1>3. queue \in Seq(Nat) /\ wired \in Seq(Nat)
    BY DEF PostInv, PostTypeOK
  <1>4. /\ 1 \in DOMAIN queue /\ queue[1] = n
        /\ \A i \in DOMAIN queue' :
             i + 1 \in DOMAIN queue /\ queue'[i] = queue[i + 1] /\ i \in Nat /\ i > 0
    BY <1>1, <1>2, <1>3
  <1>5. n \in DOMAIN calls /\ (IsPost(n) => Sent(n))
    BY <1>4 DEF PostInv, SentInv
  <1>6. \A m \in DOMAIN calls : m \in Nat /\ calls[m].nonce \in Nat
    <2>1. \A m \in DOMAIN calls : m \in Nat /\ calls[m] \in CallRecord
      BY Element, Zenon DEF PostInv, PostTypeOK
    <2> QED BY <2>1 DEF CallRecord
  <1>7. \A m : Sent(m)' <=> Sent(m)
    BY <1>2, SameCalls
  <1>8. \A m : IsPost(m)' <=> IsPost(m)
    BY <1>2, SameCalls
  <1>9. CASE calls[n].nonce = 0
    <2>1. NonceInv'
      BY <1>2, <1>7, <1>9, SameNonces
    <2>2. ASSUME NEW i \in DOMAIN queue', NEW j \in DOMAIN queue', i < j,
                 calls[queue'[i]].nonce # 0, calls[queue'[j]].nonce # 0,
                 calls[queue'[i]].by = calls[queue'[j]].by
          PROVE  queue'[i] < queue'[j]
      <3>1. i + 1 < j + 1
        BY <1>4, <2>2
      <3> QED BY <1>4, <2>2, <3>1 DEF OrderInv
    <2>3. ASSUME NEW i \in DOMAIN wired, NEW j \in DOMAIN queue', NEW m \in DOMAIN calls,
                 calls[m].nonce = wired[i], calls[queue'[j]].nonce # 0,
                 calls[m].by = calls[queue'[j]].by
          PROVE  m < queue'[j]
      BY <1>4, <2>3 DEF OrderInv
    <2>4. OrderInv'
      BY <1>2, <1>9, <2>2, <2>3 DEF OrderInv
    <2> QED BY <2>1, <2>4
  <1>10. CASE calls[n].nonce # 0
    <2>1. PICK l \in Nat : l = Len(wired) + 1
      BY <1>3
    <2>2. PICK nonce \in Nat : nonce = calls[n].nonce
      BY <1>5, <1>6
    <2>3. /\ DOMAIN wired' = DOMAIN wired \cup {l} /\ wired'[l] = nonce
          /\ \A i \in DOMAIN wired : wired'[i] = wired[i] /\ i \in Nat /\ i < l
      BY <1>2, <1>3, <1>10, <2>1, <2>2
    <2>4. Sent(n)
      BY <1>5, <1>10 DEF NonceInv
    <2>5. \A m \in DOMAIN calls : calls[m].nonce = nonce => m = n
      BY <1>5, <1>6, <1>10, <2>2 DEF NonceInv
    <2>6. NonceInv'
      <3>1. \A i \in DOMAIN wired' :
               wired'[i] # 0 /\ \E m \in DOMAIN calls : calls[m].nonce = wired'[i]
        BY <1>5, <1>10, <2>2, <2>3 DEF NonceInv
      <3>2. \A i \in DOMAIN wired', m \in DOMAIN calls : calls[m].nonce = wired'[i] => Sent(m)
        BY <2>3, <2>4, <2>5 DEF NonceInv
      <3> QED BY <1>2, <1>7, <1>8, <3>1, <3>2 DEF NonceInv
    <2>7. ASSUME NEW i \in DOMAIN queue', NEW j \in DOMAIN queue', i < j,
                 calls[queue'[i]].nonce # 0, calls[queue'[j]].nonce # 0,
                 calls[queue'[i]].by = calls[queue'[j]].by
          PROVE  queue'[i] < queue'[j]
      <3>1. i + 1 < j + 1
        BY <1>4, <2>7
      <3> QED BY <1>4, <2>7, <3>1 DEF OrderInv
    <2>8. ASSUME NEW i \in DOMAIN wired', NEW j \in DOMAIN queue', NEW m \in DOMAIN calls,
                 calls[m].nonce = wired'[i], calls[queue'[j]].nonce # 0,
                 calls[m].by = calls[queue'[j]].by
          PROVE  m < queue'[j]
      <3>1. CASE i \in DOMAIN wired
        BY <1>4, <2>3, <2>8, <3>1 DEF OrderInv
      <3>2. CASE i = l
        <4>1. m = n /\ 1 < j + 1
          BY <1>4, <2>3, <2>5, <2>8, <3>2
        <4> QED BY <1>4, <1>10, <2>8, <4>1 DEF OrderInv
      <3> QED BY <2>3, <3>1, <3>2
    <2>9. ASSUME NEW i \in DOMAIN wired', NEW j \in DOMAIN wired', i < j,
                 NEW m \in DOMAIN calls, NEW o \in DOMAIN calls,
                 calls[m].nonce = wired'[i], calls[o].nonce = wired'[j],
                 calls[m].by = calls[o].by
          PROVE  m < o
      <3>1. i \in DOMAIN wired /\ wired'[i] = wired[i]
        BY <2>1, <2>3, <2>9
      <3>2. CASE j \in DOMAIN wired
        BY <2>3, <2>9, <3>1, <3>2 DEF OrderInv
      <3>3. CASE j = l
        <4>1. o = n
          BY <2>3, <2>5, <2>9, <3>3
        <4> QED BY <1>4, <1>10, <2>9, <3>1, <4>1 DEF OrderInv
      <3> QED BY <2>3, <3>2, <3>3
    <2>10. OrderInv'
      BY <1>2, <2>7, <2>8, <2>9 DEF OrderInv
    <2> QED BY <2>6, <2>10
  <1> QED BY <1>9, <1>10

\* Only subscribe() is repeated, in onConnected(), and it has no nonce; other
\* steps of the connection and the IO thread only ever shorten the queue.
LEMMA IdleNonces ==
  ASSUME PostInv, NonceInv, OrderInv, WishInv,
         \/ Connected \/ SubscribeAgain \/ Lose \/ Reconnect
         \/ onWsMessage \/ Stop \/ UNCHANGED vars
         \/ \E n \in DOMAIN answered, kind \in Kinds : Answer(n, kind)
  PROVE  NonceInv' /\ OrderInv'
  <1>1. UNCHANGED <<pc, current, calls, counter, lastNonce, wired>>
    BY DEF Connected, SubscribeAgain, Lose, Reconnect, onWsMessage, Stop, Answer, vars, callers
  <1>2. NonceInv'
    <2>1. \A n : Sent(n)' <=> Sent(n)
      BY <1>1, SameCalls
    <2> QED BY <1>1, <2>1, SameNonces
  <1>3. CASE SubscribeAgain
    <2>1. resubscribing \in DOMAIN calls /\ calls[resubscribing].nonce = 0
      BY <1>3 DEF SubscribeAgain, WishInv, Asks, IsPost, Subscriptions, NonceInv
    <2>2. queue' = Append(queue, resubscribing)
      BY <1>3 DEF SubscribeAgain
    <2>3. OrderInv'
      BY <1>1, <2>1, <2>2, QueuedInOrder
    <2> QED BY <1>2, <2>3
  <1>4. CASE ~SubscribeAgain
    <2>1. queue' = queue \/ queue' = <<>>
      BY <1>4 DEF Connected, Lose, Reconnect, onWsMessage, Stop, Answer, vars, transport
    <2>2. \A i \in DOMAIN queue' : i \in DOMAIN queue /\ queue'[i] = queue[i]
      BY <2>1
    <2>3. OrderInv'
      BY <1>1, <2>2, SameOrder
    <2> QED BY <1>2, <2>3
  <1> QED BY <1>3, <1>4

-----------------------------------------------------------------------------
(* The subscription. *)

LEMMA SubscribingMeans == Subscribing <=> \E c \in Callers : Sending(c)
  BY DEF Subscribing, Sending, IsPost

\* Nothing that concerns the subscription changes.
LEMMA SameWish ==
  ASSUME PostInv, WishInv,
         \A n \in DOMAIN calls : n \in DOMAIN calls' /\ calls'[n].type = calls[n].type,
         \A c \in Callers : /\ (Sending(c)' <=> Sending(c))
                            /\ Sending(c) => current'[c] = current[c],
         UNCHANGED <<queue, wanted, link, subscribed, resubscribing, overtaken>>
  PROVE  WishInv'
  <1>1. \A n \in DOMAIN calls : (IsPost(n)' <=> IsPost(n)) /\ (Asks(n)' <=> Asks(n))
    BY DEF IsPost, Asks
  <1>2. \A i \in DOMAIN queue : queue[i] \in DOMAIN calls
    BY DEF PostInv, SentInv
  <1>3. \A c \in Callers : Sending(c) => current[c] \in DOMAIN calls
    BY DEF PostInv, CallerInv, Sending
  <1>4. \A k \in Nat : /\ (LastWord(k)' <=> LastWord(k))
                       /\ LastWord(k) => queue[k] \in DOMAIN calls
    BY <1>1, <1>2 DEF LastWord
  <1>5. (Subscribing' <=> Subscribing) /\ (Settled' <=> Settled)
    BY SubscribingMeans DEF Subscribing, Sending, IsPost, Settled, IoFree
  <1>6. /\ wanted' # 0 => wanted' \in DOMAIN calls' /\ Asks(wanted)'
        /\ resubscribing' # 0 =>
             link' = "up" /\ resubscribing' \in DOMAIN calls' /\ Asks(resubscribing)'
        /\ resubscribing' # 0 /\ ~Subscribing' /\ wanted' = 0 => overtaken'
    BY <1>1, <1>5 DEF WishInv
  <1>7. ASSUME NEW c \in Callers, Sending(c)'
        PROVE  /\ (Asks(current[c])' <=> wanted' # 0)
               /\ \A d \in Callers : Sending(d)' => c = d
    <2>1. Sending(c) /\ current'[c] = current[c] /\ current[c] \in DOMAIN calls
      BY <1>3, <1>7
    <2>2. /\ (Asks(current[c]) <=> wanted # 0)
          /\ \A d \in Callers : Sending(d) => c = d
      BY <2>1 DEF WishInv, Sending
    <2>3. Asks(current[c])' <=> Asks(current[c])
      BY <2>1 DEF Asks
    <2> QED BY <2>2, <2>3
  <1>8. link' # "up" => ~subscribed'
    BY DEF WishInv
  <1>9. ASSUME Settled'
        PROVE  /\ \A k \in Nat : LastWord(k)' => (Asks(queue[k])' <=> wanted' # 0)
               /\ (\A k \in DOMAIN queue' : IsPost(queue[k])') => subscribed' = (wanted' # 0)
    <2>1. Settled
      BY <1>5, <1>9
    <2>2. \A k \in Nat : LastWord(k) => (Asks(queue[k]) <=> wanted # 0)
      BY <2>1 DEF WishInv
    <2>3. \A k \in Nat : LastWord(k) => (Asks(queue[k])' <=> Asks(queue[k]))
      BY <1>4 DEF Asks
    <2>4. (\A k \in DOMAIN queue : IsPost(queue[k])) => subscribed = (wanted # 0)
      BY <2>1 DEF WishInv
    <2>5. (\A k \in DOMAIN queue' : IsPost(queue[k])') => \A k \in DOMAIN queue : IsPost(queue[k])
      BY <1>2 DEF IsPost
    <2> QED BY <1>4, <2>2, <2>3, <2>4, <2>5
  <1>10. ASSUME link' = "connecting", ~Subscribing', wanted' = 0, NEW k \in Nat, LastWord(k)'
         PROVE  ~Asks(queue[k])'
    <2>1. LastWord(k) /\ queue[k] \in DOMAIN calls
      BY <1>4, <1>10
    <2>2. ~Asks(queue[k])
      BY <1>5, <1>10, <2>1 DEF WishInv
    <2> QED BY <2>1, <2>2 DEF Asks
  <1>11. \A c \in Callers : Sending(c)' <=> pc'[c] = "send" /\ ~IsPost(current[c])'
    BY DEF Sending
  <1> QED BY <1>6, <1>7, <1>8, <1>9, <1>10, <1>11 DEF WishInv

\* subscribe() and unsubscribe() change the wish and have a message to send for
\* it; no other thread has one.
LEMMA StartCallWish ==
  ASSUME PostInv, WishInv, NEW c \in Callers, NEW type \in Types, NEW nonce \in Nat,
         NEW next \in {"number", "send"}, next = "send" <=> type \in Subscriptions,
         StartCall(c, type, next, nonce),
         next = "number" => wanted' = wanted,
         type = "subscribe" => wanted' = Len(calls) + 1 /\ ~Subscribing,
         type = "unsubscribe" => wanted' = 0 /\ ~Subscribing
  PROVE  WishInv'
  <1>0. PostTypeOK /\ CallerInv
    BY DEF PostInv
  <1>1. PICK k \in Nat : k = Len(calls) + 1 /\ k # 0
    BY <1>0 DEF PostTypeOK
  <1>2. /\ DOMAIN calls' = DOMAIN calls \cup {k}
        /\ \A n \in DOMAIN calls : calls'[n] = calls[n] /\ (IsPost(n)' <=> IsPost(n))
    BY <1>0, <1>1, OldCalls
  <1>3. calls'[k].type = type
    <2>1. calls'[Len(calls) + 1] = [by |-> c, type |-> type, id |-> 0, nonce |-> nonce]
      BY <1>0, OldCalls
    <2>2. calls'[k] = [by |-> c, type |-> type, id |-> 0, nonce |-> nonce]
      BY <1>1, <2>1
    <2> QED BY <2>2
  <1>4. /\ pc[c] = "idle" /\ pc'[c] = next /\ current'[c] = k
        /\ \A d \in Callers \ {c} : pc'[d] = pc[d] /\ current'[d] = current[d]
        /\ UNCHANGED <<queue, link, subscribed, resubscribing, overtaken>>
    BY <1>0, <1>1 DEF StartCall, PostTypeOK, transport, wish
  <1>5. \A d \in Callers \ {c} : Sending(d)' <=> Sending(d)
    <2>1. \A d \in Callers : pc[d] = "send" => current[d] \in DOMAIN calls
      BY <1>0 DEF CallerInv
    <2> QED BY <1>2, <1>4, <2>1 DEF Sending, IsPost
  <1>6. ~Sending(c) /\ (Sending(c)' <=> type \in Subscriptions)
    BY <1>3, <1>4 DEF Sending, IsPost
  <1>7. CASE next = "number"
    <2>1. \A d \in Callers : (Sending(d)' <=> Sending(d)) /\ (Sending(d) => current'[d] = current[d])
      BY <1>4, <1>5, <1>6, <1>7
    <2> QED BY <1>2, <1>4, <1>7, <2>1, SameWish
  <1>8. CASE next = "send"
    <2>1. type \in {"subscribe", "unsubscribe"} /\ ~Subscribing
      BY <1>8 DEF Subscriptions
    <2>2. \A d \in Callers : Sending(d)' <=> d = c
      BY <1>5, <1>6, <2>1, SubscribingMeans DEF Subscriptions
    <2>3. Subscribing'
      <3>1. calls'[current'[c]].type \in Subscriptions
        BY <1>3, <1>4, <2>1 DEF Subscriptions
      <3> QED BY <1>4, <1>8, <3>1 DEF Subscribing
    <2>4. Asks(k)' <=> wanted' # 0
      BY <1>1, <1>3, <2>1 DEF Asks
    <2>5. wanted' # 0 => wanted' \in DOMAIN calls' /\ Asks(wanted)'
      BY <1>1, <1>2, <1>3, <2>1 DEF Asks
    <2>6. Asks(current[c])' <=> wanted' # 0
      BY <1>4, <2>4 DEF Asks
    <2>7. link' # "up" => ~subscribed'
      BY <1>4 DEF WishInv
    <2>8. resubscribing' # 0 =>
            link' = "up" /\ resubscribing' \in DOMAIN calls' /\ Asks(resubscribing)'
      BY <1>2, <1>4 DEF WishInv, Asks
    <2>9. ~Settled'
      BY <2>3 DEF Settled
    <2> QED BY <2>2, <2>3, <2>5, <2>6, <2>7, <2>8, <2>9 DEF WishInv, Sending
  <1> QED BY <1>7, <1>8

\* The message is queued: it becomes the last word on the subscription.
LEMMA CallingWish ==
  ASSUME PostInv, WishInv, NEW c \in Callers, Calling(c)
  PROVE  WishInv'
  <1>0. PostTypeOK /\ CallerInv
    BY DEF PostInv
  <1>1. /\ DOMAIN calls' = DOMAIN calls
        /\ \A n \in DOMAIN calls : calls'[n].type = calls[n].type
        /\ UNCHANGED <<current, wanted, link, subscribed>>
        /\ (Number(c) \/ Record(c)) => UNCHANGED queue
    BY GoesOn
  <1>9. /\ UNCHANGED resubscribing
        /\ (Number(c) \/ Record(c)) => UNCHANGED overtaken
    BY DEF Calling, Number, Record, Send, wish
  <1>2. PICK next \in {"idle", "record", "send"} :
            pc' = [pc EXCEPT ![c] = next] /\ (pc[c] # "send" \/ next = "idle") /\ pc[c] # "idle"
    BY DEF Calling, Number, Record, Send
  <1>3. PICK k : k = current[c] /\ k \in DOMAIN calls
    BY <1>0, <1>2 DEF CallerInv
  <1>4. pc'[c] = next /\ \A d \in Callers \ {c} : pc'[d] = pc[d]
    BY <1>0, <1>2 DEF PostTypeOK
  <1>5. \A d \in Callers \ {c} : Sending(d)' <=> Sending(d)
    <2>1. \A d \in Callers : pc[d] = "send" => current[d] \in DOMAIN calls
      BY <1>0 DEF CallerInv
    <2> QED BY <1>1, <1>4, <2>1 DEF Sending, IsPost
  <1>6. IsPost(k)' <=> IsPost(k)
    BY <1>1, <1>3 DEF IsPost
  <1>7. CASE Number(c) \/ Record(c)
    <2>1. IsPost(k)
      BY <1>0, <1>3, <1>7 DEF CallerInv, Number, Record
    <2>2. ~Sending(c) /\ ~Sending(c)'
      BY <1>1, <1>3, <1>6, <2>1 DEF Sending, IsPost
    <2>3. \A d \in Callers : (Sending(d)' <=> Sending(d)) /\ (Sending(d) => current'[d] = current[d])
      BY <1>1, <1>5, <2>2
    <2> QED BY <1>1, <1>7, <1>9, <2>3, SameWish
  <1>8. CASE Send(c)
    <2>1. queue' = Append(queue, k) /\ pc[c] = "send" /\ next = "idle" /\ UNCHANGED calls
      BY <1>2, <1>3, <1>8 DEF Send
    <2>2. queue \in Seq(Nat) /\ k \in Nat
      BY <1>0, <1>3 DEF PostTypeOK
    <2>3. PICK l \in Nat : l = Len(queue) + 1
      BY <2>2
    <2>4. /\ DOMAIN queue' = DOMAIN queue \cup {l} /\ queue'[l] = k
          /\ \A i \in DOMAIN queue : queue'[i] = queue[i] /\ i \in Nat /\ i < l
      BY <2>1, <2>2, <2>3
    <2>5. ~Sending(c)' /\ (Sending(c) <=> ~IsPost(k))
      BY <1>3, <1>4, <2>1 DEF Sending
    <2>6. \A n : (IsPost(n)' <=> IsPost(n)) /\ (Asks(n)' <=> Asks(n))
      BY <2>1 DEF IsPost, Asks
    <2>7. wanted' # 0 => wanted' \in DOMAIN calls' /\ Asks(wanted)'
      BY <1>1, <2>1 DEF WishInv, Asks
    <2>8. link' # "up" => ~subscribed'
      BY <1>1 DEF WishInv
    <2>9. ASSUME NEW e \in Callers, Sending(e)'
          PROVE  /\ (Asks(current[e])' <=> wanted' # 0)
                 /\ \A d \in Callers : Sending(d)' => e = d
      <3>1. Sending(e)
        BY <1>5, <2>5, <2>9
      <3>2. (Asks(current[e]) <=> wanted # 0) /\ \A d \in Callers : Sending(d) => e = d
        BY <3>1 DEF WishInv, Sending
      <3>3. \A d \in Callers : Sending(d)' => Sending(d)
        BY <1>5, <2>5
      <3> QED BY <1>1, <2>1, <3>2, <3>3 DEF Asks
    <2>10. /\ Settled' =>
              /\ \A i \in Nat : LastWord(i)' => (Asks(queue[i])' <=> wanted' # 0)
              /\ (\A i \in DOMAIN queue' : IsPost(queue[i])') => subscribed' = (wanted' # 0)
           /\ resubscribing' # 0 /\ ~Subscribing' /\ wanted' = 0 => overtaken'
           /\ link' = "connecting" /\ ~Subscribing' /\ wanted' = 0 =>
              \A i \in Nat : LastWord(i)' => ~Asks(queue[i])'
      <3>1. CASE IsPost(k)
        <4>1. \A i \in Nat : LastWord(i)' => LastWord(i) /\ queue'[i] = queue[i]
          BY <2>1, <2>3, <2>4, <3>1 DEF LastWord, IsPost
        <4>2. Subscribing' <=> Subscribing
          <5>1. \A d \in Callers : Sending(d)' <=> Sending(d)
            BY <1>5, <2>5, <3>1
          <5> QED BY <5>1 DEF Subscribing, Sending, IsPost
        <4>3. (\A i \in DOMAIN queue' : IsPost(queue[i])') => \A i \in DOMAIN queue : IsPost(queue[i])
          BY <2>1, <2>4 DEF IsPost
        <4>4. \A i \in Nat : LastWord(i)' => (Asks(queue[i])' <=> Asks(queue[i]))
          BY <2>1, <4>1 DEF Asks
        <4>5. overtaken' = overtaken
          BY <1>3, <1>8, <3>1 DEF Send, Overtaken, IsPost, Subscriptions
        <4>6. Settled' <=> Settled
          BY <1>1, <1>9, <4>2, <4>5 DEF Settled, IoFree
        <4> QED BY <1>1, <1>9, <4>1, <4>2, <4>3, <4>4, <4>5, <4>6 DEF WishInv
      <3>2. CASE ~IsPost(k)
        <4>1. Asks(k) <=> wanted # 0
          BY <1>3, <2>1, <3>2 DEF WishInv
        <4>2. \A i \in Nat : LastWord(i)' => i = l
          BY <2>1, <2>3, <2>4, <3>2 DEF LastWord, IsPost
        <4>3. Asks(queue[l])' <=> wanted # 0
          BY <2>1, <2>4, <4>1 DEF Asks
        <4>4. l \in DOMAIN queue' /\ ~IsPost(queue[l])'
          BY <2>1, <2>4, <3>2 DEF IsPost
        <4>5. wanted = 0 => overtaken' = (resubscribing # 0)
          BY <1>3, <1>8, <3>2, <4>1 DEF Send, Overtaken, IsPost, Subscriptions, Asks
        <4>6. resubscribing' # 0 /\ wanted' = 0 => overtaken'
          BY <1>1, <1>9, <4>5
        <4> QED BY <1>1, <4>2, <4>3, <4>4, <4>6
      <3> QED BY <3>1, <3>2
    <2>11. \A e \in Callers : Sending(e)' <=> pc'[e] = "send" /\ ~IsPost(current[e])'
      BY DEF Sending
    <2>12. resubscribing' # 0 =>
             link' = "up" /\ resubscribing' \in DOMAIN calls' /\ Asks(resubscribing)'
      BY <1>1, <1>9, <2>1, <2>6 DEF WishInv
    <2> QED BY <2>7, <2>8, <2>9, <2>10, <2>11, <2>12 DEF WishInv
  <1> QED BY <1>7, <1>8 DEF Calling

\* The threads stand still: only the queue, the connection and the exchange's
\* subscription can matter.
LEMMA StillThreads ==
  ASSUME WishInv, UNCHANGED <<pc, current, calls, wanted>>
  PROVE  /\ wanted' # 0 => wanted' \in DOMAIN calls' /\ Asks(wanted)'
         /\ \A c \in Callers : pc'[c] = "send" /\ ~IsPost(current[c])' =>
               /\ (Asks(current[c])' <=> wanted' # 0)
               /\ \A d \in Callers : pc'[d] = "send" /\ ~IsPost(current[d])' => c = d
         /\ (Subscribing' <=> Subscribing)
  BY DEF WishInv, Asks, IsPost, Subscribing

\* onConnected() sees what is wanted now, and will ask for it; nothing the queue
\* holds asks for what is not wanted.
LEMMA ConnectedWish == ASSUME PostInv, WishInv, Connected PROVE WishInv'
  <1>1. /\ UNCHANGED <<pc, current, calls, wanted, queue, subscribed>>
        /\ link = "connecting" /\ link' = "up" /\ resubscribing' = wanted
    BY DEF Connected, callers
  <1>2. /\ wanted' # 0 => wanted' \in DOMAIN calls' /\ Asks(wanted)'
        /\ \A c \in Callers : pc'[c] = "send" /\ ~IsPost(current[c])' =>
              /\ (Asks(current[c])' <=> wanted' # 0)
              /\ \A d \in Callers : pc'[d] = "send" /\ ~IsPost(current[d])' => c = d
        /\ (Subscribing' <=> Subscribing)
    BY <1>1, StillThreads
  <1>3. ASSUME Settled'
        PROVE  /\ \A k \in Nat : LastWord(k)' => (Asks(queue[k])' <=> wanted' # 0)
               /\ (\A k \in DOMAIN queue' : IsPost(queue[k])') => subscribed' = (wanted' # 0)
    <2>1. wanted = 0 /\ ~Subscribing
      BY <1>1, <1>2, <1>3 DEF Settled, IoFree
    <2>2. \A k \in Nat : /\ (LastWord(k)' <=> LastWord(k))
                         /\ (Asks(queue[k])' <=> Asks(queue[k]))
      BY <1>1 DEF LastWord, IsPost, Asks
    <2>3. \A k \in Nat : LastWord(k) => ~Asks(queue[k])
      BY <1>1, <2>1 DEF WishInv
    <2>4. subscribed' = FALSE
      <3>1. ~subscribed /\ subscribed \in BOOLEAN
        BY <1>1 DEF WishInv, PostInv, PostTypeOK
      <3> QED BY <1>1, <3>1, Zenon
    <2>5. subscribed' = (wanted' # 0)
      BY <1>1, <2>1, <2>4
    <2> QED BY <1>1, <2>1, <2>2, <2>3, <2>5
  <1>4. resubscribing' # 0 => resubscribing' \in DOMAIN calls' /\ Asks(resubscribing)'
    BY <1>1, <1>2 DEF Asks
  <1>5. resubscribing' # 0 => wanted' # 0
    BY <1>1
  <1>6. link' = "up"
    BY <1>1
  <1> QED BY <1>2, <1>3, <1>4, <1>5, <1>6 DEF WishInv

\* The last word is now the subscribe() of onConnected(): what the application
\* wants, unless its unsubscribe() is still to come or was overtaken.
LEMMA SubscribeAgainWish == ASSUME PostInv, WishInv, SubscribeAgain PROVE WishInv'
  <1>1. PICK n : n = resubscribing
    OBVIOUS
  <1>2. /\ UNCHANGED <<pc, current, calls, wanted, link, subscribed, overtaken>>
        /\ n # 0 /\ resubscribing' = 0 /\ queue' = Append(queue, n)
    BY <1>1 DEF SubscribeAgain, callers
  <1>3. link = "up" /\ n \in DOMAIN calls /\ Asks(n)
    BY <1>1, <1>2 DEF WishInv
  <1>4. queue \in Seq(Nat) /\ n \in Nat
    BY <1>3 DEF PostInv, PostTypeOK
  <1>5. PICK l \in Nat : l = Len(queue) + 1
    BY <1>4
  <1>6. /\ DOMAIN queue' = DOMAIN queue \cup {l} /\ queue'[l] = n
        /\ \A i \in DOMAIN queue : i \in Nat /\ i < l
    BY <1>2, <1>4, <1>5
  <1>7. Asks(queue[l])' /\ ~IsPost(queue[l])'
    BY <1>2, <1>3, <1>6 DEF Asks, IsPost, Subscriptions
  <1>8. \A k \in Nat : LastWord(k)' => k = l
    BY <1>5, <1>6, <1>7 DEF LastWord
  <1>9. /\ wanted' # 0 => wanted' \in DOMAIN calls' /\ Asks(wanted)'
        /\ \A c \in Callers : pc'[c] = "send" /\ ~IsPost(current[c])' =>
              /\ (Asks(current[c])' <=> wanted' # 0)
              /\ \A d \in Callers : pc'[d] = "send" /\ ~IsPost(current[d])' => c = d
        /\ (Subscribing' <=> Subscribing)
    BY <1>2, StillThreads
  <1>10. ASSUME Settled'
         PROVE  /\ \A k \in Nat : LastWord(k)' => (Asks(queue[k])' <=> wanted' # 0)
                /\ (\A k \in DOMAIN queue' : IsPost(queue[k])') => subscribed' = (wanted' # 0)
    <2>1. ~Subscribing /\ (wanted # 0 \/ ~overtaken)
      BY <1>2, <1>9, <1>10 DEF Settled
    <2>2. wanted # 0
      BY <1>1, <1>2, <2>1 DEF WishInv
    <2> QED BY <1>2, <1>6, <1>7, <1>8, <2>2
  <1>11. link' = "up"
    BY <1>2, <1>3
  <1> QED BY <1>2, <1>9, <1>10, <1>11 DEF WishInv

\* The exchange gets the next message; the last one about the subscription
\* leaves it as the application wants it.
LEMMA WriteWish == ASSUME PostInv, WishInv, Write PROVE WishInv'
  <1>1. PICK n : n = Head(queue)
    OBVIOUS
  <1>2. /\ UNCHANGED <<pc, current, calls, wanted, link>>
        /\ UNCHANGED <<resubscribing, overtaken>> /\ resubscribing = 0
        /\ link = "up" /\ queue # <<>> /\ queue' = Tail(queue)
        /\ IsPost(n) => subscribed' = subscribed
        /\ ~IsPost(n) => subscribed' = Asks(n)
    BY <1>1 DEF Write, callers, wish, IoFree, IsPost, Asks
  <1>3. queue \in Seq(Nat)
    BY DEF PostInv, PostTypeOK
  <1>4. /\ 1 \in DOMAIN queue /\ queue[1] = n
        /\ \A i \in DOMAIN queue' :
             i + 1 \in DOMAIN queue /\ queue'[i] = queue[i + 1] /\ i \in Nat /\ i > 0
        /\ \A i \in DOMAIN queue : i = 1 \/ (i - 1 \in DOMAIN queue' /\ i \in Nat)
    BY <1>1, <1>2, <1>3, TailOf
  <1>5. \A i \in DOMAIN queue : i = 1 \/ (i - 1 \in DOMAIN queue' /\ queue'[i - 1] = queue[i])
    BY <1>4
  <1>7. /\ wanted' # 0 => wanted' \in DOMAIN calls' /\ Asks(wanted)'
        /\ \A c \in Callers : pc'[c] = "send" /\ ~IsPost(current[c])' =>
              /\ (Asks(current[c])' <=> wanted' # 0)
              /\ \A d \in Callers : pc'[d] = "send" /\ ~IsPost(current[d])' => c = d
        /\ (Subscribing' <=> Subscribing)
    BY <1>2, StillThreads
  <1>6. ASSUME Settled'
        PROVE  /\ \A k \in Nat : LastWord(k)' => (Asks(queue[k])' <=> wanted' # 0)
               /\ (\A k \in DOMAIN queue' : IsPost(queue[k])') => subscribed' = (wanted' # 0)
    <2>1. /\ \A k \in Nat : LastWord(k) => (Asks(queue[k]) <=> wanted # 0)
          /\ (\A k \in DOMAIN queue : IsPost(queue[k])) => subscribed = (wanted # 0)
      BY <1>2, <1>6, <1>7 DEF WishInv, Settled, IoFree
    <2>2. ASSUME NEW k \in Nat, LastWord(k)' PROVE Asks(queue[k])' <=> wanted' # 0
      <3>1. k \in DOMAIN queue' /\ ~IsPost(queue'[k])
            /\ \A j \in DOMAIN queue' : j > k => IsPost(queue'[j])
        BY <1>2, <2>2 DEF LastWord, IsPost
      <3>2. LastWord(k + 1)
        <4>1. k + 1 \in DOMAIN queue /\ ~IsPost(queue[k + 1])
          BY <1>4, <3>1
        <4>2. ASSUME NEW j \in DOMAIN queue, j > k + 1 PROVE IsPost(queue[j])
          <5>1. j - 1 \in DOMAIN queue' /\ queue'[j - 1] = queue[j] /\ j \in Nat /\ j - 1 > k
            BY <1>4, <1>5, <4>2
          <5> QED BY <3>1, <5>1
        <4> QED BY <4>1, <4>2 DEF LastWord
      <3>3. k + 1 \in Nat /\ queue'[k] = queue[k + 1]
        BY <1>4, <3>1
      <3>4. Asks(queue[k + 1]) <=> wanted # 0
        BY <2>1, <3>2, <3>3
      <3> QED BY <1>2, <3>3, <3>4 DEF Asks
    <2>3. ASSUME \A k \in DOMAIN queue' : IsPost(queue[k])'
          PROVE  subscribed' = (wanted' # 0)
      <3>1. \A i \in DOMAIN queue : i = 1 \/ IsPost(queue[i])
        BY <1>2, <1>5, <2>3 DEF IsPost
      <3>2. CASE IsPost(n)
        BY <1>2, <1>4, <2>1, <3>1, <3>2
      <3>3. CASE ~IsPost(n)
        <4>1. LastWord(1)
          <5>1. \A i \in DOMAIN queue : i > 1 => IsPost(queue[i])
            BY <3>1
          <5> QED BY <1>4, <3>3, <5>1 DEF LastWord
        <4>2. Asks(n) <=> wanted # 0
          BY <1>4, <2>1, <4>1
        <4>3. subscribed' = Asks(n)
          BY <1>2, <3>3
        <4> QED BY <1>2, <4>2, <4>3 DEF Asks
      <3> QED BY <3>2, <3>3
    <2> QED BY <2>2, <2>3
  <1>8. link' = "up" /\ resubscribing' = 0
    BY <1>2
  <1> QED BY <1>6, <1>7, <1>8 DEF WishInv

\* A lost connection takes the exchange's subscription with it, and the queue is
\* emptied before the next attempt.
LEMMA LoseWish == ASSUME PostInv, WishInv, Lose \/ Reconnect PROVE WishInv'
  <1>1. /\ UNCHANGED <<pc, current, calls, wanted>>
        /\ link' \in {"down", "connecting"}
        /\ link' = "connecting" => queue' = <<>>
        /\ resubscribing' = 0
    BY DEF Lose, Reconnect, callers, wish, IoFree, WishInv
  <1>2. ~subscribed'
    BY DEF Lose, Reconnect, WishInv
  <1>3. link' = "connecting" => \A k \in Nat : ~LastWord(k)'
    BY <1>1 DEF LastWord
  <1>4. /\ wanted' # 0 => wanted' \in DOMAIN calls' /\ Asks(wanted)'
        /\ \A c \in Callers : pc'[c] = "send" /\ ~IsPost(current[c])' =>
              /\ (Asks(current[c])' <=> wanted' # 0)
              /\ \A d \in Callers : pc'[d] = "send" /\ ~IsPost(current[d])' => c = d
    BY <1>1, StillThreads
  <1>5. link' # "up" /\ ~Settled' /\ resubscribing' = 0
    BY <1>1 DEF Settled
  <1> QED BY <1>2, <1>3, <1>4, <1>5 DEF WishInv

LEMMA IdleWish ==
  ASSUME PostInv, WishInv,
         \/ onWsMessage \/ Stop \/ UNCHANGED vars
         \/ \E n \in DOMAIN answered, kind \in Kinds : Answer(n, kind)
  PROVE  WishInv'
  <1>1. UNCHANGED <<pc, current, calls, wanted, queue, link, subscribed, resubscribing, overtaken>>
    BY DEF onWsMessage, Stop, Answer, vars, callers, transport, wish
  <1>2. \A c \in Callers : (Sending(c)' <=> Sending(c)) /\ (Sending(c) => current'[c] = current[c])
    BY <1>1 DEF Sending, IsPost
  <1> QED BY <1>1, <1>2, SameWish

-----------------------------------------------------------------------------
(* Together. *)

LEMMA ApiInit == Init => ApiInv
  <1> SUFFICES ASSUME Init PROVE ApiInv
    OBVIOUS
  <1>1. /\ pc = [c \in Callers |-> "idle"] /\ current = [c \in Callers |-> 0]
        /\ calls = <<>> /\ queue = <<>> /\ wired = <<>> /\ inbox = <<>> /\ responses = <<>>
        /\ info = <<>> /\ answered = <<>> /\ unknown = {}
        /\ link = "connecting" /\ wanted = 0 /\ resubscribing = 0
    BY DEF Init
  <1>2. subscribed = FALSE /\ stopping = FALSE
    BY DEF Init
  <1>3. \A n : ~Numbered(n) /\ ~Recorded(n) /\ ~Sent(n)
    BY <1>1 DEF Numbered, Recorded, Sent
  <1>4. PostTypeOK
    <2>1. pc \in [Callers -> {"idle", "number", "record", "send"}] /\ current \in [Callers -> Nat]
      BY <1>1
    <2>2. subscribed \in BOOLEAN /\ stopping \in BOOLEAN
      BY <1>2, Zenon
    <2>3. \A S : <<>> \in Seq(S)
      OBVIOUS
    <2>4. calls \in Seq(CallRecord) /\ inbox \in Seq([of : Nat, kind : Kinds])
          /\ responses \in Seq([of : Nat, correlationId : Nat, type : Types])
          /\ queue \in Seq(Nat) /\ wired \in Seq(Nat)
      BY <1>1, <2>3, Zenon
    <2>5. counter \in Nat /\ lastNonce \in Nat /\ losses \in Nat /\ wanted \in Nat
      BY DEF Init
    <2> QED BY <1>1, <2>1, <2>2, <2>4, <2>5 DEF PostTypeOK
  <1>5. CallerInv /\ IdsInv
    BY <1>1, <1>3 DEF CallerInv, IdsInv
  <1>6. InfoInv /\ SentInv
    BY <1>1, <1>3 DEF InfoInv, SentInv
  <1>7. RightCall /\ AnsweredOnce /\ KnownIds
    BY <1>1 DEF RightCall, AnsweredOnce, KnownIds
  <1>8. NonceInv /\ OrderInv
    BY <1>1 DEF NonceInv, OrderInv
  <1>9. WishInv
    <2>1. \A k \in Nat : ~LastWord(k)
      BY <1>1 DEF LastWord
    <2>2. ~subscribed
      BY <1>2
    <2>3. \A c \in Callers : pc[c] # "send"
      BY <1>1
    <2>4. ~Settled
      BY <1>1 DEF Settled
    <2> QED BY <1>1, <2>1, <2>2, <2>3, <2>4 DEF WishInv
  <1> QED BY <1>4, <1>5, <1>6, <1>7, <1>8, <1>9 DEF ApiInv, PostInv

LEMMA ApiNext == ApiInv /\ [Next]_vars => ApiInv'
  <1> SUFFICES ASSUME ApiInv, [Next]_vars PROVE ApiInv'
    OBVIOUS
  <1>0. PostInv /\ NonceInv /\ OrderInv /\ WishInv
    BY DEF ApiInv
  <1>1. ASSUME NEW c \in Callers,
               \/ \E type \in Types : Sign(c, type)
               \/ "subscribe" \in Types /\ Subscribe(c)
               \/ "unsubscribe" \in Types /\ Unsubscribe(c)
        PROVE  ApiInv'
    <2>1. PICK type \in Types, nonce \in Nat, next \in {"number", "send"} :
            /\ StartCall(c, type, next, nonce)
            /\ (next = "send" <=> type \in Subscriptions)
            /\ nonce # 0 => nonce = lastNonce + 1 /\ lastNonce' = nonce /\ next = "number"
            /\ nonce = 0 => lastNonce' = lastNonce
            /\ lastNonce' \in Nat
            /\ next = "number" => wanted' = wanted
            /\ type = "subscribe" => wanted' = Len(calls) + 1 /\ ~Subscribing
            /\ type = "unsubscribe" => wanted' = 0 /\ ~Subscribing
            /\ wanted' \in Nat
      BY <1>0, <1>1, Begins
    <2>2. PostInv'
      BY <1>0, <2>1, StartCallStep
    <2>3. NonceInv' /\ OrderInv'
      BY <1>0, <2>1, StartCallNonces
    <2>4. WishInv'
      BY <1>0, <2>1, StartCallWish
    <2> QED BY <2>2, <2>3, <2>4 DEF ApiInv
  <1>2. ASSUME NEW c \in Callers, Calling(c) PROVE ApiInv'
    <2>1. PostInv'
      BY <1>0, <1>2, NumberStep, RecordStep, SendStep DEF Calling
    <2> QED BY <1>0, <1>2, <2>1, CallingNonces, CallingWish DEF ApiInv
  <1>3. CASE Connected
    BY <1>0, <1>3, ConnectedStep, IdleNonces, ConnectedWish DEF ApiInv
  <1>9. CASE SubscribeAgain
    BY <1>0, <1>9, SubscribeAgainStep, IdleNonces, SubscribeAgainWish DEF ApiInv
  <1>4. CASE Write
    BY <1>0, <1>4, WriteStep, WriteNonces, WriteWish DEF ApiInv
  <1>5. CASE Lose \/ Reconnect
    BY <1>0, <1>5, LoseStep, IdleNonces, LoseWish DEF ApiInv
  <1>6. ASSUME NEW n \in DOMAIN answered, NEW kind \in Kinds, Answer(n, kind) PROVE ApiInv'
    BY <1>0, <1>6, AnswerStep, IdleNonces, IdleWish DEF ApiInv
  <1>7. CASE onWsMessage
    BY <1>0, <1>7, OnWsMessageStep, IdleNonces, IdleWish DEF ApiInv
  <1>8. CASE Stop \/ UNCHANGED vars
    BY <1>0, <1>8, StopStep, IdleNonces, IdleWish DEF ApiInv
  <1> QED BY <1>1, <1>2, <1>3, <1>4, <1>5, <1>6, <1>7, <1>8, <1>9 DEF Next

LEMMA ApiInvariant == Spec => []ApiInv
  BY ApiInit, ApiNext, PTL DEF Spec

-----------------------------------------------------------------------------
(* The theorems. *)

\* Whatever the order in which threads number, record and send their requests
\* and in which the exchange answers, onPostResponse() gets the correlationId
\* and the type of the call that was answered.
THEOREM AnswersReachTheirCall == Spec => []RightCall
  <1>1. ApiInv => RightCall
    BY DEF ApiInv, PostInv
  <1> QED BY <1>1, ApiInvariant, PTL

\* handlePostChannelMessage() erases the request it finds: a repeated answer
\* calls onPostResponse() no second time, over any number of connections.
THEOREM OneAnswerPerCall == Spec => []AnsweredOnce
  <1>1. ApiInv => AnsweredOnce
    BY DEF ApiInv, PostInv
  <1> QED BY <1>1, ApiInvariant, PTL

\* signAndSend() records a request before it sends it: "unknown id" is reported
\* only for an answer to a request that had one before.
THEOREM UnknownIdsAreRepeats == Spec => []KnownIds
  <1>1. ApiInv => KnownIds
    BY DEF ApiInv, PostInv
  <1> QED BY <1>1, ApiInvariant, PTL

\* A thread signs, then sends: its nonces reach the exchange in order however
\* many threads and lost connections there are.
THEOREM NoncesOfAThreadInOrder == Spec => []ThreadNoncesInOrder
  <1>1. ApiInv => ThreadNoncesInOrder
    <2> SUFFICES ASSUME ApiInv, NEW i \in DOMAIN wired, NEW j \in DOMAIN wired, i < j,
                        NEW m \in DOMAIN calls, NEW n \in DOMAIN calls,
                        calls[m].nonce = wired[i], calls[n].nonce = wired[j],
                        calls[m].by = calls[n].by
                 PROVE  wired[i] < wired[j]
      BY DEF ThreadNoncesInOrder
    <2>1. m < n
      BY DEF ApiInv, OrderInv
    <2>2. wired[i] # 0 /\ wired[j] # 0
      BY DEF ApiInv, NonceInv
    <2> QED BY <2>1, <2>2 DEF ApiInv, NonceInv
  <1> QED BY <1>1, ApiInvariant, PTL

\* With one calling thread the rule of Signing.cpp:12 holds: nonces reach the
\* exchange in order.  (With two it does not: the run post_two_threads refutes it.)
THEOREM OneThreadKeepsNonces ==
  ASSUME NEW thread, Callers = {thread}
  PROVE  Spec => []NoncesInOrder
  <1>1. ApiInv => NoncesInOrder
    <2> SUFFICES ASSUME ApiInv, NEW i \in DOMAIN wired, NEW j \in DOMAIN wired, i < j
                 PROVE  wired[i] <= wired[j]
      BY DEF NoncesInOrder
    <2>1. PICK m \in DOMAIN calls : calls[m].nonce = wired[i]
      BY DEF ApiInv, NonceInv
    <2>2. PICK n \in DOMAIN calls : calls[n].nonce = wired[j]
      BY DEF ApiInv, NonceInv
    <2>3. calls[m].by = thread /\ calls[n].by = thread
      <3>1. calls[m] \in CallRecord /\ calls[n] \in CallRecord
        BY Element, Zenon DEF ApiInv, PostInv, PostTypeOK
      <3> QED BY <3>1 DEF CallRecord
    <2>4. m < n
      BY <2>1, <2>2, <2>3 DEF ApiInv, OrderInv
    <2>5. wired[i] # 0 /\ wired[j] # 0 /\ wired[i] \in Nat /\ wired[j] \in Nat
      BY DEF ApiInv, NonceInv, PostInv, PostTypeOK
    <2>6. wired[i] < wired[j]
      BY <2>1, <2>2, <2>4, <2>5 DEF ApiInv, NonceInv
    <2> QED BY <2>5, <2>6
  <1> QED BY <1>1, ApiInvariant, PTL

\* Once everything queued is written, a wanted stream is alive, and one nobody
\* wants is alive only if onConnected() subscribed after the unsubscribe(), however
\* often the connection was lost and wherever in the queue the messages were.
THEOREM SubscriptionFollowsWish == Spec => []SubscriptionAsWanted
  <1>1. ApiInv => SubscriptionAsWanted
    <2> SUFFICES ASSUME ApiInv, link = "up", IoFree, queue = <<>>,
                        \A c \in Callers : pc[c] # "send", wanted # 0 \/ ~overtaken
                 PROVE  subscribed = (wanted # 0)
      BY DEF SubscriptionAsWanted
    <2>1. Settled
      BY DEF Settled, Subscribing
    <2>2. \A k \in DOMAIN queue : IsPost(queue[k])
      OBVIOUS
    <2> QED BY <2>1, <2>2 DEF ApiInv, WishInv
  <1> QED BY <1>1, ApiInvariant, PTL
=============================================================================
