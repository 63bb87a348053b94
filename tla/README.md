# A TLA+ model of the Hyperliquid C++ SDK

This directory holds TLA+ specifications of the SDK: the parts that keep state and run
concurrently, and the tables and parsers between them; the TLC configurations that check
them; and TLAPS proofs.
`PROJECT.json` lists components, runs, mutants, hazards, theorems, and the source
lines behind every definition. Source paths below are relative to the repository.

## 1. Inventory

| Component | State | Operations | What makes it correct |
|---|---|---|---|
| `WebsocketRunner` (`src/websocket/WebsocketRunner.*`) | stream, `connected_`, `stopping_`, `writing_`, `writeQueue_`, reconnect timer and attempts, ping timer, `pendingPong_`, `lastPongTime_` | `start`, `stop`, `send`, `onPongReceived`; one handler per asynchronous operation and timer | one attempt, wait or connection at a time; never none; one write at a time; messages in order, once; one keep-alive cycle; truthful callbacks; backoff |
| `WebsocketApi` (`src/websocket/WebsocketApi.cpp`) | `stopping`, IO thread, `postRequestCounter`, `postRequestInfo` | `start`, `stop`, `subscribe`, `unsubscribe`, about 100 methods that post a request | an answer goes to its own call, once, with the right type; every request is answered or accounted for |
| `PostResponseDispatch` | none of its own; erases from `postRequestInfo` | `handlePostChannelMessage`, typed dispatch | every method's answer has its typed callback |
| `nextNonce` (`src/signing/Signing.cpp`) | `static std::atomic<uint64_t> lastNonce` | `nextNonce` | nonces strictly increase across threads, close to the clock |
| `Signing`, `SigningHelpers` | none | `prepareBody`, `prepareBodyForType`, `prepareApproveAgentBody`, `prepareUserSignedActionBody`, `actionHash` | every action takes the signing path of its kind; the signature covers all that is sent, and nothing else; the vault address is in the requests it belongs to |
| `Keys`, `sha3` | key, context | elliptic-curve and Keccak arithmetic | test vectors |
| `RequestTypes.h` | tables | `toString`, `isAuthenticated`, `isUserSignedAction`, ... | the tables agree with each other and with both transports |
| `RestApi`, `HttpSession` | io_context, work guard, thread; per request a stage, an expiry and a completion | asynchronous and synchronous calls, destructor | exactly one completion per request; a synchronous call returns |
| `SymbolMap`, `ExchangeRequestBuilder::initializeMapping` | coin -> asset id | build, `resolve` | the ids of perps, spot pairs and builder dexes do not collide |
| request builders | none | JSON of every request, `floatToWire` | the fields of each request, wire format |
| `RestApiMessageParser` | document buffer, thread-local in the post dispatch | one `parseX` per response, `parse` | entries keep their positions, every member is set, unexpected answers are survived and do not pass for success |
| `WebsocketMessageParser` | document buffer | `crack` and one `crackX` per channel, base64 and inflate | a bad entry costs one callback, members are set |
| configuration, logging, listeners | none | - | - |

**Interaction.** Application threads call methods of `WebsocketApi`. A method
builds a JSON body, has it signed (an action takes a nonce), takes an id, records
`{type, correlationId}` under a mutex and gives the text to `WebsocketRunner::send`,
which posts a lambda to the runner's io_context. One IO thread runs every handler of
the runner; `onRead` calls `WebsocketApi::Impl::onWsMessage`, which recognises pongs,
routes post answers to `handlePostChannelMessage` and hands everything else to the
listener. `stop()` runs on an application thread: it touches two timers, posts
`doClose` and joins the IO thread. `RestApi` has an io_context and thread of its own;
each request is a self-owned `HttpSession`.

**What is hard.** Completions of a stream that has already been given up (the pong
timeout leaves its read pending) arriving during the wait or the next attempt; a ready
handler that `cancel()` no longer reaches; `stop()` beside running handlers; a queue
that outlives connections; two application threads between nonce, id and `send`; answers
repeated, reordered, malformed, or lost with their connection. The hazard list in
`PROJECT.json` has each of these at its line.

## 2. Plan

Done:

1. `WebsocketRunner`, the core: every other websocket behaviour rests on it. Safety,
   backoff, liveness; `WebsocketRunnerProofs`: its inductive invariant.
2. `NonceDispenser` (abstract), `Nonce` (the compare-exchange loop) and `NonceProofs`.
3. `Endpoints` (tables) and `PostRequests`, which composes callers, nonces, the runner
   as its users see it, subscriptions, and the dispatch of answers.
4. `RestRequests` (abstract: every request completes exactly once or is dropped by the
   destructor), `RestApi` (sessions, synchronous and asynchronous calls, destructor) and
   `RestApiProofs`.
5. `SymbolMapping`: the asset ids of perps, builder dexes and spot pairs, and when the
   two constructors build them.
6. `Messages` over `Requests` (builders and signing), `RestMethods` (methods and parser
   tables), `RestParsers` and `StreamParsers` (every parse and crack function), with
   `ResponseTypes` and `JsonShapes` below them.
7. `WebsocketTrafficProofs`, `PostRequestsProofs`, `SymbolMappingProofs` and
   `MessagesProofs`: the safety properties of these modules.
8. `ParserProofs`: what holds of every parse and crack function. With it, every safety
   property that a passing run checks is a theorem.

Left: `floatToWire` and base64 as operators against reference definitions.

## 3. Modules

### WebsocketRunner

A handler of the IO thread runs to completion, so each handler is one action. What it
starts is counted in `ops` (kind of operation -> number unfinished), so that a second
`async_write` beside an unfinished one is a state, not something the model excludes.
Timers and reads complete in two steps, ready and run, because `cancel()` reaches only
what is not ready: `ReconnectExpires`/`onReconnectTimer`, `PingExpires`/`onPingTimer`,
`ReadCompletes`/`onReadData`, `onReadError`. Posted lambdas are a FIFO (`posted`).

| Model | Code |
|---|---|
| `connected`, `stopping`, `writing`, `writeQueue`, `reconnectAttempts`, `pendingPong` | the members of the same name with `_` |
| `reconnectTimer`, `pingTimer` | the timer is waiting; `reconnectFired`, `pingFired`: handlers ready |
| `pongAge` | `now() - lastPongTime_` as far as `doPing` tells apart: 0 after a pong or a handshake, 30 when the ping timer expires |
| `ops["oldRead"]`, `ops["oldWrite"]` | operations of the stream that `doReconnect` closed and replaced |
| `user` | progress of the application thread through `WebsocketApi::stop()` |
| `io` | the IO thread: none, spawned by `WebsocketApi::start()`, in `ioc_.run()`, returned |
| `owed` | external: the peer owes an answer to a ping |
| `notified`, `wired`, `offline`, `closed` | history, read only by properties |

`stop()` is six steps (`StopFlag` ... `Join`) that interleave with the handlers.

Assumptions that the model makes about the io_context, each visible as a guard:

* `Quiet`: timers last seconds, and ready handlers run first come, first served, so what
  was ready when a timer was started has run before the timer expires.
* `OldStreamGone`: the operations that `doReconnect` aborts become ready at once; an
  attempt takes several network round trips, so their handlers run before its handshake
  completes. Without this ordering a late completion of the old stream could be taken
  for one of the new connection, since `onRead` and `onWrite` look at `connected_` only.
* The unsynchronised reads of `reconnectTimer_`, `pingTimer_` and `ws_` in `stop()` and
  `send()` are data races in the code; they are modelled as atomic steps.

### NonceDispenser, Nonce

`NonceDispenser` says what signing needs: one atomic step issues a nonce greater than
every earlier one. `Nonce` is `nextNonce()` with one action per access of the atomic.
All accesses are `memory_order_relaxed`: `Load` may return any earlier value not
older than one the thread has seen, `CasFails` may be spurious, and the system clock may
go back. `RefinesDispenser` maps `last` to `lastNonce` and `held[t]` to the result
of a call that has one.

### Endpoints, PostRequests

`Endpoints` holds the endpoint types that the methods of `WebsocketApi` post, the ones
`isAuthenticated` accepts, and the cases of `dispatchInfoPostResponse`. `PostRequests`
follows `signAndSend` step by step (`Sign`, `Number`, `Record`, `Send`) in several
threads, and answers through `onWsMessage`. The runner appears as what
`WebsocketRunner` shows it to be: a queue in order, emptied before every new attempt.
The exchange (`Answer`) is external: any order, repeated, without id, or without
payload.

`subscribe()` and `unsubscribe()` are a message and nothing else: the SDK remembers no
subscription, and the exchange forgets them with the connection. Keeping them up is shared
work, so the application is part of the model. It knows what it wants (`wanted`), decides
that before it calls, in one thread at a time, and subscribes again whenever `onConnected()`
is called, as `examples/ws_fills.cpp` does. The callback runs on the IO thread, so it is two
steps: it looks at the wish (`Connected`) and subscribes (`SubscribeAgain`). Other threads
go on in between, the IO thread does not (`IoFree`); an `unsubscribe()` sent there is queued
ahead of the callback's `subscribe()` and leaves a stream alive that nobody wants
(`overtaken`). The SDK's share is to call `onConnected()` for every connection and to send
what it is given in order.

### JsonShapes, ResponseTypes, RestParsers, StreamParsers

A parser is written as data: the sequence of steps that the function takes, one definition
per function and under its name. `JsonShapes` has the vocabulary, which mirrors the idioms
of the code: `Plain` is `obj["a"].get_string().value()`, `Soft` is
`if (!obj["a"].get_string().get(v))`, `Nullable` and `Present` the two forms of `.get(v) ==
SUCCESS`, `Element` an element of a pair with its `continue`, `Each` a loop, `EachCaught` a
loop with a `try` inside, `One` an object read into a local, `Alt` a branch on a value,
`Status` the early return of the exchange responses. `Number`, `Decimal` and `Expiry` are
look-ups with a conversion: `std::stod` and `std::stoi` throw `std::invalid_argument`,
`std::from_chars` leaves a NaN. Values are left out. `ResponseTypes` lists the members of a
struct that have no initialiser, as far as a parser declares it without `{}`; for the
objects that `crackTrades`, `crackCandles` and `crackAllMids` use for all entries, all
members.

### Requests, RestMethods, Messages

`Requests` has the fields that each builder sets (`always`, `optional`) and the three
signing paths: a body is its fields, its vault address (from nowhere, the caller or the
configuration) and the set of fields that the signature is made over. `RestMethods` lists
the synchronous and asynchronous methods and the parser of each, once as the method
names it, once as `parse()` picks it, once as `PostResponseDispatch` does.

`Messages` executes them: a call is built and signed or refused (`Request`, `Refuse`), its
answer, or a message of a stream (`Push`), is read step by step. The document is not fixed:
each look-up chooses what it finds, so that one run goes through all documents, up to the
length of arrays. `frames` is the stack of objects being read, with what happens to each
when an error comes (`on`) and which members are still `unset`. `Raise` is a
`simdjson_error` on its way to the next `catch`; `Throw` is an exception that no `catch`
expects, the one inside a loop neither. Either may cut a list that had entries to come
(`CutsList`). `status` is what the parser has for the status of an exchange response, `told` what the
exchange sent, copied as it is: "ok", "err", anything else, or nothing. `result` is what the
application gets.

### RestRequests, RestApi

`RestRequests` is the contract: a request that was issued gets one outcome (a message,
HTTP 429, or an error) or is dropped when the client is destroyed; then nothing happens
any more. `RestApi` is the code. A session is a chain of asynchronous operations, so
its state is the `stage` it waits in, whether that operation is `ready`, and whether the
stream is `timed` (`expires_after` was called; the write's limit goes on for the read).
Becoming ready (`OperationEnds`, `Expires`) and running the handler are two steps, and
`ioc.stop()` can come between them. A handler that calls the listener is interrupted:
`callback` names the request whose callback the IO thread is in, `CallbackReturns` goes
on behind the call. In between, the callback may issue requests itself. `waiting[t]` is
the request whose future thread `t` waits for. The destructor is `ResetWork`,
`StopContext`, `JoinThread` and the destruction of the members, `DestroyContext`.

What is assumed: nobody calls a method of an object whose destructor has begun, and no
application thread is inside a method then (the language's rule; a callback that is still
running may go on calling). The destructor is not called from a callback. `getaddrinfo`
runs in a thread of asio's own, which `~io_context` may still wait for: `JoinReturns` is
about `thread.join()` only.

### SymbolMapping

`initializeMapping` call by call, each of which may throw, and loop by loop: one round of a
loop is one action (`setPerp`, `setPair`, `dexRound`, `setDexAsset`), `index` and `perpIdx`
count as the code's do, so that the map is also looked at while it is half built. Listings are whatever the
parsers return: a parse error leaves the entries before it, so any prefix may come. Own
names and indexes are unique on the exchange; aliases are not, and one pair's alias may
be another one's own name. The map itself is a function that `set` overwrites and `add`
does not; `api` tells whose constructor runs.

Of the exchange it is assumed that names without a `/` are no aliases, that perps, pairs and
the perps of dexes have different names (`NamesAssumption`), and that a listing keeps to its
range of ids (`NumberingAssumption`: at most 10000 assets, indexes of pairs below 100000;
the code does not check it).

## 4. Runs

| Run | Question | Result |
|---|---|---|
| `runner_safety` | Can failures, timeouts, `send()` and `stop()` in any order give two attempts, two writes, none of either, a repeated callback, reordered messages, two keep-alive cycles, or a ping beside an unanswered one? Is the delay anything but 2, 4, ..., 32, 60, 60, ... s and 2 s again after a connection? | no |
| `runner_liveness` | Does the runner reconnect, does `stop()` return once the read is cancelled, does a message behind a failed write get written, or given up with its connection? | yes, unless the server never answers an upgrade, or a close |
| `runner_clear` | Does `doReconnect` clear only what belonged to the previous connection? | **no**, see findings |
| `nonce_calls` | With three threads, does every `nextNonce()` return, with nonces that are unique, increasing in real time, and near the clock? | yes |
| `post_calls` | With two threads, lost connections and an exchange that answers as it likes: do answers reach the right call, once, and never find their request unrecorded? Do one thread's nonces arrive in order? Is every request answered unless lost, malformed or stopped? Do the exchange's subscriptions follow what the application wants? | yes, but for an `unsubscribe()` sent while `onConnected()` is about to subscribe |
| `post_two_threads` | Do the nonces of two threads arrive in order? | **no**, see findings |
| `rest_requests` | Does `RestApi` implement its contract, with failures, expiries, callbacks that issue requests, and the destructor in between? Do synchronous calls return and asynchronous ones get delivered on a network where only the resolver is sure to answer, and does the destructor's `join()` return even if that does not? | yes |
| `rest_callback` | Does a synchronous call from a callback return? | **no**, see findings |
| `symbol_map` | Does every symbol resolve to the asset it names, whatever the aliases and wherever a listing is cut short? | yes |
| `messages` | Whatever comes back: are entries in their places (`PrefixDelivered`), is a loss local (`LossIsLocal`), is every member set (`MembersSet`), does an unreadable answer to an action say so (`SimpleAnswersDecide`), what can throw (`OnlyQueriesThrow`), do both forms of a method read alike (`ReadAlike`)? And of what goes out: does the signature cover it (`SignatureCoversBody`), is the vault address only where it belongs (`VaultRule`)? | yes, with the exceptions below |
| `messages_crash` | Does the process survive every answer to a posted query? | **no**, see findings |
| `messages_vault` | Do the methods that act for the calling wallet do so with a configured vault? | **no**, see findings |

**Bounds.** `MaxSends` = 2 is the least number of messages that can be reordered, or
queue behind an unfinished write; `AttemptCap` caps `reconnectAttempts_`, which only
the backoff depends on, and is 7 in the safety run (the ceiling is reached at 6); `QueueBound` limits only unsolicited pong frames. Connections, losses, pings and
timer expiries are unbounded: the runner's state space is finite without bounding
them. `Nonce` needs two threads to race and a third to return in between; a clock
of three readings can repeat, jump and go back. `PostRequests` with two calls in two
threads has every interleaving of two `signAndSend`s, or of one with a subscription, or of
`subscribe()` with `unsubscribe()`, over up to two lost connections (one in which the
request goes down, one more before the next attempt ends); one answer comes twice. Signed
actions and info requests are represented by one type each. `Messages` takes every
method, channel and parser; arrays have up to two entries, enough for one to be lost before
or after another, since no parser looks further back than the entry before.
`RestApi` has two requests (one in its callback
and one issued by it, or one each of two threads); its state space is finite otherwise,
and the proof covers any number. `SymbolMapping` has listings of up to two entries (`MaxLength`), spot pairs out of three names
one of which is also an alias, so that an alias can come before, after or without the own
name it equals; two dexes are enough for one that is passed over before one that is not.
Its listings are short, so that a listing of more than 10000 assets, whose ids would run
into the next range, is out of its sight; the code does not check for it.

**Deadlock.** Checked for the runner (after `Join` it may only stutter) and for the
nonces (the clock always runs). Switched off for `PostRequests`, where all calls made and
answered is a legitimate end, for `Messages`, where the process may have ended, and for `rest_callback`, where a callback
may block the IO thread for good, which is the finding.

**Fairness.** Handlers: an io_context with a running thread runs every ready handler
(weak fairness), and a timer that is waiting expires (strong fairness, since `Quiet`
only delays it). The application thread goes on inside `stop()`; nothing makes it call
`stop()` or `send()`. An operation of the stream completes by itself only if something
bounds it: connecting and the TLS handshake have a limit of 10 s (`WebsocketRunner.cpp:70`,
`:92`), and resolving has the system's own, which is assumed. From `:105` on
`expires_never()` holds, and no `stream_base::timeout` is set, so nothing is assumed to end
the upgrade (`:112`), the close (`:161`) or a write on the live stream: `onWsHandshake`, `onClosed`
and `onWriteOk` have no fairness. `Reconnects` and `CancelledReadEndsStop` therefore name
the operation that may hang for ever as their alternative. (`QueueMoves` needs none:
a connection whose write hangs is given up when a pong is missing.) `NetworkRecovers` is the
assumption on the environment without which no client can promise a connection: a stage
that is tried again and again succeeds at last, and if upgrades are answered again and
again, one of them is accepted. In `PostRequests` threads go on, the runner
reconnects and writes, which supposes a server that answers upgrades and a peer that reads
(`Reconnects` says what happens otherwise), and the exchange answers each request it keeps at
least once. In `Nonce` a compare-exchange that could succeed does not fail for ever,
which is what `compare_exchange_weak` guarantees in practice. In `RestApi` threads go on,
callbacks return, timers expire; a session's handler gets strong fairness, because other
callbacks may hold it up again and again but an io_context runs ready handlers first come,
first served. Of the network only the resolver is assumed to answer (`ResolverAnswers`, a
hypothesis of the properties that need it), since no stage but the first is without a time
limit; `JoinReturns` does not need even that.

## 5. Findings

* `runner_clear`: a comment in `doReconnect` says it clears pending state *from previous
  connection*; it also drops what was queued for the next one. A subscription sent right
  after `start()`, as in `docs/quickstart.md`, is lost when the first attempt fails.
* `post_two_threads`: the comment on `nextNonce` gives non-decreasing nonces per user
  as the reason for the atomic; two threads can still send them in the opposite order,
  because the nonce is taken before, and not together with, the hand-over to the runner.
* `rest_callback`: `RestApi.h` says that synchronous methods block and return or throw; from
  a `RestApiListener` callback they block the IO thread that would complete them.
* `messages_crash`: `toDouble()` of the REST parser uses `std::stod`. A string that is no
  number throws `std::invalid_argument`, and nobody between the parser and the thread
  function of `WebsocketApi` catches anything but `simdjson_error`: in the answer to a posted
  query it ends the process. Synchronous REST calls throw it to their caller instead.
* `messages_vault`: a comment in `RestApi.h` lists the methods that act for the calling wallet;
  for two of them, `createVault` and `borrowLend`, `prepareBodyForType` falls back to the
  configured vault.

Observations that no run is spent on:

* `stop()` need not return: `doClose` does nothing while there is no connection, so a
  `stop()` during an attempt joins a thread that goes on to connect; and a read whose handler
  is ready when `cancel()` runs starts another read. Nor does it when the read was cancelled
  and the server never answers the close frame. Nothing promises otherwise;
  `CancelledReadEndsStop` says that nothing else holds it up once the read was cancelled.
* One upgrade that the server accepts by TCP and TLS and then never answers leaves the
  runner waiting for ever: `expires_never()` comes before `async_handshake`
  (`WebsocketRunner.cpp:105`, `:112`). `Reconnects` names that case.
* The `catch` blocks inside the loops of the crack functions take `simdjson_error` only. The
  `std::stoi` of an expiry (`ResponseTypes.h:616-620`) gets past the one at
  `WebsocketMessageParser.cpp:1392`, and the later entries of the `outcomeMetaUpdates` message
  are lost with it; `LossIsLocal` excepts this channel.
* `{"status":"ok"}` without a readable response stays an "ok" in `parseSimpleResponse()`, and an
  empty status that could be read stays empty; `SimpleAnswersDecide` says exactly that.
* `WebsocketApi` overwrites `skipBuildingSymbolMap` and builds the map anyway
  (`WebsocketApi.cpp:39-41`); `Config.h:31-33` offers the flag for both classes. See
  `WebsocketApiConstructor`.
* Six info types (`RecentTrades`, `UserFunding`, `UserNonFundingLedgerUpdates`,
  `FundingHistory`, `UserBorrowLendInterest`, `Liquidatable`) have no case in
  `dispatchInfoPostResponse`, so that only the raw callback is called for their answers;
  `WebsocketApi.h:16-18` promises a typed one for every method. See `RawOnly`.
* The fallback to the configured vault also applies to info requests: with one configured,
  `body["vaultAddress"]` of `prepareBody` replaces the vault that `vaultDetails()` was asked
  about (`Signing.cpp:72`).
* Members that stay indeterminate (`LeftUnset`, excepted from `MembersSet`): `marginUsed`,
  `maxLeverage` and `leverageType` of the positions of `clearinghouseState` and `subAccounts`
  (`RestApiMessageParser.cpp:2107`); `szDecimals` and `maxLeverage` in `allPerpMetas` if the
  exchange leaves them out (`:1276`); `outcome` of an unsettled `settledOutcome`; on the
  websocket, `time` and, without a leverage, `leverageType` of a clearinghouse state
  (`WebsocketMessageParser.cpp:922`), the `userState` of a `webData3` without one (`:790`), and
  the sides of a `bbo` (`:275`), with the `n` of a side that is null or missing.
* A list that a parse error cut short looks like a complete one, and the responses to
  orders, cancels and modifications keep an empty status when they cannot be read.

## 6. Proofs

All theorems hold for every value of the constants, under the assumptions that the modules
name: `BoundsAssumption`, `NonceAssumption` (bounds are natural numbers); `RestAssumption`
(the IO thread is not an application thread and `NoRequest` is no request);
`NamesAssumption` and `NumberingAssumption` (the exchange's names and numbering). Threads,
requests, names and types are any sets, not necessarily finite. A hypothesis that only one
theorem needs is part of its statement: `BackoffDoublesAlways` wants a cap that the backoff
reaches its ceiling below (`AttemptCap >= 6`; the code has no cap), `OneThreadKeepsNonces`
a single calling thread.

**WebsocketRunnerProofs.** `InductiveInvariant` is `Spec => []IInv` with
`IInv == TypeOK /\ ConnectionInv /\ IdleInv /\ StopInv`. None of the safety properties is
inductive alone: that a handshake starts the only write needs that an attempt
has no write and `writing_` is unset (`StreamInv`); that a failed read ends the only
activity needs that a connection has exactly one read or one close (`OneActivity`) and
that no operation of an older stream is left (`StreamInv`); that the runner never stalls
needs that `doClose` has an effect only inside `stop()` (`StopInv`); that `start()` begins
the only attempt needs that nothing was going on before (`IdleInv`). The
proof has one lemma per action for `ConnectionInv` and one step per action for the
other parts; `ReplaceOps`, `FinishOps` and their like are arithmetic on the
operation counts, kept apart from the Boolean reasoning. Its corollaries are the runs'
`TypeOK`, `OneActivity`, `NeverStalls`, `OneWrite`, `CallbacksAlternate` and
`ClosedForGood`, here for any number of messages and any cap.

**NonceProofs.** `ImplementsDispenser`: `Spec => Dispenser!Spec`. `NonceInv` says that
`lastNonce` is the greatest value ever stored and that a returned nonce exceeds the floor of
its call; a successful compare-exchange is then an `Issue`. `RealTimeOrderHolds`
follows from the same invariant; `NearClockHolds` needs `ClockInv`, which counts the values
stored.

**RestApiProofs.** `ImplementsContract`: `Spec => Contract!Spec`. The invariant `RestInv`
adds to the types that the stage of a session tells whether `onComplete_` was called
(`CompletionInv`: not before the read or a failure, and before any release, except by the
destructor) and that a joined thread is in no callback (`ThreadInv`). The first is what
makes a second completion impossible, the second is why nothing is issued or completed
once the client is gone. `Outcome` maps a session to the contract's view; handlers that
only start the next operation are stutters (`Invisible`), a failure and the end of a read
are `Complete` (`CompletionVisible`), `DestroyContext` is `Close`.

**WebsocketTrafficProofs** goes on from `IInv`. `MessagesInOrder` needs `WireInv`: what was
written, what is queued and what is still posted are, one behind the other, in the order of
`send()`. A message whose write succeeded as its connection died is still at the front of the
queue; that is allowed while nothing of the queue can be written (`Live` is false), and
`LiveStep` shows that a queue comes to life again only empty, in `doReconnect`. `OneKeepAliveCycle` needs `KeepAliveInv`: besides the
count of cycles, none is left when the next attempt begins, so that the handshake starts the
only one. `OneUnansweredPing` needs `PongInv`, which ties `pendingPong_` to the age of the
last pong: the ping timer that fires with a pong pending always finds it too old.
`BackoffDoublesAlways` needs `BackoffInv`: without a connection the last delay is the one that
`reconnectAttempts_` gives, and a connection has reset that count.

**PostRequestsProofs.** `ApiInv == PostInv /\ NonceInv /\ OrderInv /\ WishInv`. `PostInv`
follows a request from its number to its answer: every id belongs to one call, an entry of
`postRequestInfo` holds that call's type and correlation id, what is on its way to or from
the exchange was recorded before, and an answered id has no entry any more. From it come
`AnswersReachTheirCall`, `OneAnswerPerCall` and `UnknownIdsAreRepeats`. `NonceInv` says
that nonces follow the numbers of the calls, `OrderInv` that the signed calls of one thread
go through the queue to the wire in the order of their numbers; with one thread that is the order of all
(`OneThreadKeepsNonces`), with two it is not (`post_two_threads`). `WishInv` is
the argument for subscriptions: the last word about the subscription in the queue or, if the
queue has none, what the exchange has, is what the application wants, unless a thread is
about to send a message about it, or `onConnected()` is about to subscribe, or the last
`unsubscribe()` was sent while it was (`overtaken`); before the handshake only a subscription
that nobody wants would be wrong, since a wanted one is asked for in `onConnected()`.

**SymbolMappingProofs.** `MapInv == ListsInv /\ PhaseInv /\ HoldersInv /\ ResolvesToNamesake
/\ FoundInv`. The loops are steps, so that their invariants are conjuncts: what the listings
are (`ListsInv`), which of them have been gone through (`PhaseInv`), which symbols are in the
map (`HoldersInv`), and which id each of the assets gone through has (`FoundInv`). The last
is where an own name that takes an alias away, and an alias that was claimed before, are told
apart. `IdsAreShared` follows without induction from `ResolvesToNamesake`, the disjoint ranges
and the uniqueness of names.

**MessagesProofs.** `SignatureCoversBody`, `VaultRule` and `ReadAlike` are facts about tables
carried by `CallInv` from the request to the answer: `BodyRight` proves them for every type,
choice of optional arguments and vault; `ParsersAlike` compares `parse()` with the
synchronous methods. (The attempt showed two overlapping guards in the model's
`SyncParser`, which TLC never noticed because it takes the first; they are disjoint now.)
`PostedAnswersDecide` is about a parser: `FreshInv` says that nothing is left of one answer
when the next is read, `SimpleInv` lists what `parseSimpleResponse()` has still to read
before and after the status is known, and that the status is then the one the exchange
sent (`told`); `Decided` is what follows for the result.

**ParserProofs.** Four properties are about all parsers (67 kinds of answer, 26 channels) and every answer they
may be given. A parser is data, so each is first a *discipline* that its steps keep to
(`Allows`): no conversion throws (`quiet`); a loop of many entries catches the errors in each
(`local`); no entry is dropped, and none is skipped one loop further in (`ordered`, `unskipped`); every
member outside a set `A` is declared with a value or assigned by a step that cannot fail
quietly (`body`, `entry`).
`Obeys(kind, A, s)` says that the steps `s` come from a set that is closed under what is left
of a step once it is taken (`Closed`) and whose members the discipline allows (`Sound`).
Stated as the existence of a set, it needs no induction over nested steps, which the
prover does not have: the rules for the combinators of `JsonShapes` (`JoinObeys`, `FieldObeys`,
`AltObeys`, `LoopObeys`, `LoopAbove`) build the set for a parser from those of its parts, and each
parser is one short step by these rules (`QuietActions`, `LocalStreams`, `OrderedParsers`,
`SetAnswers`, `SetStreams` and the lemmas before them).

The other half is the same for all four. `ReadsShape` shows that a step of the reading does one of
eight things to the stack (`Shapes`: a frame advances, opens an array, enters an entry;
an entry is taken, skipped, dropped or kept; the reading ends), and `RunsAdvance`, `RunsOpens` and
`RunsEnters` that what is left of a frame keeps to its discipline (`Runs`).
The inductive invariants then say what the stack is:

* `QuietInv`: every frame is quiet, so a step that throws is not there to be taken
  (`ActionsNeverThrow`).
* `LocalInv`: as long as no frame so far catches, frames are local and none but the innermost is
  inside a list; a list that was cut was cut by an exception that no `catch` expects, and
  by `QuietInv` that is the expiry of an `outcomeMetaUpdates` entry (`EntriesAreLostSingly`).
* `OrderedInv`: every list is 1, 2, 3 and so on, and the index of the entry under way follows
  the last one; between entries the loop's counter is the length of the list, unless it was
  a single object that was given up (`ListsArePrefixes`).
* `SetInv`: what an object has unset is in `A` or is still to be assigned by its
  remaining steps (`Pending`); where a catch keeps the object, nothing outside `A` is unset at
  all, since the catch may come at any step; what was taken into an object has no holes
  outside `A` (`MembersAreSet`). `A` is `LeftUnset` of the parser at work; `MembersSet`
  itself speaks of the end only.

`ReadInv` ties the reading to its source: which parser is at work, and that an action's answer
goes to one of the parsers for actions. The bound `MaxEntries` is any natural number, so
the theorems cover arrays of any length.

**Only model-checked.** All liveness properties (`Reconnects`, `QueueMoves`,
`CancelledReadEndsStop`, `CallsReturn`, `CallsAnswered`, `Resubscribed`, `SyncCallsReturn`,
`AsyncCallsDelivered`, `JoinReturns`): fairness and `ENABLED` are out of the prover's reach.

## 7. Not modelled

* Elliptic curves and Keccak: arithmetic out of TLC's reach, covered by test vectors.
* The values in requests and answers: the text of numbers (`floatToWire`), the nesting
  inside a field, msgpack and EIP-712 encodings, base64 and inflate (one step that may
  fail).
* Configuration, logging, listener interfaces: nothing to check.
* The destructor `~Impl` calls `ws.stop()` without setting `Impl::stopping`; only
  `WebsocketApi::stop()` is modelled.
* `postRequestCounter` is an `int`; its wrap-around after 2^31 requests is not modelled.
