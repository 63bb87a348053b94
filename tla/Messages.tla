------------------------------ MODULE Messages ------------------------------
(***************************************************************************)
(* One request and its answer, or one message of a stream, at a time: what    *)
(* is signed and sent, which parser reads what comes back, and what the       *)
(* application is given when the exchange, a proxy or a new version of the    *)
(* API answers something the parser does not expect.                        *)
(*                                                                         *)
(* A parser runs on a stack of frames, one per object it is reading.  The     *)
(* document is not fixed in advance: what each look-up finds is chosen when   *)
(* it is made.  The order of calls and messages, the threads and the failing  *)
(* of connections are the subject of PostRequests and RestApi.              *)
(***************************************************************************)
EXTENDS Requests, RestMethods, StreamParsers, SequencesExt

CONSTANTS MaxEntries    \* bound: entries of an array

ASSUME MaxEntriesAssumption == MaxEntries \in Nat \ {0}

VARIABLES
    call,       \* the request or message under way
    sent,       \* the body that went out for it
    frames,     \* the parser's stack, outermost object first
    lists,      \* for each array of the outermost object, the entries taken
    status,     \* response.status
    told,       \* history: the status the exchange sent; "none": not read
    result,     \* what the application was given
    crashed     \* an exception left the websocket's IO thread

vars == <<call, sent, frames, lists, status, told, result, crashed>>

NoCall == [via |-> "none", type |-> "none", parser |-> "none"]
NoBody == [fields |-> {}, vault |-> "none", nonce |-> FALSE, signed |-> {}]
NoResult == [end |-> "none", status |-> "", lists |-> <<>>, holes |-> {}, cut |-> FALSE]

\* on: what happens to the object when reading it fails: "raise" passes the
\* error on, "drop" gives the object up, "keep" keeps what was read.
Frame(on, index, own, steps) ==
    [on |-> on, index |-> index, unset |-> own, holes |-> {}, steps |-> steps]

Init ==
    /\ call = NoCall
    /\ sent = NoBody
    /\ frames = <<>>
    /\ lists = <<>>
    /\ status = ""
    /\ told = "none"
    /\ result = NoResult
    /\ crashed = FALSE

-----------------------------------------------------------------------------
(* Requests. *)

Idle == call = NoCall /\ ~crashed

Finish(end, cut) ==
    /\ result' = [end |-> end, status |-> status', lists |-> lists, cut |-> cut,
                  holes |-> IF frames = <<>> THEN {} ELSE frames[1].unset \cup frames[1].holes]
    /\ frames' = <<>>
    /\ lists' = <<>>

\* signAndSend() and signAndSendSync(): the builder runs first, then
\* prepareBodyForType(), which wants a wallet for an action.
Request(via, type, given, argument, wallet, configured) ==
    /\ Idle
    /\ given \subseteq Builder[type].optional
    /\ argument => type \in TakesVault
    /\ type \in Authenticated => wallet
    /\ call' = [NoCall EXCEPT !.via = via, !.type = type]
    /\ sent' = prepareBodyForType(type, Builder[type].always \cup given, argument,
                                  configured)
    /\ UNCHANGED <<frames, lists, status, told, result, crashed>>

Refuse(via, type, wallet) ==
    /\ Idle
    /\ Builder[type].throws \/ (type \in Authenticated /\ ~wallet)
    /\ call' = [NoCall EXCEPT !.via = via, !.type = type]
    /\ status' = status
    /\ Finish("refused", FALSE)
    /\ UNCHANGED <<sent, told, crashed>>

Methods == [sync |-> SyncMethods, async |-> AsyncMethods, post |-> PostedTypes]

Call ==
    \E via \in DOMAIN Methods : \E type \in Methods[via] :
        \/ \E given \in SUBSET Builder[type].optional,
              argument, wallet, configured \in BOOLEAN :
               Request(via, type, given, argument, wallet, configured)
        \/ \E wallet \in BOOLEAN : Refuse(via, type, wallet)

\* Which parser the answer goes to.  Asynchronous answers are parsed by the
\* application, with parse().
ParserOf(via, type) ==
    CASE via = "sync" -> SyncParser(type)
      [] via = "async" -> parse(type)
      [] via = "post" -> PostParser(type)

Awaiting == call.via \in DOMAIN Methods /\ call.parser = "none" /\ result = NoResult

\* Wrong variant: parseSimpleResponse() leaves the status as it is.
AfterErrorUnset(parser, before) == before

\* parseSimpleResponse() turns an answer it cannot read into an "err".
AfterError(parser, before) ==
    IF parser = "SimpleResponse" /\ before = "" THEN "err" ELSE before

\* A document begins to be read, or validateStructure() refuses the whole of it.
Begin(parser, steps) ==
    \/ /\ frames' = <<Frame("raise", 1, {}, steps)>>
       /\ UNCHANGED <<lists, status, result>>
    \/ /\ status' = AfterError(parser, status)
       /\ Finish("error", FALSE)

Answer ==
    LET parser == ParserOf(call.via, call.type)
    IN  /\ Awaiting
        /\ parser # "none"
        /\ call' = [call EXCEPT !.parser = parser]
        /\ sent' = NoBody
        /\ Begin(parser, Parsers[parser])
        /\ UNCHANGED <<told, crashed>>

\* The raw callback only: there is no parser for the type, or the payload of a
\* posted query has no "data".
RawOnly ==
    /\ Awaiting
    /\ call.via = "post"
    /\ call.type \notin Authenticated
    /\ sent' = NoBody
    /\ status' = status
    /\ Finish("raw", FALSE)
    /\ UNCHANGED <<call, told, crashed>>

-----------------------------------------------------------------------------
(* Streams. *)

Channels == {Channel[type] : type \in DOMAIN Channel} \cup OtherChannels

\* The application hands a message to WebsocketMessageParser::crack().
Push ==
    \E channel \in Channels :
        /\ Idle
        /\ call' = [via |-> "stream", type |-> channel, parser |-> channel]
        /\ IF channel \in DOMAIN crack
           THEN Begin(channel, crack[channel])
           ELSE status' = status /\ Finish("ignored", FALSE)
        /\ UNCHANGED <<sent, told, crashed>>

-----------------------------------------------------------------------------
(* Errors. *)

Top == frames[Len(frames)]

\* The innermost frame that catches a simdjson_error; 0: the try block around
\* the whole message.
Catcher ==
    Max({0} \cup {i \in DOMAIN frames : frames[i].on \in {"drop", "keep"}})

\* The error ends an array that had more entries to come.
CutsList == \E i \in DOMAIN frames : i < Len(frames) /\ Head(frames[i].steps).count = "many"

\* simdjson_error: value() on a look-up that failed.
Raise ==
    IF Catcher = 0
    THEN /\ status' = AfterError(call.parser, status)
         /\ Finish("error", CutsList)
    ELSE /\ frames' = IF frames[Catcher].on = "drop"
                      THEN SubSeq(frames, 1, Catcher - 1)
                      ELSE Append(SubSeq(frames, 1, Catcher - 1),
                                  [frames[Catcher] EXCEPT !.steps = <<>>])
         /\ UNCHANGED <<lists, status, result>>

\* std::invalid_argument and std::out_of_range pass every catch of
\* simdjson_error, the one inside a loop too.  On the post channel they leave the
\* thread that runs the io_context.
Throw ==
    /\ status' = status
    /\ Finish("thrown", CutsList)
    /\ crashed' = (call.via = "post")

-----------------------------------------------------------------------------
(* Reading. *)

Reading(op) == frames # <<>> /\ Top.steps # <<>> /\ Head(Top.steps).op = op

Step == Head(Top.steps)

\* The stack after the innermost frame became frame and went on with steps.
GoOn(frame, steps) ==
    frames' = [frames EXCEPT ![Len(frames)] = [frame EXCEPT !.steps = steps]]

Rest == Tail(Top.steps)

\* An array or an object that was found is read entry by entry.
Opened ==
    <<[op |-> "entries", taken |-> 0, count |-> Step.count, on |-> Step.on,
       own |-> Step.own, steps |-> Step.steps]>>

\* One look-up by name: a member that is read, or an array that is opened.
LookUp ==
    /\ Reading("field") \/ Reading("each")
    /\ \E found \in FoundBy(Step) :
        LET outcome == Outcome(Step, found)
            field == Step.op = "field"
            after == IF field /\ Len(Step.names) > 1
                     THEN <<[Step EXCEPT !.names = Tail(@)]>> \o Rest ELSE Rest
        IN  \/ /\ outcome = "assigned" /\ field
               /\ GoOn([Top EXCEPT !.unset = @ \ {Head(Step.names)}], after)
               /\ UNCHANGED <<lists, status, result, crashed>>
            \/ /\ outcome = "assigned" /\ ~field
               /\ GoOn(Top, Opened \o Rest)
               /\ lists' = IF Len(frames) = 1 THEN Append(lists, <<>>) ELSE lists
               /\ UNCHANGED <<status, result, crashed>>
            \/ /\ outcome = "absent"
               /\ GoOn(Top, after)
               /\ UNCHANGED <<lists, status, result, crashed>>
            \/ /\ outcome = "skipped"
               /\ frames' = Front(frames)
               /\ UNCHANGED <<lists, status, result, crashed>>
            \/ outcome = "error" /\ Raise /\ UNCHANGED crashed
            \/ outcome = "thrown" /\ Throw
    /\ UNCHANGED <<call, sent, told>>

\* What the exchange may send for a status; parsers compare it with "ok" only.
Statuses == {"ok", "err", "", "other"}

\* response.status = doc["status"], copied as it is, and the early return unless
\* it is "ok".
ReadStatus ==
    /\ Reading("status")
    /\ \/ /\ told' \in Statuses
          /\ status' = told'
          /\ GoOn(Top, IF told' = "ok" THEN Rest ELSE Step.otherwise)
          /\ UNCHANGED <<lists, result>>
       \/ Raise /\ UNCHANGED told
    /\ UNCHANGED <<call, sent, crashed>>

NextEntry ==
    /\ Reading("entries")
    /\ Step.taken < (IF Step.count = "one" THEN 1 ELSE MaxEntries)
    /\ LET taken == Step.taken + 1
       IN  frames' = Append(
               [frames EXCEPT ![Len(frames)].steps = <<[Step EXCEPT !.taken = taken]>> \o Rest],
               Frame(Step.on, taken, Step.own, Step.steps))
    /\ UNCHANGED <<call, sent, lists, status, told, result, crashed>>

EndArray ==
    /\ Reading("entries")
    /\ Step.count = "one" => Step.taken = 1
    /\ GoOn(Top, Rest)
    /\ UNCHANGED <<call, sent, lists, status, told, result, crashed>>

\* push_back(), or the listener's callback.
EntryRead ==
    /\ Len(frames) > 1
    /\ Top.steps = <<>>
    /\ frames' = [Front(frames) EXCEPT ![Len(frames) - 1].holes =
                    @ \cup Top.unset \cup Top.holes]
    /\ lists' = IF Len(frames) = 2 THEN Append(Front(lists), Append(Last(lists), Top.index))
                ELSE lists
    /\ UNCHANGED <<call, sent, status, told, result, crashed>>

\* Steps that look nothing up: assignments, and the branch the values decide.
Proceed ==
    /\ \/ Reading("declare") /\ GoOn([Top EXCEPT !.unset = @ \cup Step.members], Rest)
       \/ Reading("assign") /\ GoOn([Top EXCEPT !.unset = @ \ Step.members], Rest)
       \/ Reading("return") /\ GoOn(Top, <<>>)
       \/ /\ Reading("alt")
          /\ \E i \in DOMAIN Step.alternatives : GoOn(Top, Step.alternatives[i] \o Rest)
    /\ UNCHANGED <<call, sent, lists, status, told, result, crashed>>

\* The response is returned, or the last callback has been made.
Deliver ==
    /\ Len(frames) = 1
    /\ Top.steps = <<>>
    /\ status' = status
    /\ Finish("read", FALSE)
    /\ UNCHANGED <<call, sent, told, crashed>>

\* The application is done with it.
Done ==
    /\ result # NoResult
    /\ ~crashed
    /\ call' = NoCall
    /\ status' = ""
    /\ told' = "none"
    /\ result' = NoResult
    /\ UNCHANGED <<sent, frames, lists, crashed>>

Next ==
    \/ Call \/ Answer \/ RawOnly \/ Push
    \/ LookUp \/ ReadStatus \/ NextEntry \/ EndArray \/ EntryRead \/ Proceed
    \/ Deliver \/ Done

Spec == Init /\ [][Next]_vars
-----------------------------------------------------------------------------
(* Properties. *)

RestTransports == DOMAIN Methods

\* Parsers that pass over an incomplete [key, value] pair, and the one with a
\* try block inside its loop.
SkippingParsers ==
    {"PerpCategories", "PredictedFundings", "PerpConciseAnnotations", "PerpDexLimits",
     "BorrowLendUserState", "AllBorrowLendReserveStates", "TwapHistory"}

\* What RestApiMessageParser returns of a list is a prefix of it, however the
\* answer is damaged: the n-th status is that of the n-th order, the n-th asset
\* of a universe has the id n - 1 and the n-th context, the n-th dex its offset.
PrefixDelivered ==
    call.via \in RestTransports /\ call.parser \notin SkippingParsers =>
        \A i \in DOMAIN result.lists :
            result.lists[i] = [n \in 1 .. Len(result.lists[i]) |-> n]

\* WebsocketMessageParser: an entry that cannot be read costs its own callback,
\* never the ones for the entries after it in the same message.  The loops catch
\* simdjson_error only: the std::stoi of an expiry (parseOutcomeExpiry) takes the
\* later entries of an outcomeMetaUpdates message with it.
LossIsLocal ==
    call.via = "stream" /\ result.cut =>
        call.type = "outcomeMetaUpdates" /\ result.end = "thrown"

\* Members that the code leaves indeterminate in what it delivers.
LeftUnset ==
    [SettledOutcome |-> {"outcome"}, AllPerpMetas |-> {"szDecimals", "maxLeverage"},
     ClearinghouseState |-> {"marginUsed", "maxLeverage", "leverageType"},
     SubAccounts |-> {"marginUsed", "maxLeverage", "leverageType"},
     bbo |-> {"bid.side", "ask.side", "bid.n", "ask.n"},
     clearinghouseState |-> {"leverageType", "time"},
     allDexsClearinghouseState |-> {"leverageType"},
     webData3 |-> WebData3UserState]

\* No other member of a struct reaches the application without a value, or
\* with the value of the entry before it, whatever the message leaves out.
MembersSet ==
    result.holes \subseteq (IF call.parser \in DOMAIN LeftUnset THEN LeftUnset[call.parser]
                            ELSE {})

\* parseSimpleResponse(), which reads the answers to all posted actions: the
\* application is told "ok" only of what the exchange said "ok" of, whatever else
\* of the answer is missing; an answer that cannot be read, and does not say what
\* became of the action, is an "err"; one that can be read says what it said.  So
\* the "ok" of a response that cannot be read stays an "ok".
SimpleAnswersDecide ==
    call.parser = "SimpleResponse" /\ result.end \in {"read", "error"} =>
        /\ result.status = "ok" => told = "ok"
        /\ result.end = "error" /\ told \in {"none", ""} => result.status = "err"
        /\ result.end = "read" \/ told \notin {"none", ""} => result.status = told

\* std::invalid_argument: the answer to an action never throws out of its
\* parser, and of the streams only outcomeMetaUpdates does (parseOutcomeExpiry).
OnlyQueriesThrow ==
    result.end = "thrown" =>
        /\ call.type \notin Authenticated
        /\ call.via = "stream" => call.type = "outcomeMetaUpdates"

\* The answer to an asynchronous call is read as the synchronous form of the
\* method reads it.
ReadAlike ==
    call.via = "async" /\ call.parser # "none" => call.parser = SyncParser(call.type)

\* Signing: all that an action says, and the vault it is for, is signed; and the
\* exchange finds in the body all that was signed (an agent without a name is
\* signed with the name "").
SignatureCoversBody ==
    sent.nonce =>
        /\ sent.fields \ {"signatureChainId"} \subseteq sent.signed
        /\ sent.vault # "none" => "vaultAddress" \in sent.signed
        /\ sent.signed \subseteq
               sent.fields \cup {"nonce", "agentName"}
                           \cup (IF sent.vault = "none" THEN {} ELSE {"vaultAddress"})

\* CONTRIBUTING.md, "The vaultAddress rule": user-signed actions, and the actions
\* prepareBodyForType() lists for naming their own target, never carry one.
VaultRule ==
    call.type \in isUserSignedAction
                   \cup {"ApproveAgent", "VaultTransfer", "Hip3LiquidatorTransfer",
                         "CreateSubAccount", "SubAccountTransfer"}
        => sent.vault = "none"

\* RestApi.h lists the methods that act "against the calling wallet directly".
AgainstCallingWallet ==
    call.type \in {"VaultTransfer", "Hip3LiquidatorTransfer", "CreateSubAccount",
                   "SubAccountTransfer", "CreateVault", "BorrowLend", "UsdClassTransfer",
                   "SendAsset", "UsdSend", "SpotSend", "Withdraw3", "ApproveBuilderFee"}
        => sent.vault = "none"

\* An unexpected payload on the post channel does not end the process.
UnexpectedAnswersSurvived == ~crashed
=============================================================================
