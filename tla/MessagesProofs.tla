--------------------------- MODULE MessagesProofs ---------------------------
(***************************************************************************)
(* Proofs about Messages: what goes out for a request, and which parser the  *)
(* answer meets, for every method and every choice of its arguments.         *)
(***************************************************************************)
EXTENDS Messages, SequenceTheorems, TLAPS

-----------------------------------------------------------------------------
(* The tables. *)

\* parse() and the synchronous methods were written down separately.
LEMMA ParsersAlike == \A type : parse(type) = SyncParser(type)
  <1> SUFFICES ASSUME NEW type PROVE parse(type) = SyncParser(type)
    OBVIOUS
  <1>1. CASE type \in simpleTypes
    BY <1>1 DEF simpleTypes, parse, SyncParser, orderCalls, transferCalls, agentCalls
  <1>2. CASE type \in {"CancelOrderByCloid", "BatchModifyOrder"}
    BY <1>2 DEF simpleTypes, parse, SyncParser, orderCalls, transferCalls, agentCalls
  <1>3. CASE type \notin simpleTypes \cup {"CancelOrderByCloid", "BatchModifyOrder"}
    <2>1. type \in transferCalls \cup agentCalls => type \in {"CreateSubAccount", "CreateVault"}
      BY <1>3 DEF simpleTypes, transferCalls, agentCalls
    <2>2. type \in DOMAIN orderCalls => orderCalls[type] = type
      BY <1>3 DEF simpleTypes, orderCalls
    <2>3. parse(type) = type
      BY <1>3 DEF parse
    <2>4. SyncParser(type) = type
      BY <2>1, <2>2 DEF SyncParser
    <2> QED BY <2>3, <2>4
  <1> QED BY <1>1, <1>2, <1>3

\* A type that is in one table only is built as this table says.
LEMMA BuilderOf ==
  ASSUME NEW table \in Tables, NEW type \in DOMAIN table,
         \A other \in Tables : type \in DOMAIN other => other = table
  PROVE  Builder[type] = table[type]
  <1>1. (CHOOSE t \in Tables : type \in DOMAIN t) = table
    OBVIOUS
  <1>2. type \in UNION {DOMAIN t : t \in Tables}
    OBVIOUS
  <1> QED BY <1>1, <1>2 DEF Builder

\* The tables that no signed action of the next lemmas is in.
LEMMA OtherTables ==
  ASSUME NEW type \in isUserSignedAction \cup {"ApproveAgent"}
  PROVE  /\ type \notin DOMAIN marketQueries /\ type \notin DOMAIN tradingQueries
         /\ type \notin DOMAIN accountQueries /\ type \notin DOMAIN vaultQueries
         /\ type \notin DOMAIN orderActions /\ type \notin DOMAIN vaultActions
         /\ type \notin DOMAIN deployActions
  <1> USE DEF isUserSignedAction
  <1>1. type \notin DOMAIN marketQueries /\ type \notin DOMAIN tradingQueries
    BY DEF marketQueries, tradingQueries
  <1>2. type \notin DOMAIN accountQueries /\ type \notin DOMAIN vaultQueries
    BY DEF accountQueries, vaultQueries
  <1>3. type \notin DOMAIN orderActions /\ type \notin DOMAIN vaultActions
    BY DEF orderActions, vaultActions
  <1>4. type \notin DOMAIN deployActions
    BY DEF deployActions
  <1> QED BY <1>1, <1>2, <1>3, <1>4

LEMMA SignedTables ==
  ASSUME NEW type \in isUserSignedAction \cup {"ApproveAgent"}
  PROVE  /\ type \in DOMAIN transferActions => Builder[type] = transferActions[type]
         /\ type \in DOMAIN accountActions => Builder[type] = accountActions[type]
         /\ type \in DOMAIN agentActions => Builder[type] = agentActions[type]
  <1>1. /\ ~(type \in DOMAIN transferActions /\ type \in DOMAIN accountActions)
        /\ ~(type \in DOMAIN transferActions /\ type \in DOMAIN agentActions)
        /\ ~(type \in DOMAIN accountActions /\ type \in DOMAIN agentActions)
    BY DEF transferActions, accountActions, agentActions
  <1>2. \A other \in Tables : type \in DOMAIN other =>
            other \in {transferActions, accountActions, agentActions}
    BY OtherTables DEF Tables
  <1>3. {transferActions, accountActions, agentActions} \subseteq Tables
    BY DEF Tables
  <1>4. CASE type \in DOMAIN transferActions
    BY <1>1, <1>2, <1>3, <1>4, BuilderOf
  <1>5. CASE type \in DOMAIN accountActions
    BY <1>1, <1>2, <1>3, <1>5, BuilderOf
  <1>6. CASE type \in DOMAIN agentActions
    BY <1>1, <1>2, <1>3, <1>6, BuilderOf
  <1> QED BY <1>1, <1>4, <1>5, <1>6

\* What is signed for a user-signed action is what its builder always sets, the
\* chain and the time.
LEMMA SignedFields ==
  ASSUME NEW type \in isUserSignedAction
  PROVE  /\ Builder[type].optional = {}
         /\ payloadTypes[type] = {"hyperliquidChain", timeField(type)} \cup Builder[type].always
  <1>1. \/ type \in {"UsdSend", "Withdraw3"} \/ type = "SpotSend" \/ type = "UsdClassTransfer"
        \/ type = "SendAsset" \/ type = "ApproveBuilderFee" \/ type = "UserSetAbstraction"
        \/ type \in {"CDeposit", "CWithdraw"} \/ type = "TokenDelegate"
        \/ type = "SendToEvmWithData" \/ type = "UserDexAbstraction"
        \/ type = "UserPortfolioMargin"
    BY DEF isUserSignedAction
  <1>2. CASE type \in {"UsdSend", "Withdraw3"}
    <2>1. Builder[type] = transferActions[type]
      BY <1>2, SignedTables DEF transferActions
    <2> QED BY <1>2, <2>1 DEF transferActions, Checked, payloadTypes
  <1>3. CASE type = "SpotSend"
    <2>1. Builder[type] = transferActions[type]
      BY <1>3, SignedTables DEF transferActions
    <2> QED BY <1>3, <2>1 DEF transferActions, Checked, payloadTypes
  <1>4. CASE type = "UsdClassTransfer"
    <2>1. Builder[type] = transferActions[type]
      BY <1>4, SignedTables DEF transferActions
    <2> QED BY <1>4, <2>1 DEF transferActions, Checked, payloadTypes
  <1>5. CASE type = "SendAsset"
    <2>1. Builder[type] = transferActions[type]
      BY <1>5, SignedTables DEF transferActions
    <2> QED BY <1>5, <2>1 DEF transferActions, Checked, payloadTypes
  <1>6. CASE type = "ApproveBuilderFee"
    <2>1. Builder[type] = transferActions[type]
      BY <1>6, SignedTables DEF transferActions
    <2> QED BY <1>6, <2>1 DEF transferActions, Fields, payloadTypes
  <1>7. CASE type = "UserSetAbstraction"
    <2>1. Builder[type] = transferActions[type]
      BY <1>7, SignedTables DEF transferActions
    <2> QED BY <1>7, <2>1 DEF transferActions, Fields, payloadTypes
  <1>8. CASE type \in {"CDeposit", "CWithdraw"}
    <2>1. Builder[type] = accountActions[type]
      BY <1>8, SignedTables DEF accountActions
    <2> QED BY <1>8, <2>1 DEF accountActions, Fields, payloadTypes
  <1>9. CASE type = "TokenDelegate"
    <2>1. Builder[type] = transferActions[type]
      BY <1>9, SignedTables DEF transferActions
    <2> QED BY <1>9, <2>1 DEF transferActions, Fields, payloadTypes
  <1>10. CASE type = "SendToEvmWithData"
    <2>1. Builder[type] = transferActions[type]
      BY <1>10, SignedTables DEF transferActions
    <2> QED BY <1>10, <2>1 DEF transferActions, Fields, payloadTypes
  <1>11. CASE type = "UserDexAbstraction"
    <2>1. Builder[type] = transferActions[type]
      BY <1>11, SignedTables DEF transferActions
    <2> QED BY <1>11, <2>1 DEF transferActions, Fields, payloadTypes
  <1>12. CASE type = "UserPortfolioMargin"
    <2>1. Builder[type] = agentActions[type]
      BY <1>12, SignedTables DEF agentActions
    <2> QED BY <1>12, <2>1 DEF agentActions, Fields, payloadTypes
  <1> QED BY <1>1, <1>2, <1>3, <1>4, <1>5, <1>6, <1>7, <1>8, <1>9, <1>10, <1>11, <1>12

LEMMA AgentFields ==
  Builder["ApproveAgent"].always = {"agentAddress"} /\ Builder["ApproveAgent"].optional = {"agentName"}
  <1>1. Builder["ApproveAgent"] = accountActions["ApproveAgent"]
    BY SignedTables DEF accountActions
  <1> QED BY <1>1 DEF accountActions, Fields

-----------------------------------------------------------------------------
(* Bodies. *)

Covered(body) ==
    body.nonce =>
        /\ body.fields \ {"signatureChainId"} \subseteq body.signed
        /\ body.vault # "none" => "vaultAddress" \in body.signed
        /\ body.signed \subseteq
               body.fields \cup {"nonce", "agentName"}
                           \cup (IF body.vault = "none" THEN {} ELSE {"vaultAddress"})

\* The actions that name their own target.
OwnTarget ==
    {"VaultTransfer", "Hip3LiquidatorTransfer", "CreateSubAccount", "SubAccountTransfer"}

LEMMA BodyRight ==
  ASSUME NEW type, NEW given \in SUBSET Builder[type].optional,
         NEW argument \in BOOLEAN, NEW configured \in BOOLEAN, argument => type \in TakesVault,
         NEW body, body = prepareBodyForType(type, Builder[type].always \cup given, argument,
                                             configured)
  PROVE  /\ Covered(body)
         /\ type \in isUserSignedAction \cup {"ApproveAgent"} \cup OwnTarget => body.vault = "none"
  <1>1. CASE type = "ApproveAgent"
    <2>1. body = prepareApproveAgentBody({"agentAddress"} \cup given)
      BY <1>1, AgentFields DEF prepareBodyForType
    <2>2. given \subseteq {"agentName"}
      BY <1>1, AgentFields
    <2>3. /\ body.fields = {"agentAddress"} \cup given \cup
                              {"nonce", "signatureChainId", "hyperliquidChain"}
          /\ body.vault = "none"
          /\ body.signed = {"hyperliquidChain", "agentAddress", "agentName", "nonce"}
      BY <2>1 DEF prepareApproveAgentBody, Body
    <2> QED BY <2>2, <2>3 DEF Covered
  <1>2. CASE type \in isUserSignedAction
    <2>1. type # "ApproveAgent" /\ given = {}
      BY <1>2, SignedFields DEF isUserSignedAction
    <2>2. body = prepareUserSignedActionBody(type, Builder[type].always)
      BY <1>2, <2>1 DEF prepareBodyForType
    <2>3. /\ body.fields = Builder[type].always \cup
                              {timeField(type), "signatureChainId", "hyperliquidChain"}
          /\ body.vault = "none" /\ body.signed = payloadTypes[type]
      BY <2>2 DEF prepareUserSignedActionBody, Body
    <2>4. body.signed = {"hyperliquidChain", timeField(type)} \cup Builder[type].always
      BY <1>2, <2>3, SignedFields
    <2> QED BY <2>3, <2>4 DEF Covered
  <1>3. CASE type # "ApproveAgent" /\ type \notin isUserSignedAction
    <2>1. PICK vault : /\ body = prepareBody(type, Builder[type].always \cup given, vault)
                       /\ ~argument /\ type \in OwnTarget => vault = "none"
      BY <1>3 DEF prepareBodyForType, OwnTarget
    <2>2. type \in OwnTarget => ~argument
      BY DEF OwnTarget, TakesVault
    <2>3. body.vault = vault
      BY <2>1 DEF prepareBody, Body
    <2>4. CASE type \in Authenticated
      <3>1. PICK action : body = Body(action, vault, TRUE, actionHash(action, vault))
        BY <2>1, <2>4 DEF prepareBody
      <3>2. body.fields = action /\ body.signed = actionHash(action, vault)
        BY <3>1 DEF Body
      <3>3. Covered(body)
        BY <2>3, <3>2 DEF Covered, actionHash
      <3> QED BY <1>3, <2>1, <2>2, <2>3, <3>3
    <2>5. CASE type \notin Authenticated
      <3>1. body.nonce = FALSE
        BY <2>1, <2>5 DEF prepareBody, Body
      <3> QED BY <1>3, <2>1, <2>2, <2>3, <3>1 DEF Covered
    <2> QED BY <2>4, <2>5
  <1> QED BY <1>1, <1>2, <1>3

-----------------------------------------------------------------------------
(* From the request to the answer. *)

\* A body is there only while an answer is awaited, and is what
\* prepareBodyForType() makes of an admissible request.
CallInv ==
    /\ DOMAIN call = {"via", "type", "parser"}
    /\ frames # <<>> => sent = NoBody /\ result = NoResult /\ call.via # "none"
    /\ result # NoResult => sent = NoBody /\ call.via # "none"
    /\ call.via = "none" => sent = NoBody
    /\ sent # NoBody =>
         /\ Covered(sent)
         /\ call.type \in isUserSignedAction \cup {"ApproveAgent"} \cup OwnTarget
               => sent.vault = "none"
    /\ call.via = "async" /\ call.parser # "none" => call.parser = SyncParser(call.type)

Reads == LookUp \/ ReadStatus \/ NextEntry \/ EndArray \/ EntryRead \/ Proceed \/ Deliver

LEMMA ReadsLeave ==
  ASSUME Reads
  PROVE  call' = call /\ sent' = sent /\ frames # <<>> /\ (frames' = <<>> \/ result' = result)
  <1>1. Raise => frames' = <<>> \/ result' = result
    BY DEF Raise, Finish
  <1>2. Throw => frames' = <<>>
    BY DEF Throw, Finish
  <1>3. \A op : Reading(op) => frames # <<>>
    BY DEF Reading
  <1>4. CASE LookUp
    BY <1>1, <1>2, <1>3, <1>4 DEF LookUp
  <1>5. CASE ReadStatus
    BY <1>1, <1>3, <1>5 DEF ReadStatus
  <1>6. CASE NextEntry \/ EndArray \/ Proceed
    BY <1>3, <1>6 DEF NextEntry, EndArray, Proceed
  <1>7. CASE EntryRead
    BY <1>7 DEF EntryRead
  <1>8. CASE Deliver
    BY <1>8 DEF Deliver, Finish
  <1> QED BY <1>4, <1>5, <1>6, <1>7, <1>8 DEF Reads

LEMMA CallStep == ASSUME CallInv, [Next]_vars PROVE CallInv'
  <1>1. CASE UNCHANGED vars
    BY <1>1 DEF vars, CallInv
  <1>2. CASE Reads
    BY <1>2, ReadsLeave DEF CallInv
  <1>3. ASSUME NEW via \in DOMAIN Methods, NEW type, NEW given \in SUBSET Builder[type].optional,
               NEW argument \in BOOLEAN, NEW wallet \in BOOLEAN, NEW configured \in BOOLEAN,
               Request(via, type, given, argument, wallet, configured)
        PROVE  CallInv'
    <2>1. /\ call = NoCall /\ call' = [NoCall EXCEPT !.via = via, !.type = type]
          /\ argument => type \in TakesVault
          /\ sent' = prepareBodyForType(type, Builder[type].always \cup given, argument,
                                        configured)
          /\ frames' = frames /\ result' = result
      BY <1>3 DEF Request, Idle
    <2>2. frames' = <<>> /\ result' = NoResult
      BY <2>1 DEF CallInv, NoCall
    <2>3. /\ call'.via = via /\ call'.type = type /\ call'.parser = "none" /\ via # "none"
          /\ DOMAIN call' = {"via", "type", "parser"}
      BY <2>1 DEF NoCall, Methods
    <2>4. /\ Covered(sent')
          /\ type \in isUserSignedAction \cup {"ApproveAgent"} \cup OwnTarget
               => sent'.vault = "none"
      BY <2>1, BodyRight
    <2> QED BY <2>2, <2>3, <2>4 DEF CallInv, Covered
  <1>4. ASSUME NEW via \in DOMAIN Methods, NEW type, NEW wallet, Refuse(via, type, wallet)
        PROVE  CallInv'
    <2>1. /\ call = NoCall /\ call' = [NoCall EXCEPT !.via = via, !.type = type]
          /\ sent' = sent /\ frames' = <<>>
      BY <1>4 DEF Refuse, Idle, Finish
    <2>2. sent' = NoBody
      BY <2>1 DEF CallInv, NoCall
    <2>3. /\ call'.via # "none" /\ call'.parser = "none"
          /\ DOMAIN call' = {"via", "type", "parser"}
      BY <2>1 DEF NoCall, Methods
    <2> QED BY <2>1, <2>2, <2>3 DEF CallInv
  <1>5. CASE Call
    BY <1>3, <1>4, <1>5 DEF Call
  <1>6. CASE Answer
    <2>1. /\ call.via \in DOMAIN Methods /\ result = NoResult /\ sent' = NoBody
          /\ call' = [call EXCEPT !.parser = ParserOf(call.via, call.type)]
          /\ frames' = <<>> \/ result' = result
      BY <1>6 DEF Answer, Awaiting, Begin, Finish
    <2>2. /\ DOMAIN call' = DOMAIN call /\ call'.via = call.via /\ call'.type = call.type
          /\ call'.parser = ParserOf(call.via, call.type) /\ call.via # "none"
      BY <2>1 DEF CallInv, Methods
    <2>3. call.via = "async" => ParserOf(call.via, call.type) = SyncParser(call.type)
      BY ParsersAlike DEF ParserOf
    <2> QED BY <2>1, <2>2, <2>3 DEF CallInv
  <1>7. CASE RawOnly
    BY <1>7 DEF RawOnly, Finish, Awaiting, CallInv
  <1>8. CASE Push
    <2>1. /\ call = NoCall /\ call'.via = "stream" /\ sent' = sent
          /\ DOMAIN call' = {"via", "type", "parser"}
          /\ frames' = <<>> \/ result' = result
      BY <1>8 DEF Push, Idle, Begin, Finish
    <2>2. sent' = NoBody /\ result = NoResult
      BY <2>1 DEF CallInv, NoCall
    <2> QED BY <2>1, <2>2 DEF CallInv
  <1>9. CASE Done
    <2>1. /\ result # NoResult /\ call' = NoCall /\ result' = NoResult /\ sent' = sent
          /\ frames' = frames
      BY <1>9 DEF Done
    <2> QED BY <2>1 DEF CallInv, NoCall
  <1> QED BY <1>1, <1>2, <1>5, <1>6, <1>7, <1>8, <1>9 DEF Next, Reads

LEMMA CallInvariant == Spec => []CallInv
  <1>1. Init => CallInv
    <2> SUFFICES ASSUME Init PROVE CallInv
      OBVIOUS
    <2>1. frames = <<>> /\ sent = NoBody /\ result = NoResult /\ call = NoCall
      BY DEF Init
    <2>2. DOMAIN call = {"via", "type", "parser"} /\ call.via = "none"
      BY <2>1 DEF NoCall
    <2> QED BY <2>1, <2>2 DEF CallInv
  <1> QED BY <1>1, CallStep, PTL DEF Spec

\* All that an action says is signed and all that is signed can be found in its
\* body, whichever optional arguments and vault addresses are given.
THEOREM BodiesAreSigned == Spec => []SignatureCoversBody
  <1>1. CallInv => SignatureCoversBody
    <2>1. Covered(NoBody)
      BY DEF Covered, NoBody
    <2>2. CallInv => Covered(sent)
      BY <2>1 DEF CallInv
    <2> QED BY <2>2 DEF Covered, SignatureCoversBody
  <1> QED BY <1>1, CallInvariant, PTL

\* Neither an argument nor the configuration puts a vault address beside an
\* action that names its own target or is signed by the user.
THEOREM NoVaultBesideTarget == Spec => []VaultRule
  <1>1. CallInv => VaultRule
    <2>1. NoBody.vault = "none"
      BY DEF NoBody
    <2> QED BY <2>1 DEF CallInv, VaultRule, OwnTarget
  <1> QED BY <1>1, CallInvariant, PTL

\* Both forms of every method read an answer with the same parser.
THEOREM AsyncReadsLikeSync == Spec => []ReadAlike
  <1>1. CallInv => ReadAlike
    BY DEF CallInv, ReadAlike
  <1> QED BY <1>1, CallInvariant, PTL

-----------------------------------------------------------------------------
(* parseSimpleResponse(). *)

Member(names, mode) == [op |-> "field", names |-> names, mode |-> mode, conv |-> "none"]

StatusStep == [op |-> "status", otherwise |-> <<Member(<<"error">>, "soft")>>]

LEMMA PairOf ==
  ASSUME NEW S, NEW s \in Seq(S), NEW a \in S, NEW b \in S,
         Len(s) = 2, s[1] = a, s[2] = b
  PROVE  s = <<a, b>>
  <1> DEFINE t == <<a, b>>
  <1>1. t \in Seq(S) /\ Len(t) = 2 /\ t[1] = a /\ t[2] = b
    OBVIOUS
  <1> HIDE DEF t
  <1>2. \A i \in 1 .. Len(s) : s[i] = t[i]
    BY <1>1
  <1>3. s = t
    BY <1>1, <1>2, SeqEqual
  <1> QED BY <1>3 DEF t

LEMMA Joined == ASSUME NEW a, NEW b PROVE <<a>> \o <<b>> = <<a, b>>
  <1> DEFINE T == {a, b}
  <1>1. Len(<<a>> \o <<b>>) = 2
    OBVIOUS
  <1>2. (<<a>> \o <<b>>)[1] = a /\ (<<a>> \o <<b>>)[2] = b
    OBVIOUS
  <1>3. <<a>> \in Seq(T) /\ <<b>> \in Seq(T) /\ a \in T /\ b \in T
    OBVIOUS
  <1> HIDE DEF T
  <1>4. <<a>> \o <<b>> \in Seq(T)
    BY <1>3
  <1> QED BY <1>1, <1>2, <1>3, <1>4, PairOf

LEMMA SimpleForm ==
  parseSimpleResponse = <<StatusStep, Member(<<"response", "type">>, "required")>>
  <1>1. Plain(<<"response", "type">>) = <<Member(<<"response", "type">>, "required")>>
    BY DEF Plain, Member
  <1>2. Soft(Plain(<<"error">>)) = <<Member(<<"error">>, "soft")>>
    BY DEF Plain, Soft, Member
  <1>3. Status(Soft(Plain(<<"error">>))) = <<StatusStep>>
    BY <1>2 DEF Status, StatusStep
  <1>4. parseSimpleResponse = <<StatusStep>> \o <<Member(<<"response", "type">>, "required")>>
    BY <1>1, <1>3 DEF parseSimpleResponse
  <1> HIDE DEF StatusStep, Member
  <1> QED BY <1>4, Joined

\* What is left to read once the status is known.
StatusRead ==
    {<<Member(<<"response", "type">>, "required")>>, <<Member(<<"type">>, "required")>>,
     <<Member(<<"error">>, "soft")>>, <<>>}

FrameMembers == {"on", "index", "unset", "holes", "steps"}

\* Nothing is kept of one answer when the next is asked for.
FreshInv ==
    /\ result # NoResult => lists = <<>>
    /\ frames # <<>> => call.parser # "none"
    /\ call.parser = "none" =>
          lists = <<>> /\ (result = NoResult => status = "" /\ told = "none")

\* What the result says of the action, and what the exchange said.
Decided ==
    /\ result.status = "ok" => told = "ok"
    /\ result.end = "error" /\ told \in {"none", ""} => result.status = "err"
    /\ result.end = "read" \/ told \notin {"none", ""} => result.status = told

\* parseSimpleResponse() works on one frame that nothing inside the function
\* catches errors for.
SimpleInv ==
    call.parser = "SimpleResponse" =>
        /\ lists = <<>>
        /\ frames # <<>> =>
              /\ Len(frames) = 1 /\ DOMAIN frames = {1}
              /\ DOMAIN frames[1] = FrameMembers /\ frames[1].on = "raise"
              /\ \/ frames[1].steps = parseSimpleResponse /\ status = "" /\ told = "none"
                 \/ frames[1].steps \in StatusRead /\ told # "none" /\ status = told
        /\ result # NoResult => Decided

LEMMA NotYet == NoResult.end = "none"
  BY DEF NoResult

LEMMA FreshStep == ASSUME CallInv, FreshInv, [Next]_vars PROVE FreshInv'
  <1>1. CASE UNCHANGED vars
    BY <1>1 DEF vars, FreshInv
  <1>2. CASE Reads
    <2>1. lists' = <<>> \/ result' = result
      <3>1. Raise => lists' = <<>> \/ result' = result
        BY DEF Raise, Finish
      <3>2. Throw => lists' = <<>>
        BY DEF Throw, Finish
      <3>3. LookUp => lists' = <<>> \/ result' = result
        BY <3>1, <3>2 DEF LookUp
      <3>4. ReadStatus => lists' = <<>> \/ result' = result
        BY <3>1 DEF ReadStatus
      <3>5. NextEntry \/ EndArray \/ EntryRead \/ Proceed => result' = result
        BY DEF NextEntry, EndArray, EntryRead, Proceed
      <3>6. Deliver => lists' = <<>>
        BY DEF Deliver, Finish
      <3> QED BY <1>2, <3>3, <3>4, <3>5, <3>6 DEF Reads
    <2>2. call' = call /\ frames # <<>>
      BY <1>2, ReadsLeave
    <2> QED BY <2>1, <2>2 DEF FreshInv, CallInv
  <1>3. CASE Call
    <2>1. call.parser = "none" /\ call'.parser = "none"
      BY <1>3 DEF Call, Request, Refuse, Idle, NoCall
    <2>2. ASSUME NEW via, NEW type, NEW wallet, Refuse(via, type, wallet)
          PROVE  frames' = <<>> /\ lists' = <<>> /\ result'.end = "refused"
      BY <2>2 DEF Refuse, Finish
    <2>3. ASSUME NEW via, NEW type, NEW given, NEW argument, NEW wallet, NEW configured,
                 Request(via, type, given, argument, wallet, configured)
          PROVE  UNCHANGED <<frames, lists, status, told, result>>
      BY <2>3 DEF Request
    <2>4. \/ UNCHANGED <<frames, lists, status, told, result>>
          \/ frames' = <<>> /\ lists' = <<>> /\ result'.end = "refused"
      BY <1>3, <2>2, <2>3 DEF Call
    <2>5. result'.end = "refused" => result' # NoResult
      BY NotYet
    <2> QED BY <2>1, <2>4, <2>5 DEF FreshInv
  <1>4. CASE Answer
    <2>1. call.parser = "none" /\ call'.parser # "none" /\ result = NoResult
      BY <1>4 DEF Answer, Awaiting, CallInv
    <2>2. (lists' = lists /\ result' = result) \/ lists' = <<>>
      BY <1>4 DEF Answer, Begin, Finish
    <2> QED BY <2>1, <2>2 DEF FreshInv
  <1>5. CASE RawOnly
    <2>1. call' = call /\ frames' = <<>> /\ lists' = <<>> /\ result'.end = "raw"
      BY <1>5 DEF RawOnly, Finish
    <2>2. result' # NoResult
      BY <2>1, NotYet
    <2> QED BY <2>1, <2>2 DEF FreshInv
  <1>6. CASE Push
    <2>1. call = NoCall /\ (UNCHANGED <<lists, result>> \/ lists' = <<>>)
      BY <1>6 DEF Push, Idle, Begin, Finish
    <2>2. call'.parser \in Channels
      BY <1>6 DEF Push
    <2>3. "none" \notin Channels
      BY DEF Channels, Channel, OtherChannels
    <2> QED BY <2>1, <2>2, <2>3 DEF FreshInv
  <1>7. CASE Done
    <2>1. lists' = lists /\ frames' = frames /\ result # NoResult
          /\ result' = NoResult /\ status' = "" /\ told' = "none" /\ call' = NoCall
      BY <1>7 DEF Done
    <2>2. lists = <<>> /\ frames = <<>>
      BY <2>1 DEF FreshInv, CallInv
    <2> QED BY <2>1, <2>2 DEF FreshInv, NoCall
  <1> QED BY <1>1, <1>2, <1>3, <1>4, <1>5, <1>6, <1>7 DEF Next, Reads

LEMMA SimpleRaise ==
  ASSUME SimpleInv, call.parser = "SimpleResponse", frames # <<>>, Raise,
         UNCHANGED <<call, told>>
  PROVE  SimpleInv'
  <1>1. {i \in DOMAIN frames : frames[i].on \in {"drop", "keep"}} = {}
    BY DEF SimpleInv
  <1>2. Catcher = 0
    BY <1>1 DEF Catcher, Max
  <1>3. /\ status' = AfterError("SimpleResponse", status)
        /\ result'.end = "error" /\ result'.status = status'
        /\ frames' = <<>> /\ lists' = <<>>
    BY <1>2 DEF Raise, Finish
  <1>4. (status = "" /\ told = "none") \/ (told # "none" /\ status = told)
    BY DEF SimpleInv
  <1>5. /\ status = "" => status' = "err"
        /\ status # "" => status' = status
    BY <1>3 DEF AfterError
  <1>6. Decided'
    BY <1>3, <1>4, <1>5 DEF Decided
  <1> QED BY <1>3, <1>6 DEF SimpleInv

\* What the members of a plain look-up can be found to be.
LEMMA MemberFacts ==
  ASSUME NEW names, NEW mode \in {"required", "soft"}, NEW found \in FoundBy(Member(names, mode))
  PROVE  /\ Member(names, mode).op = "field" /\ Member(names, mode).names = names
         /\ Outcome(Member(names, mode), found) \in {"assigned", "absent", "error"}
         /\ [Member(names, mode) EXCEPT !.names = Tail(@)] = Member(Tail(names), mode)
  <1>1. Member(names, mode).op = "field" /\ Member(names, mode).names = names
        /\ Member(names, mode).mode = mode /\ Member(names, mode).conv = "none"
    BY DEF Member
  <1>2. found \in Found
    BY <1>1 DEF FoundBy
  <1>3. Outcome(Member(names, mode), found) \in {"assigned", "absent", "error"}
    BY <1>1, <1>2 DEF Outcome, Found, Tolerated
  <1>4. \A t : [Member(names, mode) EXCEPT !.names = t] = Member(t, mode)
    BY DEF Member
  <1>5. [Member(names, mode) EXCEPT !.names = Tail(@)] = Member(Tail(names), mode)
    BY <1>1, <1>4
  <1> QED BY <1>1, <1>3, <1>5

\* One look-up leaves the next member, or none.
LEMMA MemberNext ==
  ASSUME NEW names \in {<<"response", "type">>, <<"type">>, <<"error">>},
         NEW mode \in {"required", "soft"}, (mode = "soft" => names = <<"error">>)
  PROVE  /\ Len(names) > 1 => /\ names = <<"response", "type">> /\ mode = "required"
                              /\ Tail(names) = <<"type">>
         /\ Head(<<Member(names, mode)>>) = Member(names, mode)
         /\ Tail(<<Member(names, mode)>>) = <<>>
  <1>1. Len(names) > 1 => names = <<"response", "type">>
    OBVIOUS
  <1>2. <<"response", "type">> # <<"error">>
    OBVIOUS
  <1>3. Tail(<<"response", "type">>) = <<"type">>
    OBVIOUS
  <1>4. Head(<<Member(names, mode)>>) = Member(names, mode)
        /\ Tail(<<Member(names, mode)>>) = <<>>
    OBVIOUS
  <1> QED BY <1>1, <1>2, <1>3, <1>4

\* The single frame goes on with steps of StatusRead.
LEMMA SimpleGoesOn ==
  ASSUME SimpleInv, call.parser = "SimpleResponse", frames # <<>>, result = NoResult,
         NEW frame, DOMAIN frame = FrameMembers, frame.on = "raise",
         NEW steps \in StatusRead, GoOn(frame, steps),
         told' # "none", status' = told', UNCHANGED <<call, lists, result>>
  PROVE  SimpleInv'
  <1>1. Len(frames) = 1 /\ DOMAIN frames = {1} /\ lists = <<>>
    BY DEF SimpleInv
  <1> DEFINE next == [frame EXCEPT !.steps = steps]
  <1>2. DOMAIN next = FrameMembers /\ next.on = "raise" /\ next.steps = steps
    BY DEF FrameMembers
  <1>3. frames' = [frames EXCEPT ![1] = next]
    BY <1>1 DEF GoOn
  <1> HIDE DEF next
  <1>4. DOMAIN frames' = {1} /\ frames'[1] = next
    BY <1>1, <1>3
  <1>5. Len(frames') = 1
    BY <1>1, <1>3
  <1> QED BY <1>1, <1>2, <1>4, <1>5 DEF SimpleInv

LEMMA SimpleReads ==
  ASSUME CallInv, SimpleInv, call.parser = "SimpleResponse", Reads
  PROVE  SimpleInv'
  <1>1. /\ call' = call /\ frames # <<>> /\ result = NoResult
        /\ Len(frames) = 1 /\ DOMAIN frames = {1} /\ lists = <<>>
        /\ DOMAIN Top = FrameMembers /\ Top.on = "raise"
        /\ \/ Top.steps = parseSimpleResponse
           \/ Top.steps \in StatusRead /\ told # "none" /\ status = told
    BY ReadsLeave DEF CallInv, SimpleInv, Top
  <1>2. /\ parseSimpleResponse # <<>> /\ Head(parseSimpleResponse) = StatusStep
        /\ Tail(parseSimpleResponse) = <<Member(<<"response", "type">>, "required")>>
    BY SimpleForm
  <1>3. StatusStep.op = "status" /\ StatusStep.otherwise = <<Member(<<"error">>, "soft")>>
    BY DEF StatusStep
  <1>4. ASSUME Top.steps \in StatusRead, Top.steps # <<>>
        PROVE  \E names \in {<<"response", "type">>, <<"type">>, <<"error">>},
                  mode \in {"required", "soft"} :
                    /\ mode = "soft" => names = <<"error">>
                    /\ Top.steps = <<Member(names, mode)>>
    BY <1>4 DEF StatusRead
  <1>5. ASSUME Top.steps # <<>>
        PROVE  Head(Top.steps).op \in {"status", "field"}
    <2>1. CASE Top.steps = parseSimpleResponse
      BY <1>2, <1>3, <2>1
    <2>2. CASE Top.steps \in StatusRead
      <3>1. PICK names, mode : Top.steps = <<Member(names, mode)>>
        BY <1>4, <1>5, <2>2
      <3>2. Head(Top.steps) = Member(names, mode)
        BY <3>1
      <3> QED BY <3>2 DEF Member
    <2> QED BY <1>1, <2>1, <2>2
  <1>6. CASE LookUp
    <2>1. Top.steps # <<>> /\ Step.op = "field"
      BY <1>5, <1>6 DEF LookUp, Reading, Step
    <2>2. Top.steps \in StatusRead /\ told # "none" /\ status = told /\ told' = told
      BY <1>1, <1>2, <1>3, <1>6, <2>1 DEF Step, LookUp
    <2>3. PICK names \in {<<"response", "type">>, <<"type">>, <<"error">>},
               mode \in {"required", "soft"} :
                 /\ mode = "soft" => names = <<"error">>
                 /\ Top.steps = <<Member(names, mode)>>
      BY <1>4, <2>1, <2>2
    <2>4. /\ Len(names) > 1 => /\ names = <<"response", "type">> /\ mode = "required"
                               /\ Tail(names) = <<"type">>
          /\ Step = Member(names, mode) /\ Rest = <<>>
      BY <2>3, MemberNext DEF Step, Rest
    <2>5. PICK after :
            after = IF Len(Step.names) > 1
                    THEN <<[Step EXCEPT !.names = Tail(@)]>> \o Rest ELSE Rest
      OBVIOUS
    <2>6. PICK found \in FoundBy(Step) :
            \/ /\ GoOn([Top EXCEPT !.unset = @ \ {Head(Step.names)}], after)
               /\ UNCHANGED <<lists, status, result>>
            \/ /\ GoOn(Top, after)
               /\ UNCHANGED <<lists, status, result>>
            \/ Raise
      <3>1. \A found \in FoundBy(Step) : Outcome(Step, found) \in {"assigned", "absent", "error"}
        BY <2>3, <2>4, MemberFacts
      <3> QED BY <1>6, <2>1, <2>5, <3>1 DEF LookUp
    <2>7. Step.names = names /\ [Step EXCEPT !.names = Tail(@)] = Member(Tail(names), mode)
      BY <2>3, <2>4, <2>6, MemberFacts
    <2>8. after \in StatusRead
      <3>1. CASE Len(names) > 1
        <4>1. after = <<Member(<<"type">>, "required")>> \o <<>>
          BY <2>4, <2>5, <2>7, <3>1
        <4>2. after = <<Member(<<"type">>, "required")>>
          BY <4>1
        <4> QED BY <4>2 DEF StatusRead
      <3>2. CASE ~(Len(names) > 1)
        BY <2>4, <2>5, <2>7, <3>2 DEF StatusRead
      <3> QED BY <3>1, <3>2
    <2>9. CASE Raise
      BY <1>1, <2>2, <2>9, SimpleRaise
    <2>10. CASE GoOn(Top, after) /\ UNCHANGED <<lists, status, result>>
      BY <1>1, <2>2, <2>8, <2>10, SimpleGoesOn
    <2>11. CASE /\ GoOn([Top EXCEPT !.unset = @ \ {Head(Step.names)}], after)
                /\ UNCHANGED <<lists, status, result>>
      <3>1. PICK frame : frame = [Top EXCEPT !.unset = @ \ {Head(Step.names)}]
        OBVIOUS
      <3>2. DOMAIN frame = FrameMembers /\ frame.on = "raise"
        BY <1>1, <3>1 DEF FrameMembers
      <3>3. GoOn(frame, after)
        BY <2>11, <3>1
      <3> QED BY <1>1, <2>2, <2>8, <2>11, <3>2, <3>3, SimpleGoesOn
    <2> QED BY <2>6, <2>9, <2>10, <2>11
  <1>7. CASE ReadStatus
    <2>1. Top.steps # <<>> /\ Step.op = "status"
      BY <1>7 DEF ReadStatus, Reading, Step
    <2>2. Top.steps \notin StatusRead
      <3>1. ASSUME Top.steps \in StatusRead PROVE FALSE
        <4>1. PICK names, mode : Top.steps = <<Member(names, mode)>>
          BY <1>4, <2>1, <3>1
        <4>2. Step = Member(names, mode)
          BY <4>1 DEF Step
        <4> QED BY <2>1, <4>2 DEF Member
      <3> QED BY <3>1
    <2>3. Step = StatusStep /\ Rest \in StatusRead /\ Step.otherwise \in StatusRead
      BY <1>1, <1>2, <1>3, <2>2 DEF Step, Rest, StatusRead
    <2>4. CASE Raise /\ told' = told
      BY <1>1, <2>4, SimpleRaise
    <2>5. CASE ~(Raise /\ told' = told)
      <3>1. /\ told' \in Statuses /\ status' = told' /\ UNCHANGED <<lists, result>>
            /\ GoOn(Top, IF told' = "ok" THEN Rest ELSE Step.otherwise)
        BY <1>7, <2>5 DEF ReadStatus
      <3>2. told' # "none"
        BY <3>1 DEF Statuses
      <3>3. \E steps \in StatusRead : GoOn(Top, steps)
        BY <2>3, <3>1
      <3> QED BY <1>1, <3>1, <3>2, <3>3, SimpleGoesOn
    <2> QED BY <1>7, <2>4, <2>5
  <1>8. CASE Deliver
    <2>1. Top.steps = <<>>
      BY <1>8 DEF Deliver
    <2>2. told # "none" /\ status = told
      BY <1>1, <1>2, <2>1
    <2>3. /\ result'.status = status /\ result'.end = "read" /\ told' = told
          /\ frames' = <<>> /\ lists' = <<>>
      BY <1>8 DEF Deliver, Finish
    <2>4. Decided'
      BY <2>2, <2>3 DEF Decided
    <2> QED BY <1>1, <2>3, <2>4 DEF SimpleInv
  <1>9. ~(NextEntry \/ EndArray \/ EntryRead \/ Proceed)
    <2>1. \A op : Reading(op) => op \in {"status", "field"}
      BY <1>5 DEF Reading
    <2>2. EntryRead => Len(frames) > 1
      BY Zenon DEF EntryRead
    <2>3. Len(frames) = 1
      BY <1>1, Zenon
    <2>4. ~EntryRead
      BY <2>2, <2>3
    <2> QED BY <2>1, <2>4 DEF NextEntry, EndArray, Proceed
  <1> QED BY <1>6, <1>7, <1>8, <1>9 DEF Reads

LEMMA SimpleStep == ASSUME CallInv, FreshInv, SimpleInv, [Next]_vars PROVE SimpleInv'
  <1>1. CASE UNCHANGED vars
    BY <1>1 DEF vars, SimpleInv, Decided
  <1>2. CASE Reads
    <2>1. CASE call.parser = "SimpleResponse"
      BY <1>2, <2>1, SimpleReads
    <2>2. CASE call.parser # "SimpleResponse"
      BY <1>2, <2>2, ReadsLeave DEF SimpleInv
    <2> QED BY <2>1, <2>2
  <1>3. CASE Call \/ Done
    <2>1. ASSUME NEW via, NEW type, call' = [NoCall EXCEPT !.via = via, !.type = type]
          PROVE  call'.parser = "none"
      BY <2>1 DEF NoCall
    <2>2. Call => call'.parser = "none"
      BY <2>1 DEF Call, Request, Refuse
    <2>3. Done => call'.parser = "none"
      <3>1. Done => call' = NoCall
        BY DEF Done
      <3>2. NoCall.parser = "none"
        BY DEF NoCall
      <3> QED BY <3>1, <3>2
    <2> QED BY <1>3, <2>2, <2>3 DEF SimpleInv
  <1>4. CASE Answer
    <2>1. PICK parser : /\ call'.parser = parser
                        /\ Begin(parser, Parsers[parser])
      BY <1>4 DEF Answer, CallInv
    <2>2. /\ call.parser = "none" /\ result = NoResult /\ lists = <<>> /\ status = ""
          /\ told = "none" /\ told' = told
      BY <1>4 DEF Answer, Awaiting, FreshInv
    <2>3. CASE parser # "SimpleResponse"
      BY <2>1, <2>3 DEF SimpleInv
    <2>4. CASE parser = "SimpleResponse"
      <3>1. Parsers["SimpleResponse"] = parseSimpleResponse
        BY DEF Parsers
      <3>2. CASE /\ frames' = <<Frame("raise", 1, {}, parseSimpleResponse)>>
                 /\ UNCHANGED <<lists, status, result>>
        <4> DEFINE frame == Frame("raise", 1, {}, parseSimpleResponse)
        <4>1. DOMAIN frame = FrameMembers /\ frame.on = "raise"
              /\ frame.steps = parseSimpleResponse
          BY DEF Frame, FrameMembers
        <4> HIDE DEF frame
        <4>2. DOMAIN frames' = {1} /\ Len(frames') = 1 /\ frames'[1] = frame
          BY <3>2 DEF frame
        <4> QED BY <2>2, <3>2, <4>1, <4>2 DEF SimpleInv
      <3>3. CASE status' = AfterError("SimpleResponse", status) /\ Finish("error", FALSE)
        <4>1. status' = "err"
          BY <2>2, <3>3 DEF AfterError
        <4>2. /\ result'.status = status' /\ result'.end = "error"
              /\ frames' = <<>> /\ lists' = <<>>
          BY <3>3 DEF Finish
        <4>3. Decided'
          BY <2>2, <4>1, <4>2 DEF Decided
        <4> QED BY <4>2, <4>3 DEF SimpleInv
      <3> QED BY <2>1, <2>4, <3>1, <3>2, <3>3 DEF Begin
    <2> QED BY <2>3, <2>4
  <1>5. CASE RawOnly
    <2>1. call' = call /\ call.parser = "none"
      BY <1>5 DEF RawOnly, Awaiting
    <2> QED BY <2>1 DEF SimpleInv
  <1>6. CASE Push
    <2>1. call'.parser \in Channels
      BY <1>6 DEF Push
    <2>2. "SimpleResponse" \notin Channels
      BY DEF Channels, Channel, OtherChannels
    <2> QED BY <2>1, <2>2 DEF SimpleInv
  <1> QED BY <1>1, <1>2, <1>3, <1>4, <1>5, <1>6 DEF Next, Reads

LEMMA SimpleInvariant == Spec => [](FreshInv /\ SimpleInv)
  <1>1. Init => FreshInv /\ SimpleInv
    <2> SUFFICES ASSUME Init PROVE FreshInv /\ SimpleInv
      OBVIOUS
    <2>1. /\ frames = <<>> /\ lists = <<>> /\ result = NoResult /\ status = ""
          /\ told = "none" /\ call.parser = "none"
      BY DEF Init, NoCall
    <2> QED BY <2>1 DEF FreshInv, SimpleInv
  <1>2. CallInv /\ (FreshInv /\ SimpleInv) /\ [Next]_vars => (FreshInv /\ SimpleInv)'
    BY FreshStep, SimpleStep
  <1> QED BY <1>1, <1>2, CallInvariant, PTL DEF Spec

\* At whichever look-up the reading of an answer to a posted action ends, and
\* whatever the exchange sent for a status: the application is told "ok" only of
\* what the exchange said "ok" of, an answer without a readable status is an
\* "err", and a status that was read is passed on as it is.
THEOREM PostedAnswersDecide == Spec => []SimpleAnswersDecide
  <1>1. SimpleInv => SimpleAnswersDecide
    <2> SUFFICES ASSUME SimpleInv, call.parser = "SimpleResponse",
                        result.end \in {"read", "error"}
                 PROVE  Decided
      BY DEF SimpleAnswersDecide, Decided
    <2>1. result # NoResult
      BY NotYet
    <2> QED BY <2>1 DEF SimpleInv
  <1> QED BY <1>1, SimpleInvariant, PTL
=============================================================================
