------------------------------ MODULE Requests ------------------------------
(***************************************************************************)
(* What a request consists of: the fields that InfoRequestBuilder and        *)
(* ExchangeRequestBuilder put into it, and what Signing makes of it.  Values *)
(* are left out; where a vault address comes from is kept.                  *)
(***************************************************************************)
EXTENDS Endpoints, FiniteSets

\* The fields a builder always sets, the ones it sets if the caller gave a
\* value, and whether it throws on some arguments.
Fields(always, optional) == [always |-> always, optional |-> optional, throws |-> FALSE]

\* floatToWire() throws on a number it cannot write exactly, SymbolMap::resolve()
\* on an unknown symbol, setModifyOid() if there is neither an oid nor a cloid.
Checked(always, optional) == [always |-> always, optional |-> optional, throws |-> TRUE]

-----------------------------------------------------------------------------
(* InfoRequestBuilder, in the order of its source. *)

marketQueries ==
    [SpotMeta |-> Fields({}, {}), Meta |-> Fields({}, {"dex"}),
     OutcomeMeta |-> Fields({}, {}), SettledOutcome |-> Fields({"outcome"}, {}),
     PerpDexs |-> Fields({}, {}), PerpsAtOpenInterestCap |-> Fields({}, {"dex"}),
     PredictedFundings |-> Fields({}, {}), PerpAnnotation |-> Fields({"coin"}, {}),
     PerpCategories |-> Fields({}, {}), PerpConciseAnnotations |-> Fields({}, {}),
     AllPerpMetas |-> Fields({}, {}), PerpDexLimits |-> Fields({"dex"}, {}),
     PerpDexStatus |-> Fields({"dex"}, {}), PerpDeployAuctionStatus |-> Fields({}, {}),
     UserFunding |-> Fields({"user", "startTime"}, {"endTime"}),
     UserNonFundingLedgerUpdates |-> Fields({"user", "startTime"}, {"endTime"}),
     FundingHistory |-> Fields({"coin", "startTime"}, {"endTime"})]

tradingQueries ==
    [L2Book |-> Fields({"coin"}, {"nSigFigs", "mantissa"}),
     CandleSnapshot |-> Fields({"req"}, {}), RecentTrades |-> Fields({"coin"}, {}),
     AllMids |-> Fields({}, {"dex"}), OpenOrders |-> Fields({"user"}, {"dex"}),
     OrderStatus |-> Fields({"user", "oid"}, {}),
     UserFills |-> Fields({"user"}, {"aggregateByTime", "dex"}),
     UserFillsByTime |->
         Fields({"user", "startTime"}, {"endTime", "aggregateByTime", "dex"}),
     ClearinghouseState |-> Fields({"user"}, {"dex"}),
     UserRateLimit |-> Fields({"user"}, {}), BorrowLendUserState |-> Fields({"user"}, {}),
     MetaAndAssetCtxs |-> Fields({}, {"dex"}), SpotMetaAndAssetCtxs |-> Fields({}, {}),
     SpotClearinghouseState |-> Fields({"user"}, {"dex"}),
     SpotDeployState |-> Fields({"user"}, {})]

accountQueries ==
    [SpotPairDeployAuctionStatus |-> Fields({}, {}),
     FrontendOpenOrders |-> Fields({"user"}, {"dex"}),
     HistoricalOrders |-> Fields({"user"}, {}), UserTwapSliceFills |-> Fields({"user"}, {}),
     UserTwapSliceFillsByTime |->
         Fields({"user", "startTime"}, {"endTime", "aggregateByTime"}),
     TwapHistory |-> Fields({"user"}, {}), ActiveAssetData |-> Fields({"user", "coin"}, {}),
     SubAccounts |-> Fields({"user"}, {}), UserFees |-> Fields({"user"}, {}),
     MaxBuilderFee |-> Fields({"user", "builder"}, {}),
     ApprovedBuilders |-> Fields({"user"}, {}), Delegations |-> Fields({"user"}, {}),
     DelegatorSummary |-> Fields({"user"}, {}), DelegatorHistory |-> Fields({"user"}, {}),
     DelegatorRewards |-> Fields({"user"}, {})]

vaultQueries ==
    [VaultDetails |-> Fields({"vaultAddress"}, {"user"}),
     UserVaultEquities |-> Fields({"user"}, {}), Portfolio |-> Fields({"user"}, {}),
     Referral |-> Fields({"user"}, {}), UserRole |-> Fields({"user"}, {}),
     BorrowLendReserveState |-> Fields({"token"}, {}),
     AllBorrowLendReserveStates |-> Fields({}, {}),
     UserBorrowLendInterest |-> Fields({"user", "startTime"}, {"endTime"}),
     Liquidatable |-> Fields({}, {}), UserDexAbstractionState |-> Fields({"user"}, {}),
     UserAbstraction |-> Fields({"user"}, {}), ExchangeStatus |-> Fields({}, {})]

-----------------------------------------------------------------------------
(* ExchangeRequestBuilder: the fields of the action. *)

orderActions ==
    [PlaceOrder |-> Checked({"orders", "grouping"}, {"builder"}),
     CancelOrder |-> Checked({"cancels"}, {}),
     CancelOrderByCloid |-> Checked({"cancels"}, {}),
     ScheduleCancel |-> Fields({}, {"time"}),
     ModifyOrder |-> Checked({"oid", "order"}, {})]

accountActions ==
    [BatchModifyOrder |-> Checked({"modifies"}, {}),
     UpdateLeverage |-> Checked({"asset", "isCross", "leverage"}, {}),
     UpdateIsolatedMargin |-> Checked({"asset", "isBuy", "ntli"}, {}),
     ApproveAgent |-> Fields({"agentAddress"}, {"agentName"}),
     AgentSetAbstraction |-> Fields({"abstraction"}, {}),
     TwapOrder |-> Checked({"twap"}, {}), TwapCancel |-> Checked({"a", "t"}, {}),
     CDeposit |-> Fields({"wei"}, {}), CWithdraw |-> Fields({"wei"}, {})]

vaultActions ==
    [VaultTransfer |-> Fields({"vaultAddress", "isDeposit", "usd"}, {}),
     Hip3LiquidatorTransfer |-> Fields({"dex", "ntl", "isDeposit"}, {}),
     CreateSubAccount |-> Fields({"name"}, {}),
     SubAccountTransfer |-> Fields({"subAccountUser", "isDeposit", "usd"}, {}),
     CreateVault |-> Fields({"name", "description", "initialUsd"}, {}),
     BorrowLend |-> Checked({"operation", "token", "amount"}, {}),
     SpotDeployRegisterToken2 |-> Fields({"registerToken2"}, {})]

deployActions ==
    [SpotDeployUserGenesis |-> Checked({"userGenesis"}, {}),
     SpotDeployGenesis |-> Checked({"genesis"}, {}),
     SpotDeployRegisterSpot |-> Fields({"registerSpot"}, {}),
     SpotDeployRegisterHyperliquidity |-> Checked({"registerHyperliquidity"}, {}),
     PerpDeployRegisterAsset2 |-> Checked({"registerAsset2"}, {})]

transferActions ==
    [UsdClassTransfer |-> Checked({"amount", "toPerp"}, {}),
     SendAsset |-> Checked({"destination", "sourceDex", "destinationDex", "token",
                            "amount", "fromSubAccount"}, {}),
     UsdSend |-> Checked({"destination", "amount"}, {}),
     SpotSend |-> Checked({"destination", "token", "amount"}, {}),
     Withdraw3 |-> Checked({"destination", "amount"}, {}),
     ApproveBuilderFee |-> Fields({"maxFeeRate", "builder"}, {}),
     UserSetAbstraction |-> Fields({"user", "abstraction"}, {}),
     SetReferrer |-> Fields({"code"}, {}),
     TokenDelegate |-> Fields({"validator", "isUndelegate", "wei"}, {}),
     SendToEvmWithData |->
         Fields({"token", "amount", "sourceDex", "destinationRecipient",
                 "addressEncoding", "destinationChainId", "gasLimit", "data"}, {}),
     UserDexAbstraction |-> Fields({"user", "enabled"}, {})]

agentActions ==
    [UserPortfolioMargin |-> Fields({"user", "enabled"}, {}),
     AgentSendAsset |-> Fields({"destination", "sourceDex", "destinationDex", "token",
                                "amount", "fromSubAccount"}, {}),
     ReserveRequestWeight |-> Fields({"weight"}, {"destination"}),
     Noop |-> Fields({}, {})]

Tables ==
    {marketQueries, tradingQueries, accountQueries, vaultQueries, orderActions,
     accountActions, vaultActions, deployActions, transferActions, agentActions}

Builder ==
    [type \in UNION {DOMAIN table : table \in Tables} |->
        (CHOOSE table \in Tables : type \in DOMAIN table)[type]]

-----------------------------------------------------------------------------
(* Signing. *)

isUserSignedAction ==
    {"UsdClassTransfer", "SendAsset", "UsdSend", "SpotSend", "Withdraw3",
     "ApproveBuilderFee", "UserSetAbstraction", "CDeposit", "CWithdraw", "TokenDelegate",
     "SendToEvmWithData", "UserDexAbstraction", "UserPortfolioMargin"}

\* The methods with a vaultAddress parameter.
TakesVault ==
    {"PlaceOrder", "CancelOrder", "CancelOrderByCloid", "ScheduleCancel", "ModifyOrder",
     "BatchModifyOrder", "UpdateLeverage", "UpdateIsolatedMargin", "AgentSetAbstraction",
     "TwapOrder", "TwapCancel", "AgentSendAsset", "ReserveRequestWeight", "Noop"}

\* A body: its own fields, or those of its action; the vault address beside
\* them, from nowhere, the caller or the configuration; the nonce; and what the
\* signature is made over, {} for an unsigned body.
Body(fields, vault, nonce, signed) ==
    [fields |-> fields, vault |-> vault, nonce |-> nonce, signed |-> signed]

\* What signL1Action() signs: the action, the nonce and the vault address.
actionHash(action, vault) ==
    action \cup {"nonce"} \cup (IF vault = "none" THEN {} ELSE {"vaultAddress"})

\* body["vaultAddress"] = ... takes the place of a field of that name.  No
\* method gives an expiresAfter.
prepareBody(type, fields, vault) ==
    IF type \in Authenticated
    THEN LET action == fields \cup (IF type \in {"AgentSendAsset", "CreateVault"}
                                    THEN {"nonce"} ELSE {})
         IN  Body(action, vault, TRUE, actionHash(action, vault))
    ELSE Body(fields, vault, FALSE, {})

timeField(type) == IF type \in {"UsdSend", "Withdraw3", "SpotSend"} THEN "time" ELSE "nonce"

\* The payloadTypes of each action, hyperliquidChain and the time field included.
payloadTypes ==
    LET chain(type, fields) == {"hyperliquidChain", timeField(type)} \cup fields
    IN  [type \in isUserSignedAction |->
          chain(type,
            CASE type \in {"UsdSend", "Withdraw3"} -> {"destination", "amount"}
              [] type = "SpotSend" -> {"destination", "token", "amount"}
              [] type = "UsdClassTransfer" -> {"amount", "toPerp"}
              [] type = "SendAsset" -> {"destination", "sourceDex", "destinationDex",
                                        "token", "amount", "fromSubAccount"}
              [] type = "ApproveBuilderFee" -> {"maxFeeRate", "builder"}
              [] type = "UserSetAbstraction" -> {"user", "abstraction"}
              [] type \in {"CDeposit", "CWithdraw"} -> {"wei"}
              [] type = "TokenDelegate" -> {"validator", "wei", "isUndelegate"}
              [] type = "SendToEvmWithData" ->
                   {"token", "amount", "sourceDex", "destinationRecipient",
                    "addressEncoding", "destinationChainId", "gasLimit", "data"}
              [] OTHER -> {"user", "enabled"})]

prepareUserSignedActionBody(type, fields) ==
    Body(fields \cup {timeField(type), "signatureChainId", "hyperliquidChain"}, "none",
         TRUE, payloadTypes[type])

\* A name that was not given is signed as "" and then taken out.
prepareApproveAgentBody(fields) ==
    Body(fields \cup {"nonce", "signatureChainId", "hyperliquidChain"}, "none", TRUE,
         {"hyperliquidChain", "agentAddress", "agentName", "nonce"})

\* Wrong variant: the configured vault also goes into a request that names
\* its own target.
prepareBodyForTypeEverywhere(type, fields, argument, configured) ==
    IF type = "ApproveAgent" THEN prepareApproveAgentBody(fields)
    ELSE IF type \in isUserSignedAction THEN prepareUserSignedActionBody(type, fields)
    ELSE prepareBody(type, fields, IF argument THEN "argument"
                                   ELSE IF configured THEN "config" ELSE "none")

\* Wrong variant: a vault address beside a user-signed action.
prepareBodyForTypeBeside(type, fields, argument, configured) ==
    IF type \in isUserSignedAction /\ configured
    THEN [prepareUserSignedActionBody(type, fields) EXCEPT !.vault = "config"]
    ELSE prepareBodyForTypeEverywhere(type, fields, argument, configured)

\* argument and configured: whether the caller and the ApiConfig give a vault.
prepareBodyForType(type, fields, argument, configured) ==
    LET allowConfigVaultFallback ==
            type \notin {"VaultTransfer", "Hip3LiquidatorTransfer", "CreateSubAccount",
                         "SubAccountTransfer"}
    IN  IF type = "ApproveAgent" THEN prepareApproveAgentBody(fields)
        ELSE IF type \in isUserSignedAction THEN prepareUserSignedActionBody(type, fields)
        ELSE prepareBody(type, fields,
                 IF argument THEN "argument"
                 ELSE IF configured /\ allowConfigVaultFallback THEN "config" ELSE "none")
=============================================================================
