---------------------------- MODULE RestMethods ----------------------------
(***************************************************************************)
(* The methods of RestApi, and which parser reads the answer to each: the     *)
(* one its synchronous form names, the one RestApiMessageParser::parse()      *)
(* picks for its asynchronous form, the one PostResponseDispatch picks for   *)
(* the method of that name of WebsocketApi.                                 *)
(***************************************************************************)
EXTENDS RestParsers, Endpoints

Parsers ==
    [SpotMeta |-> parseSpotMeta, Meta |-> parseMeta, OutcomeMeta |-> parseOutcomeMeta,
     SettledOutcome |-> parseSettledOutcome, PerpDexs |-> parsePerpDexs,
     PerpsAtOpenInterestCap |-> parsePerpsAtOpenInterestCap,
     PredictedFundings |-> parsePredictedFundings,
     PerpAnnotation |-> parsePerpAnnotation, PerpCategories |-> parsePerpCategories,
     PerpConciseAnnotations |-> parsePerpConciseAnnotations,
     AllPerpMetas |-> parseAllPerpMetas, PerpDexLimits |-> parsePerpDexLimits,
     PerpDexStatus |-> parsePerpDexStatus,
     PerpDeployAuctionStatus |-> parsePerpDeployAuctionStatus,
     UserFunding |-> parseUserFunding,
     UserNonFundingLedgerUpdates |-> parseUserNonFundingLedgerUpdates,
     FundingHistory |-> parseFundingHistory, L2Book |-> parseL2Book,
     CandleSnapshot |-> parseCandleSnapshot, RecentTrades |-> parseRecentTrades,
     AllMids |-> parseAllMids, OpenOrders |-> parseOpenOrders,
     OrderStatus |-> parseOrderStatus, UserFills |-> parseUserFills,
     UserFillsByTime |-> parseUserFillsByTime,
     ClearinghouseState |-> parseClearinghouseState,
     UserRateLimit |-> parseUserRateLimit, MetaAndAssetCtxs |-> parseMetaAndAssetCtxs,
     SpotMetaAndAssetCtxs |-> parseSpotMetaAndAssetCtxs,
     SpotClearinghouseState |-> parseSpotClearinghouseState,
     SpotDeployState |-> parseSpotDeployState,
     SpotPairDeployAuctionStatus |-> parseSpotPairDeployAuctionStatus,
     FrontendOpenOrders |-> parseFrontendOpenOrders,
     HistoricalOrders |-> parseHistoricalOrders,
     UserTwapSliceFills |-> parseUserTwapSliceFills,
     UserTwapSliceFillsByTime |-> parseUserTwapSliceFillsByTime,
     TwapHistory |-> parseTwapHistory, ActiveAssetData |-> parseActiveAssetData,
     SubAccounts |-> parseSubAccounts, UserFees |-> parseUserFees,
     MaxBuilderFee |-> parseMaxBuilderFee, ApprovedBuilders |-> parseApprovedBuilders,
     VaultDetails |-> parseVaultDetails, UserVaultEquities |-> parseUserVaultEquities,
     Portfolio |-> parsePortfolio, Referral |-> parseReferral,
     UserRole |-> parseUserRole, BorrowLendUserState |-> parseBorrowLendUserState,
     BorrowLendReserveState |-> parseBorrowLendReserveState,
     AllBorrowLendReserveStates |-> parseAllBorrowLendReserveStates,
     UserBorrowLendInterest |-> parseUserBorrowLendInterest,
     Liquidatable |-> parseLiquidatable,
     UserDexAbstractionState |-> parseUserDexAbstractionState,
     UserAbstraction |-> parseUserAbstraction, ExchangeStatus |-> parseExchangeStatus,
     Delegations |-> parseDelegations, DelegatorSummary |-> parseDelegatorSummary,
     DelegatorHistory |-> parseDelegatorHistory,
     DelegatorRewards |-> parseDelegatorRewards, SimpleResponse |-> parseSimpleResponse,
     PlaceOrder |-> parsePlaceOrder, CancelOrder |-> parseCancelOrder,
     ModifyOrder |-> parseModifyOrder, TwapOrder |-> parseTwapOrder,
     TwapCancel |-> parseTwapCancel, CreateSubAccount |-> parseCreateSubAccount,
     CreateVault |-> parseCreateVault]

-----------------------------------------------------------------------------
(* Synchronous methods.  A query is read by the parser of its own name. *)

marketCalls ==
    {"SpotMeta", "Meta", "OutcomeMeta", "SettledOutcome", "PerpDexs",
     "PerpsAtOpenInterestCap", "PredictedFundings", "PerpAnnotation",
     "PerpCategories", "PerpConciseAnnotations", "AllPerpMetas", "PerpDexLimits",
     "PerpDexStatus", "PerpDeployAuctionStatus", "UserFunding",
     "UserNonFundingLedgerUpdates", "FundingHistory", "L2Book", "CandleSnapshot",
     "RecentTrades", "AllMids", "OpenOrders"}

accountCalls ==
    {"OrderStatus", "UserFills", "UserFillsByTime", "ClearinghouseState",
     "UserRateLimit", "MetaAndAssetCtxs", "SpotMetaAndAssetCtxs",
     "SpotClearinghouseState", "SpotDeployState", "SpotPairDeployAuctionStatus",
     "FrontendOpenOrders", "HistoricalOrders", "UserTwapSliceFills",
     "UserTwapSliceFillsByTime", "TwapHistory", "ActiveAssetData", "SubAccounts",
     "UserFees", "MaxBuilderFee", "ApprovedBuilders", "VaultDetails"}

stateCalls ==
    {"UserVaultEquities", "Portfolio", "Referral", "UserRole", "BorrowLendUserState",
     "BorrowLendReserveState", "AllBorrowLendReserveStates", "UserBorrowLendInterest",
     "Liquidatable", "UserDexAbstractionState", "UserAbstraction", "ExchangeStatus"}

stakingCalls ==
    {"Delegations", "DelegatorSummary", "DelegatorHistory", "DelegatorRewards"}

\* Actions whose answer has its own type.
orderCalls ==
    [PlaceOrder |-> "PlaceOrder", CancelOrder |-> "CancelOrder",
     CancelOrderByCloid |-> "CancelOrder", ModifyOrder |-> "ModifyOrder",
     BatchModifyOrder |-> "ModifyOrder", TwapOrder |-> "TwapOrder",
     TwapCancel |-> "TwapCancel", ScheduleCancel |-> "SimpleResponse",
     UpdateLeverage |-> "SimpleResponse", UpdateIsolatedMargin |-> "SimpleResponse",
     ApproveAgent |-> "SimpleResponse", AgentSetAbstraction |-> "SimpleResponse",
     VaultTransfer |-> "SimpleResponse"]

\* All but two give a SimpleResponse.
transferCalls ==
    {"Hip3LiquidatorTransfer", "SubAccountTransfer", "BorrowLend",
     "SpotDeployRegisterToken2", "SpotDeployUserGenesis", "SpotDeployGenesis",
     "SpotDeployRegisterSpot", "SpotDeployRegisterHyperliquidity",
     "PerpDeployRegisterAsset2", "UsdClassTransfer", "SendAsset", "UsdSend",
     "SpotSend", "Withdraw3", "ApproveBuilderFee", "UserSetAbstraction",
     "SetReferrer", "CDeposit", "CWithdraw", "TokenDelegate",
     "CreateSubAccount", "CreateVault"}

agentCalls ==
    {"SendToEvmWithData", "UserDexAbstraction", "UserPortfolioMargin",
     "AgentSendAsset", "ReserveRequestWeight", "Noop"}

SyncMethods ==
    marketCalls \cup accountCalls \cup stateCalls \cup stakingCalls
    \cup DOMAIN orderCalls \cup transferCalls \cup agentCalls

SyncParser(type) ==
    CASE type \in DOMAIN orderCalls -> orderCalls[type]
      [] type \in {"CreateSubAccount", "CreateVault"} -> type
      [] type \in (transferCalls \cup agentCalls) \ {"CreateSubAccount", "CreateVault"}
           -> "SimpleResponse"
      [] OTHER -> type

-----------------------------------------------------------------------------
(* Asynchronous methods, and the parser that parse() calls for their answers. *)

marketAsync ==
    {"SpotMeta", "Meta", "OutcomeMeta", "SettledOutcome", "PerpDexs",
     "PerpsAtOpenInterestCap", "PredictedFundings", "PerpAnnotation",
     "PerpCategories", "PerpConciseAnnotations", "AllPerpMetas", "PerpDexLimits",
     "PerpDexStatus", "PerpDeployAuctionStatus", "UserFunding",
     "UserNonFundingLedgerUpdates", "FundingHistory", "L2Book", "CandleSnapshot",
     "RecentTrades", "AllMids", "OpenOrders", "OrderStatus", "UserFills",
     "UserFillsByTime", "ClearinghouseState"}

accountAsync ==
    {"UserRateLimit", "MetaAndAssetCtxs", "SpotMetaAndAssetCtxs",
     "SpotClearinghouseState", "SpotDeployState", "SpotPairDeployAuctionStatus",
     "FrontendOpenOrders", "HistoricalOrders", "UserTwapSliceFills",
     "UserTwapSliceFillsByTime", "TwapHistory", "ActiveAssetData", "SubAccounts",
     "UserFees", "MaxBuilderFee", "ApprovedBuilders", "VaultDetails",
     "UserVaultEquities", "Portfolio", "Referral", "UserRole", "BorrowLendUserState",
     "BorrowLendReserveState", "AllBorrowLendReserveStates", "UserBorrowLendInterest",
     "Liquidatable", "UserDexAbstractionState", "UserAbstraction"}

orderAsync ==
    {"ExchangeStatus", "PlaceOrder", "CancelOrder", "CancelOrderByCloid",
     "ScheduleCancel", "ModifyOrder", "BatchModifyOrder", "UpdateLeverage",
     "UpdateIsolatedMargin", "ApproveAgent", "AgentSetAbstraction", "TwapOrder",
     "TwapCancel", "VaultTransfer", "Hip3LiquidatorTransfer", "CreateSubAccount",
     "SubAccountTransfer", "CreateVault", "BorrowLend"}

transferAsync ==
    {"SpotDeployRegisterToken2", "SpotDeployUserGenesis", "SpotDeployGenesis",
     "SpotDeployRegisterSpot", "SpotDeployRegisterHyperliquidity",
     "PerpDeployRegisterAsset2", "UsdClassTransfer", "SendAsset", "UsdSend",
     "SpotSend", "Withdraw3", "ApproveBuilderFee", "UserSetAbstraction",
     "SetReferrer", "CDeposit", "CWithdraw", "TokenDelegate"}

agentAsync ==
    {"Delegations", "DelegatorSummary", "DelegatorHistory", "DelegatorRewards",
     "SendToEvmWithData", "UserDexAbstraction", "UserPortfolioMargin",
     "AgentSendAsset", "ReserveRequestWeight", "Noop"}

AsyncMethods ==
    marketAsync \cup accountAsync \cup orderAsync \cup transferAsync \cup agentAsync

\* The types that parse() hands to parseSimpleResponse().
simpleTypes ==
    {"UpdateLeverage", "UpdateIsolatedMargin", "ScheduleCancel", "ApproveAgent",
     "AgentSetAbstraction", "VaultTransfer", "Hip3LiquidatorTransfer",
     "SubAccountTransfer", "BorrowLend", "SpotDeployRegisterToken2",
     "SpotDeployUserGenesis", "SpotDeployGenesis", "SpotDeployRegisterSpot",
     "SpotDeployRegisterHyperliquidity", "PerpDeployRegisterAsset2", "UsdClassTransfer",
     "SendAsset", "UsdSend", "SpotSend", "Withdraw3", "ApproveBuilderFee",
     "UserSetAbstraction", "SetReferrer", "CDeposit", "CWithdraw", "TokenDelegate",
     "SendToEvmWithData", "UserDexAbstraction", "UserPortfolioMargin", "AgentSendAsset",
     "ReserveRequestWeight", "Noop"}

\* Wrong variant: a batch of modifications answered like a plain action.
parseBatchAsSimple(type) ==
    CASE type = "CancelOrderByCloid" -> "CancelOrder"
      [] type \in simpleTypes \cup {"BatchModifyOrder"} -> "SimpleResponse"
      [] OTHER -> type

parse(type) ==
    CASE type = "CancelOrderByCloid" -> "CancelOrder"
      [] type = "BatchModifyOrder" -> "ModifyOrder"
      [] type \in simpleTypes -> "SimpleResponse"
      [] OTHER -> type

\* Posted actions: dispatchExchangeActionPostResponse().  Posted queries:
\* dispatchInfoPostResponse(), which has no case for some types.
PostParser(type) ==
    CASE type \in Authenticated -> "SimpleResponse"
      [] type \in TypedInfo -> type
      [] OTHER -> "none"
=============================================================================
