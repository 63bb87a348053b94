----------------------------- MODULE Endpoints -----------------------------
(***************************************************************************)
(* The tables over RestEndpointType (include/hyperliquid/types/             *)
(* RequestTypes.h): which type each method of WebsocketApi posts, which     *)
(* types are signed actions, and which answers are parsed for the listener. *)
(***************************************************************************)

\* The types posted by the methods of WebsocketApi, in the order of
\* src/websocket/WebsocketApi.cpp.
MarketMethods ==
    {"SpotMeta", "Meta", "OutcomeMeta", "PerpDexs", "SettledOutcome",
     "PerpsAtOpenInterestCap", "PredictedFundings", "PerpAnnotation", "PerpCategories",
     "PerpConciseAnnotations", "AllPerpMetas", "PerpDexLimits", "PerpDexStatus",
     "PerpDeployAuctionStatus", "L2Book", "CandleSnapshot", "AllMids"}

TradingMethods ==
    {"OpenOrders", "OrderStatus", "UserFills", "UserFillsByTime", "ClearinghouseState",
     "RecentTrades", "UserFunding", "UserNonFundingLedgerUpdates", "FundingHistory",
     "UserRateLimit", "MetaAndAssetCtxs", "SpotMetaAndAssetCtxs",
     "SpotClearinghouseState", "SpotDeployState", "SpotPairDeployAuctionStatus",
     "UserDexAbstractionState", "UserAbstraction", "ExchangeStatus"}

AccountMethods ==
    {"FrontendOpenOrders", "HistoricalOrders", "UserTwapSliceFills",
     "UserTwapSliceFillsByTime", "TwapHistory", "ActiveAssetData", "SubAccounts",
     "UserFees", "MaxBuilderFee", "ApprovedBuilders", "Delegations", "DelegatorSummary",
     "DelegatorHistory", "DelegatorRewards", "VaultDetails", "UserVaultEquities",
     "Portfolio", "Referral", "UserRole", "BorrowLendUserState",
     "BorrowLendReserveState", "AllBorrowLendReserveStates", "UserBorrowLendInterest",
     "Liquidatable"}

OrderMethods ==
    {"PlaceOrder", "CancelOrder", "CancelOrderByCloid", "ScheduleCancel", "ModifyOrder",
     "BatchModifyOrder", "UpdateLeverage", "UpdateIsolatedMargin", "ApproveAgent",
     "AgentSetAbstraction", "TwapOrder", "TwapCancel"}

TransferMethods ==
    {"VaultTransfer", "Hip3LiquidatorTransfer", "CreateSubAccount", "SubAccountTransfer",
     "CreateVault", "UsdClassTransfer", "SendAsset", "UsdSend", "SpotSend", "Withdraw3",
     "ApproveBuilderFee", "UserSetAbstraction", "SetReferrer", "CDeposit", "CWithdraw",
     "TokenDelegate", "BorrowLend"}

DeployMethods ==
    {"SpotDeployRegisterToken2", "SpotDeployUserGenesis", "SpotDeployGenesis",
     "SpotDeployRegisterSpot", "SpotDeployRegisterHyperliquidity",
     "PerpDeployRegisterAsset2", "SendToEvmWithData", "UserDexAbstraction",
     "UserPortfolioMargin", "AgentSendAsset", "ReserveRequestWeight", "Noop"}

PostedTypes ==
    MarketMethods \cup TradingMethods \cup AccountMethods \cup
    OrderMethods \cup TransferMethods \cup DeployMethods

\* isAuthenticated(): the exchange actions, which are signed with a nonce.
Authenticated ==
    {"PlaceOrder", "CancelOrder", "CancelOrderByCloid", "ScheduleCancel", "ModifyOrder",
     "BatchModifyOrder", "UpdateLeverage", "UpdateIsolatedMargin", "ApproveAgent",
     "AgentSetAbstraction", "TwapOrder", "TwapCancel", "VaultTransfer",
     "Hip3LiquidatorTransfer", "CreateSubAccount", "SubAccountTransfer", "CreateVault",
     "BorrowLend", "SpotDeployRegisterToken2", "SpotDeployUserGenesis",
     "SpotDeployGenesis", "SpotDeployRegisterSpot", "SpotDeployRegisterHyperliquidity",
     "PerpDeployRegisterAsset2", "UsdClassTransfer", "SendAsset", "UsdSend", "SpotSend",
     "Withdraw3", "ApproveBuilderFee", "UserSetAbstraction", "SetReferrer", "CDeposit",
     "CWithdraw", "TokenDelegate", "SendToEvmWithData", "UserDexAbstraction",
     "UserPortfolioMargin", "AgentSendAsset", "ReserveRequestWeight", "Noop"}

\* The cases of dispatchInfoPostResponse(): what it parses for the listener.
TypedInfo ==
    {"SpotMeta", "Meta", "OutcomeMeta", "PerpDexs", "PerpAnnotation", "PerpCategories",
     "PerpConciseAnnotations", "AllPerpMetas", "PerpsAtOpenInterestCap",
     "PredictedFundings", "MetaAndAssetCtxs", "SpotMetaAndAssetCtxs",
     "SpotClearinghouseState", "FrontendOpenOrders", "HistoricalOrders",
     "UserTwapSliceFills", "UserTwapSliceFillsByTime", "TwapHistory", "ActiveAssetData",
     "SubAccounts", "UserFees", "MaxBuilderFee", "ApprovedBuilders", "L2Book",
     "CandleSnapshot", "AllMids", "OpenOrders", "OrderStatus", "UserFills",
     "UserFillsByTime", "ClearinghouseState", "VaultDetails", "UserVaultEquities",
     "Portfolio", "Referral", "UserRole", "UserRateLimit", "PerpDexLimits",
     "PerpDexStatus", "PerpDeployAuctionStatus", "SettledOutcome",
     "BorrowLendUserState", "BorrowLendReserveState", "AllBorrowLendReserveStates",
     "SpotDeployState", "SpotPairDeployAuctionStatus", "UserDexAbstractionState",
     "UserAbstraction", "Delegations", "DelegatorSummary", "DelegatorHistory",
     "DelegatorRewards", "ExchangeStatus"}
=============================================================================
