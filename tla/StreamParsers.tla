---------------------------- MODULE StreamParsers ----------------------------
(***************************************************************************)
(* WebsocketMessageParser: one definition per crack function, under its name. *)
(* crack() catches simdjson_error once per message; most loops catch it once  *)
(* per entry too.  Each entry of a list, or the one object of a message, is    *)
(* a call of the listener.                                                  *)
(***************************************************************************)
EXTENDS JsonShapes, ResponseTypes

crackSubscriptionResponse ==
    One(SubscriptionResponse, Plain(<<"method", "type">>))

-----------------------------------------------------------------------------
(* Market data. *)

\* More than two sides, and levels beyond L2_BOOK_MAX_LEVELS, are passed over.
crackL2Book ==
    LET side == Present(EachCaught(PriceLevel,
                    Assign({"side"}) \o Plain(<<"px", "sz", "n">>)))
    IN  One(L2BookSnapshot, Plain(<<"coin", "time">>) \o Assign({"numBids", "numAsks"})
                            \o Plain(<<"levels">>) \o side \o side)

\* The side of the two levels is not assigned, nor the n of one that is null or
\* not there.
crackBbo ==
    LET level(n) == Alt(<<<<>>, One({}, Plain(<<"px", "sz", "n">>)) \o Assign({n})>>)
    IN  One(BboUpdate, Plain(<<"coin", "time">>) \o Assign({"hasBid", "hasAsk"})
                       \o Plain(<<"bbo">>) \o level("bid.n") \o level("ask.n"))

users == Soft(One({}, Present(Plain(<<"buyer">>)) \o Present(Plain(<<"seller">>))))

\* Wrong variant: buyer and seller are not cleared.
crackTradesUncleared ==
    EachCaught(Trade, Plain(<<"coin", "side", "px", "sz", "hash", "time", "tid">>) \o users)

crackTrades ==
    EachCaught(Trade, Plain(<<"coin", "side", "px", "sz", "hash", "time", "tid">>)
                      \o Assign({"buyer", "seller"}) \o users)

crackCandles ==
    EachCaught(Candle, Plain(<<"coin", "interval", "openTime", "closeTime", "open", "close",
                               "high", "low", "volume", "numTrades">>))

crackAllMids ==
    Plain(<<"mids">>) \o EachCaught(AllMidsEntry, Plain(<<"coin">>) \o Decimal(<<"mid">>))

perpCtx ==
    Decimal(<<"dayNtlVlm", "prevDayPx", "markPx">>) \o Soft(Decimal(<<"midPx">>))
    \o Assign({"hasMidPx", "midPx"}) \o Decimal(<<"openInterest", "oraclePx">>)

\* A context with a funding string is that of a perpetual.
crackActiveAssetCtx ==
    Plain(<<"coin", "ctx">>)
    \o Alt(<<One(PerpAssetCtx, Assign({"funding"}) \o perpCtx),
             One(SpotAssetCtx,
                 Decimal(<<"dayNtlVlm", "prevDayPx", "markPx">>) \o Soft(Decimal(<<"midPx">>))
                 \o Assign({"hasMidPx", "midPx"}) \o Decimal(<<"circulatingSupply">>))>>)

\* A context that cannot be read takes the list of its dex with it.
crackAllDexsAssetCtxs ==
    One({}, EachCaught({}, Present(Plain(<<"dex">>))
                           \o Present(Each({}, perpCtx \o Decimal(<<"funding">>)))))

\* base64, then inflate: what cannot be inflated is given up.
crackFastAssetCtxs ==
    MayReturn
    \o EachCaught({}, Plain(<<"coin", "entry">>) \o Soft(Decimal(<<"markPx">>))
                      \o Soft(Decimal(<<"midPx">>)))

parseOutcomeSpecForUpdate ==
    Plain(<<"outcome", "name">>) \o Expiry(<<"description">>)
    \o Each({}, Plain(<<"name">>) \o Soft(Plain(<<"token">>)))
    \o Soft(Plain(<<"quoteToken">>)) \o Soft(Plain(<<"deployer">>))

parseQuestionSpecForUpdate ==
    Plain(<<"question", "name", "description", "fallbackOutcome">>)
    \o Each({}, Plain(<<"namedOutcome">>)) \o Soft(Each({}, Plain(<<"settledNamedOutcome">>)))

crackOutcomeMetaUpdates ==
    EachCaught({}, Alt(<<parseOutcomeSpecForUpdate, Plain(<<"outcomeSettled">>),
                         parseQuestionSpecForUpdate, Plain(<<"questionSettled">>), <<>>>>))

-----------------------------------------------------------------------------
(* The user's orders, fills and account. *)

parseFillObject ==
    Plain(<<"coin">>) \o Decimal(<<"px", "sz">>) \o Plain(<<"side", "time">>)
    \o Decimal(<<"startPosition">>) \o Plain(<<"dir">>) \o Decimal(<<"closedPnl">>)
    \o Plain(<<"hash", "oid", "crossed">>) \o Decimal(<<"fee">>)
    \o Plain(<<"tid", "feeToken">>)
    \o Soft(Decimal(<<"builderFee">>)) \o Assign({"hasBuilderFee", "builderFee"})
    \o Soft(One({}, Plain(<<"liquidatedUser">>) \o Decimal(<<"markPx">>)
                    \o Plain(<<"method">>)))
    \o Assign({"isLiquidation", "liquidationMarkPx", "liquidationMethod", "isSnapshot"})

parseOrder ==
    Plain(<<"coin", "side">>) \o Decimal(<<"limitPx", "sz">>)
    \o Plain(<<"oid", "timestamp">>) \o Decimal(<<"origSz">>) \o Soft(Plain(<<"cloid">>))

\* Wrong variant: without the try block inside the loop.
crackOrderUpdatesUncaught ==
    Each(OrderUpdate, Plain(<<"order">>) \o parseOrder
                      \o Plain(<<"status", "statusTimestamp">>))

crackOrderUpdates ==
    EachCaught(OrderUpdate, Plain(<<"order">>) \o parseOrder
                            \o Plain(<<"status", "statusTimestamp">>))

\* An isSnapshot of another type ends the message; elsewhere it is ignored.
crackUserFills == Present(Plain(<<"isSnapshot">>)) \o EachCaught(Fill, parseFillObject)

funding == Plain(<<"time", "coin">>) \o Decimal(<<"usdc", "szi", "fundingRate">>)

crackUserEvents ==
    Alt(<<EachCaught(Fill, parseFillObject),
          One(UserFunding, funding),
          One(Liquidation, Plain(<<"lid", "liquidator", "liquidatedUser">>)
                           \o Decimal(<<"liquidatedNtlPos", "liquidatedAccountValue">>)),
          EachCaught(NonUserCancel, Plain(<<"coin", "oid">>)),
          <<>>>>)

crackUserFundings == Soft(Plain(<<"isSnapshot">>)) \o EachCaught(UserFunding, funding)

crackLedgerDelta ==
    LET transfer == Decimal(<<"usdc">>) \o Plain(<<"user", "destination">>)
    IN  Plain(<<"type">>)
        \o Alt(<<Decimal(<<"usdc">>),
                 Decimal(<<"usdc">>) \o Plain(<<"nonce">>) \o Decimal(<<"fee">>),
                 transfer \o Decimal(<<"fee">>),
                 transfer,
                 Decimal(<<"accountValue">>) \o Plain(<<"leverageType">>)
                 \o Soft(Each(LiquidatedPosition, Plain(<<"coin">>) \o Decimal(<<"szi">>))),
                 Plain(<<"vault">>) \o Decimal(<<"usdc">>),
                 Plain(<<"vault", "user">>)
                 \o Decimal(<<"requestedUsd", "commission", "closingCost", "basis",
                              "netWithdrawnUsd">>),
                 Plain(<<"user">>) \o Decimal(<<"usdc">>),
                 Plain(<<"token">>) \o Decimal(<<"amount", "usdcValue">>)
                 \o Plain(<<"user", "destination">>) \o Decimal(<<"fee">>),
                 Plain(<<"user", "destination", "sourceDex", "destinationDex", "token">>)
                 \o Decimal(<<"amount", "usdcValue", "fee", "nativeTokenFee">>)
                 \o Plain(<<"nonce", "feeToken">>),
                 Decimal(<<"usdc">>) \o Plain(<<"toPerp">>),
                 Plain(<<"token">>) \o Decimal(<<"amount">>),
                 Decimal(<<"amount">>),
                 <<>>>>)

crackUserNonFundingLedgerUpdates ==
    Soft(Plain(<<"isSnapshot">>))
    \o EachCaught({}, Plain(<<"time", "hash", "delta">>) \o crackLedgerDelta)

crackWebData3 ==
    One(WebData3UserState,
        Alt(<<<<>>,
              Soft(Plain(<<"agentAddress">>)) \o Soft(Plain(<<"agentValidUntil">>))
              \o Plain(<<"serverTime">>) \o Decimal(<<"cumLedger">>)
              \o Plain(<<"isVault", "user">>)
              \o Assign({"optOutOfSpotDusting", "dexAbstractionEnabled"})>>)
        \o Soft(EachCaught(PerpDexState,
               Decimal(<<"totalVaultEquity">>) \o Soft(Each({}, Plain(<<"cap">>)))
               \o Soft(Each({}, Plain(<<"address", "name">>))))))

\* state.time is not assigned, and leverageType only if there is a leverage.
crackInnerClearinghouseState ==
    Soft(EachCaught(AssetPosition,
        Plain(<<"position", "coin">>)
        \o Decimal(<<"szi", "entryPx", "positionValue", "unrealizedPnl", "returnOnEquity",
                     "marginUsed">>)
        \o Plain(<<"maxLeverage">>) \o Soft(Decimal(<<"liquidationPx">>))
        \o Assign({"hasLiquidationPx", "liquidationPx"})
        \o Alt(<<<<>>, Plain(<<"leverageType">>)>>)))
    \o Plain(<<"marginSummary">>)
    \o Decimal(<<"accountValue", "totalNtlPos", "totalRawUsd", "totalMarginUsed">>)
    \o Plain(<<"crossMarginSummary">>)
    \o Decimal(<<"cross.accountValue", "cross.totalNtlPos", "cross.totalRawUsd",
                 "cross.totalMarginUsed", "crossMaintenanceMarginUsed", "withdrawable">>)

crackClearinghouseState ==
    One(ClearinghouseState, Soft(Plain(<<"dex">>)) \o Plain(<<"user", "clearinghouseState">>)
                            \o crackInnerClearinghouseState)

crackAllDexsClearinghouseState ==
    One({}, Plain(<<"user">>)
            \o EachCaught({}, Alt(<<<<>>, Plain(<<"dex">>),
                                    Plain(<<"dex">>) \o crackInnerClearinghouseState>>)))

crackOpenOrders ==
    One({}, Soft(Plain(<<"dex">>)) \o Plain(<<"user">>) \o EachCaught(OpenOrder, parseOrder))

crackTwapState ==
    Plain(<<"coin", "user", "side">>) \o Decimal(<<"sz", "executedSz", "executedNtl">>)
    \o Plain(<<"minutes", "reduceOnly", "randomize", "timestamp">>)

crackTwapStates ==
    One({}, Soft(Plain(<<"dex">>)) \o Plain(<<"user">>)
            \o EachCaught({}, Alt(<<<<>>, Plain(<<"id">>), Plain(<<"id">>) \o crackTwapState>>)))

crackNotification == One({}, Plain(<<"notification">>))

crackUserTwapSliceFills ==
    Soft(Plain(<<"isSnapshot">>))
    \o EachCaught(TwapSliceFill, Plain(<<"fill">>) \o One(Fill, parseFillObject)
                                 \o Plain(<<"twapId">>))

crackUserTwapHistory ==
    Soft(Plain(<<"isSnapshot">>))
    \o EachCaught({}, Plain(<<"state">>) \o crackTwapState \o Plain(<<"status", "status">>)
                      \o Soft(Plain(<<"description">>)) \o Plain(<<"time">>))

crackActiveAssetData ==
    LET both(long, short) == Present(Decimal(<<long>>)) \o Present(Decimal(<<short>>))
    IN  One({}, Plain(<<"user", "coin">>) \o Alt(<<<<>>, Plain(<<"leverageType">>)>>)
                \o Plain(<<"maxTradeSzs">>) \o both("maxTradeSzLong", "maxTradeSzShort")
                \o Plain(<<"availableToTrade">>)
                \o both("availableToTradeLong", "availableToTradeShort"))

crackSpotState ==
    One({}, Plain(<<"user", "spotState">>)
            \o EachCaught(SpotBalance, Plain(<<"coin", "token">>)
                                       \o Decimal(<<"hold", "total", "entryNtl">>)))

-----------------------------------------------------------------------------
(* Channels. *)

\* toString(SubscriptionType): the channel of each subscription.
Channel ==
    [L2Book |-> "l2Book", Bbo |-> "bbo", Trades |-> "trades", Candle |-> "candle",
     AllMids |-> "allMids", Notification |-> "notification", WebData3 |-> "webData3",
     TwapStates |-> "twapStates", ClearingHouseState |-> "clearinghouseState",
     OpenOrders |-> "openOrders", OrderUpdates |-> "orderUpdates",
     UserEvents |-> "userEvents", UserFills |-> "userFills",
     UserFundings |-> "userFundings",
     UserNonFundingLedgerUpdates |-> "userNonFundingLedgerUpdates",
     ActiveAssetCtx |-> "activeAssetCtx", ActiveAssetData |-> "activeAssetData",
     UserTwapSliceFills |-> "userTwapSliceFills", UserTwapHistory |-> "userTwapHistory",
     SpotState |-> "spotState",
     AllDexsClearinghouseState |-> "allDexsClearinghouseState",
     AllDexsAssetCtxs |-> "allDexsAssetCtxs", FastAssetCtxs |-> "fastAssetCtxs",
     OutcomeMetaUpdates |-> "outcomeMetaUpdates"]

\* Channels that come without a subscription of their name.
OtherChannels == {"activeSpotAssetCtx", "subscriptionResponse", "error", "unknown"}

Data == Plain(<<"data">>)

\* crack(): the branch of each channel.
marketBranches ==
    [l2Book |-> Data \o crackL2Book, bbo |-> Data \o crackBbo,
     trades |-> Data \o crackTrades, candle |-> Data \o crackCandles,
     allMids |-> Data \o crackAllMids, activeAssetCtx |-> Data \o crackActiveAssetCtx,
     activeSpotAssetCtx |-> Data \o crackActiveAssetCtx,
     orderUpdates |-> Data \o crackOrderUpdates, userFills |-> Data \o crackUserFills,
     userEvents |-> Data \o crackUserEvents,
     subscriptionResponse |-> Data \o crackSubscriptionResponse,
     userFundings |-> Data \o crackUserFundings]

accountBranches ==
    [userNonFundingLedgerUpdates |-> Data \o crackUserNonFundingLedgerUpdates,
     webData3 |-> Data \o crackWebData3,
     clearinghouseState |-> Data \o crackClearinghouseState,
     openOrders |-> Data \o crackOpenOrders, twapStates |-> Data \o crackTwapStates,
     notification |-> Data \o crackNotification,
     userTwapSliceFills |-> Data \o crackUserTwapSliceFills,
     userTwapHistory |-> Data \o crackUserTwapHistory,
     activeAssetData |-> Data \o crackActiveAssetData,
     spotState |-> Data \o crackSpotState,
     allDexsClearinghouseState |-> Data \o crackAllDexsClearinghouseState,
     allDexsAssetCtxs |-> Data \o crackAllDexsAssetCtxs,
     fastAssetCtxs |-> Data \o crackFastAssetCtxs,
     outcomeMetaUpdates |-> Data \o crackOutcomeMetaUpdates]

crack ==
    [channel \in DOMAIN marketBranches \cup DOMAIN accountBranches |->
        IF channel \in DOMAIN marketBranches THEN marketBranches[channel]
        ELSE accountBranches[channel]]
=============================================================================
