----------------------------- MODULE RestParsers -----------------------------
(***************************************************************************)
(* RestApiMessageParser: one definition per parse function, under its name.  *)
(* Each function validates the document, reads it inside one try block that   *)
(* catches simdjson_error only, and returns what it has by then.             *)
(***************************************************************************)
EXTENDS JsonShapes, ResponseTypes

(* Answers to actions. *)

orderStatus ==
    Present(One(OrderStatusResting, Plain(<<"oid">>) \o Nullable(Plain(<<"cloid">>))))
    \o Present(One(OrderStatusFilled,
           Plain(<<"totalSz", "avgPx", "oid">>) \o Nullable(Plain(<<"cloid">>))))
    \o Present(Plain(<<"error">>))

\* Wrong variant: a status that cannot be read is left out of the list.
orderStatusesCaught == EachCaught({}, orderStatus)

orderStatuses == Each({}, orderStatus)

parsePlaceOrder ==
    Status(<<>>) \o Plain(<<"response", "type">>) \o MayReturn \o orderStatuses

parseModifyOrder ==
    Status(<<>>) \o Plain(<<"response", "type">>) \o MayReturn \o orderStatuses

parseCancelOrder ==
    Status(<<>>) \o Plain(<<"response", "type">>) \o MayReturn
    \o Each({}, Plain(<<"type()">>)
                \o Alt(<<Plain(<<"success">>), Present(Plain(<<"error">>)), <<>>>>))

parseSimpleResponse ==
    Status(Soft(Plain(<<"error">>))) \o Plain(<<"response", "type">>)

parseTwapOrder ==
    Status(Soft(Plain(<<"error">>))) \o Plain(<<"response", "type">>)
    \o Alt(<<<<>>, Plain(<<"status">>) \o Alt(<<<<>>, Plain(<<"running", "twapId">>)>>)
                                       \o Present(Plain(<<"error">>))>>)

parseTwapCancel ==
    Status(Soft(Plain(<<"error">>))) \o Plain(<<"response", "type">>)
    \o Alt(<<<<>>, Plain(<<"success">>), Present(Plain(<<"error">>))>>)

parseCreateSubAccount ==
    Status(Soft(Plain(<<"error">>))) \o Plain(<<"response", "type">>)
    \o Soft(Plain(<<"subAccountUser">>))

parseCreateVault ==
    Status(Soft(Plain(<<"error">>))) \o Plain(<<"response", "type">>)
    \o Present(Plain(<<"vaultAddress">>))

-----------------------------------------------------------------------------
(* Metadata. *)

parseOutcomeSpec ==
    Plain(<<"outcome", "name">>) \o Expiry(<<"description">>)
    \o Each({}, Plain(<<"name">>) \o Soft(Plain(<<"token">>)))
    \o Soft(Plain(<<"quoteToken">>)) \o Soft(Plain(<<"deployer">>))

parseOutcomeMeta == Each(OutcomeStruct, parseOutcomeSpec)

parseSettledOutcome ==
    Declare(OutcomeStruct) \o MayReturn \o Plain(<<"spec">>) \o parseOutcomeSpec
    \o Number(<<"settleFraction">>) \o Plain(<<"details">>)
    \o Soft(One({}, Plain(<<"question", "questionId", "name", "description">>)))

\* [asset, text] pairs; a pair without both is passed over.
pairsOf(second) == Each({}, Element(Plain(<<"first">>)) \o Element(second))

\* The first entry is skipped unread.
parsePerpDexs ==
    Each({}, Plain(<<"name", "fullName", "deployer">>)
             \o Nullable(Plain(<<"oracleUpdater">>)) \o Nullable(Plain(<<"feeRecipient">>))
             \o pairsOf(Plain(<<"second">>)) \o pairsOf(Plain(<<"second">>)))

parsePerpDexLimits ==
    MayReturn \o Number(<<"totalOiCap", "oiSzCapPerPerp", "maxTransferNtl">>)
    \o pairsOf(Number(<<"second">>))

parsePerpDexStatus == MayReturn \o Number(<<"totalNetDeposit">>)

parsePerpsAtOpenInterestCap == Each({}, Plain(<<"coin">>))

\* A venue without funding data has null in place of it, or nothing.
parsePredictedFundings ==
    Each({}, Element(Plain(<<"coin">>))
             \o Element(Each({}, Element(Plain(<<"venue">>))
                    \o Nullable(One({}, Nullable(Number(<<"fundingRate">>))
                                        \o Nullable(Plain(<<"nextFundingTime">>)))))))

parsePerpAnnotation == MayReturn \o Plain(<<"category", "description">>)

parsePerpCategories == pairsOf(Plain(<<"second">>))

parsePerpConciseAnnotations ==
    Each({}, Element(Plain(<<"coin">>)) \o Element(Plain(<<"annotation">>))
             \o Plain(<<"category">>) \o Soft(Each({}, Plain(<<"keyword">>))))

\* The members of an asset are taken as they come: none of them is required.
parseAllPerpMetas ==
    Each(PerpDexMeta,
        Each(AssetMeta, Present(Plain(<<"name">>)) \o Present(Plain(<<"szDecimals">>))
                        \o Present(Plain(<<"maxLeverage">>)))
        \o Soft(Each(MarginTableEntry,
               Element(Plain(<<"id">>)) \o Element(Plain(<<"table">>))
               \o Plain(<<"description">>)
               \o Each(MarginTier, Number(<<"lowerBound">>) \o Plain(<<"maxLeverage">>))))
        \o Assign({"collateralToken"}) \o Nullable(Plain(<<"collateralToken">>)))

deployAuctionStatus ==
    Plain(<<"startTimeSeconds", "durationSeconds">>) \o Number(<<"startGas">>)
    \o Nullable(Number(<<"currentGas">>)) \o Nullable(Number(<<"endGas">>))

parsePerpDeployAuctionStatus == deployAuctionStatus

parseAssetMeta == Plain(<<"name", "szDecimals", "maxLeverage">>)

parseMeta == Each(AssetMeta, parseAssetMeta)

parseSpotAssetMeta ==
    Plain(<<"name", "szDecimals", "weiDecimals", "index", "tokenId", "isCanonical">>)
    \o Nullable(One({}, Plain(<<"address", "evm_extra_wei_decimals">>)))
    \o Nullable(Plain(<<"fullName">>))

parseSpotMeta == Each(SpotAssetMeta, parseSpotAssetMeta)

parsePerpAssetCtx ==
    Number(<<"dayNtlVlm", "prevDayPx", "markPx">>) \o Soft(Number(<<"midPx">>))
    \o Assign({"hasMidPx", "midPx"}) \o Number(<<"funding", "openInterest", "oraclePx">>)

universe == Each(AssetMeta, parseAssetMeta)

\* The coin of a context is the name at its index in the universe.
parseMetaAndAssetCtxs ==
    MayReturn \o Plain(<<"meta">>) \o universe \o MayReturn
    \o Each(PerpAssetCtx, parsePerpAssetCtx)

parseSpotMetaAndAssetCtxs ==
    MayReturn \o Plain(<<"meta">>) \o Each(SpotAssetMeta, parseSpotAssetMeta)
    \o Each(SpotUniversePair, Plain(<<"name">>) \o Each({}, Plain(<<"token">>))
                              \o Plain(<<"index", "isCanonical">>))
    \o MayReturn
    \o Each(SpotAssetCtx, Number(<<"dayNtlVlm", "prevDayPx", "markPx">>)
                          \o Soft(Number(<<"midPx">>))
                          \o Assign({"hasMidPx", "midPx", "circulatingSupply"})
                          \o Nullable(Number(<<"circulatingSupply">>)))

parseSpotPairDeployAuctionStatusObj == deployAuctionStatus

parseSpotPairDeployAuctionStatus == One({}, parseSpotPairDeployAuctionStatusObj)

parseSpotDeployState ==
    Each({},
        Plain(<<"token", "spec", "name", "szDecimals", "weiDecimals">>)
        \o Nullable(Plain(<<"fullName">>)) \o Number(<<"deployerTradingFeeShare">>)
        \o Each({}, Plain(<<"spot">>)) \o Nullable(Number(<<"maxSupply">>))
        \o Number(<<"hyperliquidityGenesisBalance", "totalGenesisBalanceWei">>)
        \o pairsOf(Number(<<"second">>)) \o pairsOf(Number(<<"second">>))
        \o Soft(Each({}, Plain(<<"blacklistUser">>))))
    \o One({}, parseSpotPairDeployAuctionStatusObj)

parseExchangeStatus == Nullable(Each({}, Plain(<<"specialStatus">>))) \o Plain(<<"time">>)

-----------------------------------------------------------------------------
(* Market data. *)

\* response.time = 0 comes before anything that can fail.
parseL2Book ==
    LET side == Present(Each(RestBookLevel, Plain(<<"px", "sz", "n">>)))
    IN  Plain(<<"coin", "time", "levels">>) \o side \o side

parseCandleSnapshot ==
    Each(Candle, Plain(<<"coin", "interval", "openTime", "closeTime">>)
                 \o Number(<<"open", "close", "high", "low", "volume">>)
                 \o Plain(<<"numTrades">>))

parseRecentTrades ==
    Each(RecentTrade, Plain(<<"coin", "side">>) \o Number(<<"px", "sz">>)
                      \o Plain(<<"time", "hash", "tid", "users">>)
                      \o Present(Plain(<<"users0">>)) \o Present(Plain(<<"users1">>)))

parseAllMids == Each(AllMidsEntry, Plain(<<"coin">>) \o Number(<<"mid">>))

parseFundingHistory ==
    Each({}, Plain(<<"coin">>) \o Number(<<"fundingRate", "premium">>) \o Plain(<<"time">>))

-----------------------------------------------------------------------------
(* Orders and fills. *)

parseFillEntry ==
    Plain(<<"coin">>) \o Number(<<"px", "sz">>) \o Plain(<<"side", "time">>)
    \o Number(<<"startPosition">>) \o Plain(<<"dir">>) \o Number(<<"closedPnl">>)
    \o Plain(<<"hash", "oid", "crossed">>) \o Number(<<"fee">>)
    \o Plain(<<"tid", "feeToken">>)
    \o Soft(Number(<<"builderFee">>)) \o Assign({"hasBuilderFee", "builderFee"})
    \o Soft(One({}, Plain(<<"liquidatedUser">>) \o Number(<<"markPx">>)
                    \o Plain(<<"method">>)))
    \o Assign({"isLiquidation", "liquidationMarkPx", "liquidationMethod", "isSnapshot"})

parseUserFills == Each(Fill, parseFillEntry)

parseUserFillsByTime == parseUserFills

parseUserTwapSliceFills ==
    Each(TwapSliceFill, Plain(<<"fill">>) \o One(Fill, parseFillEntry)
                        \o Plain(<<"twapId">>))

parseUserTwapSliceFillsByTime == parseUserTwapSliceFills

parseOpenOrderEntry ==
    Plain(<<"coin", "side">>) \o Number(<<"limitPx", "sz">>)
    \o Plain(<<"oid", "timestamp">>) \o Number(<<"origSz">>)
    \o Nullable(Plain(<<"cloid">>))

parseOpenOrders == Each(OpenOrder, parseOpenOrderEntry)

parseOrderStatus ==
    Plain(<<"status">>)
    \o Nullable(One(OrderStatusOrder,
           Plain(<<"order">>) \o One(OpenOrder, parseOpenOrderEntry)
           \o Plain(<<"status", "statusTimestamp">>)))

parseFrontendOrderEntry ==
    parseOpenOrderEntry \o Plain(<<"isPositionTpsl", "isTrigger">>)
    \o Number(<<"triggerPx">>) \o Plain(<<"triggerCondition", "reduceOnly", "orderType">>)
    \o Nullable(Plain(<<"tif">>))

parseFrontendOpenOrders == Each(FrontendOrder, parseFrontendOrderEntry)

parseHistoricalOrders ==
    Each(HistoricalOrder,
        Plain(<<"order">>) \o One(FrontendOrder, parseFrontendOrderEntry)
        \o Plain(<<"status", "statusTimestamp">>))

parseTwapStateEntry ==
    Plain(<<"coin", "user", "side">>) \o Number(<<"sz", "executedSz", "executedNtl">>)
    \o Plain(<<"minutes", "reduceOnly", "randomize", "timestamp">>)

\* The one REST parser with a try block of its own around each entry.
parseTwapHistory ==
    EachCaught({}, Plain(<<"time", "state">>) \o parseTwapStateEntry
                   \o Plain(<<"status", "status">>) \o Soft(Plain(<<"description">>))
                   \o Plain(<<"twapId">>))

-----------------------------------------------------------------------------
(* Accounts. *)

marginSummary ==
    Number(<<"accountValue", "totalNtlPos", "totalRawUsd", "totalMarginUsed">>)

\* Catches errors itself, and returns what it has read.  marginUsed,
\* maxLeverage and leverageType of a position are not read.
parseClearinghouseStateObj ==
    OneCaught({},
        Plain(<<"marginSummary">>) \o marginSummary
        \o Nullable(One({}, marginSummary)) \o Soft(Number(<<"crossMaintenanceMarginUsed">>))
        \o Number(<<"withdrawable">>) \o Plain(<<"time">>)
        \o Each(AssetPosition,
               Plain(<<"position", "coin">>)
               \o Number(<<"szi", "entryPx", "positionValue", "unrealizedPnl",
                           "returnOnEquity">>)
               \o Soft(Number(<<"liquidationPx">>))
               \o Assign({"hasLiquidationPx", "liquidationPx"})))

parseClearinghouseState == parseClearinghouseStateObj

parseSpotClearinghouseStateObj ==
    Each(SpotBalance, Plain(<<"coin", "token">>) \o Number(<<"hold", "total", "entryNtl">>))

\* Read into a local: an error leaves no balances at all.
parseSpotClearinghouseState == One({}, parseSpotClearinghouseStateObj)

parseSubAccounts ==
    MayReturn
    \o Each({}, Plain(<<"name", "subAccountUser", "master">>)
                \o parseClearinghouseStateObj
                \o Plain(<<"spotState">>) \o parseSpotClearinghouseStateObj)

parseActiveAssetData ==
    LET both(long, short) == Present(Number(<<long>>)) \o Present(Number(<<short>>))
    IN  Plain(<<"user", "coin", "leverage", "type">>) \o Number(<<"value">>)
        \o Soft(Number(<<"rawUsd">>))
        \o Plain(<<"maxTradeSzs">>) \o both("maxTradeSzLong", "maxTradeSzShort")
        \o Plain(<<"availableToTrade">>)
        \o both("availableToTradeLong", "availableToTradeShort")
        \o Number(<<"markPx">>)

parseUserFees ==
    Each(DailyUserVolume, Plain(<<"date">>) \o Number(<<"userCross", "userAdd", "exchange">>))
    \o Plain(<<"feeSchedule">>)
    \o Number(<<"cross", "add", "spotCross", "spotAdd", "referralDiscount">>)
    \o Plain(<<"tiers">>)
    \o Each(FeeTierVip, Number(<<"ntlCutoff", "cross", "add", "spotCross", "spotAdd">>))
    \o Each(FeeTierMm, Number(<<"makerFractionCutoff", "add">>))
    \o Each(StakingDiscountTier, Number(<<"bpsOfMaxSupply", "discount">>))
    \o Number(<<"userCrossRate", "userAddRate", "userSpotCrossRate", "userSpotAddRate",
                "activeReferralDiscount", "feeTrialEscrow">>)
    \o Nullable(Plain(<<"nextTrialAvailableTimestamp">>))
    \o Nullable(One({}, Plain(<<"type", "stakingUser">>)))
    \o Nullable(One(ActiveStakingDiscount, Number(<<"bpsOfMaxSupply", "discount">>)))

parseMaxBuilderFee == Plain(<<"maxFeeRateTenthsBps">>)

parseApprovedBuilders == Each({}, Plain(<<"builder">>))

parseUserDexAbstractionState == MayReturn \o Plain(<<"enabled">>)

parseUserAbstraction == Plain(<<"state">>)

parseUserRateLimit ==
    Number(<<"cumVlm">>) \o Plain(<<"nRequestsUsed", "nRequestsCap", "nRequestsSurplus">>)

\* A point of a history is a [time, value] pair.
parsePortfolioArray ==
    Each(PortfolioPeriodMetrics,
        Element(Plain(<<"period">>)) \o Element(Plain(<<"metrics">>))
        \o pairsOf(Number(<<"second">>)) \o pairsOf(Number(<<"second">>)) \o Number(<<"vlm">>))

\* Read into a local, like the portfolio of a vault.
parsePortfolio == One({}, parsePortfolioArray)

parseVaultDetails ==
    Plain(<<"name", "vaultAddress", "leader", "description">>)
    \o One({}, parsePortfolioArray) \o Number(<<"apr">>)
    \o Soft(Plain(<<"followerState">>)) \o Number(<<"leaderFraction", "leaderCommission">>)
    \o Each(VaultFollower, Plain(<<"user">>) \o Number(<<"vaultEquity", "pnl", "allTimePnl">>)
                           \o Plain(<<"daysFollowing", "vaultEntryTime", "lockupUntil">>))
    \o Number(<<"maxDistributable", "maxWithdrawable">>) \o Plain(<<"isClosed">>)
    \o Nullable(One({}, Plain(<<"type">>) \o Soft(Each({}, Plain(<<"childAddress">>)))))
    \o Plain(<<"allowDeposits", "alwaysCloseOnWithdraw">>)

parseUserVaultEquities ==
    Each(UserVaultEquity, Plain(<<"vaultAddress">>) \o Number(<<"equity">>))

rewards == Number(<<"cumVlm", "unclaimedRewards", "claimedRewards", "builderRewards">>)

parseReferral ==
    Nullable(One({}, Plain(<<"referrer", "code">>))) \o rewards
    \o Soft(One(TokenRewardState,
           Element(Plain(<<"pair">>)) \o Element(Plain(<<"tokenIndex">>))
           \o Element(Plain(<<"state">>)) \o rewards))
    \o Nullable(One({},
           Plain(<<"stage">>)
           \o Alt(<<<<>>,
                  Number(<<"required">>),
                  Soft(Plain(<<"code">>))
                  \o Soft(Each(ReferralState,
                         Number(<<"cumVlm", "cumRewardedFeesSinceReferred",
                                  "cumFeesRewardedToReferrer">>)
                         \o Plain(<<"timeJoined", "user">>)))>>)))

parseUserRole ==
    Plain(<<"role">>)
    \o Alt(<<<<>>, Soft(Plain(<<"agentUser">>)), Soft(Plain(<<"subAccountMaster">>))>>)

-----------------------------------------------------------------------------
(* Staking, borrowing and lending, ledgers. *)

parseDelegations ==
    Each(Delegation, Plain(<<"validator">>) \o Number(<<"amount">>)
                     \o Plain(<<"lockedUntilTimestamp">>))

parseDelegatorSummary ==
    Number(<<"delegated", "undelegated", "totalPendingWithdrawal">>)
    \o Plain(<<"nPendingWithdrawals">>)

parseDelegatorHistory ==
    Each({}, Plain(<<"time", "hash", "delta">>)
             \o Alt(<<Plain(<<"validator">>) \o Number(<<"amount">>)
                      \o Plain(<<"isUndelegate">>),
                      Number(<<"amount">>),
                      Number(<<"amount">>) \o Plain(<<"phase">>),
                      <<>>>>))

parseDelegatorRewards ==
    Each({}, Plain(<<"time", "source">>) \o Number(<<"totalAmount">>))

parseBorrowLendReserveStateFields ==
    Number(<<"borrowYearlyRate", "supplyYearlyRate", "balance", "utilization", "oraclePx",
             "ltv", "totalSupplied", "totalBorrowed">>)

\* Read into a local: an error leaves all zeros.
parseBorrowLendReserveState == One({}, parseBorrowLendReserveStateFields)

parseAllBorrowLendReserveStates ==
    Each(BorrowLendReserveEntry,
        Element(Plain(<<"token">>)) \o Element(Plain(<<"state">>))
        \o parseBorrowLendReserveStateFields)

parseBorrowLendUserState ==
    Each({}, Element(Plain(<<"token">>)) \o Element(Plain(<<"position">>))
             \o Plain(<<"borrow">>) \o Number(<<"basis", "value">>)
             \o Plain(<<"supply">>) \o Number(<<"basis", "value">>))
    \o Plain(<<"health">>) \o Nullable(Number(<<"healthFactor">>))

parseUserBorrowLendInterest ==
    Each({}, Plain(<<"time", "token">>) \o Number(<<"borrow", "supply">>))

parseLiquidatable ==
    Each({}, Plain(<<"user", "positionIndex", "isolated", "asset", "marginAvailable">>)
             \o Present(Plain(<<"marginAvailable0">>))
             \o Present(Plain(<<"marginAvailable1">>)))

parseLedgerUpdateDelta ==
    LET transfer == Number(<<"usdc">>) \o Plain(<<"user", "destination">>)
    IN  Plain(<<"type">>)
        \o Alt(<<Plain(<<"coin">>) \o Number(<<"fundingRate", "szi", "usdc">>)
                 \o Nullable(Number(<<"nSamples">>)),
                 Number(<<"usdc">>),
                 Number(<<"usdc", "fee">>) \o Soft(Plain(<<"nonce">>)),
                 Number(<<"usdc">>) \o Soft(Plain(<<"toPerp">>)),
                 transfer \o Number(<<"fee">>),
                 transfer,
                 Plain(<<"token">>) \o Number(<<"amount", "usdcValue">>)
                 \o Plain(<<"user", "destination">>) \o Number(<<"fee", "nativeTokenFee">>),
                 Soft(Plain(<<"rawJson">>))>>)

parseUserFundingLedgerUpdateResponse ==
    Each({}, Plain(<<"time", "hash", "delta">>) \o parseLedgerUpdateDelta)

parseUserFunding == parseUserFundingLedgerUpdateResponse

parseUserNonFundingLedgerUpdates == parseUserFundingLedgerUpdateResponse
=============================================================================
