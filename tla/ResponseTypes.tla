---------------------------- MODULE ResponseTypes ----------------------------
(***************************************************************************)
(* The structs of include/hyperliquid/types/ResponseTypes.h that a parser     *)
(* declares without "{}": for each, its members of a number, bool, char or    *)
(* enum type without an initialiser.  Such a member is indeterminate until    *)
(* it is assigned.                                                         *)
(***************************************************************************)

PriceLevel == {"side", "n"}
\* The bid and the ask of a BboUpdate are PriceLevels.
BboUpdate == {"time", "hasBid", "hasAsk", "bid.side", "ask.side", "bid.n", "ask.n"}
L2BookSnapshot == {"time", "numBids", "numAsks"}
PerpAssetCtx ==
    {"dayNtlVlm", "prevDayPx", "markPx", "midPx", "hasMidPx", "funding", "openInterest",
     "oraclePx"}
SpotAssetCtx ==
    {"dayNtlVlm", "prevDayPx", "markPx", "midPx", "hasMidPx", "circulatingSupply"}

\* crackTrades, crackCandles and crackAllMids use one object for all entries:
\* here every member counts, as it keeps the value of the entry before.
Trade == {"coin", "side", "px", "sz", "time", "tid", "hash", "buyer", "seller"}
Candle ==
    {"coin", "interval", "openTime", "closeTime", "open", "close", "high", "low",
     "volume", "numTrades"}
AllMidsEntry == {"coin", "mid"}

Fill ==
    {"side", "px", "sz", "time", "startPosition", "closedPnl", "oid", "crossed", "fee",
     "tid", "builderFee", "hasBuilderFee", "isLiquidation", "liquidationMarkPx",
     "liquidationMethod", "isSnapshot"}
OrderUpdate ==
    {"side", "limitPx", "sz", "oid", "timestamp", "origSz", "status", "statusTimestamp"}
UserFunding == {"time", "usdc", "szi", "fundingRate"}
Liquidation == {"lid", "liquidatedNtlPos", "liquidatedAccountValue"}
NonUserCancel == {"oid"}
AssetPosition ==
    {"szi", "entryPx", "positionValue", "unrealizedPnl", "returnOnEquity",
     "liquidationPx", "hasLiquidationPx", "marginUsed", "maxLeverage", "leverageType"}
\* With its two MarginSummary members.
ClearinghouseState ==
    {"accountValue", "totalNtlPos", "totalRawUsd", "totalMarginUsed",
     "cross.accountValue", "cross.totalNtlPos", "cross.totalRawUsd",
     "cross.totalMarginUsed", "crossMaintenanceMarginUsed", "withdrawable", "time"}
OpenOrder == {"side", "limitPx", "sz", "oid", "timestamp", "origSz"}
TwapSliceFill == {"twapId"}
LiquidatedPosition == {"szi"}
SpotBalance == {"token", "hold", "total", "entryNtl"}
PerpDexState == {"totalVaultEquity"}
WebData3UserState ==
    {"serverTime", "cumLedger", "isVault", "optOutOfSpotDusting", "dexAbstractionEnabled"}
SubscriptionResponse == {"method", "type"}

OutcomeStruct == {"outcome"}
AssetMeta == {"szDecimals", "maxLeverage"}
SpotAssetMeta == {"szDecimals", "weiDecimals", "index"}
MarginTier == {"lowerBound", "maxLeverage"}
MarginTableEntry == {"id"}
PerpDexMeta == {"collateralToken"}
RestBookLevel == {"n"}
RecentTrade == {"side", "px", "sz", "time", "tid"}
OrderStatusOrder == {"status", "statusTimestamp"}
SpotUniversePair == {"index", "isCanonical"}
FrontendOrder ==
    {"side", "limitPx", "sz", "oid", "timestamp", "origSz", "isPositionTpsl", "isTrigger",
     "triggerPx", "reduceOnly", "orderType"}
HistoricalOrder == {"status", "statusTimestamp"}
DailyUserVolume == {"userCross", "userAdd", "exchange"}
FeeTierVip == {"ntlCutoff", "cross", "add", "spotCross", "spotAdd"}
FeeTierMm == {"makerFractionCutoff", "add"}
StakingDiscountTier == {"bpsOfMaxSupply", "discount"}
ActiveStakingDiscount == {"bpsOfMaxSupply", "discount"}
PortfolioPeriodMetrics == {"period", "vlm"}
VaultFollower ==
    {"vaultEquity", "pnl", "allTimePnl", "daysFollowing", "vaultEntryTime", "lockupUntil"}
UserVaultEquity == {"equity"}
ReferralState ==
    {"cumVlm", "cumRewardedFeesSinceReferred", "cumFeesRewardedToReferrer", "timeJoined"}
TokenRewardState == {"cumVlm", "unclaimedRewards", "claimedRewards", "builderRewards"}
OrderStatusResting == {"oid"}
OrderStatusFilled == {"oid"}
Delegation == {"amount", "lockedUntilTimestamp"}
BorrowLendReserveEntry == {"token"}
=============================================================================
