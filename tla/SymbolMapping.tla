--------------------------- MODULE SymbolMapping ---------------------------
(***************************************************************************)
(* The symbol map that RestApi and WebsocketApi build when they are         *)
(* constructed: ExchangeRequestBuilder::initializeMapping                   *)
(* (src/messages/ExchangeRequestBuilder.cpp) over SymbolMap                 *)
(* (src/rest/SymbolMap.cpp).  It calls the exchange several times; a call   *)
(* that throws ends the construction.                                      *)
(*                                                                         *)
(* Responses are what the parsers make of them: a parse error leaves the    *)
(* entries before it, so any prefix of a listing may come, the empty one    *)
(* included.  Own names are unique on the exchange; the "BASE/QUOTE" alias  *)
(* of a spot pair may be the alias, or the own name, of another one.        *)
(***************************************************************************)
EXTENDS Naturals, Sequences, FiniteSets, SequencesExt, Functions

CONSTANTS
    PerpNames,    \* names of default perps
    PairNames,    \* own names of spot pairs
    Aliases,      \* "BASE/QUOTE" strings
    Indexes,      \* values of a pair's index field
    Dexes,        \* names of builder dexes
    DexAssets,    \* names of the perps of builder dexes
    MaxLength     \* bound: length of a listing

\* Own names are unique on the exchange, and a name without a "/" is no alias.
ASSUME NamesAssumption ==
    /\ PerpNames \cap (PairNames \cup Aliases) = {}
    /\ DexAssets \cap (PerpNames \cup PairNames \cup Aliases) = {}

\* The exchange's numbering: a default perp is below 10000, a spot pair below
\* the first builder dex, a dex has 10000 ids.
ASSUME NumberingAssumption ==
    /\ MaxLength \in Nat /\ MaxLength <= 10000
    /\ \A i \in Indexes : i \in Nat /\ i < 100000

\* tokens.size() # 2, and a token that tokenByIndex does not have.
NoAlias == "no alias"
Unlisted == "unlisted token"

VARIABLES
    api,            \* "RestApi" or "WebsocketApi": whose constructor runs
    \* ApiConfig:
    wallet, skip,   \* wallet.has_value(), skipBuildingSymbolMap
    wanted,         \* dexes
    step,           \* the next call or loop of initializeMapping, or how it ended
    symbols,        \* symbolToId_
    index,          \* entries of the current listing that the loop is done with
    perpIdx,
    \* What the exchange answered:
    perps,          \* names of the default perps
    pairs,          \* spot pairs [name, index, alias]
    dexes,          \* builder dexes
    assets          \* for each of them, the names of its perps

config == <<api, wallet, skip, wanted>>
answers == <<perps, pairs, dexes, assets>>
vars == <<config, step, symbols, index, perpIdx, answers>>

Init ==
    /\ api \in {"RestApi", "WebsocketApi"}
    /\ wallet \in BOOLEAN /\ skip \in BOOLEAN /\ wanted \in SUBSET Dexes
    /\ step = "constructing" /\ symbols = <<>> /\ index = 0 /\ perpIdx = 1
    /\ perps = <<>> /\ pairs = <<>> /\ dexes = <<>> /\ assets = <<>>

-----------------------------------------------------------------------------
\* SymbolMap::set overwrites, SymbolMap::add does not.
set(map, symbol, id) ==
    [s \in DOMAIN map \cup {symbol} |-> IF s = symbol THEN id ELSE map[s]]

add(map, symbol, id) == IF symbol \in DOMAIN map THEN map ELSE set(map, symbol, id)

SpotId(pair) == pair.index + 10000

\* Wrong variant: all dexes share one range.
DexIdUnscaled(position, i) == 110000 + i

\* Wrong variant: perpIdx is not counted on for a dex that is passed over.
DexIdUncounted(position, i) ==
    100000 + 10000 * Cardinality({j \in 1 .. position : dexes[j] \in wanted}) + i

DexId(position, i) == 100000 + position * 10000 + i

\* initializeMapping returns at once when there is no wallet.
initializeMapping ==
    /\ step = "constructing"
    /\ step' = IF wallet THEN "meta" ELSE "built"
    /\ UNCHANGED <<config, symbols, index, perpIdx, answers>>

RestApiConstructor ==
    /\ api = "RestApi"
    /\ IF skip
       THEN /\ step = "constructing" /\ step' = "built"
            /\ UNCHANGED <<config, symbols, index, perpIdx, answers>>
       ELSE initializeMapping

\* WebsocketApi sets skipBuildingSymbolMap for its RestApi and then calls
\* initializeMapping itself, whatever the caller's value was.
WebsocketApiConstructor == api = "WebsocketApi" /\ initializeMapping

CallThrows ==
    /\ step \in {"meta", "spot", "dexs", "dexMeta"}
    /\ step' = "thrown"
    /\ UNCHANGED <<config, symbols, index, perpIdx, answers>>

\* Listings of names, none of them twice.
Universes(names) == {u \in SeqOf(names, MaxLength) : IsInjective(u)}

meta ==
    /\ step = "meta"
    /\ perps' \in Universes(PerpNames)
    /\ step' = "perps" /\ index' = 0
    /\ UNCHANGED <<config, symbols, perpIdx, pairs, dexes, assets>>

\* One round of the loop over the perps, or its end.
setPerp ==
    /\ step = "perps"
    /\ IF index < Len(perps)
       THEN /\ symbols' = set(symbols, perps[index + 1], index)
            /\ index' = index + 1
            /\ UNCHANGED step
       ELSE step' = "spot" /\ UNCHANGED <<symbols, index>>
    /\ UNCHANGED <<config, perpIdx, answers>>

\* Listings of spot pairs: own names and indexes are unique.
Listings ==
    {l \in SeqOf([name : PairNames, index : Indexes,
                  alias : Aliases \cup {NoAlias, Unlisted}], MaxLength) :
        \A i, j \in DOMAIN l :
            l[i].name = l[j].name \/ l[i].index = l[j].index => i = j}

spotMetaAndAssetCtxs ==
    /\ step = "spot"
    /\ pairs' \in Listings
    /\ step' = "pairs" /\ index' = 0
    /\ UNCHANGED <<config, symbols, perpIdx, perps, dexes, assets>>

Aliased(map, pair) ==
    IF pair.alias \in {NoAlias, Unlisted} THEN map ELSE add(map, pair.alias, SpotId(pair))

\* Wrong variant: an own name gives way to an alias that came first.
addPairTimid(map, pair) == Aliased(add(map, pair.name, SpotId(pair)), pair)

addPair(map, pair) == Aliased(set(map, pair.name, SpotId(pair)), pair)

\* One round of the loop over the pairs, or its end.  tokenByIndex.at() throws
\* at the first pair with an unknown token, after its own name was set.
setPair ==
    /\ step = "pairs"
    /\ IF index < Len(pairs)
       THEN /\ symbols' = addPair(symbols, pairs[index + 1])
            /\ index' = index + 1
            /\ step' = IF pairs[index + 1].alias = Unlisted THEN "thrown" ELSE step
       ELSE /\ step' = IF wanted = {} THEN "built" ELSE "dexs"
            /\ UNCHANGED <<symbols, index>>
    /\ UNCHANGED <<config, perpIdx, answers>>

perpDexs ==
    /\ step = "dexs"
    /\ dexes' \in Universes(Dexes)
    /\ assets' = [d \in DOMAIN dexes' |-> <<>>]
    /\ step' = "dexLoop"
    /\ UNCHANGED <<config, symbols, index, perpIdx, perps, pairs>>

\* A round of the loop over the dexes begins: one that is not wanted is only
\* counted.
dexRound ==
    /\ step = "dexLoop"
    /\ IF perpIdx > Len(dexes)
       THEN step' = "built" /\ UNCHANGED perpIdx
       ELSE IF dexes[perpIdx] \in wanted
            THEN step' = "dexMeta" /\ UNCHANGED perpIdx
            ELSE perpIdx' = perpIdx + 1 /\ UNCHANGED step
    /\ UNCHANGED <<config, symbols, index, answers>>

dexMeta ==
    /\ step = "dexMeta"
    /\ \E universe \in Universes(DexAssets) :
         /\ \A d \in DOMAIN assets : Range(universe) \cap Range(assets[d]) = {}
         /\ assets' = [assets EXCEPT ![perpIdx] = universe]
    /\ step' = "dexAssets" /\ index' = 0
    /\ UNCHANGED <<config, symbols, perpIdx, perps, pairs, dexes>>

\* One round of the loop over the perps of a dex, or its end.
setDexAsset ==
    /\ step = "dexAssets"
    /\ IF index < Len(assets[perpIdx])
       THEN /\ symbols' = set(symbols, assets[perpIdx][index + 1], DexId(perpIdx, index))
            /\ index' = index + 1
            /\ UNCHANGED <<step, perpIdx>>
       ELSE step' = "dexLoop" /\ perpIdx' = perpIdx + 1 /\ UNCHANGED <<symbols, index>>
    /\ UNCHANGED <<config, answers>>

Ended == step \in {"built", "thrown"} /\ UNCHANGED vars

Next ==
    \/ RestApiConstructor \/ WebsocketApiConstructor \/ CallThrows
    \/ meta \/ setPerp \/ spotMetaAndAssetCtxs \/ setPair
    \/ perpDexs \/ dexRound \/ dexMeta \/ setDexAsset
    \/ Ended

Spec == Init /\ [][Next]_vars

-----------------------------------------------------------------------------
(* Properties. *)

\* Of a client that was constructed: perps and spot pairs are found under their
\* own names, whichever aliases came first ("a pair's own real name always wins
\* over an alias"), and an alias that nobody has as own name belongs to the
\* first pair that claims it.
NamesResolve ==
    step = "built" =>
        /\ \A i \in DOMAIN perps : symbols[perps[i]] = i - 1
        /\ \A i \in DOMAIN pairs : symbols[pairs[i].name] = SpotId(pairs[i])
        /\ \A i \in DOMAIN pairs :
            LET alias == pairs[i].alias
            IN  \/ alias = NoAlias
                \/ \E p \in Range(pairs) : p.name = alias
                \/ \E j \in 1 .. i - 1 : pairs[j].alias = alias
                \/ symbols[alias] = SpotId(pairs[i])
        /\ \A d \in DOMAIN dexes : \A i \in DOMAIN assets[d] :
              symbols[assets[d][i]] = DexId(d, i - 1)

\* An order never goes to another asset than the one it names: the id of a
\* symbol is the exchange's id of an asset that has this name or alias.  The
\* exchange numbers builder dexes by their position in its own listing.
ResolvesToNamesake ==
    \A s \in DOMAIN symbols :
        \/ \E i \in DOMAIN perps : perps[i] = s /\ symbols[s] = i - 1
        \/ \E p \in Range(pairs) : s \in {p.name, p.alias} /\ symbols[s] = 10000 + p.index
        \/ \E d \in DOMAIN assets : \E i \in DOMAIN assets[d] :
              s = assets[d][i] /\ symbols[s] = 100000 + 10000 * d + i - 1

\* Two symbols share an id only as name and alias of one spot pair.
SharedIdsAreAliases ==
    \A s, t \in DOMAIN symbols :
        s # t /\ symbols[s] = symbols[t] =>
            \E p \in Range(pairs) : {s, t} = {p.name, p.alias}
=============================================================================
