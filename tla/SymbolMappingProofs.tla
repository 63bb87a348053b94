------------------------ MODULE SymbolMappingProofs ------------------------
(***************************************************************************)
(* Proofs about SymbolMapping: the map is right for all listings of any      *)
(* length, whatever their order and wherever they are cut short.            *)
(***************************************************************************)
EXTENDS SymbolMapping, TLAPS

-----------------------------------------------------------------------------
(* The operators of SymbolMap. *)

HasAlias(pair) == pair.alias \notin {NoAlias, Unlisted}

\* A pair takes its own name from whoever had it, its alias from nobody.
LEMMA AddPairMeans ==
  ASSUME NEW map, NEW pair
  PROVE  /\ DOMAIN addPair(map, pair) =
               DOMAIN map \cup {pair.name} \cup (IF HasAlias(pair) THEN {pair.alias} ELSE {})
         /\ addPair(map, pair)[pair.name] = SpotId(pair)
         /\ \A t \in DOMAIN map : t # pair.name => addPair(map, pair)[t] = map[t]
         /\ HasAlias(pair) /\ pair.alias \notin DOMAIN map \cup {pair.name}
               => addPair(map, pair)[pair.alias] = SpotId(pair)
  <1>1. PICK named : named = set(map, pair.name, SpotId(pair))
    OBVIOUS
  <1>2. /\ DOMAIN named = DOMAIN map \cup {pair.name}
        /\ named[pair.name] = SpotId(pair)
        /\ \A t \in DOMAIN map : t # pair.name => named[t] = map[t]
    BY <1>1 DEF set
  <1>3. addPair(map, pair) = IF HasAlias(pair) THEN add(named, pair.alias, SpotId(pair)) ELSE named
    BY <1>1 DEF addPair, Aliased, HasAlias
  <1>4. CASE HasAlias(pair)
    <2>1. /\ DOMAIN add(named, pair.alias, SpotId(pair)) = DOMAIN named \cup {pair.alias}
          /\ pair.alias \notin DOMAIN named =>
               add(named, pair.alias, SpotId(pair))[pair.alias] = SpotId(pair)
          /\ \A t \in DOMAIN named : add(named, pair.alias, SpotId(pair))[t] = named[t]
      BY DEF add, set
    <2> QED BY <1>2, <1>3, <1>4, <2>1
  <1>5. CASE ~HasAlias(pair)
    BY <1>2, <1>3, <1>5
  <1> QED BY <1>4, <1>5

-----------------------------------------------------------------------------
(* Listings. *)

LEMMA ListMeans ==
  ASSUME NEW S, NEW u \in SeqOf(S, MaxLength)
  PROVE  /\ u \in Seq(S) /\ Len(u) \in 0 .. MaxLength /\ DOMAIN u = 1 .. Len(u)
         /\ \A i \in 1 .. Len(u) : u[i] \in S
  <1>1. PICK m \in 0 .. MaxLength : u \in [1 .. m -> S]
    BY DEF SeqOf
  <1>2. u \in Seq(S) /\ Len(u) = m
    <2>1. m \in Nat /\ DOMAIN u = 1 .. m
      BY <1>1, NumberingAssumption
    <2>2. u \in Seq(S)
      BY <1>1, <2>1
    <2>3. Len(u) \in Nat /\ DOMAIN u = 1 .. Len(u)
      BY <2>2
    <2> QED BY <2>1, <2>2, <2>3
  <1> QED BY <1>1, <1>2

LEMMA UniverseMeans ==
  ASSUME NEW S, NEW u \in Universes(S)
  PROVE  /\ Len(u) \in 0 .. MaxLength /\ DOMAIN u = 1 .. Len(u)
         /\ \A i \in 1 .. Len(u) : u[i] \in S
         /\ \A i, j \in 1 .. Len(u) : u[i] = u[j] => i = j
  <1>1. u \in SeqOf(S, MaxLength) /\ IsInjective(u)
    BY DEF Universes
  <1> QED BY <1>1, ListMeans DEF IsInjective

LEMMA ListingMeans ==
  ASSUME NEW l \in Listings
  PROVE  /\ Len(l) \in 0 .. MaxLength /\ DOMAIN l = 1 .. Len(l)
         /\ \A i \in 1 .. Len(l) : /\ l[i].name \in PairNames /\ l[i].index \in Indexes
                                   /\ l[i].alias \in Aliases \cup {NoAlias, Unlisted}
         /\ \A i, j \in 1 .. Len(l) : l[i].name = l[j].name => i = j
         /\ \A i, j \in 1 .. Len(l) : l[i].index = l[j].index => i = j
  <1>1. l \in SeqOf([name : PairNames, index : Indexes,
                     alias : Aliases \cup {NoAlias, Unlisted}], MaxLength)
    BY DEF Listings
  <1>2. \A i, j \in DOMAIN l : l[i].name = l[j].name \/ l[i].index = l[j].index => i = j
    BY DEF Listings
  <1>3. /\ Len(l) \in 0 .. MaxLength /\ DOMAIN l = 1 .. Len(l)
        /\ \A i \in 1 .. Len(l) : l[i] \in [name : PairNames, index : Indexes,
                                            alias : Aliases \cup {NoAlias, Unlisted}]
    BY <1>1, ListMeans
  <1> QED BY <1>2, <1>3

LEMMA EmptyListings ==
  /\ \A S : <<>> \in Universes(S)
  /\ <<>> \in Listings
  <1>1. ASSUME NEW S PROVE <<>> \in SeqOf(S, MaxLength)
    <2>1. <<>> \in Seq(S) /\ Len(<<>>) = 0
      OBVIOUS
    <2>3. <<>> \in [1 .. 0 -> S]
      BY <2>1
    <2>2. 0 \in 0 .. MaxLength
      BY NumberingAssumption
    <2> QED BY <2>2, <2>3 DEF SeqOf
  <1>2. DOMAIN <<>> = {}
    OBVIOUS
  <1> QED BY <1>1, <1>2 DEF Universes, Listings, IsInjective

-----------------------------------------------------------------------------
(* The inductive invariant. *)

\* What the exchange answered, as far as it did.
ListsInv ==
    /\ perps \in Universes(PerpNames) /\ pairs \in Listings /\ dexes \in Universes(Dexes)
    /\ DOMAIN assets = DOMAIN dexes
    /\ \A d \in DOMAIN assets : assets[d] \in Universes(DexAssets)
    /\ \A d, e \in DOMAIN assets : \A i \in DOMAIN assets[d], j \in DOMAIN assets[e] :
          assets[d][i] = assets[e][j] => d = e

\* What was not asked yet is empty, and the loops stay within their listings.
PhaseInv ==
    /\ index \in Nat /\ perpIdx \in Nat \ {0}
    /\ step \in {"constructing", "meta"} => perps = <<>>
    /\ step \in {"constructing", "meta", "perps", "spot"} => pairs = <<>>
    /\ step \in {"constructing", "meta", "perps", "spot", "pairs", "dexs"} => dexes = <<>>
    /\ step = "perps" => index <= Len(perps)
    /\ step = "pairs" => index <= Len(pairs)
    /\ step \in {"dexMeta", "dexAssets"} => perpIdx \in DOMAIN assets
    /\ step = "dexAssets" => index <= Len(assets[perpIdx])
    /\ step \in {"dexLoop", "dexMeta"} =>
         \A d \in DOMAIN assets : d >= perpIdx => assets[d] = <<>>
    /\ step = "dexAssets" => \A d \in DOMAIN assets : d > perpIdx => assets[d] = <<>>

\* Whose symbols the map holds while pairs are added.
HoldersInv ==
    /\ step \in {"constructing", "meta", "perps", "spot"} => DOMAIN symbols \subseteq PerpNames
    /\ step = "pairs" => \A s \in DOMAIN symbols :
         s \in PerpNames \/ \E j \in 1 .. index : s \in {pairs[j].name, pairs[j].alias}

\* How far the loop over each listing has come.
PerpsSet == IF step = "perps" THEN index ELSE Len(perps)
PairsSet == IF step = "pairs" THEN index ELSE Len(pairs)
AssetsSet(d) == IF step = "dexAssets" /\ d = perpIdx THEN index ELSE Len(assets[d])

Holds(symbol, id) == symbol \in DOMAIN symbols /\ symbols[symbol] = id

AliasTaken(i) ==
    \/ pairs[i].alias = NoAlias
    \/ \E k \in 1 .. Len(pairs) : pairs[k].name = pairs[i].alias
    \/ \E j \in 1 .. i - 1 : pairs[j].alias = pairs[i].alias

\* The entries that the loops are done with are found.
FoundInv ==
    step # "thrown" =>
        /\ \A i \in 1 .. PerpsSet : Holds(perps[i], i - 1)
        /\ \A i \in 1 .. PairsSet : /\ Holds(pairs[i].name, SpotId(pairs[i]))
                                    /\ pairs[i].alias # Unlisted
                                    /\ AliasTaken(i) \/ Holds(pairs[i].alias, SpotId(pairs[i]))
        /\ \A d \in DOMAIN assets : \A i \in 1 .. AssetsSet(d) :
             Holds(assets[d][i], DexId(d, i - 1))

MapInv == ListsInv /\ PhaseInv /\ HoldersInv /\ ResolvesToNamesake /\ FoundInv

LEMMA ListFacts ==
  ASSUME ListsInv
  PROVE  /\ Len(perps) \in 0 .. MaxLength /\ DOMAIN perps = 1 .. Len(perps)
         /\ \A i \in 1 .. Len(perps) : perps[i] \in PerpNames
         /\ \A i, j \in 1 .. Len(perps) : perps[i] = perps[j] => i = j
         /\ Len(pairs) \in 0 .. MaxLength /\ DOMAIN pairs = 1 .. Len(pairs)
         /\ \A i \in 1 .. Len(pairs) :
               /\ pairs[i].name \in PairNames /\ pairs[i].index \in Indexes
               /\ pairs[i].alias \in Aliases \cup {NoAlias, Unlisted}
         /\ \A i, j \in 1 .. Len(pairs) : pairs[i].name = pairs[j].name => i = j
         /\ \A i, j \in 1 .. Len(pairs) : pairs[i].index = pairs[j].index => i = j
         /\ Len(dexes) \in Nat /\ DOMAIN assets = 1 .. Len(dexes)
  <1>1. perps \in Universes(PerpNames) /\ pairs \in Listings /\ dexes \in Universes(Dexes)
    BY DEF ListsInv
  <1>2. Len(dexes) \in 0 .. MaxLength /\ DOMAIN dexes = 1 .. Len(dexes)
    BY <1>1, UniverseMeans
  <1>3. /\ Len(perps) \in 0 .. MaxLength /\ DOMAIN perps = 1 .. Len(perps)
        /\ \A i \in 1 .. Len(perps) : perps[i] \in PerpNames
        /\ \A i, j \in 1 .. Len(perps) : perps[i] = perps[j] => i = j
    BY <1>1, UniverseMeans
  <1>4. /\ Len(pairs) \in 0 .. MaxLength /\ DOMAIN pairs = 1 .. Len(pairs)
        /\ \A i \in 1 .. Len(pairs) :
               /\ pairs[i].name \in PairNames /\ pairs[i].index \in Indexes
               /\ pairs[i].alias \in Aliases \cup {NoAlias, Unlisted}
        /\ \A i, j \in 1 .. Len(pairs) : pairs[i].name = pairs[j].name => i = j
        /\ \A i, j \in 1 .. Len(pairs) : pairs[i].index = pairs[j].index => i = j
    BY <1>1, ListingMeans
  <1>5. DOMAIN assets = DOMAIN dexes
    BY DEF ListsInv
  <1>6. Len(dexes) \in Nat
    BY <1>2
  <1> QED BY <1>2, <1>3, <1>4, <1>5, <1>6

LEMMA AssetFacts ==
  ASSUME ListsInv
  PROVE  /\ \A d \in DOMAIN assets :
              /\ Len(assets[d]) \in 0 .. MaxLength /\ DOMAIN assets[d] = 1 .. Len(assets[d])
              /\ \A i \in 1 .. Len(assets[d]) : assets[d][i] \in DexAssets
              /\ \A i, j \in 1 .. Len(assets[d]) : assets[d][i] = assets[d][j] => i = j
         /\ \A d, e \in DOMAIN assets :
              \A i \in 1 .. Len(assets[d]), j \in 1 .. Len(assets[e]) :
                 assets[d][i] = assets[e][j] => d = e
  <1>1. \A d \in DOMAIN assets : assets[d] \in Universes(DexAssets)
    BY DEF ListsInv
  <1>2. \A d, e \in DOMAIN assets : \A i \in DOMAIN assets[d], j \in DOMAIN assets[e] :
           assets[d][i] = assets[e][j] => d = e
    BY DEF ListsInv
  <1>3. \A d \in DOMAIN assets :
          /\ Len(assets[d]) \in 0 .. MaxLength /\ DOMAIN assets[d] = 1 .. Len(assets[d])
          /\ \A i \in 1 .. Len(assets[d]) : assets[d][i] \in DexAssets
          /\ \A i, j \in 1 .. Len(assets[d]) : assets[d][i] = assets[d][j] => i = j
    BY <1>1, UniverseMeans
  <1> QED BY <1>2, <1>3

\* The steps that only run a loop or a constructor.
Quiet ==
    \/ RestApiConstructor \/ WebsocketApiConstructor \/ CallThrows
    \/ setPerp \/ setPair \/ dexRound \/ setDexAsset \/ Ended \/ UNCHANGED vars

LEMMA QuietAnswers == Quiet => UNCHANGED answers
  BY DEF Quiet, RestApiConstructor, WebsocketApiConstructor, initializeMapping, CallThrows,
     setPerp, setPair, dexRound, setDexAsset, Ended, vars

LEMMA Cases == [Next]_vars => Quiet \/ meta \/ spotMetaAndAssetCtxs \/ perpDexs \/ dexMeta
  BY DEF Next, Quiet

LEMMA ListsStep == ASSUME ListsInv, PhaseInv, [Next]_vars PROVE ListsInv'
  <1>1. CASE Quiet
    <2>1. UNCHANGED answers
      BY <1>1, QuietAnswers
    <2> QED BY <2>1 DEF ListsInv, answers
  <1>2. CASE meta
    BY <1>2 DEF meta, ListsInv
  <1>3. CASE spotMetaAndAssetCtxs
    BY <1>3 DEF spotMetaAndAssetCtxs, ListsInv
  <1>4. CASE perpDexs
    <2>1. /\ dexes' \in Universes(Dexes) /\ assets' = [d \in DOMAIN dexes' |-> <<>>]
          /\ perps' = perps /\ pairs' = pairs
      BY <1>4 DEF perpDexs
    <2>2. /\ DOMAIN assets' = DOMAIN dexes'
          /\ \A d \in DOMAIN assets' : assets'[d] = <<>>
      BY <2>1
    <2>3. \A d \in DOMAIN assets' : assets'[d] \in Universes(DexAssets) /\ DOMAIN assets'[d] = {}
      BY <2>2, EmptyListings
    <2> QED BY <2>1, <2>2, <2>3 DEF ListsInv
  <1>5. CASE dexMeta
    <2>1. PICK universe \in Universes(DexAssets) :
            /\ \A d \in DOMAIN assets : Range(universe) \cap Range(assets[d]) = {}
            /\ assets' = [assets EXCEPT ![perpIdx] = universe]
            /\ perps' = perps /\ pairs' = pairs /\ dexes' = dexes
      BY <1>5 DEF dexMeta
    <2>2. \A d \in DOMAIN assets : \A i \in DOMAIN universe, j \in DOMAIN assets[d] :
             universe[i] # assets[d][j]
      BY <2>1 DEF Range
    <2>3. /\ DOMAIN assets' = DOMAIN assets
          /\ \A d \in DOMAIN assets : assets'[d] = IF d = perpIdx THEN universe ELSE assets[d]
      BY <2>1
    <2>4. \A d, e \in DOMAIN assets : \A i \in DOMAIN assets[d], j \in DOMAIN assets[e] :
             assets[d][i] = assets[e][j] => d = e
      BY DEF ListsInv
    <2>5. \A d, e \in DOMAIN assets' : \A i \in DOMAIN assets'[d], j \in DOMAIN assets'[e] :
             assets'[d][i] = assets'[e][j] => d = e
      BY <2>2, <2>3, <2>4
    <2> QED BY <2>1, <2>3, <2>5 DEF ListsInv
  <1> QED BY <1>1, <1>2, <1>3, <1>4, <1>5, Cases

LEMMA PhaseStep == ASSUME ListsInv, PhaseInv, [Next]_vars PROVE PhaseInv'
  <1> USE ListFacts DEF PhaseInv
  <1>1. CASE UNCHANGED vars \/ Ended
    BY <1>1 DEF vars, answers, Ended
  <1>2. CASE RestApiConstructor \/ WebsocketApiConstructor \/ CallThrows
    BY <1>2 DEF RestApiConstructor, WebsocketApiConstructor, initializeMapping, CallThrows, answers
  <1>3. CASE meta
    <2>1. Len(perps') \in Nat
      BY <1>3, ListsStep, ListFacts DEF meta, Universes
    <2> QED BY <1>3, <2>1 DEF meta
  <1>4. CASE setPerp
    BY <1>4 DEF setPerp, answers
  <1>5. CASE setPair
    BY <1>5 DEF setPair, answers
  <1>6. CASE dexRound
    BY <1>6 DEF dexRound, answers
  <1>7. CASE setDexAsset
    BY <1>7, AssetFacts DEF setDexAsset, answers
  <1>8. CASE spotMetaAndAssetCtxs
    <2>1. Len(pairs') \in Nat
      BY <1>8, ListingMeans DEF spotMetaAndAssetCtxs
    <2> QED BY <1>8, <2>1 DEF spotMetaAndAssetCtxs
  <1>9. CASE perpDexs
    BY <1>9 DEF perpDexs
  <1>10. CASE dexMeta
    <2>1. PICK universe \in Universes(DexAssets) : assets' = [assets EXCEPT ![perpIdx] = universe]
      BY <1>10 DEF dexMeta
    <2>2. Len(universe) \in Nat
      BY <2>1, UniverseMeans
    <2> QED BY <1>10, <2>1, <2>2 DEF dexMeta
  <1> QED BY <1>1, <1>2, <1>3, <1>4, <1>5, <1>6, <1>7, <1>8, <1>9, <1>10 DEF Next

LEMMA HoldersStep == ASSUME ListsInv, PhaseInv, HoldersInv, [Next]_vars PROVE HoldersInv'
  <1> USE DEF HoldersInv
  <1>1. CASE UNCHANGED vars \/ Ended
    BY <1>1 DEF vars, answers, Ended
  <1>2. CASE RestApiConstructor \/ WebsocketApiConstructor \/ CallThrows
    BY <1>2 DEF RestApiConstructor, WebsocketApiConstructor, initializeMapping, CallThrows
  <1>3. CASE meta
    BY <1>3 DEF meta
  <1>4. CASE setPerp
    <2>1. CASE index < Len(perps)
      <3>1. /\ step = "perps" /\ step' = step
            /\ symbols' = set(symbols, perps[index + 1], index)
        BY <1>4, <2>1 DEF setPerp
      <3>2. DOMAIN symbols' = DOMAIN symbols \cup {perps[index + 1]}
        BY <3>1 DEF set
      <3>3. perps[index + 1] \in PerpNames
        BY <2>1, ListFacts DEF PhaseInv
      <3> QED BY <3>1, <3>2, <3>3
    <2>2. CASE ~(index < Len(perps))
      BY <1>4, <2>2 DEF setPerp
    <2> QED BY <2>1, <2>2
  <1>5. CASE setPair
    <2>1. CASE index < Len(pairs)
      <3>1. PICK pair : pair = pairs[index + 1]
        OBVIOUS
      <3>2. /\ step = "pairs" /\ step' \in {"pairs", "thrown"} /\ index' = index + 1
            /\ symbols' = addPair(symbols, pair) /\ pairs' = pairs
        BY <1>5, <2>1, <3>1 DEF setPair, answers
      <3>5. DOMAIN addPair(symbols, pair) = DOMAIN symbols \cup {pair.name} \cup
                                            (IF HasAlias(pair) THEN {pair.alias} ELSE {})
        BY AddPairMeans, Zenon
      <3>3. DOMAIN symbols' \subseteq DOMAIN symbols \cup {pair.name, pair.alias}
        BY <3>2, <3>5
      <3>4. index \in Nat
        BY DEF PhaseInv
      <3> QED BY <3>1, <3>2, <3>3, <3>4
    <2>2. CASE ~(index < Len(pairs))
      BY <1>5, <2>2 DEF setPair
    <2> QED BY <2>1, <2>2
  <1>6. CASE dexRound \/ perpDexs \/ dexMeta \/ setDexAsset
    <2>1. step' \in {"built", "dexMeta", "dexLoop", "dexAssets"}
      BY <1>6 DEF dexRound, perpDexs, dexMeta, setDexAsset
    <2> QED BY <2>1
  <1>7. CASE spotMetaAndAssetCtxs
    BY <1>7 DEF spotMetaAndAssetCtxs
  <1> QED BY <1>1, <1>2, <1>3, <1>4, <1>5, <1>6, <1>7 DEF Next

LEMMA NamesakeStep ==
  ASSUME ListsInv, PhaseInv, ResolvesToNamesake, [Next]_vars
  PROVE  ResolvesToNamesake'
  <1> DEFINE Perp(s, id) == \E i \in DOMAIN perps : perps[i] = s /\ id = i - 1
             Pair(s, id) == \E i \in DOMAIN pairs : /\ s \in {pairs[i].name, pairs[i].alias}
                                                    /\ id = 10000 + pairs[i].index
             Asset(s, id) == \E d \in DOMAIN assets : \E i \in DOMAIN assets[d] :
                                s = assets[d][i] /\ id = 100000 + 10000 * d + i - 1
             Namesake(s, id) == Perp(s, id) \/ Pair(s, id) \/ Asset(s, id)
  <1>1. \A s \in DOMAIN symbols : Namesake(s, symbols[s])
    BY DEF ResolvesToNamesake, Range
  <1>2. (\A s \in DOMAIN symbols' : Namesake(s, symbols[s])') => ResolvesToNamesake'
    BY DEF ResolvesToNamesake, Range
  <1>3. ASSUME NEW s, NEW id, Namesake(s, id) PROVE Namesake(s, id)'
    <2>1. CASE Quiet
      <3>1. UNCHANGED <<perps, pairs, assets>>
        BY <2>1, QuietAnswers DEF answers
      <3> QED BY <1>3, <3>1
    <2>2. CASE meta
      BY <1>3, <2>2 DEF meta, PhaseInv
    <2>3. CASE spotMetaAndAssetCtxs
      BY <1>3, <2>3 DEF spotMetaAndAssetCtxs, PhaseInv
    <2>4. CASE perpDexs
      <3>1. dexes = <<>> /\ DOMAIN assets = DOMAIN dexes /\ perps' = perps /\ pairs' = pairs
        BY <2>4 DEF perpDexs, PhaseInv, ListsInv
      <3>2. DOMAIN assets = {}
        BY <3>1
      <3> QED BY <1>3, <3>1, <3>2
    <2>5. CASE dexMeta
      <3>4. step = "dexMeta" /\ perps' = perps /\ pairs' = pairs
        BY <2>5 DEF dexMeta
      <3>5. assets[perpIdx] = <<>>
        BY <3>4 DEF PhaseInv
      <3>1. PICK universe : assets' = [assets EXCEPT ![perpIdx] = universe]
        BY <2>5 DEF dexMeta
      <3>2. DOMAIN assets' = DOMAIN assets
        BY <3>1
      <3>3. \A d \in DOMAIN assets : \A i \in DOMAIN assets[d] : assets'[d] = assets[d]
        BY <3>1, <3>5
      <3> QED BY <1>3, <3>2, <3>3, <3>4
    <2> QED BY <2>1, <2>2, <2>3, <2>4, <2>5, Cases
  <1> HIDE DEF Namesake
  <1>4. CASE symbols' = symbols
    BY <1>1, <1>2, <1>3, <1>4
  <1>5. ASSUME NEW name, NEW id, symbols' = set(symbols, name, id), Namesake(name, id)
        PROVE  ResolvesToNamesake'
    <2>1. /\ DOMAIN symbols' = DOMAIN symbols \cup {name} /\ symbols'[name] = id
          /\ \A t \in DOMAIN symbols : t # name => symbols'[t] = symbols[t]
      BY <1>5 DEF set
    <2> QED BY <1>1, <1>2, <1>3, <1>5, <2>1
  <1>6. CASE setPerp /\ index < Len(perps)
    <2>1. symbols' = set(symbols, perps[index + 1], index) /\ index \in Nat
      BY <1>6 DEF setPerp, PhaseInv
    <2>2. Perp(perps[index + 1], index)
      BY <1>6, <2>1, ListFacts
    <2>3. Namesake(perps[index + 1], index)
      BY <2>2 DEF Namesake
    <2> QED BY <1>5, <2>1, <2>3
  <1>7. CASE setDexAsset /\ index < Len(assets[perpIdx])
    <2>1. /\ symbols' = set(symbols, assets[perpIdx][index + 1], DexId(perpIdx, index))
          /\ index \in Nat /\ perpIdx \in DOMAIN assets /\ perpIdx \in Nat
      BY <1>7 DEF setDexAsset, PhaseInv
    <2>2. index + 1 \in DOMAIN assets[perpIdx]
      BY <1>7, <2>1, AssetFacts
    <2>3. DexId(perpIdx, index) = 100000 + 10000 * perpIdx + (index + 1) - 1
      BY <2>1 DEF DexId
    <2>4. Asset(assets[perpIdx][index + 1], DexId(perpIdx, index))
      BY <2>1, <2>2, <2>3
    <2>5. Namesake(assets[perpIdx][index + 1], DexId(perpIdx, index))
      BY <2>4 DEF Namesake
    <2> QED BY <1>5, <2>1, <2>5
  <1>8. CASE setPair /\ index < Len(pairs)
    <2>1. PICK pair : pair = pairs[index + 1]
      OBVIOUS
    <2>2. symbols' = addPair(symbols, pair) /\ index \in Nat
      BY <1>8, <2>1 DEF setPair, PhaseInv
    <2>3. /\ DOMAIN addPair(symbols, pair) = DOMAIN symbols \cup {pair.name} \cup
                                              (IF HasAlias(pair) THEN {pair.alias} ELSE {})
          /\ addPair(symbols, pair)[pair.name] = SpotId(pair)
          /\ \A t \in DOMAIN symbols : t # pair.name => addPair(symbols, pair)[t] = symbols[t]
          /\ HasAlias(pair) /\ pair.alias \notin DOMAIN symbols \cup {pair.name}
               => addPair(symbols, pair)[pair.alias] = SpotId(pair)
      BY AddPairMeans, Zenon
    <2>4. SpotId(pair) = 10000 + pair.index
      <3>1. pair.index \in Indexes
        BY <1>8, <2>1, <2>2, ListFacts
      <3>2. pair.index \in Nat
        BY <3>1, NumberingAssumption
      <3> QED BY <3>2 DEF SpotId
    <2>5. index + 1 \in DOMAIN pairs
      BY <1>8, <2>2, ListFacts
    <2>6. Pair(pair.name, SpotId(pair)) /\ Pair(pair.alias, SpotId(pair))
      BY <2>1, <2>4, <2>5
    <2>7. Namesake(pair.name, SpotId(pair)) /\ Namesake(pair.alias, SpotId(pair))
      BY <2>6 DEF Namesake
    <2>8. ASSUME NEW s \in DOMAIN symbols' PROVE Namesake(s, symbols'[s])
      <3>1. CASE s \in DOMAIN symbols /\ s # pair.name
        BY <1>1, <2>2, <2>3, <3>1
      <3>2. CASE s = pair.name
        BY <2>2, <2>3, <2>7, <3>2
      <3>3. CASE s \notin DOMAIN symbols /\ s # pair.name
        BY <2>2, <2>3, <2>7, <2>8, <3>3
      <3> QED BY <3>1, <3>2, <3>3
    <2> QED BY <1>2, <1>3, <2>8
  <1>9. \/ symbols' = symbols
        \/ setPerp /\ index < Len(perps)
        \/ setDexAsset /\ index < Len(assets[perpIdx])
        \/ setPair /\ index < Len(pairs)
    BY DEF Next, RestApiConstructor, WebsocketApiConstructor, initializeMapping, CallThrows,
       meta, setPerp, spotMetaAndAssetCtxs, setPair, perpDexs, dexRound, dexMeta,
       setDexAsset, Ended, vars
  <1> QED BY <1>4, <1>6, <1>7, <1>8, <1>9

\* Steps that leave the map alone and go on with what was set.
LEMMA FoundQuiet ==
  ASSUME ListsInv, PhaseInv, FoundInv,
         RestApiConstructor \/ WebsocketApiConstructor \/ CallThrows \/ dexRound
            \/ Ended \/ UNCHANGED vars
  PROVE  FoundInv'
  <1>1. /\ symbols' = symbols /\ perps' = perps /\ pairs' = pairs /\ assets' = assets
        /\ index' = index
    BY DEF RestApiConstructor, WebsocketApiConstructor, initializeMapping, CallThrows,
       dexRound, Ended, vars, answers
  <1>2. \/ step' = "thrown"
        \/ step' = step /\ perpIdx' = perpIdx
        \/ step \notin {"perps", "pairs", "dexAssets"} /\ step # "thrown"
             /\ step' \notin {"perps", "pairs", "dexAssets"}
    BY DEF RestApiConstructor, WebsocketApiConstructor, initializeMapping, CallThrows,
       dexRound, Ended, vars
  <1>3. CASE step' = "thrown"
    BY <1>3 DEF FoundInv
  <1>4. CASE step' = step /\ perpIdx' = perpIdx
    BY <1>1, <1>4 DEF FoundInv, PerpsSet, PairsSet, AssetsSet, Holds, AliasTaken
  <1>5. CASE step \notin {"perps", "pairs", "dexAssets"} /\ step # "thrown"
             /\ step' \notin {"perps", "pairs", "dexAssets"}
    BY <1>1, <1>5 DEF FoundInv, PerpsSet, PairsSet, AssetsSet, Holds, AliasTaken
  <1> QED BY <1>2, <1>3, <1>4, <1>5

LEMMA FoundAnswers ==
  ASSUME ListsInv, PhaseInv, FoundInv, ListsInv',
         meta \/ spotMetaAndAssetCtxs \/ perpDexs \/ dexMeta
  PROVE  FoundInv'
  <1> USE DEF FoundInv, PerpsSet, PairsSet, Holds, AliasTaken
  <1>1. CASE meta
    <2>1. /\ step = "meta" /\ step' = "perps" /\ index' = 0
          /\ pairs' = pairs /\ assets' = assets /\ pairs = <<>> /\ dexes = <<>>
      BY <1>1 DEF meta, PhaseInv
    <2>2. DOMAIN assets = {} /\ Len(pairs) = 0
      BY <2>1, ListFacts
    <2> QED BY <2>1, <2>2
  <1>2. CASE spotMetaAndAssetCtxs
    <2>1. /\ step = "spot" /\ step' = "pairs" /\ index' = 0 /\ symbols' = symbols
          /\ perps' = perps /\ assets' = assets /\ dexes = <<>>
      BY <1>2 DEF spotMetaAndAssetCtxs, PhaseInv
    <2>2. DOMAIN assets = {}
      BY <2>1, ListFacts
    <2> QED BY <2>1, <2>2
  <1>3. CASE perpDexs
    <2>1. /\ step = "dexs" /\ step' = "dexLoop" /\ symbols' = symbols
          /\ perps' = perps /\ pairs' = pairs /\ \A d \in DOMAIN assets' : assets'[d] = <<>>
      BY <1>3 DEF perpDexs
    <2> QED BY <2>1 DEF AssetsSet
  <1>4. CASE dexMeta
    <2>1. /\ step = "dexMeta" /\ step' = "dexAssets" /\ index' = 0 /\ symbols' = symbols
          /\ perps' = perps /\ pairs' = pairs /\ perpIdx' = perpIdx
      BY <1>4 DEF dexMeta
    <2>2. PICK universe : assets' = [assets EXCEPT ![perpIdx] = universe]
      BY <1>4 DEF dexMeta
    <2>3. /\ DOMAIN assets' = DOMAIN assets
          /\ \A d \in DOMAIN assets : d # perpIdx => assets'[d] = assets[d]
      BY <2>2
    <2> QED BY <2>1, <2>3 DEF AssetsSet
  <1> QED BY <1>1, <1>2, <1>3, <1>4

LEMMA FoundPerp ==
  ASSUME ListsInv, PhaseInv, FoundInv, setPerp
  PROVE  FoundInv'
  <1> USE DEF FoundInv, PerpsSet, PairsSet, Holds, AliasTaken
  <1>1. /\ step = "perps" /\ index \in Nat /\ index <= Len(perps) /\ Len(perps) \in Nat
        /\ DOMAIN assets = {} /\ Len(pairs) = 0 /\ pairs' = pairs /\ assets' = assets
        /\ perps' = perps
    BY ListFacts DEF setPerp, PhaseInv, answers
  <1>2. CASE index < Len(perps)
    <2>1. /\ symbols' = set(symbols, perps[index + 1], index) /\ index' = index + 1
          /\ step' = "perps"
      BY <1>1, <1>2 DEF setPerp
    <2>2. /\ DOMAIN symbols' = DOMAIN symbols \cup {perps[index + 1]}
          /\ symbols'[perps[index + 1]] = index
          /\ \A t \in DOMAIN symbols : t # perps[index + 1] => symbols'[t] = symbols[t]
      BY <2>1 DEF set
    <2>3. ASSUME NEW i \in 1 .. index + 1 PROVE Holds(perps[i], i - 1)'
      <3>1. CASE i = index + 1
        BY <1>1, <2>2, <3>1
      <3>2. CASE i # index + 1
        <4>1. i \in 1 .. index /\ perps[i] # perps[index + 1]
          BY <1>1, <1>2, <3>2, ListFacts
        <4> QED BY <1>1, <2>2, <4>1
      <3> QED BY <3>1, <3>2
    <2> QED BY <1>1, <2>1, <2>3
  <1>3. CASE ~(index < Len(perps))
    <2>1. symbols' = symbols /\ step' = "spot" /\ index = Len(perps)
      BY <1>1, <1>3 DEF setPerp
    <2> QED BY <1>1, <2>1
  <1> QED BY <1>2, <1>3

LEMMA FoundAsset ==
  ASSUME ListsInv, PhaseInv, FoundInv, setDexAsset
  PROVE  FoundInv'
  <1> USE DEF FoundInv, PerpsSet, PairsSet, Holds, AliasTaken
  <1>1. /\ step = "dexAssets" /\ index \in Nat /\ perpIdx \in DOMAIN assets
        /\ index <= Len(assets[perpIdx])
        /\ perps' = perps /\ pairs' = pairs /\ assets' = assets
    BY DEF setDexAsset, PhaseInv, answers
  <1>2. CASE index < Len(assets[perpIdx])
    <2>1. PICK name, id : name = assets[perpIdx][index + 1] /\ id = DexId(perpIdx, index)
      OBVIOUS
    <2>2. /\ symbols' = set(symbols, name, id) /\ index' = index + 1
          /\ step' = "dexAssets" /\ perpIdx' = perpIdx
      BY <1>1, <1>2, <2>1 DEF setDexAsset
    <2>3. /\ DOMAIN symbols' = DOMAIN symbols \cup {name}
          /\ symbols'[name] = id
          /\ \A t \in DOMAIN symbols : t # name => symbols'[t] = symbols[t]
      BY <2>2 DEF set
    <2>4. Len(assets[perpIdx]) \in Nat /\ name \in DexAssets
      BY <1>1, <1>2, <2>1, AssetFacts
    <2>5. name \notin PerpNames \cup PairNames \cup Aliases
      BY <2>4, NamesAssumption
    <2>6. \A i \in 1 .. Len(perps) : Holds(perps[i], i - 1)'
      BY <1>1, <2>3, <2>5, ListFacts
    <2>7. ASSUME NEW i \in 1 .. Len(pairs)
          PROVE  /\ Holds(pairs[i].name, SpotId(pairs[i]))'
                 /\ pairs[i].alias # Unlisted
                 /\ AliasTaken(i)' \/ Holds(pairs[i].alias, SpotId(pairs[i]))'
      <3>1. /\ pairs[i].name # name
            /\ pairs[i].alias # Unlisted
            /\ pairs[i].alias # NoAlias => pairs[i].alias # name
        BY <1>1, <2>5, ListFacts
      <3> QED BY <1>1, <2>3, <3>1
    <2>8. ASSUME NEW d \in DOMAIN assets, NEW i \in 1 .. AssetsSet(d)'
          PROVE  Holds(assets[d][i], DexId(d, i - 1))'
      <3>1. CASE d = perpIdx /\ i = index + 1
        <4>1. i - 1 = index
          BY <1>1, <3>1
        <4> QED BY <1>1, <2>1, <2>3, <3>1, <4>1
      <3>2. CASE ~(d = perpIdx /\ i = index + 1)
        <4>1. i \in 1 .. AssetsSet(d) /\ i \in 1 .. Len(assets[d])
          BY <1>1, <1>2, <2>2, <3>2, AssetFacts DEF AssetsSet
        <4>2. assets[d][i] # name
          BY <1>1, <1>2, <2>1, <3>2, <4>1, AssetFacts
        <4> QED BY <1>1, <2>3, <4>1, <4>2
      <3> QED BY <3>1, <3>2
    <2> QED BY <1>1, <2>2, <2>6, <2>7, <2>8
  <1>3. CASE ~(index < Len(assets[perpIdx]))
    <2>1. symbols' = symbols /\ step' = "dexLoop" /\ index = Len(assets[perpIdx])
      BY <1>1, <1>3, AssetFacts DEF setDexAsset
    <2> QED BY <1>1, <2>1 DEF AssetsSet
  <1> QED BY <1>2, <1>3

\* The own name of a pair overwrites an alias of that string, and its alias is
\* added only where nobody holds the string.
LEMMA FoundPair ==
  ASSUME ListsInv, PhaseInv, HoldersInv, FoundInv, setPair
  PROVE  FoundInv'
  <1> USE DEF FoundInv, PerpsSet, PairsSet, Holds
  <1>1. /\ step = "pairs" /\ index \in Nat /\ index <= Len(pairs) /\ Len(pairs) \in Nat
        /\ DOMAIN assets = {} /\ perps' = perps /\ pairs' = pairs /\ assets' = assets
    BY ListFacts DEF setPair, PhaseInv, answers
  <1>2. CASE index < Len(pairs)
    <2>1. PICK pair, id : pair = pairs[index + 1] /\ id = SpotId(pair)
      OBVIOUS
    <2>2. /\ symbols' = addPair(symbols, pair) /\ index' = index + 1
          /\ step' = IF pair.alias = Unlisted THEN "thrown" ELSE "pairs"
      BY <1>1, <1>2, <2>1 DEF setPair
    <2>3. CASE pair.alias = Unlisted
      BY <2>2, <2>3
    <2>4. CASE pair.alias # Unlisted
      <3>1. /\ DOMAIN addPair(symbols, pair) = DOMAIN symbols \cup {pair.name} \cup
                                              (IF HasAlias(pair) THEN {pair.alias} ELSE {})
            /\ addPair(symbols, pair)[pair.name] = SpotId(pair)
            /\ \A t \in DOMAIN symbols : t # pair.name => addPair(symbols, pair)[t] = symbols[t]
            /\ HasAlias(pair) /\ pair.alias \notin DOMAIN symbols \cup {pair.name}
                 => addPair(symbols, pair)[pair.alias] = SpotId(pair)
        BY AddPairMeans, Zenon
      <3>2. /\ DOMAIN symbols \cup {pair.name} \subseteq DOMAIN symbols'
            /\ symbols'[pair.name] = id
            /\ \A t \in DOMAIN symbols : t # pair.name => symbols'[t] = symbols[t]
            /\ pair.alias # NoAlias /\ pair.alias \notin DOMAIN symbols \cup {pair.name}
                 => pair.alias \in DOMAIN symbols' /\ symbols'[pair.alias] = id
        BY <2>1, <2>2, <2>4, <3>1 DEF HasAlias
      <3>3. pair.name \in PairNames /\ pair.alias \in Aliases \cup {NoAlias, Unlisted}
        BY <1>1, <1>2, <2>1, ListFacts
      <3>4. \A i \in 1 .. Len(perps) : Holds(perps[i], i - 1)'
        <4>1. pair.name \notin PerpNames
          BY <3>3, NamesAssumption
        <4> QED BY <1>1, <3>2, <4>1, ListFacts
      <3>5. ASSUME NEW i \in 1 .. index
            PROVE  /\ Holds(pairs[i].name, SpotId(pairs[i]))'
                   /\ pairs[i].alias # Unlisted
                   /\ AliasTaken(i) \/ Holds(pairs[i].alias, SpotId(pairs[i]))'
        <4>1. /\ Holds(pairs[i].name, SpotId(pairs[i])) /\ pairs[i].alias # Unlisted
              /\ AliasTaken(i) \/ Holds(pairs[i].alias, SpotId(pairs[i]))
          BY <1>1
        <4>2. pairs[i].name # pair.name
          BY <1>1, <1>2, <2>1, ListFacts
        <4>3. Holds(pairs[i].name, SpotId(pairs[i]))'
          BY <1>1, <3>2, <4>1, <4>2
        <4>4. CASE pairs[i].alias = pair.name
          <5>1. AliasTaken(i)
            BY <1>1, <1>2, <2>1, <4>4 DEF AliasTaken
          <5> QED BY <4>1, <4>3, <5>1
        <4>5. CASE pairs[i].alias # pair.name
          BY <1>1, <3>2, <4>1, <4>3, <4>5
        <4> QED BY <4>4, <4>5
      <3>6. pair.alias = NoAlias \/ AliasTaken(index + 1) \/ Holds(pair.alias, id)'
        <4>1. CASE pair.alias \notin DOMAIN symbols \cup {pair.name}
          BY <3>2, <4>1
        <4>2. CASE pair.alias = pair.name
          BY <1>1, <1>2, <2>1, <4>2 DEF AliasTaken
        <4>3. CASE pair.alias \in DOMAIN symbols /\ pair.alias # NoAlias
          <5>1. pair.alias \in Aliases
            BY <2>4, <3>3, <4>3
          <5>2. pair.alias \notin PerpNames
            BY <5>1, NamesAssumption
          <5>3. PICK j \in 1 .. index : pair.alias \in {pairs[j].name, pairs[j].alias}
            BY <1>1, <4>3, <5>2 DEF HoldersInv
          <5>4. CASE pairs[j].name = pair.alias
            BY <1>1, <1>2, <2>1, <5>4 DEF AliasTaken
          <5>5. CASE pairs[j].alias = pair.alias
            <6>1. j \in 1 .. (index + 1) - 1
              BY <1>1
            <6> QED BY <2>1, <5>5, <6>1 DEF AliasTaken
          <5> QED BY <5>3, <5>4, <5>5
        <4> QED BY <4>1, <4>2, <4>3
      <3>7. \A i \in 1 .. Len(pairs) : AliasTaken(i)' <=> AliasTaken(i)
        BY <1>1 DEF AliasTaken
      <3>8. ASSUME NEW i \in 1 .. index + 1
            PROVE  /\ Holds(pairs[i].name, SpotId(pairs[i]))'
                   /\ pairs[i].alias # Unlisted
                   /\ AliasTaken(i)' \/ Holds(pairs[i].alias, SpotId(pairs[i]))'
        <4>1. CASE i = index + 1
          <5>1. AliasTaken(i) \/ Holds(pairs[i].alias, SpotId(pairs[i]))'
            BY <1>1, <2>1, <3>6, <4>1 DEF AliasTaken, SpotId
          <5>2. Holds(pairs[i].name, SpotId(pairs[i]))'
            BY <1>1, <2>1, <3>2, <4>1 DEF SpotId
          <5> QED BY <1>1, <1>2, <2>1, <2>4, <3>7, <4>1, <5>1, <5>2
        <4>2. CASE i # index + 1
          <5>1. i \in 1 .. index /\ i \in 1 .. Len(pairs)
            BY <1>1, <1>2, <4>2
          <5> QED BY <3>5, <3>7, <5>1
        <4> QED BY <4>1, <4>2
      <3>9. step' = "pairs"
        BY <2>2, <2>4
      <3> QED BY <1>1, <2>2, <3>4, <3>8, <3>9
    <2> QED BY <2>3, <2>4
  <1>3. CASE ~(index < Len(pairs))
    <2>1. symbols' = symbols /\ step' \notin {"perps", "pairs", "dexAssets"} /\ index = Len(pairs)
      BY <1>1, <1>3 DEF setPair
    <2> QED BY <1>1, <2>1 DEF AliasTaken
  <1> QED BY <1>2, <1>3

LEMMA MapStep == ASSUME MapInv, [Next]_vars PROVE MapInv'
  <1>1. ListsInv' /\ PhaseInv' /\ HoldersInv' /\ ResolvesToNamesake'
    BY ListsStep, PhaseStep, HoldersStep, NamesakeStep DEF MapInv
  <1>2. FoundInv'
    <2>1. ListsInv /\ PhaseInv /\ HoldersInv /\ FoundInv
      BY DEF MapInv
    <2>2. CASE RestApiConstructor \/ WebsocketApiConstructor \/ CallThrows \/ dexRound
                  \/ Ended \/ UNCHANGED vars
      BY <2>1, <2>2, FoundQuiet
    <2>3. CASE meta \/ spotMetaAndAssetCtxs \/ perpDexs \/ dexMeta
      BY <1>1, <2>1, <2>3, FoundAnswers
    <2>4. CASE setPerp \/ setPair \/ setDexAsset
      BY <2>1, <2>4, FoundPerp, FoundPair, FoundAsset
    <2> QED BY <2>2, <2>3, <2>4 DEF Next
  <1> QED BY <1>1, <1>2 DEF MapInv

LEMMA MapInvariant == Spec => []MapInv
  <1>1. Init => MapInv
    <2> SUFFICES ASSUME Init PROVE MapInv
      OBVIOUS
    <2>1. /\ perps = <<>> /\ pairs = <<>> /\ dexes = <<>> /\ assets = <<>> /\ symbols = <<>>
          /\ step = "constructing" /\ index = 0 /\ perpIdx = 1
      BY DEF Init
    <2>2. DOMAIN <<>> = {} /\ Len(<<>>) = 0
      OBVIOUS
    <2>3. ListsInv
      BY <2>1, <2>2, EmptyListings DEF ListsInv
    <2>4. PhaseInv /\ HoldersInv
      BY <2>1, <2>2 DEF PhaseInv, HoldersInv
    <2>5. ResolvesToNamesake
      BY <2>1, <2>2 DEF ResolvesToNamesake
    <2>6. FoundInv
      BY <2>1, <2>2 DEF FoundInv, PerpsSet, PairsSet
    <2> QED BY <2>3, <2>4, <2>5, <2>6 DEF MapInv
  <1> QED BY <1>1, MapStep, PTL DEF Spec

-----------------------------------------------------------------------------
(* Theorems. *)

\* Whatever the exchange lists, in which order and cut short where, an order
\* goes to an asset of the name or alias it was given.
THEOREM SymbolsNameTheirAsset == Spec => []ResolvesToNamesake
  <1>1. MapInv => ResolvesToNamesake
    BY DEF MapInv
  <1> QED BY <1>1, MapInvariant, PTL

\* In a client that was constructed every own name is found, and an alias that
\* is nobody's own name belongs to the first pair that claims it.
THEOREM OwnNamesWin == Spec => []NamesResolve
  <1>1. MapInv => NamesResolve
    <2> SUFFICES ASSUME ListsInv, FoundInv, step = "built" PROVE NamesResolve
      BY DEF MapInv, NamesResolve
    <2>1. /\ \A i \in 1 .. Len(perps) : Holds(perps[i], i - 1)
          /\ \A i \in 1 .. Len(pairs) :
                 /\ Holds(pairs[i].name, SpotId(pairs[i]))
                 /\ AliasTaken(i) \/ Holds(pairs[i].alias, SpotId(pairs[i]))
          /\ \A d \in DOMAIN assets : \A i \in 1 .. Len(assets[d]) :
                 Holds(assets[d][i], DexId(d, i - 1))
      BY DEF FoundInv, PerpsSet, PairsSet, AssetsSet
    <2>2. /\ DOMAIN perps = 1 .. Len(perps) /\ DOMAIN pairs = 1 .. Len(pairs)
          /\ DOMAIN assets = DOMAIN dexes
          /\ \A d \in DOMAIN assets : DOMAIN assets[d] = 1 .. Len(assets[d])
      BY ListFacts, AssetFacts DEF ListsInv
    <2> QED BY <2>1, <2>2 DEF NamesResolve, Holds, AliasTaken, Range
  <1> QED BY <1>1, MapInvariant, PTL

\* As long as the listings keep to the exchange's ranges of ids, two symbols
\* with one id are the name and the alias of one pair.
THEOREM IdsAreShared == Spec => []SharedIdsAreAliases
  <1>1. MapInv => SharedIdsAreAliases
    <2> SUFFICES ASSUME ListsInv, ResolvesToNamesake, NEW s \in DOMAIN symbols,
                        NEW t \in DOMAIN symbols, s # t, symbols[s] = symbols[t]
                 PROVE  \E p \in Range(pairs) : {s, t} = {p.name, p.alias}
      BY DEF MapInv, SharedIdsAreAliases
    <2> DEFINE Perp(u) == \E i \in DOMAIN perps : perps[i] = u /\ symbols[u] = i - 1
               PairAt(u, i) == /\ u \in {pairs[i].name, pairs[i].alias}
                               /\ symbols[u] = 10000 + pairs[i].index
               Pair(u) == \E i \in DOMAIN pairs : PairAt(u, i)
               Asset(u) == \E d \in DOMAIN assets : \E i \in DOMAIN assets[d] :
                              u = assets[d][i] /\ symbols[u] = 100000 + 10000 * d + i - 1
    <2>1. \A u \in DOMAIN symbols : Perp(u) \/ Pair(u) \/ Asset(u)
      BY DEF ResolvesToNamesake, Range
    <2>2. \A u : Perp(u) => symbols[u] \in Int /\ symbols[u] < 10000
      BY ListFacts, NumberingAssumption
    <2>3. \A u : Pair(u) => symbols[u] \in Int /\ symbols[u] >= 10000 /\ symbols[u] < 110000
      BY ListFacts, NumberingAssumption
    <2>4. \A u : Asset(u) => symbols[u] \in Int /\ symbols[u] >= 110000
      BY ListFacts, AssetFacts, NumberingAssumption
    <2>5. ~(Perp(s) /\ Perp(t))
      BY ListFacts
    <2>6. ~(Asset(s) /\ Asset(t))
      <3> SUFFICES ASSUME NEW d \in DOMAIN assets, NEW i \in DOMAIN assets[d],
                          NEW e \in DOMAIN assets, NEW j \in DOMAIN assets[e],
                          s = assets[d][i], t = assets[e][j],
                          100000 + 10000 * d + i - 1 = 100000 + 10000 * e + j - 1
                   PROVE  FALSE
        OBVIOUS
      <3>1. /\ d \in Nat /\ e \in Nat /\ i \in Nat /\ j \in Nat
            /\ i >= 1 /\ i <= 10000 /\ j >= 1 /\ j <= 10000
        <4>1. d \in Nat /\ e \in Nat
          BY ListFacts
        <4>2. /\ DOMAIN assets[d] = 1 .. Len(assets[d]) /\ DOMAIN assets[e] = 1 .. Len(assets[e])
              /\ Len(assets[d]) \in 0 .. MaxLength /\ Len(assets[e]) \in 0 .. MaxLength
          BY AssetFacts
        <4> QED BY <4>1, <4>2, NumberingAssumption
      <3>2. d = e /\ i = j
        BY <3>1
      <3> QED BY <3>2
    <2> HIDE DEF Perp, PairAt, Pair, Asset
    <2>7. Pair(s) /\ Pair(t)
      BY <2>1, <2>2, <2>3, <2>4, <2>5, <2>6
    <2>8. /\ \A i \in DOMAIN pairs : pairs[i].index \in Indexes
          /\ \A i, j \in DOMAIN pairs : pairs[i].index = pairs[j].index => i = j
      BY ListFacts
    <2>9. PICK i \in DOMAIN pairs : PairAt(s, i)
      BY <2>7 DEF Pair
    <2>10. PICK j \in DOMAIN pairs : PairAt(t, j)
      BY <2>7 DEF Pair
    <2>11. pairs[i].index \in Nat /\ pairs[j].index \in Nat
      <3>1. pairs[i].index \in Indexes /\ pairs[j].index \in Indexes
        BY <2>8
      <3> QED BY <3>1, NumberingAssumption
    <2>12. pairs[i].index = pairs[j].index
      <3>1. PICK m \in Nat, n \in Nat : m = pairs[i].index /\ n = pairs[j].index
        BY <2>11
      <3>2. 10000 + m = 10000 + n
        <4>1. PICK id : id = symbols[s] /\ id = symbols[t]
          OBVIOUS
        <4>2. id = 10000 + m
          BY <2>9, <3>1, <4>1 DEF PairAt
        <4>3. id = 10000 + n
          BY <2>10, <3>1, <4>1 DEF PairAt
        <4> QED BY <4>2, <4>3
      <3>3. m = n
        BY <3>2
      <3> QED BY <3>1, <3>3
    <2>13. i = j
      BY <2>8, <2>12
    <2>14. {s, t} = {pairs[i].name, pairs[i].alias}
      BY <2>9, <2>10, <2>13 DEF PairAt
    <2> QED BY <2>14 DEF Range
  <1> QED BY <1>1, MapInvariant, PTL
=============================================================================
