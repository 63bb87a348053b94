\* The map that both constructors build, over all small listings.
SPECIFICATION Spec
CONSTANTS
    PerpNames = {"A", "B"}
    PairNames = {"@1", "@2", "A/C"}
    Aliases = {"A/C", "B/C"}
    Indexes = {0, 1}
    Dexes = {"d1", "d2"}
    DexAssets = {"d:A", "d:B", "d:C"}
    MaxLength = 2
INVARIANTS NamesResolve ResolvesToNamesake SharedIdsAreAliases
