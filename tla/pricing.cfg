\* Nine configurations, two of them invalid, and every selection of up to three options in
\* up to two groups; every order of up to five lines; every page of a listing.
CONSTANTS
    Configs <- MCConfigs
    GroupIds = {"g1", "g2"}
    OptionIds = {"o1", "o2", "o3"}
    Quantities <- MCQuantities
    ItemQuantities = {1, 3}
    MaxSubmissions = 2
    MaxPicks = 3
    WordLimit = 8
    IntLimit = 8
    Cents = {7}
    Counts = {1, 7, 8}
    Deltas <- MCDeltas
    MaxLines = 5
    DefaultPerPage = 2
    MaxPerPage = 3
    PageLimit = 8
    Keys = {1, 2, 3}
    MaxRows = 4
SPECIFICATION MCSpec
INVARIANT AcceptsUnlessUnitsWrap
INVARIANT PricesUnlessCentsWrap
INVARIANT TotalTrueUnlessSumWraps
INVARIANT PagesPartition
