CONSTANTS
    HistoryLimit = 1
    Filters <- AllFilters
    Classes <- AllClasses
    Hosts = {"server", "kde"}
    MaxId = 2
SPECIFICATION Spec
INVARIANTS TypeOK CloseAccounted IdsAreFresh HistorySaved
PROPERTY DeferredKeepsEntry
