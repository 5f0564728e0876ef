SPECIFICATION Spec
CONSTANTS
    Row <- MCRow
    Query <- MCQuery
    DefaultPage <- MCDefaultPage
    MaxPage <- MCMaxPage
INVARIANTS
    PagesAscend
    NothingIsSkipped
    RepeatsAreShifts
CHECK_DEADLOCK FALSE
