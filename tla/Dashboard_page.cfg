CONSTANTS
    Name = {1, 2}
    Group = {8, 9}
    Node = {5}
    Call = {1, 2}
    Listings <- MCListings
    ServerToken = "token"
    Token = {" token"}
    Part = {"instances", "servers"}
    Filters = {"all", "critical"}
    NoFilters = "all"
    MaxVersion = 2
    MaxInputs = 5
SPECIFICATION Spec
INVARIANT TypeOK
INVARIANT NeverBlank
INVARIANT NobodyIsHidden
INVARIANT BadgesAreTrue
INVARIANT OffersAreAdmitted
INVARIANT PendingIsReal
INVARIANT ModalIsItsOwn
PROPERTY ShowsItsOwnWork
PROPERTY LoadingEnds
PROPERTY ReadsAreBounded
CHECK_DEADLOCK FALSE
