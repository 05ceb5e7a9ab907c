\* One offer, its edits and its message.
CONSTANTS
    Offers = {o1}
    MaxRevision = 2
    Cases <- MCCases
SPECIFICATION FairSpec
INVARIANTS PublishedOnce
PROPERTIES NeverShownOlder ClosedIsShown
