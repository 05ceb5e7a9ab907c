\* Two offers, or one that the foreign server writes too; all lanes racing,
\* requests lost, late and refused; one offer may be quarantined.
CONSTANTS
    o1 = o1
    o2 = o2
    Offers = {o1, o2}
    MaxAttempts = 1
    MaxRows = 3
    Cases <- ReplicaCases
SPECIFICATION FairSpec
INVARIANTS MarkedIsEqual
PROPERTIES NeverBackwards CatchesUp
