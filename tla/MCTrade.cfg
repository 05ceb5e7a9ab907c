\* One offer under races, forwarding and overtime.
CONSTANTS
    o1 = o1 r1 = r1 r2 = r2 r3 = r3 u1 = u1 u2 = u2 u3 = u3
    Offers = {o1} Requests = {r1, r2, r3} Users = {u1, u2, u3}
    Tx = {t1, t2}
    OfferOf <- MCOfferOf UserOf <- MCUserOf ActorOf <- MCActorOf
    OwnerOf <- MCOwnerOf Principals <- MCPrincipals Relations <- MCRelations
    Amount <- MCAmount
    Keyed = {r1}
    Lots <- MCLots Quantity <- MCQuantity
    Limit = 1 GraceTicks = 1 MaxReplays = 2 MaxTime = 2
    Cases <- MCCases
SPECIFICATION Spec
INVARIANTS StockKept CirclesPassAWrite
PROPERTIES EndedOfferTradesInFlightOnly KeyDecidedOnce CompletedIsNotRefused
SYMMETRY SymmetricSessions
CHECK_DEADLOCK FALSE
