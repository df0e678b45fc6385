CONSTANTS
    Orders = {o1, o2}
    Numbers = {n1}
    OrderRequests = {w1, w2}
    Updates = {"pending", "confirmed", "cancelled"}
    MaxHistory = 3
    Customers = {c1, c2}
    LoyaltyRequests = {r1, r2}
    Gains = {0}
    Bonuses = {4}
    Redemptions = {2}
    MaxMovements = 3
    Products = {p1}
    StockRequests = {k1, k2}
    InitialStocks = {3}
    Deltas <- StockDeltas
    Quantities <- StockQuantities
    MaxReservations = 3
    MaxStock = 5
SPECIFICATION StoreSpec
SYMMETRY StoreSymmetry
INVARIANTS StoreTypeOK StatusIsLastChange GapsNeedOverlap LossNeedsOverlap TierWasEarned WelcomeIsReferred OversellNeedsOverlap
PROPERTIES ImplementsLedger
CHECK_DEADLOCK FALSE
