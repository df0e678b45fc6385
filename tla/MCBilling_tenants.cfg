CONSTANTS
    Tenants = {t1, t2}
    Customers = {c1, c2}
    Subs = {s1}
    Rows = {x1, x2}
    Requests = {r1}
    Plans = {"pro"}
    MaxEvents = 2
SPECIFICATION Spec
SYMMETRY Interchangeable
INVARIANTS NothingCrossesTenants PlanWasBought
CHECK_DEADLOCK FALSE
