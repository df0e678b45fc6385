CONSTANTS
    Tenants = {t1}
    Customers = {c1, c2}
    Subs = {s1}
    Rows = {x1, x2}
    Requests = {r1, r2}
    Plans = {"pro"}
    MaxEvents = 1
SPECIFICATION Spec
PROPERTIES PaidIsLinked
CHECK_DEADLOCK FALSE
