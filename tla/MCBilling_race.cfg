CONSTANTS
    Tenants = {t1}
    Customers = {c1}
    Subs = {s1}
    Rows = {x1, x2}
    Requests = {r1, r2}
    Plans = {"pro"}
    MaxEvents = 2
SPECIFICATION Spec
SYMMETRY Interchangeable
INVARIANTS TypeOK OneRowPerTenant
PROPERTIES NoDowngradeUnasked
CHECK_DEADLOCK FALSE
