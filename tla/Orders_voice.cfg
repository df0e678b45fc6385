CONSTANTS
    Orders = {o1}
    Numbers = {n1}
    OrderRequests = {w1}
    Updates = {"confirmed", "delivered", "cancelled"}
    MaxHistory = 3
SPECIFICATION OrdersSpec
PROPERTIES ToldMeansCancelled
CHECK_DEADLOCK FALSE
