------------------------------ MODULE MCStore -------------------------------
(***************************************************************************)
(* The shop's tables under concurrent requests: orders, points and stock.  *)
(* The three have no table in common and no request touches two of them,   *)
(* so a run of the shop is a run of each; the instance takes one at a time *)
(* (part) instead of their product.                                        *)
(***************************************************************************)
EXTENDS Orders, Loyalty, Inventory, TLC

VARIABLE part

OrdersStep == part = "orders" /\ OrdersNext /\ UNCHANGED <<loyaltyVars, inventoryVars, part>>
LoyaltyStep == part = "loyalty" /\ LoyaltyNext /\ UNCHANGED <<ordersVars, inventoryVars, part>>
InventoryStep == part = "stock" /\ InventoryNext /\ UNCHANGED <<ordersVars, loyaltyVars, part>>

StoreVars == <<ordersVars, loyaltyVars, inventoryVars, part>>
StoreInit ==
    /\ OrdersInit /\ LoyaltyInit /\ InventoryInit
    /\ part \in {"orders", "loyalty", "stock"}
StoreNext == OrdersStep \/ LoyaltyStep \/ InventoryStep
StoreSpec == StoreInit /\ [][StoreNext]_StoreVars

\* Types of the three tables and of the requests on them.
StoreTypeOK == OrdersTypeOK /\ LoyaltyTypeOK /\ InventoryTypeOK

\* A delivery and a correction; two reservations, and one that gives back.
StockDeltas == {2, 0 - 4}
StockQuantities == {0 - 1, 1, 2}

\* All ids are interchangeable, and no liveness is checked here.
StoreSymmetry ==
    UNION {Permutations(S) : S \in {Orders, Numbers, OrderRequests, Customers,
                                    LoyaltyRequests, StockRequests}}
=============================================================================
