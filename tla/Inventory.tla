----------------------------- MODULE Inventory ------------------------------
(***************************************************************************)
(* The stock of the products (src/src/api/v1/endpoints/products.py):       *)
(* restocking and reserving, each a request that reads the inventory row,  *)
(* computes and commits the one column it assigned.  Products come from    *)
(* create_product, which inserts the inventory row with the product.       *)
(***************************************************************************)
EXTENDS Integers

CONSTANTS
    Products,
    StockRequests,      \* requests the server works on at a time
    InitialStocks,      \* units a product is created with
    Deltas,             \* units a delivery adds, or a correction takes
    Quantities,         \* units a reservation asks for: any integer is let in
    MaxReservations,    \* bound: reservations of one product
    MaxStock            \* bound: no delivery beyond it

ASSUME InventoryAssumption ==
    /\ \A S \in {InitialStocks, Deltas, Quantities} : S \subseteq Int
    /\ MaxReservations \in Nat /\ MaxStock \in Nat

VARIABLES
    stock,              \* the inventory row of each product
    answered,           \* history: the reservations answered with success
    clerks              \* what each request holds between read and commit

inventoryVars == <<stock, answered, clerks>>

NoProduct == [listed |-> FALSE, available |-> 0, reserved |-> 0]
NoClerk == [at |-> "idle"]

\* Of the reservations of a product that were answered with success: how many
\* they are, the units they promised, those that a negative quantity gave back,
\* and whether each was read and committed with no other committed in between.
NoReservation == [times |-> 0, promised |-> 0, returned |-> 0, apart |-> TRUE]

InventoryTypeOK ==
    /\ stock \in [Products -> [listed : BOOLEAN, available : Int, reserved : Int]]
    /\ answered \in [Products -> [times : Nat, promised : Nat, returned : Nat,
                                  apart : BOOLEAN]]
    /\ \A k \in StockRequests :
          \/ clerks[k] = NoClerk
          \/ clerks[k].at \in {"restock", "reserve"} /\ clerks[k].product \in Products

InventoryInit ==
    /\ stock = [p \in Products |-> NoProduct]
    /\ answered = [p \in Products |-> NoReservation]
    /\ clerks = [k \in StockRequests |-> NoClerk]

\* quantity_actual
Actual(p) == IF stock[p].available > stock[p].reserved
             THEN stock[p].available - stock[p].reserved ELSE 0

CreateProduct(p, units) ==
    /\ ~stock[p].listed
    /\ stock' = [stock EXCEPT ![p] = [listed |-> TRUE, available |-> units, reserved |-> 0]]
    /\ UNCHANGED <<answered, clerks>>

\* update_stock reads the row and computes the new quantity, never below 0.
StartRestock(k, p, delta) ==
    LET sum == stock[p].available + delta IN
    /\ clerks[k] = NoClerk /\ stock[p].listed /\ sum <= MaxStock
    /\ clerks' = [clerks EXCEPT ![k] =
          [at |-> "restock", product |-> p, available |-> IF sum < 0 THEN 0 ELSE sum]]
    /\ UNCHANGED <<stock, answered>>

\* MUTANT: the two quantities are written together.
MutantCommitRestock(k) ==
    LET q == clerks[k] IN
    /\ q.at = "restock"
    /\ stock' = [stock EXCEPT ![q.product].available = q.available, ![q.product].reserved = 0]
    /\ clerks' = [clerks EXCEPT ![k] = NoClerk]
    /\ UNCHANGED answered

CommitRestock(k) ==
    LET q == clerks[k] IN
    /\ q.at = "restock"
    /\ stock' = [stock EXCEPT ![q.product].available = q.available]
    /\ clerks' = [clerks EXCEPT ![k] = NoClerk]
    /\ UNCHANGED answered

\* reserve_stock reads the row and finds enough; of a quantity below zero there
\* always is, and it gives units back.
StartReserve(k, p, n) ==
    /\ clerks[k] = NoClerk /\ stock[p].listed
    /\ Actual(p) >= n
    /\ clerks' = [clerks EXCEPT ![k] =
          [at |-> "reserve", product |-> p, quantity |-> n, reserved |-> stock[p].reserved + n,
           seen |-> answered[p].times]]
    /\ UNCHANGED <<stock, answered>>

CommitReserve(k) ==
    LET q == clerks[k] IN
    /\ q.at = "reserve"
    /\ answered[q.product].times < MaxReservations
    /\ stock' = [stock EXCEPT ![q.product].reserved = q.reserved]
    /\ answered' = [answered EXCEPT ![q.product] =
          [times |-> @.times + 1,
           promised |-> IF q.quantity > 0 THEN @.promised + q.quantity ELSE @.promised,
           returned |-> IF q.quantity < 0 THEN @.returned - q.quantity ELSE @.returned,
           apart |-> @.apart /\ q.seen = @.times]]
    /\ clerks' = [clerks EXCEPT ![k] = NoClerk]

FailStock(k) ==
    /\ clerks[k] # NoClerk
    /\ clerks' = [clerks EXCEPT ![k] = NoClerk]
    /\ UNCHANGED <<stock, answered>>

InventoryNext ==
    \/ \E p \in Products, units \in InitialStocks : CreateProduct(p, units)
    \/ \E k \in StockRequests :
          \/ \E p \in Products :
                \/ \E d \in Deltas : StartRestock(k, p, d)
                \/ \E n \in Quantities : StartReserve(k, p, n)
          \/ CommitRestock(k)
          \/ CommitReserve(k)
          \/ FailStock(k)

InventorySpec == InventoryInit /\ [][InventoryNext]_inventoryVars

\* Every reservation answered with success is in quantity_reserved, those below
\* zero as units given back, unless two reservations of the product overlapped;
\* restocking at the same time loses none, for it writes the other column of the
\* row.  Where they overlapped some are lost, and none counts twice: no more is
\* reserved than was promised, and no more freed than was given back.
OversellNeedsOverlap ==
    \A p \in Products :
        LET a == answered[p] IN
        /\ 0 - a.returned <= stock[p].reserved /\ stock[p].reserved <= a.promised
        /\ a.apart => stock[p].reserved = a.promised - a.returned
=============================================================================
