--------------------------- MODULE InventoryLedger ---------------------------
(***************************************************************************)
(* What FlashCart promises about its inventory, whatever its handlers do   *)
(* concurrently: units leave the stock for one order at a time, never more *)
(* than there are, and come back at most once.                             *)
(***************************************************************************)
EXTENDS Naturals

CONSTANTS Orders, InitialStock, MaxQuantity

VARIABLES
  stock,   \* units for sale
  held,    \* held[o]: units reserved for order o
  closed   \* orders whose units came back

ledgerVars == <<stock, held, closed>>

LedgerInit ==
  stock = InitialStock /\ held = [o \in Orders |-> 0] /\ closed = {}

Take(o) ==
  \E q \in 1..MaxQuantity :
     /\ held[o] = 0 /\ o \notin closed /\ q <= stock
     /\ stock' = stock - q
     /\ held' = [held EXCEPT ![o] = q]
     /\ UNCHANGED closed

GiveBack(o) ==
  /\ held[o] > 0
  /\ stock' = stock + held[o]
  /\ held' = [held EXCEPT ![o] = 0]
  /\ closed' = closed \cup {o}

\* The store is put back to its canonical state.
Clear == stock' = InitialStock /\ held' = [o \in Orders |-> 0] /\ closed' = {}

LedgerNext == Clear \/ \E o \in Orders : Take(o) \/ GiveBack(o)
LedgerSpec == LedgerInit /\ [][LedgerNext]_ledgerVars
=============================================================================
