SPECIFICATION Spec
CONSTANTS
  r1 = r1  r2 = r2  r3 = r3  r4 = r4  r5 = r5
  Requests = {r1, r2, r3, r4, r5}
  Input <- WebhookInput
  buyer = buyer  Admin = admin
  Users = {buyer, admin}
  k1 = k1  k2 = k2
  Keys = {k1, k2}
  e1 = e1  e2 = e2
  Events = {e1, e2}
  p1 = p1  Product = p1  OtherProduct = p2
  InitialStock = 2
  MaxQuantity = 2
  None = None
INVARIANTS CheckoutInv StockConserved EventsTakeEffectOnce DeadOrdersHoldNothing
PROPERTIES LedgerSpec
