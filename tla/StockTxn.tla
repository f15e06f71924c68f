------------------------------ MODULE StockTxn ------------------------------
(***************************************************************************)
(* One posting (StockService.post) as the database sees it: its statements *)
(* one by one, under READ COMMITTED, which is the level the service leaves *)
(* in place.  Several clients adjust the same INV bucket, whose rows are   *)
(* one ItemStock row and one location row.                                 *)
(*                                                                         *)
(* A statement that writes a row locks it until the transaction ends; a    *)
(* statement that reads a row waits for its writer and keeps no lock.  The *)
(* ledger line of a transaction shows when it commits.  A transaction may  *)
(* be rolled back at any point (refusal, deadlock victim, lost client).    *)
(***************************************************************************)
EXTENDS Integers

CONSTANTS
  Clients,
  Deltas,     \* bound: the signed quantities of the requests
  MaxStock,   \* bound: no request starts once the bucket holds this much
  Nobody      \* holds the lock of an unlocked row

VARIABLES
  stock,    \* committed ItemStock.quantity
  cell,     \* committed ItemStockLocation.quantity
  ledger,   \* sum of the committed InventoryTxn lines
  lock,     \* lock[r]: the client with an uncommitted write of row r
  pc,       \* pc[c]: the next statement of client c
  delta,    \* delta[c]: the signed quantity of its request
  seen      \* seen[c]: the bucket it read, and later the location row

txnVars == <<stock, cell, ledger, lock, pc, delta, seen>>

Rows == {"stock", "cell"}

TxnTypeOK ==
  /\ stock \in Int /\ cell \in Int /\ ledger \in Int
  /\ lock \in [Rows -> Clients \cup {Nobody}]
  /\ pc \in [Clients -> {"idle", "readStock", "writeStock", "readCell", "writeCell", "commit"}]
  /\ delta \in [Clients -> Deltas \cup {0}]
  /\ seen \in [Clients -> [Rows -> Int]]

TxnInit ==
  /\ stock = 0 /\ cell = 0 /\ ledger = 0
  /\ lock = [r \in Rows |-> Nobody]
  /\ pc = [c \in Clients |-> "idle"]
  /\ delta = [c \in Clients |-> 0]
  /\ seen = [c \in Clients |-> [r \in Rows |-> 0]]

Free(r, c) == lock[r] \in {Nobody, c}

Goto(c, from, to) == pc[c] = from /\ pc' = [pc EXCEPT ![c] = to]

Begin(c, d) ==
  /\ stock < MaxStock
  /\ Goto(c, "idle", "readStock")
  /\ delta' = [delta EXCEPT ![c] = d]
  /\ UNCHANGED <<stock, cell, ledger, lock, seen>>

\* findUnique on itemStock; applyOutbound refuses what it does not cover.
ReadStock(c) ==
  /\ Free("stock", c)
  /\ stock + delta[c] >= 0
  /\ Goto(c, "readStock", "writeStock")
  /\ seen' = [seen EXCEPT ![c]["stock"] = stock]
  /\ UNCHANGED <<stock, cell, ledger, lock, delta>>

\* itemStock.upsert with the balance computed from what was read.
WriteStock(c) ==
  /\ Free("stock", c)
  /\ Goto(c, "writeStock", "readCell")
  /\ lock' = [lock EXCEPT !["stock"] = c]
  /\ UNCHANGED <<stock, cell, ledger, delta, seen>>

ReadCell(c) ==
  /\ Free("cell", c)
  /\ Goto(c, "readCell", "writeCell")
  /\ seen' = [seen EXCEPT ![c]["cell"] = cell]
  /\ UNCHANGED <<stock, cell, ledger, lock, delta>>

WriteCell(c) ==
  /\ Free("cell", c)
  /\ Goto(c, "writeCell", "commit")
  /\ lock' = [lock EXCEPT !["cell"] = c]
  /\ UNCHANGED <<stock, cell, ledger, delta, seen>>

Release(c) == lock' = [r \in Rows |-> IF lock[r] = c THEN Nobody ELSE lock[r]]

\* The row of a removal stops at zero (removeFromLocations is tolerant).
NewCell(c) ==
  IF seen[c]["cell"] + delta[c] >= 0 THEN seen[c]["cell"] + delta[c] ELSE 0

Commit(c) ==
  /\ Goto(c, "commit", "idle")
  /\ Release(c)
  /\ stock' = seen[c]["stock"] + delta[c]
  /\ cell' = NewCell(c)
  /\ ledger' = ledger + delta[c]
  /\ UNCHANGED <<delta, seen>>

Rollback(c) ==
  /\ pc[c] # "idle"
  /\ pc' = [pc EXCEPT ![c] = "idle"]
  /\ Release(c)
  /\ UNCHANGED <<stock, cell, ledger, delta, seen>>

TxnNext ==
  \E c \in Clients :
    \/ \E d \in Deltas : Begin(c, d)
    \/ ReadStock(c)
    \/ WriteStock(c)
    \/ ReadCell(c)
    \/ WriteCell(c)
    \/ Commit(c)
    \/ Rollback(c)

TxnSpec == TxnInit /\ [][TxnNext]_txnVars

-----------------------------------------------------------------------------
(***************************************************************************)
(* "the sum over locations stays equal to the ItemStock quantity" (post,   *)
(* 166-168), for committed data.  There is always a location here, and     *)
(* nothing ever leaves the breakdown behind on its own: only two           *)
(* transactions that read the bucket before either writes it can.          *)
(***************************************************************************)
LocationsMatchStock == cell = stock
=============================================================================
