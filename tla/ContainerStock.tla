--------------------------- MODULE ContainerStock ---------------------------
(***************************************************************************)
(* Containers (apps/api/src/container/container.service.ts): drums, pails  *)
(* and bottles that are counted, not weighed.  They have no lots, buckets  *)
(* or locations: jars[c] is the row of container c with its ContainerStock *)
(* count.  The modules that extend this one draw containers down when a    *)
(* sales order is packed or a container line of it is shipped.             *)
(***************************************************************************)
EXTENDS Quantities

CONSTANTS
  Containers,   \* the containers, by SKU
  Counts,       \* the quantities a request may name, 0 standing for none
  MaxJars       \* bound: what an inbound request may raise a count to

ASSUME ContainerAssumption == Counts \subseteq Nat /\ MaxJars \in Nat

VARIABLE jars

JarRows == [exists : BOOLEAN, active : BOOLEAN, qty : Nat]

ContainersTypeOK == jars \in [Containers -> JarRows]

ContainersInit ==
  jars = [c \in Containers |-> [exists |-> FALSE, active |-> FALSE, qty |-> 0]]

-----------------------------------------------------------------------------
\* create, with the opening balance that it posts in the same transaction.
CreateContainer(c, active, opening) ==
  /\ ~ jars[c].exists
  /\ opening <= MaxJars
  /\ jars' = [jars EXCEPT ![c] = [exists |-> TRUE, active |-> active, qty |-> opening]]

UpdateContainer(c, active) ==
  /\ jars[c].exists
  /\ jars' = [jars EXCEPT ![c].active = active]

(***************************************************************************)
(* postTxn, for a list of movements of one transaction.  Each is checked   *)
(* against the count that the earlier ones left, so the list goes through  *)
(* when its total per container is in stock.                               *)
(***************************************************************************)
Holds(need) == \A c \in Containers : need[c] <= jars[c].qty /\ (need[c] > 0 => jars[c].exists)

Less(need) == [c \in Containers |-> [jars[c] EXCEPT !.qty = @ - need[c]]]

Single(c, q) == [d \in Containers |-> IF d = c THEN q ELSE 0]

AdjustContainerIn(c, q) ==
  /\ jars[c].exists
  /\ q > 0 /\ jars[c].qty + q <= MaxJars
  /\ jars' = [jars EXCEPT ![c].qty = @ + q]

\* adjust OUT and scrap differ in the type of the movement only.
WithdrawContainer(c, q) ==
  /\ q > 0
  /\ Holds(Single(c, q))
  /\ jars' = Less(Single(c, q))

ContainersNext ==
  \E c \in Containers :
    \/ \E active \in BOOLEAN, q \in Counts : CreateContainer(c, active, q)
    \/ \E active \in BOOLEAN : UpdateContainer(c, active)
    \/ \E q \in Counts : AdjustContainerIn(c, q) \/ WithdrawContainer(c, q)
=============================================================================
