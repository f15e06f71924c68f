------------------------------ MODULE Location ------------------------------
(***************************************************************************)
(* Storage locations: the leaves (racks and areas) of the location tree,   *)
(* with the flags that decide where stock lands                            *)
(* (apps/api/src/location/location.service.ts).  Buildings and aisles only *)
(* matter through the building of a leaf.  A row is the set of its flags;  *)
(* a leaf not created yet has none.                                        *)
(***************************************************************************)
EXTENDS StockLedger

CONSTANTS
  Building,   \* Building[k]: the building of leaf k
  CodeRank,   \* CodeRank[k]: the rank of leaf k when leaves are sorted by code
  NewFlags,   \* the flag sets that a create request may carry
  Patches     \* the updates: flags to switch on and flags to switch off

Flags == {"active", "isDefault", "isReceiving"}

ASSUME LocationAssumption ==
  /\ DOMAIN Building = Locs
  /\ CodeRank \in [Locs -> Nat]
  /\ NewFlags \subseteq SUBSET Flags
  /\ Patches \subseteq [on : SUBSET Flags, off : SUBSET Flags]

VARIABLE locs

\* The flags of which a building has one holder.
Scoped == {"isDefault", "isReceiving"}

LocationTypeOK == locs \in [Locs -> SUBSET (Flags \cup {"exists"})]

LocationInit == locs = [k \in Locs |-> {}]

\* clearFlag: the other leaves of the building lose the flags l is given.
ClearOthers(l, flags) ==
  [k \in Locs |-> IF k # l /\ Building[k] = Building[l]
                  THEN locs[k] \ (flags \cap Scoped)
                  ELSE locs[k]]

CreateLocation(l, flags) ==
  /\ "exists" \notin locs[l]
  /\ locs' = [ClearOthers(l, flags) EXCEPT ![l] = flags \cup {"exists"}]

\* Mutation of UpdateLocation: the edit does not clear the flag elsewhere.
UpdateKeepsOthers(l, on, off) ==
  /\ "exists" \in locs[l]
  /\ locs' = [locs EXCEPT ![l] = (@ \cup on) \ off]

UpdatedLocs(l, on, off) == [ClearOthers(l, on) EXCEPT ![l] = (@ \cup on) \ off]

UpdateLocation(l, on, off) ==
  /\ "exists" \in locs[l]
  /\ locs' = UpdatedLocs(l, on, off)

LocationNext ==
  \E l \in Locs :
    \/ \E flags \in NewFlags : CreateLocation(l, flags)
    \/ \E p \in Patches : UpdateLocation(l, p.on, p.off)

-----------------------------------------------------------------------------
ActiveLocs == {k \in Locs : "active" \in locs[k]}
Defaults == {k \in Locs : "isDefault" \in locs[k]}
Receiving == {k \in Locs : "isReceiving" \in locs[k]}

\* findFirst ... orderBy code.
FirstByCode(S) ==
  IF S = {} THEN NoLoc
  ELSE CHOOSE k \in S : \A j \in S : CodeRank[k] <= CodeRank[j]

\* Mutation of ResolveInbound: flagged leaves only.
ResolveFlagged(s) ==
  FirstByCode(ActiveLocs \cap (IF s = "QUARANTINE" THEN Receiving ELSE Defaults))

(***************************************************************************)
(* resolveInboundLocationId: the flagged active leaf, else any active one. *)
(***************************************************************************)
ResolveInbound(s) ==
  LET flagged == ActiveLocs \cap (IF s = "QUARANTINE" THEN Receiving ELSE Defaults)
  IN  IF flagged # {} THEN FirstByCode(flagged) ELSE FirstByCode(ActiveLocs)

\* movement.locationId ?? resolveInboundLocationId(...)
InboundLoc(s, requested) == IF requested # NoLoc THEN requested ELSE ResolveInbound(s)

(***************************************************************************)
(* A building has at most one default and at most one receiving leaf,      *)
(* whatever the order of creations and edits (the flag clearing of         *)
(* location.service.ts 75-78, 135-138); the approval of a lot relies on    *)
(* it when it takes the first default leaf of a building                   *)
(* (quality.service.ts 140-148).                                           *)
(***************************************************************************)
OneFlagPerBuilding ==
  \A k, l \in Locs :
    k # l /\ Building[k] = Building[l] =>
      locs[k] \cap locs[l] \cap Scoped = {}
=============================================================================
