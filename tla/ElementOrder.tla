----------------------------- MODULE ElementOrder -----------------------------
(***************************************************************************)
(* What the TiGLCreator and the callers of the library may expect of the   *)
(* elements of a wing or fuselage: one row of section elements, from root  *)
(* to tip or from nose to tail (GetOrderedConnectedElement of CCPACSWing   *)
(* and CCPACSFuselage).  Whatever is asked for, one element enters the row *)
(* or one leaves it, and the others stay as they were.                     *)
(***************************************************************************)
EXTENDS Integers, Sequences, SequencesExt

CONSTANT Element     \* the uIDs of section elements

VARIABLE order       \* the connected elements

OrderInit ==
    /\ order \in Seq(Element)
    /\ IsInjective(order)

\* CreateNewConnectedElementBetween, After and Before.
Insert ==
    \E i \in 1 .. Len(order) + 1, new \in Element \ Range(order) :
        /\ Len(order) >= 2
        /\ order' = InsertAt(order, i, new)

\* DeleteConnectedElement; a segment joins two elements, so one alone is not
\* connected.
Delete ==
    \E i \in DOMAIN order :
        order' = IF Len(order) > 2 THEN RemoveAt(order, i) ELSE <<>>

OrderNext == Insert \/ Delete

OrderSpec == OrderInit /\ [][OrderNext]_order
=============================================================================
