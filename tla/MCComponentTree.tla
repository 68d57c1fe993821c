--------------------------- MODULE MCComponentTree ---------------------------
(***************************************************************************)
(* A fuselage and a wing that can be each other's parent, and a component  *)
(* segment of the wing, which is a shape but has no place in the tree.     *)
(***************************************************************************)
EXTENDS ComponentTree

CONSTANTS fuselage, wing, segment, EmptyUID

MCObject    == {fuselage, wing, segment}
MCAbove     == [o \in MCObject |-> IF o = segment THEN {wing} ELSE {}]
MCUID       == 1 .. 2
MCRefValue  == MCUID \cup {None, EmptyUID}
MCRelative  == {fuselage, wing}
=============================================================================
