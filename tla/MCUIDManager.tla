---------------------------- MODULE MCUIDManager ----------------------------
(***************************************************************************)
(* A wing that owns a segment, and a section element that the segment      *)
(* refers to with both of its fields.                                      *)
(***************************************************************************)
EXTENDS UIDManager

CONSTANTS wing, segment, element

MCObject   == {wing, segment, element}
MCAbove    == [o \in MCObject |-> IF o = segment THEN {wing} ELSE {}]
MCUID      == 1 .. 2
MCRefValue == MCUID \cup {None}
=============================================================================
