------------------------------ MODULE MCCaches ------------------------------
(***************************************************************************)
(* The caches of a fuselage: a matrix, the clean loft, the loft that is cut *)
(* from it, and the loft of a segment, which is cut out of that.            *)
(***************************************************************************)
EXTENDS Caches

FuselageReads ==
    [place |-> {}, clean |-> {"place"}, loft |-> {"clean"}, segment |-> {"loft", "place"}]
=============================================================================
