--------------------------- MODULE MCPositionings ---------------------------
(***************************************************************************)
(* A small wing or fuselage: enough sections for a chain with a link that  *)
(* is neither its first nor its last.  The documents define a chain in     *)
(* order, a chain whose links come last to first, a section that is placed *)
(* twice, and a chain beside a cycle; one edit leads to the other lists.   *)
(***************************************************************************)
EXTENDS Positionings

CONSTANTS s1, s2, s3

MCSection == {s1, s2, s3}
MCOrder   == <<s1, s2, s3>>

Defined(links) ==
    [i \in DOMAIN links |-> [from |-> links[i][1], to |-> links[i][2], vector |-> 1]]

MCDocuments ==
    {Defined(links) : links \in
       {<<>>,
        <<<<None, s1>>, <<s1, s2>>, <<s2, s3>>>>,
        <<<<s2, s3>>, <<s1, s2>>, <<None, s1>>>>,
        <<<<None, s1>>, <<s1, s2>>, <<s2, s1>>>>,
        <<<<None, s1>>, <<s3, s2>>, <<s2, s3>>>>}}
=============================================================================
