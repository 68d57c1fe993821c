-------------------------- MODULE MCConnectedElements --------------------------
(***************************************************************************)
(* Five elements: rows of three and two in the document, with two or three *)
(* uIDs left.  The sections are listed in the order of the row or not, one *)
(* may have an element that no segment uses, and one segment may have      *)
(* guide curves.  Every naming of the elements is a document, so they are  *)
(* interchangeable.                                                        *)
(***************************************************************************)
EXTENDS ConnectedElements, TLC

CONSTANTS a, b, c, d, e

Named(p, list) == [i \in DOMAIN list |-> p[list[i]]]

Sections(p, lists, positioned) ==
    [i \in DOMAIN lists |->
        [elements |-> Named(p, lists[i]), positioned |-> lists[i][1] \in positioned]]

Chain(row, guided) ==
    [i \in 1 .. Len(row) - 1 |-> [from |-> row[i], to |-> row[i + 1], guided |-> i \in guided]]

Document(k, lists, positioned, row, guided) ==
    {[kind |-> k, sections |-> Sections(p, lists, positioned),
      segments |-> Chain(Named(p, row), guided)] : p \in Permutations(Element)}

Wings ==
    UNION {Document("wing", lists, positioned, <<a, b, c>>, guided) :
              lists \in {<< <<a>>, <<b>>, <<c>> >>, << <<c>>, <<a>>, <<b, d>> >>},
              positioned \in {{}, {b, c}},
              guided \in {{}, {2}}}
    \cup Document("wing", << <<a>>, <<b>> >>, {}, <<a, b>>, {})

PositionedFuselages ==
    UNION {Document("fuselage", lists, {a, b, c}, <<a, b, c>>, guided) :
              lists \in {<< <<a>>, <<b>>, <<c>> >>, << <<b>>, <<a, d>>, <<c>> >>},
              guided \in {{}, {1}}}

MCDocuments == Wings \cup PositionedFuselages

Symmetry == Permutations(Element)
=============================================================================
