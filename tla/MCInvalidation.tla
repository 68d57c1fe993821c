--------------------------- MODULE MCInvalidation ---------------------------
(***************************************************************************)
(* An aircraft model: a fuselage with one segment, a wing on it with one   *)
(* segment and one component segment, and a duct in an assembly that cuts  *)
(* both.  Wing and duct share a profile.  Objects that nobody edits here   *)
(* and that add no way of telling are left out: the element at the other   *)
(* end of each segment, the transformations of sections and elements, the  *)
(* profile of the fuselage.                                                *)
(***************************************************************************)
EXTENDS Invalidation

AircraftOwner ==
    [model |-> None, fuselage |-> "model", bodyPlace |-> "fuselage", bodySegment |-> "fuselage",
     frame |-> "fuselage", hoop |-> "frame",
     wing |-> "model", wingPlace |-> "wing", panel |-> "wing", box |-> "wing",
     station |-> "wing", rib |-> "station",
     airfoil |-> None, ducts |-> None, assembly |-> "model",
     duct |-> "model", throat |-> "duct", inlet |-> "duct", ring |-> "inlet"]

AircraftKind ==
    [model |-> "model", fuselage |-> "fuselage", bodyPlace |-> "transformation",
     bodySegment |-> "segment", frame |-> "section", hoop |-> "element",
     wing |-> "wing", wingPlace |-> "transformation", panel |-> "segment",
     box |-> "componentSegment", station |-> "section", rib |-> "element",
     airfoil |-> "profile", ducts |-> "ducts",
     assembly |-> "assembly",
     duct |-> "duct", throat |-> "segment", inlet |-> "section", ring |-> "element"]

Names ==
    [fuselage |-> {"model"}, bodySegment |-> {"hoop"}, wing |-> {"fuselage"},
     panel |-> {"rib"}, box |-> {"rib"}, rib |-> {"airfoil"},
     assembly |-> {"fuselage", "duct"}, throat |-> {"ring"}, ring |-> {"airfoil"}]

Aircraft      == DOMAIN AircraftOwner
AircraftNamed == [o \in Aircraft |-> IF o \in DOMAIN Names THEN Names[o] ELSE {}]
=============================================================================
