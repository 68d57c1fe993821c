----------------------------- MODULE MCCreator -----------------------------
(***************************************************************************)
(* Three texts: one that describes a single model, one that describes two,   *)
(* and what a broken write leaves, which describes none.                     *)
(***************************************************************************)
EXTENDS Creator, TLC

CONSTANTS one, two, cut, a, b

DescribedModels == (one :> {a}) @@ (two :> {a, b}) @@ (cut :> {})
=============================================================================
