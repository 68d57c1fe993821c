--------------------------- MODULE Configurations ---------------------------
(***************************************************************************)
(* The configuration manager and the C functions that open and close        *)
(* configurations: src/src/configuration/CCPACSConfigurationManager.cpp and *)
(* src/src/api/tigl.cpp.                                                     *)
(*                                                                           *)
(* A CPACS document is a Text.  A text may describe several models; a        *)
(* configuration is one model of a text, read into memory, and is known to   *)
(* callers by a handle.  Handles are drawn from a signed counter that wraps; *)
(* Least and Limit are its ends, INT_MIN and INT_MAX.                        *)
(***************************************************************************)
EXTENDS Integers

CONSTANTS
    None,           \* no handle, no file, no document
    Text,           \* CPACS documents
    Model,          \* uIDs of models
    ModelsOf,       \* text -> the models it describes
    Unreadable,     \* the texts ReadCPACS throws on
    Least,          \* INT_MIN of the handle counter
    Limit           \* INT_MAX of the handle counter

ASSUME TextAssumption == /\ ModelsOf \in [Text -> SUBSET Model]
                         /\ Unreadable \subseteq Text
ASSUME LimitAssumption == Limit \in Nat \ {0} /\ Least \in Int /\ Least <= 0
ASSUME NoneAssumption == None \notin Int

VARIABLES
    configurations,     \* handle -> the configuration it names
    handleCounter       \* the handle that was given last

Counter == Least .. Limit
Configuration == [text : Text, model : Model]

ConfigurationsTypeOK ==
    /\ DOMAIN configurations \subseteq 1 .. Limit
    /\ \A h \in DOMAIN configurations : configurations[h] \in Configuration
    /\ handleCounter \in Counter

NoConfiguration == [h \in {} |-> None]

(***************************************************************************)
(* handleCounter++ and the two checks of AddConfiguration: a number below 1  *)
(* and a number in use are refused, and the counter stays where it is.       *)
(***************************************************************************)
NextHandle == IF handleCounter = Limit THEN Least ELSE handleCounter + 1

Accepts(open) == NextHandle >= 1 /\ NextHandle \notin DOMAIN open

(***************************************************************************)
(* tiglOpenCPACSConfiguration(text, model) on the configurations `open`: the *)
(* handle it returns, and what it leaves in the manager.  The counter moves  *)
(* only when the text could be read.                                         *)
(***************************************************************************)
Loadable(text, model) == text \notin Unreadable /\ model \in ModelsOf[text]

Handle(open, text, model) ==
    IF Loadable(text, model) /\ Accepts(open) THEN NextHandle ELSE None

Opened(open, text, model) ==
    IF Loadable(text, model) /\ Accepts(open)
    THEN [h \in DOMAIN open \cup {NextHandle} |->
              IF h = NextHandle THEN [text |-> text, model |-> model] ELSE open[h]]
    ELSE open

Counted(text, model) == IF Loadable(text, model) THEN NextHandle ELSE handleCounter

(* tiglCloseCPACSConfiguration; a handle that names nothing is refused.      *)
Closed(open, handle) == [h \in DOMAIN open \ {handle} |-> open[h]]
=============================================================================
