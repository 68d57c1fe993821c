---------------------------- MODULE ComponentTree ----------------------------
(***************************************************************************)
(* The geometric half of tigl::CTiglUIDManager: the containers of shapes   *)
(* and of relatively positioned components, and the parent-child tree that *)
(* BuildTree makes of their parentUID fields and stores in the components  *)
(* themselves (CTiglRelativelyPositionedComponent).                        *)
(*                                                                         *)
(* It composes with UIDManager: each operation there that reaches the      *)
(* containers is conjoined with what it does to them, so that an action of *)
(* this module is the whole operation.                                     *)
(***************************************************************************)
EXTENDS UIDManager

CONSTANTS
    Geometric,    \* objects with an independent geometry
    Relative,     \* those that are positioned relatively and are physical
    ParentField   \* the field m_parentUID

ASSUME ComponentAssumption ==
    /\ Relative \subseteq Geometric
    /\ Geometric \subseteq Object
    /\ ParentField \in Field
    /\ UID \subseteq Int            \* std::map iterates in the order of the uIDs

VARIABLES
    allShapes,            \* uID -> object
    relativeComponents,   \* uID -> object
    rootComponents,       \* uID -> object
    invalidated,
    children,             \* _children of each component
    parent,               \* _parent of each component
    fault                 \* how the process died, if it did

containers == <<allShapes, relativeComponents>>
tree       == <<rootComponents, children, parent, fault>>
treeVars   == <<containers, tree, invalidated>>

NoEntry == [u \in UID |-> None]

TreeTypeOK ==
    /\ allShapes \in [UID -> Geometric \cup {None}]
    /\ relativeComponents \in [UID -> Relative \cup {None}]
    /\ rootComponents \in [UID -> Relative \cup {None}]
    /\ invalidated \in BOOLEAN
    /\ children \in [Object -> SUBSET Relative]
    /\ parent \in [Object -> Relative \cup {None}]
    /\ fault \in {"none", "overflow", "dangling"}

TreeInit ==
    /\ Init
    /\ allShapes = NoEntry
    /\ relativeComponents = NoEntry
    /\ rootComponents = NoEntry
    /\ invalidated = TRUE
    /\ children = [o \in Object |-> {}]
    /\ parent = [o \in Object |-> None]
    /\ fault = "none"

-----------------------------------------------------------------------------
(* The containers.                                                         *)

\* Mutant: every shape goes to relativeComponents.
AddEveryShape(o, u) ==
    IF o \in Geometric
    THEN /\ allShapes' = [allShapes EXCEPT ![u] = o]
         /\ relativeComponents' = [relativeComponents EXCEPT ![u] = o]
         /\ invalidated' = TRUE
         /\ UNCHANGED tree
    ELSE UNCHANGED treeVars

\* RegisterObject's second half, for an object that was just registered as u.
AddGeometricComponent(o, u) ==
    IF o \in Geometric
    THEN /\ allShapes' = [allShapes EXCEPT ![u] = o]
         /\ relativeComponents' =
              IF o \in Relative THEN [relativeComponents EXCEPT ![u] = o]
                                ELSE relativeComponents
         /\ invalidated' = TRUE
         /\ UNCHANGED tree
    ELSE UNCHANGED treeVars

\* The tree and its roots keep their pointers, and nothing asks for a rebuild.
RemoveGeometricComponents(dropped) ==
    /\ allShapes' =
         [u \in UID |-> IF u \in dropped THEN None ELSE allShapes[u]]
    /\ relativeComponents' =
         [u \in UID |-> IF u \in dropped THEN None ELSE relativeComponents[u]]
    /\ UNCHANGED <<tree, invalidated>>

\* Mutant: relativeComponents is forgotten.
UpdateShapesOnly(old, new) ==
    /\ allShapes' = IF allShapes[old] # None
                    THEN [allShapes EXCEPT ![new] = allShapes[old], ![old] = None]
                    ELSE allShapes
    /\ UNCHANGED <<relativeComponents, tree, invalidated>>

\* rootComponents keeps the entry of the old uID.
UpdateGeometricComponentUID(old, new) ==
    /\ IF allShapes[old] # None
       THEN /\ allShapes' = [allShapes EXCEPT ![new] = allShapes[old],
                                              ![old] = None]
            /\ relativeComponents' =
                 IF relativeComponents[old] # None
                 THEN [relativeComponents EXCEPT ![new] = relativeComponents[old],
                                                 ![old] = None]
                 ELSE relativeComponents
       ELSE UNCHANGED containers
    /\ UNCHANGED <<tree, invalidated>>

-----------------------------------------------------------------------------
(* BuildTree.                                                              *)

ParentUID(c) == ref[c][ParentField]

Components == {c \in Relative : \E u \in UID : relativeComponents[u] = c}

\* Mutant: the parent is looked up among all shapes.
UnresolvedShape ==
    {u \in UID : LET c == relativeComponents[u] IN
        /\ c # None
        /\ ParentUID(c) # None
        /\ ParentUID(c) \notin UID \/ allShapes[ParentUID(c)] = None}

\* The entries at which BuildTree throws: an empty parentUID, or one that is
\* not the uID of a relative component.
Unresolved ==
    {u \in UID : LET c == relativeComponents[u] IN
        /\ c # None
        /\ ParentUID(c) # None
        /\ ParentUID(c) \notin UID \/ relativeComponents[ParentUID(c)] = None}

\* The components that are linked to a parent: up to the first that throws.
Linked ==
    {c \in Components : \E u \in UID :
        /\ relativeComponents[u] = c
        /\ ParentUID(c) # None
        /\ \A v \in Unresolved : u < v}

ResolvedParent(c) == relativeComponents[ParentUID(c)]

BuiltChildren ==
    [p \in Object |-> IF p \in Components
                      THEN {c \in Linked : ResolvedParent(c) = p}
                      ELSE children[p]]

\* A component without a parentUID keeps the _parent it had.
BuiltParent ==
    [c \in Object |-> IF c \in Linked THEN ResolvedParent(c) ELSE parent[c]]

\* GetChildren(true) does not return exactly when the children form a cycle.
Cyclic(ch) == \E S \in SUBSET Relative :
                 S # {} /\ \A x \in S : ch[x] \cap S # {}

\* Entries are added and never taken out.
BuiltRoots ==
    [u \in UID |-> IF relativeComponents[u] # None
                      /\ ParentUID(relativeComponents[u]) = None
                   THEN relativeComponents[u] ELSE rootComponents[u]]

Link == children' = BuiltChildren /\ parent' = BuiltParent

BuildTreeThrows ==
    /\ Unresolved # {}
    /\ Link
    /\ UNCHANGED <<rootComponents, fault>>

BuildTreeOverflows ==
    /\ Unresolved = {}
    /\ Cyclic(BuiltChildren)
    /\ Link
    /\ fault' = "overflow"
    /\ UNCHANGED rootComponents

BuildTreeSucceeds ==
    /\ Unresolved = {}
    /\ ~Cyclic(BuiltChildren)
    /\ Link
    /\ rootComponents' = BuiltRoots

\* What writeComponent visits from the given roots.
Visited(roots, ch) ==
    {c \in Relative : \A S \in SUBSET Relative :
        (/\ \A u \in UID : roots[u] # None => roots[u] \in S
         /\ \A x \in S : ch[x] \subseteq S) => c \in S}

-----------------------------------------------------------------------------
(* The operations.                                                         *)

\* CCPACSConfiguration::ReadCPACS ends with SetParentComponents.
Open ==
    /\ FinishReading
    /\ \/ BuildTreeThrows /\ phase' = "failed"
       \/ BuildTreeOverflows /\ phase' = "failed"
       \/ BuildTreeSucceeds /\ phase' = "open" /\ UNCHANGED fault
    /\ UNCHANGED <<containers, invalidated>>

\* Mutant: the tree is taken for valid before it is known to be.
UpdateMarkedFirst ==
    /\ phase = "open"
    /\ invalidated
    /\ invalidated' = FALSE
    /\ \/ BuildTreeThrows
       \/ Link /\ UNCHANGED <<rootComponents, fault>>
    /\ UNCHANGED <<vars, containers>>

\* GetRelativeComponents and GetRootGeometricComponents call Update, which
\* builds the tree when a component came in, and logs it from its roots.
Update ==
    /\ phase = "open"
    /\ invalidated
    /\ \/ (BuildTreeThrows \/ BuildTreeOverflows) /\ UNCHANGED invalidated
       \/ /\ BuildTreeSucceeds
          /\ invalidated' = FALSE
          /\ fault' = IF Visited(rootComponents', children') \subseteq Existing
                      THEN "none" ELSE "dangling"
    /\ UNCHANGED <<vars, containers>>

TreeReadBegin(o, u, r) == ReadBegin(o, u, r) /\ UNCHANGED treeVars
TreeReadUnnamed(o) == ReadUnnamed(o) /\ UNCHANGED treeVars
TreeReadRegister(o) == ReadRegister(o) /\ AddGeometricComponent(o, uid[o])
\* An object that was registered and fails is entered and taken out again.
TreeReadFails(o, d) ==
    ReadFails(o, d) /\ RemoveGeometricComponents(DroppedUIDs(WithOwned(d)))
TreeAdd(o) == Add(o) /\ UNCHANGED treeVars
TreeSetFirstUID(o, u) == SetFirstUID(o, u) /\ AddGeometricComponent(o, u)
TreeRename(o, u) == Rename(o, u) /\ UpdateGeometricComponentUID(uid[o], u)
TreeSetReference(o, f, v) == SetReference(o, f, v) /\ UNCHANGED treeVars
TreeRemove(o) == Remove(o) /\ RemoveGeometricComponents(DroppedUIDs(WithOwned(o)))

TreeNext ==
    /\ fault = "none"
    /\ \/ \E o \in Object, u \in UID \cup {None}, r \in [Field -> RefValue] :
             TreeReadBegin(o, u, r)
       \/ \E o \in Object : TreeReadUnnamed(o) \/ TreeReadRegister(o)
       \/ \E o, d \in Object : TreeReadFails(o, d)
       \/ Open
       \/ Update
       \/ \E o \in Object : TreeAdd(o) \/ TreeRemove(o)
       \/ \E o \in Object, u \in UID : TreeSetFirstUID(o, u) \/ TreeRename(o, u)
       \/ \E o \in Object, f \in Field, v \in RefValue : TreeSetReference(o, f, v)

TreeSpec == TreeInit /\ [][TreeNext]_<<vars, treeVars>>

-----------------------------------------------------------------------------
(* Safety.                                                                 *)

\* The three maps that are keyed by uID stay in step: what is a shape or a
\* relative component under a uID is the object registered under it, and none
\* is missing, through renames, failed reads and the removal of subtrees.
ContainersMatchRegistry ==
    \A u \in UID :
        /\ allShapes[u] = IF cpacsObjects[u] \in Geometric
                          THEN cpacsObjects[u] ELSE None
        /\ relativeComponents[u] = IF cpacsObjects[u] \in Relative
                                   THEN cpacsObjects[u] ELSE None

\* Both directions of a relation agree: a living child of a registered
\* component has that component as its _parent, also when a rebuild threw
\* half-way or a component was renamed or removed since.  And while the tree
\* counts as up to date, walking down from a component ends.
ValidTreeIsForest ==
    /\ \A p \in Components : \A c \in children[p] \cap Live : parent[c] = p
    /\ ~invalidated /\ fault = "none" => ~Cyclic(children)

\* A configuration that opens has placed every component: one with a parentUID
\* has the object of that uID as its parent and as a relative component, and
\* one without has no parent.
OpenLinksEveryComponent ==
    [][phase = "reading" /\ phase' = "open" /\ ~repeated =>
         \A c \in Live \cap Relative : uid[c] # None =>
            IF ParentUID(c) = None THEN parent'[c] = None
            ELSE parent'[c] = cpacsObjects[ParentUID(c)] /\ parent'[c] \in Relative
      ]_<<vars, treeVars>>
-----------------------------------------------------------------------------
(* What makes the safety properties inductive.                             *)

\* It has a uID, or had one until it was destroyed: a name is never taken away.
Named(o) == uid[o] # None \/ status[o] = "dead"

RegisteredAreNamed ==
    \A o \in Object : (\E u \in UID : cpacsObjects[u] = o) => Named(o)

\* Only components that were registered at some time were ever linked.
LinkedAreNamed ==
    \A p \in Object : /\ children[p] # {} => Named(p)
                      /\ \A c \in children[p] : Named(c)

NoTreeWhileReading ==
    phase = "reading" =>
        /\ invalidated
        /\ children = [o \in Object |-> {}]
        /\ parent = [o \in Object |-> None]

TreeInv ==
    /\ IInv
    /\ TreeTypeOK
    /\ ContainersMatchRegistry
    /\ RegisteredAreNamed
    /\ LinkedAreNamed
    /\ NoTreeWhileReading
    /\ ValidTreeIsForest
=============================================================================
