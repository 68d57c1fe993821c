------------------------- MODULE ComponentTreeProofs -------------------------
(***************************************************************************)
(* Proofs about ComponentTree for every set of objects, uIDs and fields,   *)
(* every ownership and any choice of the objects that have a geometry.     *)
(* They build on the invariant of the registry, which UIDManagerProofs     *)
(* shows.                                                                  *)
(***************************************************************************)
EXTENDS ComponentTree, UIDManagerProofs

(***************************************************************************)
(* Every operation is one of the registry's, and some of them also change  *)
(* the containers or the tree; a rebuild changes nothing of the registry.  *)
(***************************************************************************)

LEMMA TreeStepIsStep ==
    ASSUME TreeNext
    PROVE  [Next]_vars
<1>1. CASE \E o \in Object, u \in UID \cup {None}, r \in [Field -> RefValue] :
             TreeReadBegin(o, u, r)
  BY <1>1 DEF TreeReadBegin, Next
<1>2. CASE \E o \in Object : TreeReadUnnamed(o) \/ TreeReadRegister(o)
  BY <1>2 DEF TreeReadUnnamed, TreeReadRegister, Next
<1>3. CASE \E o, d \in Object : TreeReadFails(o, d)
  BY <1>3 DEF TreeReadFails, Next
<1>4. CASE Open
  BY <1>4 DEF Open, Next
<1>5. CASE \E o \in Object : TreeAdd(o) \/ TreeRemove(o)
  BY <1>5 DEF TreeAdd, TreeRemove, Next
<1>6. CASE \E o \in Object, u \in UID : TreeSetFirstUID(o, u) \/ TreeRename(o, u)
  BY <1>6 DEF TreeSetFirstUID, TreeRename, Next
<1>7. CASE \E o \in Object, f \in Field, v \in RefValue : TreeSetReference(o, f, v)
  BY <1>7 DEF TreeSetReference, Next
<1>8. CASE Update
  BY <1>8 DEF Update, vars
<1>9. QED
  BY <1>1, <1>2, <1>3, <1>4, <1>5, <1>6, <1>7, <1>8 DEF TreeNext

\* Seen from the registry, the composition does what UIDManager allows.
THEOREM CompositionImplementsRegistry == TreeSpec => Spec
<1>1. TreeInit => Init
  BY DEF TreeInit
<1>2. [TreeNext]_<<vars, treeVars>> => [Next]_vars
  BY TreeStepIsStep
<1>3. QED
  BY <1>1, <1>2, PTL DEF TreeSpec, Spec

-----------------------------------------------------------------------------
(* Names.                                                                  *)

\* Destroying objects takes away names from those that die.
LEMMA DestroyKeepsNames ==
    ASSUME NEW D \in SUBSET Object, NEW dropped, Destroy(D, dropped),
           NEW o \in Object, Named(o)
    PROVE  Named(o)'
BY DEF Destroy, Named

\* An object that has or had a name keeps counting as one.
LEMMA NamesStay ==
    ASSUME IInv, [Next]_vars, NEW x \in Object, Named(x)
    PROVE  Named(x)'
<1> USE DEF IInv, TypeOK
<1>1. ASSUME NEW o \in Object, NEW u \in UID \cup {None},
             NEW r \in [Field -> RefValue], ReadBegin(o, u, r)
      PROVE  Named(x)'
  BY <1>1 DEF ReadBegin, Named, DormantObjects, Existing, Reading, Live
<1>2. ASSUME NEW o \in Object, ReadUnnamed(o) \/ ReadRegister(o)
      PROVE  Named(x)'
  BY <1>2 DEF ReadUnnamed, ReadRegister, Named, InnermostRead, Reading
<1>3. ASSUME NEW o \in Object, NEW d \in Object, ReadFails(o, d)
      PROVE  Named(x)'
  BY <1>3, DestroyKeepsNames, WithOwned(d) \in SUBSET Object
     DEF ReadFails, WithOwned, Existing, Reading, Live
<1>4. CASE FinishReading
  BY <1>4 DEF FinishReading, Named
<1>5. ASSUME NEW o \in Object, Add(o)
      PROVE  Named(x)'
  BY <1>5 DEF Add, Named, DormantObjects, Existing, Reading, Live
<1>6. ASSUME NEW o \in Object, Remove(o)
      PROVE  Named(x)'
  BY <1>6, DestroyKeepsNames, WithOwned(o) \in SUBSET Object
     DEF Remove, WithOwned, Existing, Reading, Live
<1>7. ASSUME NEW o \in Object, NEW u \in UID, SetFirstUID(o, u) \/ Rename(o, u)
      PROVE  Named(x)'
  BY <1>7, ObjectAssumption DEF SetFirstUID, Rename, Named
<1>8. ASSUME NEW o \in Object, NEW f \in Field, NEW v \in RefValue,
             SetReference(o, f, v)
      PROVE  Named(x)'
  BY <1>8 DEF SetReference, Named
<1>9. CASE UNCHANGED vars
  BY <1>9 DEF vars, Named
<1>10. QED
  BY <1>1, <1>2, <1>3, <1>4, <1>5, <1>6, <1>7, <1>8, <1>9 DEF Next

\* Only an object with a name is ever entered in the registry.
LEMMA RegisteredStep ==
    ASSUME IInv, RegisteredAreNamed, [Next]_vars
    PROVE  RegisteredAreNamed'
<1> USE DEF IInv, TypeOK
<1> SUFFICES ASSUME NEW x \in Object, NEW u \in UID, cpacsObjects'[u] = x
             PROVE  Named(x)'
  BY DEF RegisteredAreNamed
<1> DEFINE Known == \E v \in UID : cpacsObjects[v] = x
<1>1. Known \/ uid'[x] # None
  <2>1. CASE \E o \in Object, v \in UID \cup {None}, r \in [Field -> RefValue] :
               ReadBegin(o, v, r)
    BY <2>1 DEF ReadBegin
  <2>2. CASE \E o \in Object : ReadUnnamed(o)
    BY <2>2 DEF ReadUnnamed
  <2>3. CASE \E o \in Object : ReadRegister(o)
    BY <2>3 DEF ReadRegister
  <2>4. CASE \E o, d \in Object : ReadFails(o, d)
    BY <2>4, ObjectAssumption DEF ReadFails, Destroy
  <2>5. CASE FinishReading
    BY <2>5 DEF FinishReading
  <2>6. CASE \E o \in Object : Add(o)
    BY <2>6 DEF Add
  <2>7. CASE \E o \in Object : Remove(o)
    BY <2>7, ObjectAssumption DEF Remove, Destroy
  <2>8. ASSUME NEW o \in Object, NEW v \in UID, SetFirstUID(o, v)
        PROVE  Known \/ uid'[x] # None
    BY <2>8, ObjectAssumption DEF SetFirstUID
  <2>9. ASSUME NEW o \in Object, NEW v \in UID, Rename(o, v)
        PROVE  Known \/ uid'[x] # None
    BY <2>9, ObjectAssumption DEF Rename
  <2>10. CASE \E o \in Object, f \in Field, v \in RefValue : SetReference(o, f, v)
    BY <2>10 DEF SetReference
  <2>11. CASE UNCHANGED vars
    BY <2>11 DEF vars
  <2>12. QED
    BY <2>1, <2>2, <2>3, <2>4, <2>5, <2>6, <2>7, <2>8, <2>9, <2>10, <2>11 DEF Next
<1>2. CASE Known
  BY <1>2, NamesStay DEF RegisteredAreNamed
<1>3. CASE uid'[x] # None
  BY <1>3 DEF Named
<1>4. QED
  BY <1>1, <1>2, <1>3

-----------------------------------------------------------------------------
(* The containers.                                                         *)

\* What the containers hold determines the part of the type about them.
ContainersTyped ==
    /\ allShapes \in [UID -> Geometric \cup {None}]
    /\ relativeComponents \in [UID -> Relative \cup {None}]

\* An object enters the registry and, as far as it is geometric, the containers.
LEMMA AddKeepsMatch ==
    ASSUME TypeOK, ContainersTyped, ContainersMatchRegistry,
           NEW o \in Object, NEW u \in UID,
           cpacsObjects[u] = None,
           cpacsObjects' = [cpacsObjects EXCEPT ![u] = o],
           AddGeometricComponent(o, u)
    PROVE  ContainersTyped' /\ ContainersMatchRegistry'
<1> USE ComponentAssumption, ObjectAssumption DEF ContainersTyped
<1>1. ContainersTyped'
  BY DEF AddGeometricComponent, treeVars, containers
<1>2. ASSUME NEW v \in UID
      PROVE  /\ cpacsObjects'[v] = IF v = u THEN o ELSE cpacsObjects[v]
             /\ allShapes'[v] = IF v = u /\ o \in Geometric THEN o ELSE allShapes[v]
             /\ relativeComponents'[v] = IF v = u /\ o \in Relative THEN o
                                         ELSE relativeComponents[v]
  BY <1>2 DEF AddGeometricComponent, treeVars, containers, TypeOK
<1>3. allShapes[u] = None /\ relativeComponents[u] = None
  BY DEF ContainersMatchRegistry
<1>4. QED
  BY <1>1, <1>2, <1>3 DEF ContainersMatchRegistry

\* Destruction drops the same uIDs from all three; what is taken out beyond
\* them was in none.
LEMMA RemoveKeepsMatch ==
    ASSUME TypeOK, ContainersTyped, ContainersMatchRegistry,
           NEW D, NEW dropped, Destroy(D, dropped),
           DroppedUIDs(D) \subseteq dropped,
           \A u \in UID : u \in dropped /\ IsUIDRegistered(u) => u \in DroppedUIDs(D),
           RemoveGeometricComponents(DroppedUIDs(D))
    PROVE  ContainersTyped' /\ ContainersMatchRegistry'
BY ComponentAssumption, ObjectAssumption
   DEF ContainersTyped, ContainersMatchRegistry, Destroy, RemoveGeometricComponents,
       IsUIDRegistered

\* A rename moves the entry in all three.
LEMMA RenameKeepsMatch ==
    ASSUME TypeOK, ContainersTyped, ContainersMatchRegistry,
           NEW o \in Object, NEW u \in UID, Rename(o, u),
           UpdateGeometricComponentUID(uid[o], u)
    PROVE  ContainersTyped' /\ ContainersMatchRegistry'
<1> DEFINE old == uid[o]
<1>1. /\ old \in UID /\ old # u
      /\ cpacsObjects[u] = None
      /\ allShapes[u] = None /\ relativeComponents[u] = None
  BY ComponentAssumption, ObjectAssumption
     DEF Rename, TypeOK, IsUIDRegistered, ContainersMatchRegistry
<1>2. ContainersTyped'
  BY <1>1 DEF UpdateGeometricComponentUID, containers, ContainersTyped
<1>3. allShapes[old] = None => relativeComponents[old] = None
  BY <1>1, ComponentAssumption, ObjectAssumption DEF ContainersMatchRegistry
<1>4. ASSUME NEW v \in UID
      PROVE  /\ cpacsObjects'[v] = IF v = old THEN None
                                   ELSE IF v = u THEN cpacsObjects[old] ELSE cpacsObjects[v]
             /\ allShapes'[v] = IF v = old THEN None
                                ELSE IF v = u THEN allShapes[old] ELSE allShapes[v]
             /\ relativeComponents'[v] =
                  IF v = old THEN None
                  ELSE IF v = u THEN relativeComponents[old] ELSE relativeComponents[v]
  <2>1. cpacsObjects' = [cpacsObjects EXCEPT ![u] = cpacsObjects[old], ![old] = None]
    BY DEF Rename
  <2>2. CASE allShapes[old] = None
    <3>1. allShapes' = allShapes /\ relativeComponents' = relativeComponents
      BY <2>2 DEF UpdateGeometricComponentUID, containers
    <3>2. QED
      BY <1>1, <1>3, <1>4, <2>1, <2>2, <3>1 DEF TypeOK, ContainersTyped
  <2>3. CASE allShapes[old] # None
    <3>1. allShapes' = [allShapes EXCEPT ![u] = allShapes[old], ![old] = None]
      BY <2>3 DEF UpdateGeometricComponentUID
    <3>2. relativeComponents' =
            IF relativeComponents[old] # None
            THEN [relativeComponents EXCEPT ![u] = relativeComponents[old], ![old] = None]
            ELSE relativeComponents
      BY <2>3 DEF UpdateGeometricComponentUID
    <3>3. CASE relativeComponents[old] # None
      BY <1>1, <1>4, <2>1, <3>1, <3>2, <3>3 DEF TypeOK, ContainersTyped
    <3>4. CASE relativeComponents[old] = None
      BY <1>1, <1>4, <2>1, <3>1, <3>2, <3>4 DEF TypeOK, ContainersTyped
    <3>5. QED
      BY <3>3, <3>4
  <2>4. QED
    BY <2>2, <2>3
<1>5. ASSUME NEW v \in UID
      PROVE  /\ allShapes'[v] = IF cpacsObjects'[v] \in Geometric
                                THEN cpacsObjects'[v] ELSE None
             /\ relativeComponents'[v] = IF cpacsObjects'[v] \in Relative
                                         THEN cpacsObjects'[v] ELSE None
  <2>1. CASE v = old
    BY <1>4, <1>5, <2>1
  <2>2. CASE v # old /\ v = u
    BY <1>1, <1>4, <2>2 DEF ContainersMatchRegistry
  <2>3. CASE v # old /\ v # u
    BY <1>4, <2>3 DEF ContainersMatchRegistry
  <2>4. QED
    BY <2>1, <2>2, <2>3
<1>6. QED
  BY <1>2, <1>5 DEF ContainersMatchRegistry

-----------------------------------------------------------------------------
(* The tree, where it stays as it is.                                      *)

\* Nothing goes back to reading.
LEMMA ReadingEndsForGood ==
    ASSUME [Next]_vars, phase' = "reading"
    PROVE  phase = "reading"
<1>1. CASE \E o \in Object, u \in UID \cup {None}, r \in [Field -> RefValue] :
             ReadBegin(o, u, r)
  BY <1>1 DEF ReadBegin
<1>2. CASE \E o \in Object : ReadUnnamed(o) \/ ReadRegister(o) \/ Add(o) \/ Remove(o)
  BY <1>2 DEF ReadUnnamed, ReadRegister, Add, Remove
<1>3. CASE \E o, d \in Object : ReadFails(o, d)
  BY <1>3 DEF ReadFails
<1>4. CASE FinishReading
  BY <1>4 DEF FinishReading
<1>5. CASE \E o \in Object, u \in UID : SetFirstUID(o, u) \/ Rename(o, u)
  BY <1>5 DEF SetFirstUID, Rename
<1>6. CASE \E o \in Object, f \in Field, v \in RefValue : SetReference(o, f, v)
  BY <1>6 DEF SetReference
<1>7. CASE UNCHANGED vars
  BY <1>7 DEF vars
<1>8. QED
  BY <1>1, <1>2, <1>3, <1>4, <1>5, <1>6, <1>7 DEF Next

\* What is linked keeps its relations when objects that never had a name
\* become components or come to life, for those are in no relation.
LEMMA TreeStays ==
    ASSUME TreeInv, [Next]_vars, UNCHANGED tree,
           invalidated' \in BOOLEAN, invalidated => invalidated',
           phase # "reading" =>
              /\ \A p \in Components' : p \in Components \/ ~Named(p)
              /\ \A c \in Live' : c \in Live \/ ~Named(c)
    PROVE  /\ LinkedAreNamed'
           /\ NoTreeWhileReading'
           /\ ValidTreeIsForest'
<1> USE DEF TreeInv, tree
<1>1. LinkedAreNamed'
  <2>1. \A p \in Object : children[p] \subseteq Object
    BY ComponentAssumption DEF TreeTypeOK
  <2>2. QED
    BY <2>1, NamesStay DEF LinkedAreNamed
<1>2. phase' = "reading" => phase = "reading"
  BY ReadingEndsForGood
<1>3. NoTreeWhileReading'
  BY <1>2 DEF NoTreeWhileReading, TreeTypeOK
<1>4. ASSUME NEW p \in Components', NEW c \in children'[p] \cap Live'
      PROVE  parent'[c] = p
  <2>1. p \in Object /\ children[p] # {} /\ c \in children[p]
    BY <1>4, ComponentAssumption DEF Components
  <2>2. phase # "reading"
    BY <2>1 DEF NoTreeWhileReading
  <2>3. Named(p) /\ Named(c)
    BY <2>1 DEF LinkedAreNamed
  <2>4. p \in Components /\ c \in Live
    BY <1>4, <2>2, <2>3
  <2>5. QED
    BY <2>1, <2>4 DEF ValidTreeIsForest
<1>5. (~invalidated /\ fault = "none" => ~Cyclic(children))'
  <2>1. Cyclic(children)' <=> Cyclic(children)
    BY DEF Cyclic
  <2>2. QED
    BY <2>1 DEF ValidTreeIsForest
<1>6. QED
  BY <1>1, <1>3, <1>4, <1>5 DEF ValidTreeIsForest

-----------------------------------------------------------------------------
(* The steps that leave the tree as it is.                                 *)

\* What the next state owes to the registry.
LEMMA RegistryPart ==
    ASSUME TreeInv, [Next]_vars
    PROVE  IInv' /\ RegisteredAreNamed'
BY NextPreserves, RegisteredStep DEF TreeInv

\* The types of the tree come apart from those of the containers.
LEMMA TypeParts ==
    TreeTypeOK <=> /\ ContainersTyped
                   /\ rootComponents \in [UID -> Relative \cup {None}]
                   /\ invalidated \in BOOLEAN
                   /\ children \in [Object -> SUBSET Relative]
                   /\ parent \in [Object -> Relative \cup {None}]
                   /\ fault \in {"none", "overflow", "dangling"}
BY DEF TreeTypeOK, ContainersTyped

\* Half-read objects exist only while the document is read.
LEMMA ReadingMeansReading ==
    ASSUME IInv, NEW o \in Object, InnermostRead(o)
    PROVE  phase = "reading"
BY DEF IInv, OwnersExist, InnermostRead

\* An operation that does not reach the containers.
LEMMA UntouchedStep ==
    ASSUME TreeInv, [Next]_vars, UNCHANGED treeVars, cpacsObjects' = cpacsObjects,
           phase # "reading" => \A c \in Live' : c \in Live \/ ~Named(c)
    PROVE  TreeInv'
<1>1. IInv' /\ RegisteredAreNamed'
  BY RegistryPart
<1>2. TreeTypeOK' /\ ContainersMatchRegistry' /\ Components' = Components
  BY DEF TreeInv, treeVars, tree, containers, TreeTypeOK, ContainersMatchRegistry, Components
<1>3. UNCHANGED tree /\ invalidated' \in BOOLEAN /\ (invalidated => invalidated')
  BY DEF treeVars, TreeInv, TreeTypeOK
<1>4. LinkedAreNamed' /\ NoTreeWhileReading' /\ ValidTreeIsForest'
  BY <1>2, <1>3, TreeStays
<1>5. QED
  BY <1>1, <1>2, <1>4 DEF TreeInv

LEMMA TreeReadBeginStep ==
    ASSUME TreeInv, NEW o \in Object, NEW u \in UID \cup {None},
           NEW r \in [Field -> RefValue], TreeReadBegin(o, u, r)
    PROVE  TreeInv'
<1>1. Next /\ phase = "reading" /\ cpacsObjects' = cpacsObjects /\ UNCHANGED treeVars
  BY DEF TreeReadBegin, ReadBegin, Next
<1>2. QED
  BY <1>1, UntouchedStep

LEMMA TreeReadUnnamedStep ==
    ASSUME TreeInv, NEW o \in Object, TreeReadUnnamed(o)
    PROVE  TreeInv'
<1>1. phase = "reading"
  BY ReadingMeansReading DEF TreeReadUnnamed, ReadUnnamed, TreeInv
<1>2. Next /\ cpacsObjects' = cpacsObjects /\ UNCHANGED treeVars
  BY DEF TreeReadUnnamed, ReadUnnamed, Next
<1>3. QED
  BY <1>1, <1>2, UntouchedStep

LEMMA TreeAddStep ==
    ASSUME TreeInv, NEW o \in Object, TreeAdd(o)
    PROVE  TreeInv'
<1>1. Next /\ cpacsObjects' = cpacsObjects /\ UNCHANGED treeVars
  BY DEF TreeAdd, Add, Next
<1>2. ~Named(o)
  BY DEF TreeAdd, Add, Named, TreeInv, IInv, DormantObjects, Existing, Reading, Live
<1>3. \A c \in Live' : c \in Live \/ c = o
  BY DEF TreeAdd, Add, Live, TreeInv, IInv, TypeOK
<1>4. QED
  BY <1>1, <1>2, <1>3, UntouchedStep

LEMMA TreeSetReferenceStep ==
    ASSUME TreeInv, NEW o \in Object, NEW f \in Field, NEW v \in RefValue,
           TreeSetReference(o, f, v)
    PROVE  TreeInv'
<1>1. Next /\ cpacsObjects' = cpacsObjects /\ UNCHANGED treeVars /\ Live' = Live
  BY DEF TreeSetReference, SetReference, Next, Live
<1>2. QED
  BY <1>1, UntouchedStep

\* An operation that changes the containers and keeps them in step.
LEMMA ContainerStep ==
    ASSUME TreeInv, [Next]_vars, UNCHANGED tree,
           ContainersTyped' /\ ContainersMatchRegistry',
           invalidated' \in {invalidated, TRUE},
           phase # "reading" =>
              /\ \A u \in UID, p \in Object :
                    cpacsObjects'[u] = p =>
                       ~Named(p) \/ \E v \in UID : cpacsObjects[v] = p
              /\ Live' \subseteq Live
    PROVE  TreeInv'
<1>1. IInv' /\ RegisteredAreNamed'
  BY RegistryPart
<1>2. invalidated' \in BOOLEAN /\ (invalidated => invalidated')
  BY DEF TreeInv, TreeTypeOK
<1>3. TreeTypeOK'
  BY <1>2 DEF TreeInv, TreeTypeOK, ContainersTyped, tree
<1>4. ASSUME phase # "reading", NEW p \in Components'
      PROVE  p \in Components \/ ~Named(p)
  <2>1. PICK u \in UID : cpacsObjects'[u] = p
    BY <1>4, ComponentAssumption, ObjectAssumption DEF Components, ContainersMatchRegistry
  <2>2. p \in Relative /\ p \in Object
    BY <1>4, ComponentAssumption DEF Components
  <2>3. CASE \E v \in UID : cpacsObjects[v] = p
    BY <2>2, <2>3 DEF Components, TreeInv, ContainersMatchRegistry
  <2>4. QED
    BY <1>4, <2>1, <2>2, <2>3
<1>5. LinkedAreNamed' /\ NoTreeWhileReading' /\ ValidTreeIsForest'
  BY <1>2, <1>4, TreeStays
<1>6. QED
  BY <1>1, <1>3, <1>5 DEF TreeInv

LEMMA TreeReadRegisterStep ==
    ASSUME TreeInv, NEW o \in Object, TreeReadRegister(o)
    PROVE  TreeInv'
<1>1. Next /\ phase = "reading" /\ uid[o] \in UID
  BY ReadingMeansReading
     DEF TreeReadRegister, ReadRegister, Next, TreeInv, IInv, TypeOK
<1>2. ContainersTyped' /\ ContainersMatchRegistry'
  BY <1>1, AddKeepsMatch, TypeParts
     DEF TreeReadRegister, ReadRegister, TreeInv, IInv, IsUIDRegistered
<1>3. UNCHANGED tree /\ invalidated' \in {invalidated, TRUE}
  BY DEF TreeReadRegister, AddGeometricComponent, treeVars
<1>4. QED
  BY <1>1, <1>2, <1>3, ContainerStep

LEMMA TreeReadFailsStep ==
    ASSUME TreeInv, NEW o \in Object, NEW d \in Object, TreeReadFails(o, d)
    PROVE  TreeInv'
<1>1. Next /\ phase = "reading"
  BY ReadingMeansReading DEF TreeReadFails, ReadFails, Next, TreeInv
<1>2. ContainersTyped' /\ ContainersMatchRegistry'
  <2>1. PICK dropped \in TakenOut(o, WithOwned(d)) : Destroy(WithOwned(d), dropped)
    BY DEF TreeReadFails, ReadFails
  <2>2. /\ DroppedUIDs(WithOwned(d)) \subseteq dropped
        /\ \A u \in UID : u \in dropped /\ IsUIDRegistered(u) =>
              u \in DroppedUIDs(WithOwned(d))
    BY <2>1 DEF TakenOut
  <2>3. QED
    BY <2>1, <2>2, RemoveKeepsMatch, TypeParts DEF TreeReadFails, TreeInv, IInv
<1>3. UNCHANGED tree /\ invalidated' \in {invalidated, TRUE}
  BY DEF TreeReadFails, RemoveGeometricComponents
<1>4. QED
  BY <1>1, <1>2, <1>3, ContainerStep

LEMMA TreeRemoveStep ==
    ASSUME TreeInv, NEW o \in Object, TreeRemove(o)
    PROVE  TreeInv'
<1> DEFINE dropped == DroppedUIDs(WithOwned(o))
<1>1. Next /\ Destroy(WithOwned(o), dropped)
  BY DEF TreeRemove, Remove, Next
<1>2. ContainersTyped' /\ ContainersMatchRegistry'
  BY <1>1, RemoveKeepsMatch, TypeParts DEF TreeRemove, TreeInv, IInv
<1>3. UNCHANGED tree /\ invalidated' \in {invalidated, TRUE}
  BY DEF TreeRemove, RemoveGeometricComponents
<1>4. /\ \A u \in UID, p \in Object : cpacsObjects'[u] = p => cpacsObjects[u] = p
      /\ Live' \subseteq Live
  BY <1>1, ObjectAssumption DEF Destroy, Live
<1>5. QED
  BY <1>1, <1>2, <1>3, <1>4, ContainerStep

LEMMA TreeSetFirstUIDStep ==
    ASSUME TreeInv, NEW o \in Object, NEW u \in UID, TreeSetFirstUID(o, u)
    PROVE  TreeInv'
<1>1. Next /\ o \in Live /\ uid[o] = None /\ Live' = Live
  BY DEF TreeSetFirstUID, SetFirstUID, Next, Live
<1>2. ContainersTyped' /\ ContainersMatchRegistry'
  BY AddKeepsMatch, TypeParts
     DEF TreeSetFirstUID, SetFirstUID, TreeInv, IInv, IsUIDRegistered
<1>3. UNCHANGED tree /\ invalidated' \in {invalidated, TRUE}
  BY DEF TreeSetFirstUID, AddGeometricComponent, treeVars
<1>4. ~Named(o)
  BY <1>1 DEF Named, Live
<1>5. ASSUME NEW v \in UID, NEW p \in Object, cpacsObjects'[v] = p
      PROVE  p = o \/ cpacsObjects[v] = p
  BY <1>5 DEF TreeSetFirstUID, SetFirstUID, TreeInv, IInv, TypeOK
<1>6. QED
  BY <1>1, <1>2, <1>3, <1>4, <1>5, ContainerStep

LEMMA TreeRenameStep ==
    ASSUME TreeInv, NEW o \in Object, NEW u \in UID, TreeRename(o, u)
    PROVE  TreeInv'
<1>1. Next /\ uid[o] \in UID /\ Live' = Live
  BY DEF TreeRename, Rename, Next, Live, TreeInv, IInv, TypeOK
<1>2. ContainersTyped' /\ ContainersMatchRegistry'
  BY RenameKeepsMatch, TypeParts DEF TreeRename, TreeInv, IInv
<1>3. UNCHANGED tree /\ invalidated' \in {invalidated, TRUE}
  BY DEF TreeRename, UpdateGeometricComponentUID
<1>4. ASSUME NEW v \in UID, NEW p \in Object, cpacsObjects'[v] = p
      PROVE  cpacsObjects[uid[o]] = p \/ cpacsObjects[v] = p
  BY <1>1, <1>4, ObjectAssumption DEF TreeRename, Rename, TreeInv, IInv, TypeOK
<1>5. QED
  BY <1>1, <1>2, <1>3, <1>4, ContainerStep

-----------------------------------------------------------------------------
(* Building the tree.                                                      *)

\* A component that is linked comes before every one at which BuildTree throws,
\* so its parentUID resolves to a component.
LEMMA LinkedResolve ==
    ASSUME TreeInv, NEW c \in Linked
    PROVE  ResolvedParent(c) \in Components
<1> USE ComponentAssumption, ObjectAssumption DEF TreeInv, TreeTypeOK
<1>1. PICK u \in UID : /\ relativeComponents[u] = c
                       /\ ParentUID(c) # None
                       /\ \A v \in Unresolved : u < v
  BY DEF Linked
<1>2. c \in Relative
  BY DEF Linked, Components
<1>3. u \notin Unresolved
  <2>1. ~(u < u)
    OBVIOUS
  <2>2. QED
    BY <1>1, <2>1
<1>4. ParentUID(c) \in UID /\ relativeComponents[ParentUID(c)] # None
  BY <1>1, <1>2, <1>3 DEF Unresolved
<1>5. QED
  BY <1>4 DEF ResolvedParent, Components

LEMMA ComponentsAreNamed ==
    ASSUME TreeInv, NEW c \in Components
    PROVE  c \in Relative /\ c \in Object /\ Named(c)
BY ComponentAssumption, ObjectAssumption
   DEF TreeInv, Components, ContainersMatchRegistry, RegisteredAreNamed

\* What a build leaves behind, whether it throws, overflows or succeeds.
LEMMA BuiltTree ==
    ASSUME TreeInv, Link, UNCHANGED <<status, uid, relativeComponents>>
    PROVE  /\ children' \in [Object -> SUBSET Relative]
           /\ parent' \in [Object -> Relative \cup {None}]
           /\ LinkedAreNamed'
           /\ \A p \in Components' : \A c \in children'[p] \cap Live' : parent'[c] = p
<1> USE DEF Link
<1>1. Linked \subseteq Components
  BY DEF Linked
<1>2. children' \in [Object -> SUBSET Relative]
  BY <1>1, ComponentsAreNamed DEF BuiltChildren, TreeInv, TreeTypeOK
<1>3. parent' \in [Object -> Relative \cup {None}]
  BY LinkedResolve, ComponentsAreNamed DEF BuiltParent, TreeInv, TreeTypeOK
<1>4. \A o \in Object : Named(o)' <=> Named(o)
  BY DEF Named
<1>5. LinkedAreNamed'
  <2> SUFFICES ASSUME NEW p \in Object
               PROVE  /\ children'[p] # {} => Named(p)
                      /\ \A c \in children'[p] : Named(c)
    BY <1>2, <1>4, ComponentAssumption DEF LinkedAreNamed
  <2>1. CASE p \in Components
    BY <1>1, <2>1, ComponentsAreNamed DEF BuiltChildren
  <2>2. CASE p \notin Components
    BY <2>2 DEF BuiltChildren, TreeInv, LinkedAreNamed
  <2>3. QED
    BY <2>1, <2>2
<1>6. ASSUME NEW p \in Components', NEW c \in children'[p]
      PROVE  parent'[c] = p
  <2>1. p \in Components /\ p \in Object
    BY <1>6, ComponentAssumption DEF Components
  <2>2. c \in Linked /\ ResolvedParent(c) = p
    BY <1>6, <2>1 DEF BuiltChildren
  <2>3. c \in Object
    BY <1>1, <2>2, ComponentsAreNamed
  <2>4. QED
    BY <2>2, <2>3 DEF BuiltParent
<1>7. QED
  BY <1>2, <1>3, <1>5, <1>6

\* The components without a parentUID become roots.
LEMMA BuiltRootsTyped ==
    ASSUME TreeInv
    PROVE  BuiltRoots \in [UID -> Relative \cup {None}]
BY DEF TreeInv, TreeTypeOK, BuiltRoots

LEMMA OpenStep ==
    ASSUME TreeInv, Open
    PROVE  TreeInv'
<1>1. Next /\ UNCHANGED <<status, uid, cpacsObjects>> /\ phase = "reading"
           /\ phase' # "reading" /\ UNCHANGED <<containers, invalidated>>
  BY DEF Open, FinishReading, Next
<1>2. Link /\ fault' \in {fault, "overflow"}
           /\ rootComponents' \in {rootComponents, BuiltRoots}
  BY DEF Open, BuildTreeThrows, BuildTreeOverflows, BuildTreeSucceeds
<1>3. IInv' /\ RegisteredAreNamed'
  BY <1>1, RegistryPart
<1>4. /\ children' \in [Object -> SUBSET Relative]
      /\ parent' \in [Object -> Relative \cup {None}]
      /\ LinkedAreNamed'
      /\ \A p \in Components' : \A c \in children'[p] \cap Live' : parent'[c] = p
  BY <1>1, <1>2, BuiltTree DEF containers
<1>5. TreeTypeOK' /\ ContainersMatchRegistry'
  BY <1>1, <1>2, <1>4, BuiltRootsTyped
     DEF TreeInv, TreeTypeOK, ContainersMatchRegistry, containers
<1>6. invalidated'
  BY <1>1 DEF TreeInv, NoTreeWhileReading
<1>7. NoTreeWhileReading' /\ ValidTreeIsForest'
  BY <1>1, <1>4, <1>6 DEF NoTreeWhileReading, ValidTreeIsForest
<1>8. QED
  BY <1>3, <1>4, <1>5, <1>7 DEF TreeInv

LEMMA UpdateStep ==
    ASSUME TreeInv, Update
    PROVE  TreeInv'
<1>1. UNCHANGED vars /\ phase = "open" /\ invalidated /\ UNCHANGED containers
  BY DEF Update
<1>2. Link /\ invalidated' \in BOOLEAN
           /\ rootComponents' \in {rootComponents, BuiltRoots}
           /\ fault' \in {fault, "none", "overflow", "dangling"}
  BY DEF Update, BuildTreeThrows, BuildTreeOverflows, BuildTreeSucceeds, TreeInv, TreeTypeOK
<1>3. IInv' /\ RegisteredAreNamed'
  BY <1>1, RegistryPart
<1>4. /\ children' \in [Object -> SUBSET Relative]
      /\ parent' \in [Object -> Relative \cup {None}]
      /\ LinkedAreNamed'
      /\ \A p \in Components' : \A c \in children'[p] \cap Live' : parent'[c] = p
  BY <1>1, <1>2, BuiltTree DEF containers, vars
<1>5. TreeTypeOK' /\ ContainersMatchRegistry'
  BY <1>1, <1>2, <1>4, BuiltRootsTyped
     DEF TreeInv, TreeTypeOK, ContainersMatchRegistry, containers, vars
<1>6. NoTreeWhileReading'
  BY <1>1 DEF NoTreeWhileReading, vars
\* Only a build without a cycle marks the tree as up to date.
<1>7. ~invalidated' => ~Cyclic(children)'
  <2>1. ~invalidated' => BuildTreeSucceeds
    BY <1>1 DEF Update
  <2>2. Cyclic(children)' => Cyclic(BuiltChildren)
    BY <1>2 DEF Link, Cyclic
  <2>3. QED
    BY <2>1, <2>2 DEF BuildTreeSucceeds
<1>8. ValidTreeIsForest'
  BY <1>4, <1>7 DEF ValidTreeIsForest
<1>9. QED
  BY <1>3, <1>4, <1>5, <1>6, <1>8 DEF TreeInv

-----------------------------------------------------------------------------
(* The theorems.                                                           *)

LEMMA TreeInitEstablishes == TreeInit => TreeInv
<1> SUFFICES ASSUME TreeInit
             PROVE  TreeInv
  OBVIOUS
<1>1. IInv /\ (\A u \in UID : cpacsObjects[u] = None)
  BY InitEstablishes DEF TreeInit, Init
<1>2. TreeTypeOK /\ NoTreeWhileReading
  BY DEF TreeInit, TreeTypeOK, NoTreeWhileReading, NoEntry
<1>3. ContainersMatchRegistry /\ RegisteredAreNamed
  BY <1>1, ComponentAssumption, ObjectAssumption
     DEF TreeInit, NoEntry, ContainersMatchRegistry, RegisteredAreNamed
<1>4. LinkedAreNamed /\ ValidTreeIsForest
  BY ComponentAssumption
     DEF TreeInit, LinkedAreNamed, ValidTreeIsForest, Components
<1>5. QED
  BY <1>1, <1>2, <1>3, <1>4 DEF TreeInv

LEMMA TreeNextPreserves == TreeInv /\ [TreeNext]_<<vars, treeVars>> => TreeInv'
<1> SUFFICES ASSUME TreeInv, [TreeNext]_<<vars, treeVars>>
             PROVE  TreeInv'
  OBVIOUS
<1>1. CASE UNCHANGED <<vars, treeVars>>
  <2>1. cpacsObjects' = cpacsObjects /\ Live' = Live
    BY <1>1 DEF vars, Live
  <2>2. QED
    BY <1>1, <2>1, UntouchedStep
<1>2. CASE TreeNext
  BY <1>2, TreeReadBeginStep, TreeReadUnnamedStep, TreeReadRegisterStep,
     TreeReadFailsStep, OpenStep, UpdateStep, TreeAddStep, TreeRemoveStep,
     TreeSetFirstUIDStep, TreeRenameStep, TreeSetReferenceStep DEF TreeNext
<1>3. QED
  BY <1>1, <1>2

\* The inductive invariant: every sequence of reading, opening, editing and
\* rebuilding keeps registry, containers and tree in step.
THEOREM TreeInvariant == TreeSpec => []TreeInv
BY TreeInitEstablishes, TreeNextPreserves, PTL DEF TreeSpec

\* The containers and the tree keep their types.
THEOREM TreeTypeCorrect == TreeSpec => []TreeTypeOK
<1>1. TreeInv => TreeTypeOK
  BY DEF TreeInv
<1>2. QED
  BY <1>1, TreeInvariant, PTL

\* The containers of shapes and of relative components hold the objects that
\* are registered, under the uIDs under which they are.
THEOREM ContainersCorrect == TreeSpec => []ContainersMatchRegistry
<1>1. TreeInv => ContainersMatchRegistry
  BY DEF TreeInv
<1>2. QED
  BY <1>1, TreeInvariant, PTL

\* Children and parents agree at all times, and a tree that counts as up to
\* date has no cycle.
THEOREM ForestCorrect == TreeSpec => []ValidTreeIsForest
<1>1. TreeInv => ValidTreeIsForest
  BY DEF TreeInv
<1>2. QED
  BY <1>1, TreeInvariant, PTL

\* Opening a configuration whose document repeats no uID places each component.
LEMMA OpenLinks ==
    ASSUME TreeInv, Open, phase' = "open", ~repeated,
           NEW c \in Live \cap Relative, uid[c] # None
    PROVE  IF ParentUID(c) = None THEN parent'[c] = None
           ELSE parent'[c] = cpacsObjects[ParentUID(c)] /\ parent'[c] \in Relative
<1> USE ComponentAssumption, ObjectAssumption
<1>1. phase = "reading" /\ Unresolved = {} /\ parent' = BuiltParent
  BY DEF Open, FinishReading, BuildTreeThrows, BuildTreeOverflows, BuildTreeSucceeds, Link
<1>2. c \in Object /\ uid[c] \in UID /\ cpacsObjects[uid[c]] = c
  BY DEF TreeInv, IInv, TypeOK, RegistryMatchesObjects
<1>3. relativeComponents[uid[c]] = c /\ c \in Components
  <2>1. c \in Relative /\ cpacsObjects[uid[c]] \in Relative
    BY <1>2
  <2>2. relativeComponents[uid[c]] = cpacsObjects[uid[c]]
    BY <1>2, <2>1 DEF TreeInv, ContainersMatchRegistry
  <2>3. QED
    BY <1>2, <2>1, <2>2 DEF Components
<1>4. CASE ParentUID(c) = None
  BY <1>1, <1>2, <1>4 DEF BuiltParent, Linked, TreeInv, NoTreeWhileReading
<1>5. CASE ParentUID(c) # None
  <2>1. c \in Linked
    BY <1>1, <1>2, <1>3, <1>5 DEF Linked
  <2>2. ParentUID(c) \in UID /\ relativeComponents[ParentUID(c)] # None
    BY <1>1, <1>2, <1>3, <1>5 DEF Unresolved
  <2>3. parent'[c] = relativeComponents[ParentUID(c)]
    BY <1>1, <1>2, <2>1 DEF BuiltParent, ResolvedParent
  <2>4. QED
    BY <1>5, <2>2, <2>3 DEF TreeInv, ContainersMatchRegistry
<1>6. QED
  BY <1>4, <1>5

\* No component of an open configuration is left without the parent its
\* document names.
THEOREM OpeningCorrect == TreeSpec => OpenLinksEveryComponent
<1>1. ASSUME TreeInv, [TreeNext]_<<vars, treeVars>>,
             phase = "reading", phase' = "open"
      PROVE  Open
  <2>1. TreeNext /\ phase' # phase
    BY <1>1 DEF vars
  <2>2. QED
    BY <1>1, <2>1 DEF TreeNext, TreeReadBegin, TreeReadUnnamed, TreeReadRegister,
       TreeReadFails, Update, TreeAdd, TreeRemove, TreeSetFirstUID, TreeRename,
       TreeSetReference, ReadBegin, ReadUnnamed, ReadRegister, ReadFails, Add,
       Remove, SetFirstUID, Rename, SetReference, vars
<1>2. TreeInv /\ [TreeNext]_<<vars, treeVars>> =>
        [phase = "reading" /\ phase' = "open" /\ ~repeated =>
           \A c \in Live \cap Relative : uid[c] # None =>
              IF ParentUID(c) = None THEN parent'[c] = None
              ELSE parent'[c] = cpacsObjects[ParentUID(c)] /\ parent'[c] \in Relative
        ]_<<vars, treeVars>>
  BY <1>1, OpenLinks
<1>3. QED
  BY <1>2, TreeInvariant, PTL DEF TreeSpec, OpenLinksEveryComponent
=============================================================================
