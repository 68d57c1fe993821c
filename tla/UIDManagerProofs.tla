-------------------------- MODULE UIDManagerProofs --------------------------
(***************************************************************************)
(* Proofs about UIDManager for every set of objects, uIDs and fields and   *)
(* every ownership between the objects.                                    *)
(***************************************************************************)
EXTENDS UIDManager, FiniteSetTheorems, TLAPS

(***************************************************************************)
(* Counting fields.                                                        *)
(***************************************************************************)

\* A set of fields is finite, so counting one gives a natural number.
LEMMA FieldCount ==
    ASSUME NEW F \in SUBSET Field
    PROVE  IsFiniteSet(F) /\ Cardinality(F) \in Nat
BY ReferenceAssumption, FS_Subset, FS_CardinalityType

\* A smaller set of fields has no larger count.
LEMMA FieldCountMonotonic ==
    ASSUME NEW F \in SUBSET Field, NEW G \in SUBSET F
    PROVE  Cardinality(G) <= Cardinality(F)
BY FieldCount, FS_Subset

\* An object without fields that are set names nothing.
LEMMA NoFieldsNameNothing ==
    ASSUME NEW r, NEW o \in Object, r[o] = NoFields, NEW u \in UID
    PROVE  FieldsTo(r, o, u) = {} /\ Cardinality(FieldsTo(r, o, u)) = 0
BY ObjectAssumption, FS_EmptySet DEF FieldsTo, NoFields

\* What unregistering does to a count.
LEMMA ReducedCount ==
    ASSUME NEW n \in Nat, NEW k \in Nat
    PROVE  /\ Reduced(n, k) \in Nat
           /\ Reduced(n, k) <= n
           /\ n <= k => Reduced(n, k) = 0
BY DEF Reduced

-----------------------------------------------------------------------------
(***************************************************************************)
(* Destroy, the common part of a removal and of a failed read.             *)
(***************************************************************************)

\* Destruction keeps the type invariant.
LEMMA DestroyType ==
    ASSUME TypeOK, NEW D \in SUBSET Existing, NEW dropped, Destroy(D, dropped)
    PROVE  /\ status' \in [Object -> {"unused", "reading", "live", "dead"}]
           /\ uid' \in [Object -> UID \cup {None}]
           /\ ref' \in [Object -> [Field -> RefValue]]
           /\ cpacsObjects' \in [UID -> Object \cup {None}]
           /\ uidReferences' \in [UID -> [Object -> Nat]]
<1>1. NoFields \in [Field -> RefValue]
  BY ReferenceAssumption DEF NoFields
<1>2. \A u \in UID, s \in Object :
         Reduced(uidReferences[u][s], Cardinality(FieldsTo(ref, s, u))) \in Nat
  BY FieldCount, ReducedCount DEF TypeOK, FieldsTo
<1>3. uidReferences' \in [UID -> [Object -> Nat]]
  BY <1>2 DEF Destroy, TypeOK
<1>4. QED
  BY <1>1, <1>3 DEF Destroy, TypeOK

\* Destruction of an object with all it owns leaves nothing of it behind.
LEMMA DestroyLeavesNoTrace ==
    ASSUME TypeOK, DormantObjects, OwnersExist, CountsBackedByFields,
           NEW d \in Object, NEW dropped, Destroy(WithOwned(d), dropped)
    PROVE  /\ Existing' = Existing \ WithOwned(d)
           /\ Live' = Live \ WithOwned(d)
           /\ Reading' = Reading \ WithOwned(d)
           /\ DormantObjects'
           /\ \A o \in Existing' : Above[o] \subseteq Existing'
           /\ CountsBackedByFields'
<1> DEFINE D == WithOwned(d)
<1>1. D \subseteq Existing /\ D \subseteq Object
  BY DEF WithOwned, Existing, Reading, Live
<1>2. Live' = Live \ D /\ Reading' = Reading \ D
  BY <1>1 DEF Destroy, Live, Reading, TypeOK
<1>3. Existing' = Existing \ D
  BY <1>2 DEF Existing
<1>4. DormantObjects'
  BY <1>1, <1>3 DEF Destroy, DormantObjects, TypeOK
<1>5. \A o \in Existing' : Above[o] \subseteq Existing'
  <2> SUFFICES ASSUME NEW o \in Existing', NEW a \in Above[o]
               PROVE  a \in Existing'
    OBVIOUS
  <2>1. o \in Object /\ a \in Object /\ o \in Existing /\ o \notin D
    BY <1>3, ObjectAssumption DEF Existing, Live, Reading
  <2>2. a \in Existing
    BY <2>1 DEF OwnersExist
  <2>3. a \notin D
    BY <2>1, ObjectAssumption DEF WithOwned
  <2>4. QED
    BY <1>3, <2>2, <2>3
<1>6. CountsBackedByFields'
  <2> SUFFICES ASSUME NEW u \in UID, NEW s \in Object \ Blade
               PROVE  uidReferences'[u][s] <= Cardinality(FieldsTo(ref', s, u))
    BY DEF CountsBackedByFields
  <2> DEFINE n == uidReferences[u][s]
             k == Cardinality(FieldsTo(ref, s, u))
  <2>1. n \in Nat /\ k \in Nat /\ n <= k
    BY FieldCount DEF TypeOK, CountsBackedByFields, FieldsTo
  <2>2. CASE s \in D
    <3>1. ref'[s] = NoFields
      BY <2>2 DEF Destroy
    <3>2. Cardinality(FieldsTo(ref', s, u)) = 0
      BY <3>1, NoFieldsNameNothing
    <3>3. Reduced(n, k) = 0
      BY <2>1, ReducedCount
    <3>4. uidReferences'[u][s] \in {0, Reduced(n, k)}
      BY <2>2 DEF Destroy
    <3>5. QED
      BY <3>2, <3>3, <3>4
  <2>3. CASE s \notin D
    <3>1. ref'[s] = ref[s]
      BY <2>3 DEF Destroy
    <3>2. FieldsTo(ref', s, u) = FieldsTo(ref, s, u)
      BY <3>1 DEF FieldsTo
    <3>3. uidReferences'[u][s] \in {0, n}
      BY <2>3 DEF Destroy
    <3>4. QED
      BY <2>1, <3>2, <3>3
  <2>4. QED
    BY <2>2, <2>3
<1>7. QED
  BY <1>2, <1>3, <1>4, <1>5, <1>6

\* Where no uID is repeated, what is dropped by name is destroyed.
LEMMA DroppedNames ==
    ASSUME UniqueNames, ~repeated, NEW D \in SUBSET Existing, NEW dropped \in SUBSET UID,
           \A u \in dropped : \E y \in D : uid[y] = u,
           NEW x \in Existing, uid[x] \in dropped
    PROVE  x \in D
BY ObjectAssumption DEF UniqueNames

\* What a removal or a failed read drops are names of what it destroys.
LEMMA DroppedAreOwn ==
    ASSUME NEW o, NEW D, o \in D, NEW dropped \in TakenOut(o, D) \cup {DroppedUIDs(D)}
    PROVE  /\ dropped \in SUBSET UID
           /\ DroppedUIDs(D) \subseteq dropped
           /\ \A u \in dropped : \E y \in D : uid[y] = u
BY DEF TakenOut, DroppedUIDs

\* Destruction keeps the invariant, whichever names of what dies are dropped
\* besides those that are registered.
LEMMA DestroyStep ==
    ASSUME IInv, NEW d \in Object, NEW dropped \in SUBSET UID,
           DroppedUIDs(WithOwned(d)) \subseteq dropped,
           \A u \in dropped : \E y \in WithOwned(d) : uid[y] = u,
           Destroy(WithOwned(d), dropped), UNCHANGED <<phase, repeated>>
    PROVE  IInv'
<1> USE DEF IInv
<1> DEFINE D == WithOwned(d)
<1>1. D \in SUBSET Existing
  BY DEF WithOwned
<1>2. Destroy(D, dropped) /\ repeated' = repeated /\ phase' = phase
  OBVIOUS
<1>3. TypeOK'
  BY <1>1, <1>2, DestroyType DEF TypeOK
<1>4. /\ Existing' = Existing \ D
      /\ Live' = Live \ D
      /\ Reading' = Reading \ D
      /\ DormantObjects'
      /\ \A x \in Existing' : Above[x] \subseteq Existing'
      /\ CountsBackedByFields'
  BY <1>2, DestroyLeavesNoTrace
<1>5. OwnersExist'
  BY <1>2, <1>4 DEF OwnersExist
<1>6. UniqueNames'
  <2>1. \A x \in Existing' : x \in Existing /\ uid'[x] = uid[x]
    BY <1>2, <1>4 DEF Destroy, Existing, Live, Reading
  <2>2. QED
    BY <1>2, <2>1 DEF UniqueNames
<1>7. RegistryMatchesObjects'
  <2> SUFFICES ASSUME ~repeated
               PROVE  /\ \A u \in UID : cpacsObjects'[u] # None =>
                           cpacsObjects'[u] \in Live' /\ uid'[cpacsObjects'[u]] = u
                      /\ \A x \in Live' : uid'[x] # None => cpacsObjects'[uid'[x]] = x
    BY <1>2 DEF RegistryMatchesObjects, IsUIDRegistered
  <2>1. ASSUME NEW u \in UID, cpacsObjects'[u] # None
        PROVE  cpacsObjects'[u] \in Live' /\ uid'[cpacsObjects'[u]] = u
    <3>1. u \notin DroppedUIDs(D) /\ cpacsObjects'[u] = cpacsObjects[u]
      BY <1>2, <2>1 DEF Destroy
    <3>2. cpacsObjects[u] \in Live /\ uid[cpacsObjects[u]] = u
      BY <2>1, <3>1 DEF RegistryMatchesObjects, IsUIDRegistered
    <3>3. cpacsObjects[u] \notin D
      BY <2>1, <3>1, <3>2 DEF DroppedUIDs, IsUIDRegistered
    <3>4. QED
      BY <1>2, <1>4, <3>1, <3>2, <3>3 DEF Destroy, Live
  <2>2. ASSUME NEW x \in Live', uid'[x] # None
        PROVE  cpacsObjects'[uid'[x]] = x
    <3>1. x \in Live /\ x \notin D /\ x \in Object /\ x \in Existing
      BY <1>4 DEF Live, Existing
    <3>2. uid'[x] = uid[x] /\ uid[x] \in UID
      BY <1>2, <2>2, <3>1 DEF Destroy, TypeOK
    <3>3. uid[x] \notin dropped
      BY <1>1, <3>1, DroppedNames
    <3>4. cpacsObjects[uid[x]] = x
      BY <2>2, <3>1, <3>2 DEF RegistryMatchesObjects
    <3>5. QED
      BY <1>2, <3>2, <3>3, <3>4 DEF Destroy
  <2>3. QED
    BY <2>1, <2>2
<1>8. QED
  BY <1>3, <1>4, <1>5, <1>6, <1>7

-----------------------------------------------------------------------------
(***************************************************************************)
(* The inductive invariant, one lemma per action.                          *)
(***************************************************************************)

\* ReadBegin gives a new object exactly the counts its fields ask for.
LEMMA ReadBeginStep ==
    ASSUME IInv, NEW o \in Object, NEW u \in UID \cup {None},
           NEW r \in [Field -> RefValue], ReadBegin(o, u, r)
    PROVE  IInv'
<1> USE DEF IInv
<1>1. TypeOK'
  <2>1. \A v \in UID : Cardinality({f \in Field : r[f] = v}) \in Nat
    BY FieldCount
  <2>2. uidReferences' \in [UID -> [Object -> Nat]]
    BY <2>1 DEF ReadBegin, WithReferencesOf, TypeOK
  <2>3. QED
    BY <2>2 DEF ReadBegin, TypeOK
<1>2. Reading' = Reading \cup {o} /\ Live' = Live /\ Existing' = Existing \cup {o}
  BY DEF ReadBegin, Reading, Live, Existing, TypeOK
<1>3. DormantObjects'
  BY <1>2 DEF ReadBegin, DormantObjects, TypeOK
<1>4. OwnersExist'
  BY <1>2 DEF ReadBegin, OwnersExist, Existing
<1>5. CountsBackedByFields'
  <2> SUFFICES ASSUME NEW v \in UID, NEW s \in Object \ Blade
               PROVE  uidReferences'[v][s] <= Cardinality(FieldsTo(ref', s, v))
    BY DEF CountsBackedByFields
  <2>1. CASE s = o
    <3>1. ref[o] = NoFields
      BY DEF ReadBegin, DormantObjects, Existing, Reading, Live
    <3>2. uidReferences[v][o] = 0
      BY <2>1, <3>1, NoFieldsNameNothing DEF CountsBackedByFields, TypeOK
    <3>3. FieldsTo(ref', o, v) = {f \in Field : r[f] = v}
      BY DEF ReadBegin, FieldsTo, TypeOK
    <3>4. Cardinality({f \in Field : r[f] = v}) \in Nat
      BY FieldCount
    <3>5. uidReferences'[v][o] = Cardinality({f \in Field : r[f] = v})
      BY <3>2, <3>4 DEF ReadBegin, WithReferencesOf, TypeOK
    <3>6. QED
      BY <2>1, <3>3, <3>4, <3>5
  <2>2. CASE s # o
    <3>1. uidReferences'[v][s] = uidReferences[v][s]
      BY <2>2 DEF ReadBegin, WithReferencesOf, TypeOK
    <3>2. FieldsTo(ref', s, v) = FieldsTo(ref, s, v)
      BY <2>2 DEF ReadBegin, FieldsTo, TypeOK
    <3>3. QED
      BY <3>1, <3>2 DEF CountsBackedByFields
  <2>3. QED
    BY <2>1, <2>2
<1>6. RegistryMatchesObjects'
  <2>1. o \notin Live
    BY DEF ReadBegin, Live
  <2>2. \A x \in Live : uid'[x] = uid[x]
    BY <2>1 DEF ReadBegin, TypeOK, Live
  <2>3. QED
    BY <1>2, <2>2 DEF ReadBegin, RegistryMatchesObjects, IsUIDRegistered
<1>7. UniqueNames'
  <2>1. o \notin Existing
    BY DEF ReadBegin, Existing, Reading, Live
  <2>2. uid'[o] = u /\ \A x \in Existing : uid'[x] = uid[x]
    BY <2>1 DEF ReadBegin, TypeOK, Existing, Reading, Live
  <2>3. ~repeated' => ~repeated /\ \A x \in Existing : uid[x] = u => u = None
    BY DEF ReadBegin
  <2>4. QED
    BY <1>2, <2>2, <2>3 DEF UniqueNames
<1>8. QED
  BY <1>1, <1>3, <1>4, <1>5, <1>6, <1>7

\* The end of a read changes the fields of a rotor blade at most.
LEMMA ReadEndCounts ==
    ASSUME TypeOK, CountsBackedByFields, NEW o \in Object,
           ref' = RefAfterRead(o), uidReferences' = uidReferences
    PROVE  ref' \in [Object -> [Field -> RefValue]] /\ CountsBackedByFields'
<1>1. NoFields \in [Field -> RefValue]
  BY ReferenceAssumption DEF NoFields
<1>2. \A s \in Object \ Blade : ref'[s] = ref[s]
  BY DEF RefAfterRead, TypeOK
<1>3. \A u \in UID, s \in Object \ Blade : FieldsTo(ref', s, u) = FieldsTo(ref, s, u)
  BY <1>2 DEF FieldsTo
<1>4. QED
  BY <1>1, <1>3 DEF RefAfterRead, TypeOK, CountsBackedByFields

\* A read that ends makes an existing object live.
LEMMA ReadEndObjects ==
    ASSUME TypeOK, DormantObjects, OwnersExist, UniqueNames, NEW o \in Reading,
           status' = [status EXCEPT ![o] = "live"], ref' = RefAfterRead(o),
           uid' = uid, phase' = phase, repeated' = repeated
    PROVE  /\ Live' = Live \cup {o}
           /\ Existing' = Existing
           /\ DormantObjects'
           /\ OwnersExist'
           /\ UniqueNames'
<1>1. o \in Object /\ o \in Existing
  BY DEF Reading, Existing
<1>2. Live' = Live \cup {o} /\ Reading' = Reading \ {o}
  BY <1>1 DEF Reading, Live, TypeOK
<1>3. Existing' = Existing
  BY <1>1, <1>2 DEF Existing
<1>4. DormantObjects'
  BY <1>1, <1>3 DEF DormantObjects, RefAfterRead, TypeOK
<1>5. OwnersExist'
  BY <1>2, <1>3 DEF OwnersExist
<1>6. UniqueNames'
  BY <1>3 DEF UniqueNames
<1>7. QED
  BY <1>2, <1>3, <1>4, <1>5, <1>6

\* An object without a uID ends its reading.
LEMMA ReadUnnamedStep ==
    ASSUME IInv, NEW o \in Object, ReadUnnamed(o)
    PROVE  IInv'
<1> USE DEF IInv
<1>1. o \in Reading
  BY DEF ReadUnnamed, InnermostRead
<1>2. /\ ref' \in [Object -> [Field -> RefValue]]
      /\ CountsBackedByFields'
  BY ReadEndCounts DEF ReadUnnamed
<1>3. Live' = Live \cup {o} /\ DormantObjects' /\ OwnersExist' /\ UniqueNames'
  BY <1>1, ReadEndObjects DEF ReadUnnamed
<1>4. TypeOK'
  BY <1>2 DEF ReadUnnamed, TypeOK
<1>5. RegistryMatchesObjects'
  BY <1>3 DEF ReadUnnamed, RegistryMatchesObjects, IsUIDRegistered
<1>6. QED
  BY <1>2, <1>3, <1>4, <1>5

\* An object registers itself at the end of its reading.
LEMMA ReadRegisterStep ==
    ASSUME IInv, NEW o \in Object, ReadRegister(o)
    PROVE  IInv'
<1> USE DEF IInv
<1>1. o \in Reading /\ uid[o] \in UID
  BY DEF ReadRegister, InnermostRead, TypeOK
<1>2. /\ ref' \in [Object -> [Field -> RefValue]]
      /\ CountsBackedByFields'
  BY ReadEndCounts DEF ReadRegister
<1>3. Live' = Live \cup {o} /\ DormantObjects' /\ OwnersExist' /\ UniqueNames'
  BY <1>1, ReadEndObjects DEF ReadRegister
<1>4. TypeOK'
  BY <1>1, <1>2 DEF ReadRegister, TypeOK
<1>5. RegistryMatchesObjects'
  <2> SUFFICES ASSUME ~repeated
               PROVE  /\ \A u \in UID : cpacsObjects'[u] # None =>
                           cpacsObjects'[u] \in Live' /\ uid'[cpacsObjects'[u]] = u
                      /\ \A x \in Live' : uid'[x] # None => cpacsObjects'[uid'[x]] = x
    BY DEF ReadRegister, RegistryMatchesObjects, IsUIDRegistered
  <2>1. \A u \in UID : cpacsObjects'[u] = IF u = uid[o] THEN o ELSE cpacsObjects[u]
    BY <1>1 DEF ReadRegister, TypeOK
  <2>2. \A x \in Live : uid[x] # uid[o]
    BY <1>1, ObjectAssumption DEF ReadRegister, RegistryMatchesObjects, IsUIDRegistered, Live
  <2>3. uid' = uid /\ \A x \in Live : uid[x] \in UID \cup {None}
    BY DEF ReadRegister, TypeOK, Live
  <2>4. QED
    BY <1>1, <1>3, <2>1, <2>2, <2>3 DEF RegistryMatchesObjects, IsUIDRegistered
<1>6. QED
  BY <1>2, <1>3, <1>4, <1>5

\* A read that fails destroys what was read, and takes out its names only.
LEMMA ReadFailsStep ==
    ASSUME IInv, NEW o \in Object, NEW d \in Object, ReadFails(o, d)
    PROVE  IInv'
<1>1. o \in WithOwned(d)
  BY DEF ReadFails, InnermostRead, WithOwned, Existing
<1>2. PICK dropped \in TakenOut(o, WithOwned(d)) : Destroy(WithOwned(d), dropped)
  BY DEF ReadFails
<1>3. /\ dropped \in SUBSET UID
      /\ DroppedUIDs(WithOwned(d)) \subseteq dropped
      /\ \A u \in dropped : \E y \in WithOwned(d) : uid[y] = u
  BY <1>1, DroppedAreOwn
<1>4. QED
  BY <1>2, <1>3, DestroyStep DEF ReadFails

\* The reading ends when no object is half read.
LEMMA FinishReadingStep ==
    ASSUME IInv, FinishReading
    PROVE  IInv'
<1>1. Existing' = Existing /\ Live' = Live /\ Reading' = Reading
  BY DEF FinishReading, Existing, Live, Reading
<1>2. QED
  BY <1>1 DEF FinishReading, IInv, TypeOK, DormantObjects, OwnersExist, UniqueNames,
              CountsBackedByFields, FieldsTo, RegistryMatchesObjects, IsUIDRegistered

\* A constructed object has no name and no fields yet.
LEMMA AddStep ==
    ASSUME IInv, NEW o \in Object, Add(o)
    PROVE  IInv'
<1> USE DEF IInv
<1>1. Live' = Live \cup {o} /\ Reading' = Reading /\ o \notin Existing
  BY DEF Add, Live, Reading, Existing, TypeOK
<1>2. Existing' = Existing \cup {o}
  BY <1>1 DEF Existing
<1>3. uid[o] = None
  BY <1>1 DEF DormantObjects
<1>4. TypeOK' /\ CountsBackedByFields'
  BY DEF Add, TypeOK, CountsBackedByFields, FieldsTo
<1>5. DormantObjects' /\ OwnersExist'
  BY <1>1, <1>2 DEF Add, DormantObjects, OwnersExist, Existing
<1>6. RegistryMatchesObjects'
  BY <1>1, <1>3 DEF Add, RegistryMatchesObjects, IsUIDRegistered
<1>7. UniqueNames'
  BY <1>2, <1>3 DEF Add, UniqueNames
<1>8. QED
  BY <1>4, <1>5, <1>6, <1>7

\* In an open configuration a uID that is not registered is borne by no object.
LEMMA UnregisteredIsNew ==
    ASSUME IInv, ~repeated, phase = "open", NEW u \in UID, ~IsUIDRegistered(u),
           NEW x \in Existing
    PROVE  uid[x] # u
<1>1. x \in Live
  BY DEF IInv, OwnersExist, Existing
<1>2. QED
  BY <1>1, ObjectAssumption DEF IInv, RegistryMatchesObjects, IsUIDRegistered, Live

\* A late name is a new entry of the registry.
LEMMA SetFirstUIDStep ==
    ASSUME IInv, NEW o \in Object, NEW u \in UID, SetFirstUID(o, u)
    PROVE  IInv'
<1> USE DEF IInv
<1>1. Live' = Live /\ Reading' = Reading /\ Existing' = Existing
  BY DEF SetFirstUID, Live, Reading, Existing
<1>2. TypeOK' /\ CountsBackedByFields'
  BY DEF SetFirstUID, TypeOK, CountsBackedByFields, FieldsTo
<1>3. DormantObjects' /\ OwnersExist'
  BY <1>1 DEF SetFirstUID, DormantObjects, OwnersExist, Existing, TypeOK
<1>4. RegistryMatchesObjects'
  <2> SUFFICES ASSUME ~repeated
               PROVE  /\ \A v \in UID : cpacsObjects'[v] # None =>
                           cpacsObjects'[v] \in Live /\ uid'[cpacsObjects'[v]] = v
                      /\ \A x \in Live : uid'[x] # None => cpacsObjects'[uid'[x]] = x
    BY <1>1 DEF SetFirstUID, RegistryMatchesObjects, IsUIDRegistered
  <2>1. \A v \in UID : cpacsObjects'[v] = IF v = u THEN o ELSE cpacsObjects[v]
    BY DEF SetFirstUID, TypeOK
  <2>2. \A x \in Object : uid'[x] = IF x = o THEN u ELSE uid[x]
    BY DEF SetFirstUID, TypeOK
  <2>3. \A x \in Live : x \in Object /\ uid[x] # u /\ uid[x] \in UID \cup {None}
    BY ObjectAssumption
    DEF SetFirstUID, RegistryMatchesObjects, IsUIDRegistered, Live, TypeOK
  <2>4. o \in Live /\ uid[o] = None
    BY DEF SetFirstUID
  <2>5. QED
    BY <2>1, <2>2, <2>3, <2>4, ObjectAssumption
    DEF RegistryMatchesObjects, IsUIDRegistered
<1>5. UniqueNames'
  <2>1. \A x \in Existing : uid'[x] = IF x = o THEN u ELSE uid[x]
    BY DEF SetFirstUID, TypeOK, Existing, Reading, Live
  <2>2. ~repeated => \A x \in Existing : uid[x] # u
    BY UnregisteredIsNew DEF SetFirstUID
  <2>3. QED
    BY <1>1, <2>1, <2>2 DEF SetFirstUID, UniqueNames
<1>6. QED
  BY <1>2, <1>3, <1>4, <1>5

\* What a rename makes of the fields that name u.
LEMMA FieldsAfterRename ==
    ASSUME TypeOK, NEW old \in UID, NEW new \in UID, old # new,
           ref' = NotifiedReferences(old, new), NEW s \in Object, NEW u \in UID
    PROVE  /\ u # old => FieldsTo(ref, s, u) \subseteq FieldsTo(ref', s, u)
           /\ uidReferences[old][s] > 0 =>
                 FieldsTo(ref, s, old) \subseteq FieldsTo(ref', s, new)
BY DEF NotifiedReferences, FieldsTo, TypeOK

\* What a rename makes of the counts.
LEMMA CountsAfterRename ==
    ASSUME TypeOK, NEW old \in UID, NEW new \in UID, old # new,
           uidReferences' = MovedReferences(old, new), NEW s \in Object, NEW u \in UID
    PROVE  /\ uidReferences' \in [UID -> [Object -> Nat]]
           /\ u \notin {old, new} => uidReferences'[u][s] = uidReferences[u][s]
           /\ uidReferences'[old][s] = 0
           /\ Referenced(old) => uidReferences'[new][s] = uidReferences[old][s]
           /\ ~Referenced(old) => uidReferences'[new][s] = uidReferences[new][s]
BY DEF MovedReferences, Referenced, TypeOK

\* A rename moves the entry of the object, its references and their fields.
LEMMA RenameStep ==
    ASSUME IInv, NEW o \in Object, NEW u \in UID, Rename(o, u)
    PROVE  IInv'
<1> USE DEF IInv
<1> DEFINE old == uid[o]
<1>1. /\ old \in UID /\ old # u /\ o \in Live
      /\ ref' = NotifiedReferences(old, u)
      /\ uidReferences' = MovedReferences(old, u)
  BY DEF Rename, TypeOK
<1>2. Live' = Live /\ Reading' = Reading /\ Existing' = Existing
  BY DEF Rename, Live, Reading, Existing
<1>3. TypeOK'
  <2>1. uidReferences' \in [UID -> [Object -> Nat]]
    BY <1>1, CountsAfterRename
  <2>2. ref' \in [Object -> [Field -> RefValue]]
    BY <1>1, ReferenceAssumption DEF NotifiedReferences, TypeOK
  <2>3. QED
    BY <1>1, <2>1, <2>2 DEF Rename, TypeOK
<1>4. DormantObjects' /\ OwnersExist'
  <2>1. \A s \in Object \ Existing : ref'[s] = NoFields
    <3> SUFFICES ASSUME NEW s \in Object \ Existing
                 PROVE  ref'[s] = NoFields
      OBVIOUS
    <3>1. \A f \in Field : ref[s][f] # old
      BY <1>1, ObjectAssumption DEF DormantObjects, NoFields
    <3>2. QED
      BY <1>1, <3>1 DEF NotifiedReferences, DormantObjects, NoFields
  <2>2. \A s \in Object \ Existing : uid'[s] = None
    BY <1>1 DEF Rename, DormantObjects, Existing, TypeOK
  <2>3. QED
    BY <1>2, <2>1, <2>2 DEF Rename, DormantObjects, OwnersExist
<1>5. CountsBackedByFields'
  <2> SUFFICES ASSUME NEW v \in UID, NEW s \in Object \ Blade
               PROVE  uidReferences'[v][s] <= Cardinality(FieldsTo(ref', s, v))
    BY DEF CountsBackedByFields
  <2>1. /\ FieldsTo(ref, s, v) \in SUBSET Field
        /\ FieldsTo(ref, s, old) \in SUBSET Field
        /\ FieldsTo(ref', s, v) \in SUBSET Field
    BY DEF FieldsTo
  <2>2. /\ Cardinality(FieldsTo(ref, s, v)) \in Nat
        /\ Cardinality(FieldsTo(ref', s, v)) \in Nat
        /\ Cardinality(FieldsTo(ref, s, old)) \in Nat
    BY <2>1, FieldCount
  <2>3. /\ uidReferences[v][s] \in Nat
        /\ uidReferences[v][s] <= Cardinality(FieldsTo(ref, s, v))
        /\ uidReferences[old][s] \in Nat
        /\ uidReferences[old][s] <= Cardinality(FieldsTo(ref, s, old))
    BY <1>1 DEF CountsBackedByFields, TypeOK
  <2>4. CASE v = old
    BY <1>1, <2>2, <2>4, CountsAfterRename
  <2>5. CASE v # old /\ uidReferences'[v][s] = uidReferences[v][s]
    <3>1. Cardinality(FieldsTo(ref, s, v)) <= Cardinality(FieldsTo(ref', s, v))
      BY <1>1, <2>1, <2>5, FieldsAfterRename, FieldCountMonotonic
    <3>2. QED
      BY <2>2, <2>3, <2>5, <3>1
  <2>6. CASE v = u /\ uidReferences'[v][s] = uidReferences[old][s]
    <3>1. CASE uidReferences[old][s] > 0
      <4>1. Cardinality(FieldsTo(ref, s, old)) <= Cardinality(FieldsTo(ref', s, v))
        BY <1>1, <2>1, <2>6, <3>1, FieldsAfterRename, FieldCountMonotonic
      <4>2. QED
        BY <2>2, <2>3, <2>6, <4>1
    <3>2. CASE ~(uidReferences[old][s] > 0)
      BY <2>2, <2>3, <2>6, <3>2
    <3>3. QED
      BY <3>1, <3>2
  <2>7. QED
    BY <1>1, <2>4, <2>5, <2>6, CountsAfterRename
<1>6. RegistryMatchesObjects'
  <2> SUFFICES ASSUME ~repeated
               PROVE  /\ \A v \in UID : cpacsObjects'[v] # None =>
                           cpacsObjects'[v] \in Live /\ uid'[cpacsObjects'[v]] = v
                      /\ \A x \in Live : uid'[x] # None => cpacsObjects'[uid'[x]] = x
    BY <1>2 DEF Rename, RegistryMatchesObjects, IsUIDRegistered
  <2>1. cpacsObjects[old] = o
    BY <1>1 DEF Rename, RegistryMatchesObjects
  <2>2. \A v \in UID : cpacsObjects'[v] = IF v = old THEN None
                                         ELSE IF v = u THEN o ELSE cpacsObjects[v]
    BY <1>1, <2>1 DEF Rename, TypeOK
  <2>3. \A x \in Object : uid'[x] = IF x = o THEN u ELSE uid[x]
    BY DEF Rename, TypeOK
  <2>4. \A x \in Live : x \in Object /\ uid[x] \in UID \cup {None} /\
           (x # o => uid[x] \notin {old, u})
    BY <1>1, <2>1, ObjectAssumption
    DEF Rename, RegistryMatchesObjects, IsUIDRegistered, Live, TypeOK
  <2>5. \A v \in UID : cpacsObjects[v] # None =>
           cpacsObjects[v] \in Live /\ uid[cpacsObjects[v]] = v
    BY DEF RegistryMatchesObjects, IsUIDRegistered
  <2>6. \A x \in Live : uid[x] # None => cpacsObjects[uid[x]] = x
    BY DEF RegistryMatchesObjects
  <2>7. ASSUME NEW v \in UID, cpacsObjects'[v] # None
        PROVE  cpacsObjects'[v] \in Live /\ uid'[cpacsObjects'[v]] = v
    BY <1>1, <2>2, <2>3, <2>4, <2>5, <2>7
  <2>8. ASSUME NEW x \in Live, uid'[x] # None
        PROVE  cpacsObjects'[uid'[x]] = x
    BY <1>1, <2>2, <2>3, <2>4, <2>6, <2>8
  <2>9. QED
    BY <2>7, <2>8
<1>7. UniqueNames'
  <2>1. \A x \in Existing : uid'[x] = IF x = o THEN u ELSE uid[x]
    BY DEF Rename, TypeOK, Existing, Reading, Live
  <2>2. ~repeated => \A x \in Existing : uid[x] # u
    BY UnregisteredIsNew DEF Rename
  <2>3. QED
    BY <1>2, <2>1, <2>2 DEF Rename, UniqueNames
<1>8. QED
  BY <1>3, <1>4, <1>5, <1>6, <1>7

\* A setter gives back one count of the old uID and takes one of the new.
LEMMA SetReferenceStep ==
    ASSUME IInv, NEW o \in Object, NEW f \in Field, NEW v \in RefValue,
           SetReference(o, f, v)
    PROVE  IInv'
<1> USE DEF IInv
<1> DEFINE old == ref[o][f]
           released == IF old \in UID THEN WithoutOneReference(uidReferences, o, old)
                                      ELSE uidReferences
<1>1. /\ ref' = [ref EXCEPT ![o][f] = v]
      /\ uidReferences' = IF v \in UID THEN WithOneReference(released, o, v)
                                       ELSE released
  BY DEF SetReference
<1>2. Live' = Live /\ Reading' = Reading /\ Existing' = Existing /\ o \in Live
  BY DEF SetReference, Live, Reading, Existing
<1>3. \A u \in UID, s \in Object :
        released[u][s] = IF u = old /\ s = o THEN Reduced(uidReferences[u][s], 1)
                                             ELSE uidReferences[u][s]
  BY DEF WithoutOneReference, TypeOK
<1>4. released \in [UID -> [Object -> Nat]]
  <2>1. CASE old \in UID
    <3>1. uidReferences[old] \in [Object -> Nat]
      BY <2>1 DEF TypeOK
    <3>2. Reduced(uidReferences[old][o], 1) \in Nat
      BY <3>1, ReducedCount
    <3>3. QED
      BY <2>1, <3>1, <3>2 DEF WithoutOneReference, TypeOK
  <2>2. CASE old \notin UID
    BY <2>2 DEF TypeOK
  <2>3. QED
    BY <2>1, <2>2
<1>5. /\ uidReferences' \in [UID -> [Object -> Nat]]
      /\ \A u \in UID, s \in Object :
           uidReferences'[u][s] = IF u = v /\ s = o THEN released[u][s] + 1
                                                    ELSE released[u][s]
  BY <1>1, <1>4 DEF WithOneReference
<1>6. TypeOK'
  BY <1>1, <1>5 DEF SetReference, TypeOK
<1>7. DormantObjects' /\ OwnersExist' /\ UniqueNames' /\ RegistryMatchesObjects'
  <2>1. \A s \in Object \ Existing : ref'[s] = ref[s]
    BY <1>1, <1>2 DEF TypeOK, Existing
  <2>2. QED
    BY <1>2, <2>1
    DEF SetReference, DormantObjects, OwnersExist, UniqueNames,
        RegistryMatchesObjects, IsUIDRegistered
<1>8. CountsBackedByFields'
  <2> SUFFICES ASSUME NEW u \in UID, NEW s \in Object \ Blade
               PROVE  uidReferences'[u][s] <= Cardinality(FieldsTo(ref', s, u))
    BY DEF CountsBackedByFields
  <2> DEFINE n == uidReferences[u][s]
             F == FieldsTo(ref, s, u)
  <2>1. /\ n \in Nat /\ IsFiniteSet(F) /\ Cardinality(F) \in Nat
        /\ n <= Cardinality(F)
    BY FieldCount DEF TypeOK, CountsBackedByFields, FieldsTo
  <2> HIDE DEF n, F, released
  <2>0. /\ s # o => FieldsTo(ref', s, u) = F
        /\ v = u => FieldsTo(ref', o, u) = FieldsTo(ref, o, u) \cup {f}
        /\ v # u => FieldsTo(ref', o, u) = FieldsTo(ref, o, u) \ {f}
    BY <1>1 DEF FieldsTo, TypeOK, F
  <2>2. CASE s # o
    <3>1. uidReferences'[u][s] = n
      BY <1>3, <1>5, <2>2 DEF n
    <3>2. QED
      BY <2>0, <2>1, <2>2, <3>1
  <2>3. CASE s = o /\ v = u
    <3>1. FieldsTo(ref', s, u) = F \cup {f}
      BY <2>0, <2>3 DEF F
    <3>2. Cardinality(F \cup {f}) = IF f \in F THEN Cardinality(F)
                                               ELSE Cardinality(F) + 1
      BY <2>1, FS_AddElement
    <3>3. f \in F <=> u = old
      BY <2>3 DEF FieldsTo, F
    <3>4. CASE u = old
      <4>1. Cardinality(F) # 0
        BY <2>1, <3>3, <3>4, FS_EmptySet
      <4>2. uidReferences'[u][s] = Reduced(n, 1) + 1
        BY <1>3, <1>5, <2>3, <3>4 DEF n
      <4>3. QED
        BY <2>1, <3>1, <3>2, <3>3, <3>4, <4>1, <4>2 DEF Reduced
    <3>5. CASE u # old
      <4>1. uidReferences'[u][s] = n + 1
        BY <1>3, <1>5, <2>3, <3>5 DEF n
      <4>2. QED
        BY <2>1, <3>1, <3>2, <3>3, <3>5, <4>1
    <3>6. QED
      BY <3>4, <3>5
  <2>4. CASE s = o /\ v # u
    <3>1. FieldsTo(ref', s, u) = F \ {f}
      BY <2>0, <2>4 DEF F
    <3>2. Cardinality(F \ {f}) = IF f \in F THEN Cardinality(F) - 1
                                            ELSE Cardinality(F)
      BY <2>1, FS_RemoveElement
    <3>3. f \in F <=> u = old
      BY <2>4 DEF FieldsTo, F
    <3>4. uidReferences'[u][s] = IF u = old THEN Reduced(n, 1) ELSE n
      BY <1>3, <1>5, <2>4 DEF n
    <3>5. QED
      <4>1. f \in F => Cardinality(F) # 0
        BY <2>1, FS_EmptySet
      <4>2. QED
        BY <2>1, <3>1, <3>2, <3>3, <3>4, <4>1 DEF Reduced
  <2>5. QED
    BY <2>2, <2>3, <2>4
<1>9. QED
  BY <1>6, <1>7, <1>8

\* A removal takes an object and what it owns out of every table.
LEMMA RemoveStep ==
    ASSUME IInv, NEW o \in Object, Remove(o)
    PROVE  IInv'
<1> DEFINE D == WithOwned(o)
<1>1. Destroy(D, DroppedUIDs(D)) /\ UNCHANGED <<phase, repeated>>
  BY DEF Remove
<1>2. DroppedUIDs(D) \in SUBSET UID /\ \A u \in DroppedUIDs(D) : \E y \in D : uid[y] = u
  BY DEF DroppedUIDs
<1>3. QED
  BY <1>1, <1>2, DestroyStep

-----------------------------------------------------------------------------
(***************************************************************************)
(* The theorems.                                                           *)
(***************************************************************************)

\* The invariant holds when the manager is constructed.
LEMMA InitEstablishes == Init => IInv
<1> SUFFICES ASSUME Init
             PROVE  IInv
  OBVIOUS
<1>1. NoFields \in [Field -> RefValue]
  BY ReferenceAssumption DEF NoFields
<1>2. TypeOK
  BY <1>1 DEF Init, TypeOK
<1>3. Existing = {} /\ Reading = {} /\ Live = {}
  BY DEF Init, Existing, Reading, Live
<1>4. CountsBackedByFields
  BY NoFieldsNameNothing DEF Init, CountsBackedByFields
<1>5. RegistryMatchesObjects
  BY <1>3 DEF Init, RegistryMatchesObjects, IsUIDRegistered
<1>6. QED
  BY <1>2, <1>3, <1>4, <1>5 DEF Init, IInv, DormantObjects, OwnersExist, UniqueNames

\* Every step keeps the invariant.
LEMMA NextPreserves == IInv /\ [Next]_vars => IInv'
<1> SUFFICES ASSUME IInv, [Next]_vars
             PROVE  IInv'
  OBVIOUS
<1>1. CASE UNCHANGED vars
  BY <1>1 DEF vars, IInv, TypeOK, DormantObjects, OwnersExist, UniqueNames,
              CountsBackedByFields, RegistryMatchesObjects, Existing, Reading, Live, FieldsTo, IsUIDRegistered
<1>2. CASE Next
  BY <1>2, ReadBeginStep, ReadUnnamedStep, ReadRegisterStep, ReadFailsStep,
     FinishReadingStep, AddStep, RemoveStep, SetFirstUIDStep, RenameStep,
     SetReferenceStep DEF Next
<1>3. QED
  BY <1>1, <1>2

\* The inductive invariant of the registry.
THEOREM RegistryInvariant == Spec => []IInv
BY InitEstablishes, NextPreserves, PTL DEF Spec

\* The variables keep their types.
THEOREM TypeCorrect == Spec => []TypeOK
<1>1. IInv => TypeOK
  BY DEF IInv
<1>2. QED
  BY <1>1, RegistryInvariant, PTL

\* The manager never counts a reference that no field backs, whatever is read,
\* renamed, re-pointed or destroyed, and also after a read that failed.
THEOREM CountsCorrect == Spec => []CountsBackedByFields
<1>1. IInv => CountsBackedByFields
  BY DEF IInv
<1>2. QED
  BY <1>1, RegistryInvariant, PTL

\* As long as the document repeats no uID, uIDs and live objects correspond,
\* however many of its objects failed to be read, and wherever.
THEOREM RegistryCorrect == Spec => []RegistryMatchesObjects
<1>1. IInv => RegistryMatchesObjects
  BY DEF IInv
<1>2. QED
  BY <1>1, RegistryInvariant, PTL

-----------------------------------------------------------------------------
(* What references mean, across a step.                                    *)

\* The field f of s names x, and is counted.
Denotes(s, f, x) ==
    \E u \in UID : ref[s][f] = u /\ cpacsObjects[u] = x /\ uidReferences[u][s] > 0

\* A uID that comes in leaves the others alone.
LEMMA NamingKeepsMeaning ==
    ASSUME IInv, NEW o \in Object, ReadRegister(o) \/ \E u \in UID : SetFirstUID(o, u),
           NEW s \in Live, NEW f \in Field, NEW x \in Live, Denotes(s, f, x)
    PROVE  Denotes(s, f, x)'
<1> USE ObjectAssumption
<1>1. PICK u \in UID : /\ ref[s][f] = u /\ cpacsObjects[u] = x
                       /\ uidReferences[u][s] > 0
  BY DEF Denotes
<1>2. s \in Object /\ x \in Object
  BY DEF Live
<1>3. cpacsObjects'[u] = x
  BY <1>1, <1>2 DEF ReadRegister, SetFirstUID, IsUIDRegistered, IInv, TypeOK
<1>4. ref'[s] = ref[s] /\ uidReferences' = uidReferences
  BY <1>2 DEF ReadRegister, RefAfterRead, InnermostRead, Reading, Live, SetFirstUID,
              IInv, TypeOK
<1>5. QED
  BY <1>1, <1>3, <1>4 DEF Denotes

\* A rename carries the fields, the counts and the entry to the new uID.
LEMMA RenameKeepsMeaning ==
    ASSUME IInv, NEW o \in Object, NEW new \in UID, Rename(o, new),
           NEW s \in Live, NEW f \in Field, NEW x \in Live, Denotes(s, f, x)
    PROVE  Denotes(s, f, x)'
<1> USE ObjectAssumption
<1> DEFINE old == uid[o]
<1>1. PICK u \in UID : /\ ref[s][f] = u /\ cpacsObjects[u] = x
                       /\ uidReferences[u][s] > 0
  BY DEF Denotes
<1>2. s \in Object /\ x \in Object
  BY DEF Live
<1>3. /\ old \in UID /\ old # new /\ cpacsObjects[new] = None
      /\ cpacsObjects' = [cpacsObjects EXCEPT ![new] = cpacsObjects[old], ![old] = None]
      /\ uidReferences' = MovedReferences(old, new)
      /\ ref' = NotifiedReferences(old, new)
  BY DEF Rename, IsUIDRegistered, IInv, TypeOK
<1>4. TypeOK
  BY DEF IInv
<1>5. CASE u = old
  <2>1. cpacsObjects'[new] = x
    BY <1>1, <1>3, <1>4, <1>5 DEF TypeOK
  <2>2. ref'[s][f] = new
    BY <1>1, <1>2, <1>3, <1>5 DEF NotifiedReferences
  <2>3. uidReferences'[new][s] > 0
    BY <1>1, <1>2, <1>3, <1>4, <1>5, CountsAfterRename DEF Referenced
  <2>4. QED
    BY <2>1, <2>2, <2>3 DEF Denotes
<1>6. CASE u # old
  <2>1. u # new
    BY <1>1, <1>2, <1>3
  <2>2. cpacsObjects'[u] = x
    BY <1>1, <1>3, <1>4, <1>6, <2>1 DEF TypeOK
  <2>3. ref'[s][f] = u
    BY <1>1, <1>2, <1>3, <1>6 DEF NotifiedReferences
  <2>4. uidReferences'[u][s] > 0
    BY <1>1, <1>2, <1>3, <1>4, <1>6, <2>1, CountsAfterRename
  <2>5. QED
    BY <2>2, <2>3, <2>4 DEF Denotes
<1>7. QED
  BY <1>5, <1>6

\* Of two objects that survive a removal or a failed read, neither was below what
\* was destroyed, so what is dropped by name is neither's.
LEMMA DestroyKeepsMeaning ==
    ASSUME IInv, ~repeated, NEW d \in Object, NEW dropped \in SUBSET UID,
           \A u \in dropped : \E y \in WithOwned(d) : uid[y] = u,
           Destroy(WithOwned(d), dropped),
           NEW s \in Live \cap Live', NEW f \in Field, NEW x \in Live \cap Live',
           Denotes(s, f, x)
    PROVE  Denotes(s, f, x)'
<1> DEFINE D == WithOwned(d)
<1>1. PICK u \in UID : /\ ref[s][f] = u /\ cpacsObjects[u] = x
                       /\ uidReferences[u][s] > 0
  BY DEF Denotes
<1>2. D \in SUBSET Existing /\ UniqueNames
  BY DEF WithOwned, IInv
<1>3. s \in Object \ D /\ x \in Object \ D /\ s \in Existing /\ x \in Existing
  BY DEF Destroy, Live, Existing
<1>4. uid[x] = u
  BY <1>1, <1>3, ObjectAssumption DEF IInv, RegistryMatchesObjects, IsUIDRegistered
<1>5. u \notin dropped
  BY <1>2, <1>3, <1>4, DroppedNames
<1>6. s \notin DroppedSources(dropped)
  <2> SUFFICES ASSUME NEW z \in Above[s] \cup {s}, uid[z] \in dropped
               PROVE  FALSE
    BY DEF DroppedSources
  <2>1. z \in Existing
    BY <1>3 DEF IInv, OwnersExist
  <2>2. z \in D
    BY <1>2, <2>1, DroppedNames
  <2>3. z # s /\ z \in Above[s] /\ (z = d \/ d \in Above[z])
    BY <1>3, <2>2 DEF WithOwned
  <2>4. d \in Above[s]
    BY <1>3, <2>1, <2>3, ObjectAssumption DEF Existing, Reading, Live
  <2>5. QED
    BY <1>3, <2>4 DEF WithOwned
<1>7. cpacsObjects'[u] = x /\ ref'[s] = ref[s] /\ uidReferences'[u][s] = uidReferences[u][s]
  BY <1>1, <1>3, <1>5, <1>6 DEF Destroy
<1>8. QED
  BY <1>1, <1>7 DEF Denotes

\* In a document that repeats no uID, no step makes a counted reference mean
\* something else while both ends live.
THEOREM ReferencesCorrect == Spec => ReferencesKeepTheirMeaning
<1>1. ASSUME IInv, [Next]_vars, ~repeated', cpacsObjects' # cpacsObjects,
             NEW s \in Live \cap Live', NEW f \in Field, NEW x \in Live \cap Live',
             Denotes(s, f, x)
      PROVE  Denotes(s, f, x)'
  <2>1. CASE \E o \in Object, u \in UID \cup {None}, r \in [Field -> RefValue] :
               ReadBegin(o, u, r)
    BY <1>1, <2>1 DEF ReadBegin
  <2>2. CASE \E o \in Object : ReadUnnamed(o) \/ Add(o)
    BY <1>1, <2>2 DEF ReadUnnamed, Add
  <2>3. ASSUME NEW o \in Object, NEW d \in Object, ReadFails(o, d)
        PROVE  Denotes(s, f, x)'
    <3>1. o \in WithOwned(d) /\ ~repeated
      BY <1>1, <2>3 DEF ReadFails, InnermostRead, WithOwned, Existing
    <3>2. PICK dropped \in TakenOut(o, WithOwned(d)) : Destroy(WithOwned(d), dropped)
      BY <2>3 DEF ReadFails
    <3>3. dropped \in SUBSET UID /\ \A u \in dropped : \E y \in WithOwned(d) : uid[y] = u
      BY <3>1, DroppedAreOwn
    <3>4. QED
      BY <1>1, <3>1, <3>2, <3>3, DestroyKeepsMeaning
  <2>4. CASE FinishReading
    BY <1>1, <2>4 DEF FinishReading
  <2>5. CASE \E o \in Object, g \in Field, v \in RefValue : SetReference(o, g, v)
    BY <1>1, <2>5 DEF SetReference
  <2>6. CASE UNCHANGED vars
    BY <1>1, <2>6 DEF vars
  <2>7. CASE \E o \in Object : ReadRegister(o)
    BY <1>1, <2>7, NamingKeepsMeaning
  <2>8. CASE \E o \in Object, u \in UID : SetFirstUID(o, u)
    BY <1>1, <2>8, NamingKeepsMeaning
  <2>9. CASE \E o \in Object, u \in UID : Rename(o, u)
    BY <1>1, <2>9, RenameKeepsMeaning
  <2>10. ASSUME NEW o \in Object, Remove(o)
         PROVE  Denotes(s, f, x)'
    <3>1. ~repeated /\ Destroy(WithOwned(o), DroppedUIDs(WithOwned(o)))
      BY <1>1, <2>10 DEF Remove
    <3>2. /\ DroppedUIDs(WithOwned(o)) \in SUBSET UID
          /\ \A u \in DroppedUIDs(WithOwned(o)) : \E y \in WithOwned(o) : uid[y] = u
      BY DEF DroppedUIDs
    <3>3. QED
      BY <1>1, <3>1, <3>2, DestroyKeepsMeaning
  <2>11. QED
    BY <1>1, <2>1, <2>2, <2>3, <2>4, <2>5, <2>6, <2>7, <2>8, <2>9, <2>10 DEF Next
<1>2. IInv /\ [Next]_vars =>
        [\A s \in Live, f \in Field, x \in Live :
           (/\ ~repeated'
            /\ cpacsObjects' # cpacsObjects
            /\ {s, x} \subseteq Live'
            /\ \E u \in UID : /\ ref[s][f] = u
                              /\ cpacsObjects[u] = x
                              /\ uidReferences[u][s] > 0)
           => \E u \in UID : /\ ref'[s][f] = u
                             /\ cpacsObjects'[u] = x
                             /\ uidReferences'[u][s] > 0]_vars
  BY <1>1 DEF Denotes
<1>3. QED
  BY <1>2, RegistryInvariant, PTL DEF Spec, ReferencesKeepTheirMeaning
=============================================================================
