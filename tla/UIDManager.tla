----------------------------- MODULE UIDManager -----------------------------
(***************************************************************************)
(* The registry of named CPACS objects and of the references between them: *)
(* tigl::CTiglUIDManager, seen together with the classes that feed it.     *)
(*                                                                         *)
(* Every class with a uID attribute calls the manager from the same few    *)
(* places, which the code generator writes out for each of them; CPACSWing *)
(* and CPACSWingSegment are the ones read here.  A constructed object      *)
(* registers its references while it is read and its own uID at the end of *)
(* that, tells the manager when a setter changes either, and takes itself  *)
(* out in its destructor.  A class without the attribute, such as the list *)
(* of a wing's segments, is an object whose uid stays None.                *)
(*                                                                         *)
(* An object is one C++ instance, so a destroyed one never comes back and  *)
(* a pointer to it is a dangling pointer.  The geometric half of the       *)
(* manager (allShapes and the parent tree) is added by ComponentTree.      *)
(***************************************************************************)
EXTENDS Integers, FiniteSets

CONSTANTS
    Object,       \* instances of the generated classes
    UID,          \* the non-empty uID strings
    Field,        \* the fields that hold a uID of another object
    RefValue,     \* what such a field can hold: a uID, an empty string, nothing
    None,         \* the null pointer, the empty uID, the unset field
    Above,        \* Above[o]: the objects that o is part of, its parents and theirs
    Blade         \* wings read below a <rotorBlades> node

ASSUME ObjectAssumption ==
    /\ None \notin Object \cup UID
    /\ Above \in [Object -> SUBSET Object]
    /\ \A x, y \in Object : x \in Above[y] => Above[x] \subseteq Above[y]
    /\ \A x \in Object : x \notin Above[x]
    /\ Blade \subseteq Object

ASSUME ReferenceAssumption ==
    /\ IsFiniteSet(Field)
    /\ UID \cup {None} \subseteq RefValue

VARIABLES
    phase,          \* "reading" the document, then "open" to the API, or "failed"
    status,         \* life of each object
    uid,            \* its m_uID
    ref,            \* its reference fields
    cpacsObjects,   \* uID -> registered object
    uidReferences,  \* uID -> referencing object -> count; an erased entry is 0
    repeated        \* history: the document gave the uID of an object a second time

vars == <<phase, status, uid, ref, cpacsObjects, uidReferences, repeated>>

TypeOK ==
    /\ phase \in {"reading", "open", "failed"}
    /\ status \in [Object -> {"unused", "reading", "live", "dead"}]
    /\ uid \in [Object -> UID \cup {None}]
    /\ ref \in [Object -> [Field -> RefValue]]
    /\ cpacsObjects \in [UID -> Object \cup {None}]
    /\ uidReferences \in [UID -> [Object -> Nat]]
    /\ repeated \in BOOLEAN

NoFields == [f \in Field |-> None]

Init ==
    /\ phase = "reading"
    /\ status = [o \in Object |-> "unused"]
    /\ uid = [o \in Object |-> None]
    /\ ref = [o \in Object |-> NoFields]
    /\ cpacsObjects = [u \in UID |-> None]
    /\ uidReferences = [u \in UID |-> [o \in Object |-> 0]]
    /\ repeated = FALSE

-----------------------------------------------------------------------------

Reading == {o \in Object : status[o] = "reading"}
Live    == {o \in Object : status[o] = "live"}
Existing == Reading \cup Live

IsUIDRegistered(u) == cpacsObjects[u] # None
Referenced(u) == \E s \in Object : uidReferences[u][s] > 0   \* IsReferenced

FieldsTo(r, o, u) == {f \in Field : r[o][f] = u}

\* RegisterReference, once for every field of o that names u.
WithReferencesOf(count, o, r) ==
    [u \in UID |-> [count[u] EXCEPT ![o] = @ + Cardinality({f \in Field : r[f] = u})]]

\* Mutant: the count is taken back without a look at what is left.
ReducedBelowZero(n, k) == n - k

\* An erased entry stays erased: TryUnregisterReference stops at zero.
Reduced(n, k) == IF n > k THEN n - k ELSE 0

WithoutOneReference(count, o, u) == [count EXCEPT ![u][o] = Reduced(@, 1)]
WithOneReference(count, o, u)    == [count EXCEPT ![u][o] = @ + 1]

(***************************************************************************)
(* Destruction of an object and of what it owns.  Each destructor first    *)
(* calls TryUnregisterObject, which does nothing for a uID that is not     *)
(* registered and otherwise drops the entry of that uID, whoever it points *)
(* to, the references to it and the references from every object that      *)
(* bears the uID or lies below one that does; then it unregisters its own  *)
(* reference fields one by one.                                            *)
(***************************************************************************)
WithOwned(o) == {x \in Existing : x = o \/ o \in Above[x]}

DroppedUIDs(D) == {u \in UID : IsUIDRegistered(u) /\ \E x \in D : uid[x] = u}

DroppedSources(dropped) ==
    {s \in Object : \E x \in Above[s] \cup {s} : uid[x] \in dropped}

\* The objects in D are destroyed, and with them what is registered as `dropped`.
Destroy(D, dropped) ==
    /\ status' = [o \in Object |-> IF o \in D THEN "dead" ELSE status[o]]
    /\ uid' = [o \in Object |-> IF o \in D THEN None ELSE uid[o]]
    /\ ref' = [o \in Object |-> IF o \in D THEN NoFields ELSE ref[o]]
    /\ cpacsObjects' =
         [u \in UID |-> IF u \in dropped THEN None ELSE cpacsObjects[u]]
    /\ uidReferences' =
         [u \in UID |-> [s \in Object |->
            IF u \in dropped \/ s \in DroppedSources(dropped) THEN 0
            ELSE IF s \in D THEN Reduced(uidReferences[u][s],
                                         Cardinality(FieldsTo(ref, s, u)))
            ELSE uidReferences[u][s]]]

-----------------------------------------------------------------------------
(* Reading a document.                                                     *)

\* The constructor and the first half of ReadCPACS: the uID attribute and the
\* reference fields.  The objects inside o are read before o is registered.
ReadBegin(o, u, r) ==
    /\ phase = "reading"
    /\ status[o] = "unused"
    /\ Reading = Above[o]
    /\ status' = [status EXCEPT ![o] = "reading"]
    /\ uid' = [uid EXCEPT ![o] = u]
    /\ ref' = [ref EXCEPT ![o] = r]
    /\ uidReferences' = WithReferencesOf(uidReferences, o, r)
    /\ repeated' = (repeated \/ \E x \in Existing : uid[x] = u /\ u # None)
    /\ UNCHANGED <<phase, cpacsObjects>>

InnermostRead(o) == o \in Reading /\ \A x \in Reading : o \notin Above[x]

\* A rotor blade loses its parentUID after it was read, and only the field does.
RefAfterRead(o) == IF o \in Blade THEN [ref EXCEPT ![o] = NoFields] ELSE ref

\* The end of ReadCPACS for an object without a uID.
ReadUnnamed(o) ==
    /\ InnermostRead(o)
    /\ uid[o] = None
    /\ status' = [status EXCEPT ![o] = "live"]
    /\ ref' = RefAfterRead(o)
    /\ UNCHANGED <<phase, uid, cpacsObjects, uidReferences, repeated>>

\* The end of ReadCPACS: RegisterObject.
ReadRegister(o) ==
    /\ InnermostRead(o)
    /\ uid[o] # None
    /\ ~IsUIDRegistered(uid[o])
    /\ cpacsObjects' = [cpacsObjects EXCEPT ![uid[o]] = o]
    /\ status' = [status EXCEPT ![o] = "live"]
    /\ ref' = RefAfterRead(o)
    /\ UNCHANGED <<phase, uid, uidReferences, repeated>>

\* What the destructors take out when the reading of o fails.  o may have been
\* registered before it failed: the readers of some classes call the generated
\* one first, which registers, and go on to check what was read.
TakenOut(o, D) ==
    {DroppedUIDs(D)} \cup
    {DroppedUIDs(D) \cup {u} : u \in {v \in UID : v = uid[o] /\ ~IsUIDRegistered(v)}}

\* Mutant: half-read objects are destroyed without a word to the manager.
ReadFailsSilently(o, d) ==
    /\ InnermostRead(o)
    /\ d \in Above[o] \cup {o}
    /\ Destroy(WithOwned(d), {})
    /\ UNCHANGED <<phase, repeated>>

\* An exception in the reading of o: RegisterObject finds the uID in use, a value
\* cannot be converted, something that is required is missing or does not fit.
\* It unwinds to the list or the optional member that holds o or one of the
\* objects o is part of, which is destroyed, logged and left out of the model.
ReadFails(o, d) ==
    /\ InnermostRead(o)
    /\ d \in Above[o] \cup {o}
    /\ \E dropped \in TakenOut(o, WithOwned(d)) : Destroy(WithOwned(d), dropped)
    /\ UNCHANGED <<phase, repeated>>

\* The end of CCPACSConfiguration::ReadCPACS; SetParentComponents may throw.
FinishReading ==
    /\ phase = "reading"
    /\ Reading = {}
    /\ phase' \in {"open", "failed"}
    /\ UNCHANGED <<status, uid, ref, cpacsObjects, uidReferences, repeated>>

-----------------------------------------------------------------------------
(* The operations of an open configuration.                                *)

\* AddWing, AddSection and the like: a constructor, nothing is registered.
Add(o) ==
    /\ phase = "open"
    /\ status[o] = "unused"
    /\ Above[o] \subseteq Live
    /\ status' = [status EXCEPT ![o] = "live"]
    /\ UNCHANGED <<phase, uid, ref, cpacsObjects, uidReferences, repeated>>

\* SetUID of an object without one: RegisterObject.
SetFirstUID(o, u) ==
    /\ phase = "open"
    /\ o \in Live
    /\ uid[o] = None
    /\ ~IsUIDRegistered(u)
    /\ cpacsObjects' = [cpacsObjects EXCEPT ![u] = o]
    /\ uid' = [uid EXCEPT ![o] = u]
    /\ UNCHANGED <<phase, status, ref, uidReferences, repeated>>

\* Mutant: the entry of the old uID is erased and not moved.
ForgottenReferences(old, new) ==
    [uidReferences EXCEPT ![old] = [s \in Object |-> 0]]

\* UpdateUIDReferences: the entry of the new uID is overwritten, not merged.
MovedReferences(old, new) ==
    IF Referenced(old)
    THEN [uidReferences EXCEPT ![new] = uidReferences[old],
                               ![old] = [s \in Object |-> 0]]
    ELSE uidReferences

\* Mutant: nobody is told.
SilentReferences(old, new) == ref

\* NotifyUIDChange, sent to the objects counted as referencing the old uID.
NotifiedReferences(old, new) ==
    [s \in Object |-> [f \in Field |->
        IF uidReferences[old][s] > 0 /\ ref[s][f] = old THEN new ELSE ref[s][f]]]

\* SetUID of an object that has one: UpdateObjectUID.
Rename(o, u) ==
    /\ phase = "open"
    /\ o \in Live
    /\ uid[o] \notin {None, u}
    /\ IsUIDRegistered(uid[o])
    /\ ~IsUIDRegistered(u)
    /\ cpacsObjects' = [cpacsObjects EXCEPT ![u] = cpacsObjects[uid[o]],
                                            ![uid[o]] = None]
    /\ uidReferences' = MovedReferences(uid[o], u)
    /\ ref' = NotifiedReferences(uid[o], u)
    /\ uid' = [uid EXCEPT ![o] = u]
    /\ UNCHANGED <<phase, status, repeated>>

\* SetParentUID, SetFromElementUID and the like.
SetReference(o, f, v) ==
    /\ phase = "open"
    /\ o \in Live
    /\ LET old == ref[o][f]
           released == IF old \in UID THEN WithoutOneReference(uidReferences, o, old)
                                      ELSE uidReferences
       IN uidReferences' = IF v \in UID THEN WithOneReference(released, o, v)
                                        ELSE released
    /\ ref' = [ref EXCEPT ![o][f] = v]
    /\ UNCHANGED <<phase, status, uid, cpacsObjects, repeated>>

\* RemoveWing, RemovePositioning, reset of an optional member and the like.
Remove(o) ==
    /\ phase = "open"
    /\ o \in Live
    /\ Destroy(WithOwned(o), DroppedUIDs(WithOwned(o)))
    /\ UNCHANGED <<phase, repeated>>

Next ==
    \/ \E o \in Object, u \in UID \cup {None}, r \in [Field -> RefValue] :
          ReadBegin(o, u, r)
    \/ \E o \in Object : ReadUnnamed(o) \/ ReadRegister(o)
    \/ \E o, d \in Object : ReadFails(o, d)
    \/ FinishReading
    \/ \E o \in Object : Add(o) \/ Remove(o)
    \/ \E o \in Object, u \in UID : SetFirstUID(o, u) \/ Rename(o, u)
    \/ \E o \in Object, f \in Field, v \in RefValue : SetReference(o, f, v)

Spec == Init /\ [][Next]_vars

-----------------------------------------------------------------------------
(* Safety.                                                                 *)

\* In a document that gives every uID once, the registry and the objects agree:
\* a uID resolves to the live object that bears it, and an object stays
\* resolvable from the end of its reading or its naming to its destruction.
\* Renames, reads that fail at any place and for any reason, and the destructors
\* of half-read and of whole subtrees all rewrite both.
RegistryMatchesObjects ==
    ~repeated =>
        /\ \A u \in UID : IsUIDRegistered(u) =>
              cpacsObjects[u] \in Live /\ uid[cpacsObjects[u]] = u
        /\ \A o \in Live : uid[o] # None => cpacsObjects[uid[o]] = o

\* No object is counted as referencing a uID more often than its fields name
\* it.  So the destructor, which gives back one count per field, leaves none
\* behind, and TryUnregisterObject and Invalidate, which follow every counted
\* pointer, follow no dangling one.  A rotor blade is the exception.
CountsBackedByFields ==
    \A u \in UID, s \in Object \ Blade :
        uidReferences[u][s] <= Cardinality(FieldsTo(ref, s, u))

\* A step that rewrites the registry (a rename, a removal, a late name) leaves
\* what a counted reference denotes alone: while the object it resolves to lives,
\* it goes on resolving to that object, under the new uID if that was changed.
ReferencesKeepTheirMeaning ==
    [][\A s \in Live, f \in Field, x \in Live :
         (/\ ~repeated'
          /\ cpacsObjects' # cpacsObjects
          /\ {s, x} \subseteq Live'
          /\ \E u \in UID : /\ ref[s][f] = u
                            /\ cpacsObjects[u] = x
                            /\ uidReferences[u][s] > 0)
         => \E u \in UID : /\ ref'[s][f] = u
                           /\ cpacsObjects'[u] = x
                           /\ uidReferences'[u][s] > 0]_vars

-----------------------------------------------------------------------------
(* What makes the safety properties inductive.                             *)

\* Objects that do not exist hold no name and refer to nothing.
DormantObjects ==
    \A o \in Object \ Existing : uid[o] = None /\ ref[o] = NoFields

\* An object exists only inside existing objects, and none is half read once
\* the document is.
OwnersExist ==
    /\ \A o \in Existing : Above[o] \subseteq Existing
    /\ phase # "reading" => Reading = {}

\* No two objects bear a uID, also while they are read.
UniqueNames ==
    ~repeated => \A x, y \in Existing : x # y /\ uid[x] = uid[y] => uid[x] = None

IInv ==
    /\ TypeOK
    /\ DormantObjects
    /\ OwnersExist
    /\ UniqueNames
    /\ CountsBackedByFields
    /\ RegistryMatchesObjects
=============================================================================
