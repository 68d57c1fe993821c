---------------------------- MODULE Invalidation ----------------------------
(***************************************************************************)
(* The shapes that are derived from an aircraft are kept in caches, and    *)
(* every change tells, through Invalidate, whoever may have used what was  *)
(* changed.  Nothing links a cache to what its build function reads: the   *)
(* InvalidateImpl functions of all classes, the uID references and a few   *)
(* callbacks must between them reach every holder of an outdated shape.    *)
(*                                                                         *)
(* An aircraft is a constant: its objects, their kinds, the object that    *)
(* owns each, and the objects that the fields of each name.  A shape is    *)
(* represented by what it was computed from: pairs of an object and the    *)
(* definition that the object had.                                         *)
(***************************************************************************)
EXTENDS FiniteSets

CONSTANTS
    None,       \* a cache without a value, an object without an owner
    Object,     \* the named objects, and the container of the ducts
    KindOf,     \* the class of each object
    Owner,      \* the next object above that has a uID (GetNextUIDParent)
    Named,      \* the objects whose uIDs the fields of an object hold
    Value,      \* definitions an object can have
    Default,    \* the one a reset transformation, or a disabled switch, has
    Editable,   \* the objects a user edits
    Replaced,   \* components whose transformation is replaced as a whole
    Unread      \* bound: the names of the caches that nobody asks for

NamesOf ==
    [model |-> {}, rotor |-> {}, section |-> {}, element |-> {}, ducts |-> {},
     transformation   |-> {"matrix"},
     profile          |-> {"wire"},
     wing             |-> {"clean", "loft", "boundingBox"},
     fuselage         |-> {"clean", "loft", "boundingBox"},
     segment          |-> {"loft", "measures"},
     componentSegment |-> {"loft"},
     duct             |-> {"loft"},
     assembly         |-> {"loft"}]

Kinds == DOMAIN NamesOf

Of(kinds) == {o \in Object : KindOf[o] \in kinds}

Parts(o, kind) == {p \in Of({kind}) : Owner[p] = o}

Component == Of({"model", "fuselage", "wing", "rotor", "duct", "assembly"})

ASSUME AircraftAssumption ==
    /\ None \notin Object
    /\ KindOf \in [Object -> Kinds]
    /\ Owner \in [Object -> Object \cup {None}]
    /\ Named \in [Object -> SUBSET Object]
    /\ \A t \in Of({"transformation"}) : Owner[t] \in Object
    /\ \A e \in Of({"element"}) : Owner[e] \in Of({"section"})
    /\ \A s \in Of({"segment"}) : /\ Owner[s] \in Of({"wing", "fuselage", "duct"})
                                  /\ Named[s] \subseteq Of({"element"})
    /\ \A s \in Of({"componentSegment"}) : Owner[s] \in Of({"wing"})
    /\ Default \in Value
    /\ Editable \subseteq Object
    /\ Replaced \subseteq Of({"wing", "fuselage"})

-----------------------------------------------------------------------------
(* Who is told of a change.                                                *)

\* The calls in the InvalidateImpl of an object, and the callbacks it runs.
Forwarded(o) ==
    {p \in Object :
        \/ KindOf[o] \in {"transformation", "segment"} /\ p = Owner[o]
        \/ /\ Owner[p] = o
           /\ <<KindOf[o], KindOf[p]>> \in
                  {<<"section", "element">>, <<"wing", "segment">>, <<"wing", "componentSegment">>,
                   <<"fuselage", "segment">>, <<"rotor", "transformation">>}
        \/ KindOf[o] = "ducts" /\ KindOf[p] \in {"wing", "fuselage"}}

\* InvalidateReferences; for a duct also the callback of its assemblies.
ReferencedBy(o) == {p \in Object : o \in Named[p]}

\* A bug that could be there: Invalidate without InvalidateReferences.
ToldWithoutReferences == [o \in Object |-> Forwarded(o)]

Told == [o \in Object |-> Forwarded(o) \cup ReferencedBy(o)]

\* An Invalidate that meets an object which is already invalidating returns,
\* so a call visits everything that can be reached, and ends.
ClosedSets == {S \in SUBSET Object : \A o \in S : Told[o] \subseteq S}

Reached ==
    [o \in Object |-> {p \in Object : \A S \in ClosedSets : o \in S => p \in S}]

-----------------------------------------------------------------------------
(* What the build functions read.                                          *)

\* A component's own shapes are placed by its transformation and by those of
\* its parent, the parent's parent, and so on.
ParentsOf(o) == {p \in Named[o] : KindOf[p] \in {"model", "fuselage", "wing", "rotor", "assembly"}}

Lineages == {S \in SUBSET Component : \A o \in S : ParentsOf(o) \subseteq S}

Line == [o \in Component |-> {p \in Component : \A S \in Lineages : o \in S => p \in S}]

Frame(o) ==
    {<<t, "matrix">> : t \in {t \in Of({"transformation"}) : Owner[t] \in Line[o]}}

\* The wires at the two ends of a segment.
Placed(e) == {t \in Of({"transformation"}) : Owner[t] \in {e, Owner[e]}}

Outline(s) ==
    UNION {   {<<t, "matrix">> : t \in Placed(e)}
         \cup {<<p, "wire">>   : p \in Named[e] \cap Of({"profile"})} : e \in Named[s]}

Outlines(o) == UNION {Outline(s) : s \in Parts(o, "segment")}

Elements(o) == UNION {Named[s] : s \in Parts(o, "segment")}

\* The segments of a duct are never asked for shapes of their own.
CacheId ==
    {c \in Object \X UNION {NamesOf[k] : k \in Kinds} :
        /\ c[2] \in NamesOf[KindOf[c[1]]]
        /\ KindOf[c[1]] = "segment" => KindOf[Owner[c[1]]] # "duct"}

\* A segment's loft is cut out of the faces of the whole.
Whole(s) == <<Owner[s], IF KindOf[Owner[s]] = "wing" THEN "clean" ELSE "loft">>

\* Shapes that are lofted through the wires of all segments.
Lofted(c) == c[2] = "clean" \/ KindOf[c[1]] = "duct"

When(condition, S) == IF condition THEN S ELSE {}

\* The caches that the build function of a cache reads ...
Inputs == [c \in CacheId |->
    LET o == c[1]
        k == KindOf[o]
    IN       When(c[2] \in {"boundingBox", "measures"}, {<<o, "loft">>})
        \cup When(c[2] = "loft" /\ k \in {"wing", "fuselage"}, {<<o, "clean">>})
        \cup When(Lofted(c), Frame(o) \cup Outlines(o))
        \cup When(c[2] = "loft" /\ k = "segment", Frame(Owner[o]) \cup Outline(o) \cup {Whole(o)})
        \cup When(k = "componentSegment",
                  Frame(Owner[o]) \cup {<<s, "loft">> : s \in Parts(Owner[o], "segment")})
        \cup When(k = "assembly",
                  Frame(o) \cup {<<d, "loft">> : d \in Named[o] \cap Of({"duct"})})]

\* ... and the objects whose own fields it reads.
Sources == [c \in CacheId |->
    LET o == c[1]
        k == KindOf[o]
    IN       When(k \in {"transformation", "profile"}, {o})
        \cup When(Lofted(c), Line[o] \cup Elements(o))
        \cup When(c[2] = "loft" /\ k \in {"wing", "fuselage"}, Of({"ducts"}))
        \cup When(k = "assembly", Line[o])]

\* A bug that could be there: a component segment that clears its geometry
\* and not its loft.
KeptByComponentSegment(c) ==
    \/ c[2] = "boundingBox"
    \/ c[2] = "measures" /\ KindOf[Owner[c[1]]] # "wing"
    \/ KindOf[c[1]] = "componentSegment"

\* The caches that the InvalidateImpl of their holder leaves alone.
Kept(c) ==
    \/ c[2] = "boundingBox"
    \/ c[2] = "measures" /\ KindOf[Owner[c[1]]] # "wing"

ClearedWith(R) == {c \in CacheId : c[1] \in R /\ ~Kept(c)}

-----------------------------------------------------------------------------
VARIABLES
    def,        \* the definition of each object
    cache       \* None, or what the cached shape was computed from

vars == <<def, cache>>

Readings == SUBSET (Object \X Value)

InvalidationTypeOK ==
    /\ def \in [Object -> Value]
    /\ cache \in [CacheId -> [shape : Readings, cutouts : Readings] \cup {None}]

Init ==
    /\ def = [o \in Object |-> Default]
    /\ cache = [c \in CacheId |-> None]

\* While the ducts are enabled, their assemblies cut wings and fuselages.
Cutters(c) ==
    {d \in CacheId : /\ c[2] = "loft"
                     /\ KindOf[c[1]] \in {"wing", "fuselage"}
                     /\ KindOf[d[1]] = "assembly"
                     /\ \E k \in Of({"ducts"}) : def[k] # Default}

\* Cache::value: the first read of a cache builds it from its inputs.
Build(c) ==
    /\ cache[c] = None
    /\ c[2] \notin Unread
    /\ \A d \in Inputs[c] \cup Cutters(c) : cache[d] # None
    /\ cache' = [cache EXCEPT ![c] =
           [shape   |->      {<<o, def[o]>> : o \in Sources[c]}
                        \cup (UNION {cache[d].shape : d \in Inputs[c]}),
            cutouts |->      (UNION {cache[d].cutouts : d \in Inputs[c]})
                        \cup (UNION {cache[d].shape : d \in Cutters(c)})]]
    /\ UNCHANGED def

\* A bug that could be there: the caches are a map, and clearing erases.
Erase(C) == cache' = [c \in CacheId \ C |-> cache[c]]

Clear(C) == cache' = [c \in CacheId |-> IF c \in C THEN None ELSE cache[c]]

\* A rotor that is invalidated resets its transformation.
Settled(d, R) ==
    [o \in Object |-> IF KindOf[o] = "transformation" /\ KindOf[Owner[o]] = "rotor" /\ Owner[o] \in R
                      THEN Default ELSE d[o]]

Enter(o, v, R) ==
    /\ v # def[o]
    /\ def' = Settled([def EXCEPT ![o] = v], R)

\* A setter that invalidates its object.
Set(o, v) ==
    /\ o \in Editable
    /\ Enter(o, v, Reached[o])
    /\ Clear(ClearedWith(Reached[o]))

ReachedFromModel == UNION {Reached[m] : m \in Of({"model"})}

\* CCPACSConfiguration::Invalidate: a model forwards nothing itself.
ConfigurationInvalidate ==
    /\ def' = Settled(def, ReachedFromModel)
    /\ Clear(ClearedWith(ReachedFromModel))

\* The widget of the creator invalidates the configuration after its setters.
SetInCreator(t, v) ==
    /\ t \in Editable
    /\ KindOf[t] = "transformation"
    /\ Enter(t, v, Reached[t] \cup ReachedFromModel)
    /\ Clear(ClearedWith(Reached[t] \cup ReachedFromModel))

\* CTiglAbstractGeometricComponent::Reset
ResetCaches(o) == {c \in CacheId : c[1] = o /\ c[2] \in {"loft", "boundingBox"}}

\* SetTransformation: only the fuselage's own version goes on to invalidate.
SetTransformation(t, v) ==
    LET o == Owner[t]
        R == IF KindOf[o] = "fuselage" THEN Reached[o] ELSE {}
    IN  /\ KindOf[t] = "transformation"
        /\ o \in Replaced
        /\ Enter(t, v, R)
        /\ Clear({<<t, "matrix">>} \cup ResetCaches(o) \cup ClearedWith(R))

SetBuildFlaps(w) ==
    /\ KindOf[w] = "wing"
    /\ Clear(ResetCaches(w))
    /\ UNCHANGED def

Next ==
    \/ \E c \in CacheId : Build(c)
    \/ \E o \in Object, v \in Value : Set(o, v) \/ SetInCreator(o, v) \/ SetTransformation(o, v)
    \/ ConfigurationInvalidate
    \/ \E w \in Object : SetBuildFlaps(w)

Spec == Init /\ [][Next]_vars

-----------------------------------------------------------------------------
(* Correctness.                                                            *)

Current(readings) == \A r \in readings : def[r[1]] = r[2]

Boxes    == {c \in CacheId : c[2] = "boundingBox"}
Measures == {c \in CacheId : c[2] = "measures" /\ KindOf[Owner[c[1]]] = "fuselage"}

\* A cached wire, matrix, shape, loft, or measure of a wing segment was
\* computed from definitions that are still the present ones, whatever was
\* edited since, in the component or in one it is placed by: the calls of the
\* InvalidateImpl functions and the references reach every reader.  What the
\* ducts cut out of wings and fuselages is not part of this.
ShapesFollowDefinitions ==
    \A c \in CacheId \ (Boxes \cup Measures) :
        cache[c] # None => Current(cache[c].shape)

\* What a shape was made from is still there while the shape is: a segment
\* shares the faces of the cached whole, never those of one that was built
\* before it, also when an edit was taken back in between.
InputsStayCached ==
    \A c \in CacheId \ (Boxes \cup Measures) :
        cache[c] # None => \A d \in Inputs[c] : cache[d] # None

\* "Returns the volume of this segment", "returns the bounding box of this
\* component's loft": measures and boxes belong to the present definitions.
MeasuresFollowDefinitions ==
    \A c \in Boxes \cup Measures : cache[c] # None => Current(cache[c].shape)
=============================================================================
