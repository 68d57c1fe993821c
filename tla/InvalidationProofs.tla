------------------------- MODULE InvalidationProofs -------------------------
(***************************************************************************)
(* Theorems about Invalidation, for every aircraft: any objects, any way   *)
(* of owning and naming each other.                                        *)
(***************************************************************************)
EXTENDS Invalidation, TLAPS

\* Every closed set that holds an object holds whatever the object reaches.
LEMMA ReachedLeast ==
    ASSUME NEW o \in Object, NEW S \in ClosedSets, o \in S
    PROVE  Reached[o] \subseteq S
BY DEF Reached

\* An object reaches itself, and only objects.
LEMMA ReachedReflexive ==
    ASSUME NEW o \in Object
    PROVE  o \in Reached[o] /\ Reached[o] \subseteq Object
BY DEF Reached

\* Invalidation is told on and on: what is reached is closed.
LEMMA ReachedClosed ==
    ASSUME NEW o \in Object, NEW p \in Reached[o], NEW q \in Told[p], q \in Object
    PROVE  q \in Reached[o]
<1> SUFFICES ASSUME NEW S \in ClosedSets, o \in S
             PROVE  q \in S
    BY DEF Reached
<1>1. p \in S
    BY DEF Reached
<1> QED
    BY <1>1 DEF ClosedSets

\* Only objects are told.
LEMMA ToldObjects ==
    ASSUME NEW o \in Object
    PROVE  Told[o] \subseteq Object
BY DEF Told, Forwarded, ReferencedBy

\* One step further.
LEMMA ReachedStep ==
    ASSUME NEW o \in Object, NEW p \in Reached[o], NEW q \in Told[p]
    PROVE  q \in Reached[o]
<1>1. p \in Object
    BY ReachedReflexive
<1> QED
    BY <1>1, ToldObjects, ReachedClosed

LEMMA ReachedTransitive ==
    ASSUME NEW o \in Object, NEW p \in Reached[o]
    PROVE  Reached[p] \subseteq Reached[o]
<1>1. p \in Object /\ Reached[o] \subseteq Object
    BY ReachedReflexive
<1>2. Reached[o] \in ClosedSets
    BY <1>1, ReachedStep DEF ClosedSets
<1> QED
    BY <1>1, <1>2, ReachedLeast

-----------------------------------------------------------------------------
(* Everything that is read tells its reader.                               *)

\* What holds a lineage together: a component reaches what it places.
LEMMA LineReaches ==
    ASSUME NEW o \in Component, NEW p \in Line[o]
    PROVE  p \in Object /\ o \in Reached[p]
<1> DEFINE S == {x \in Component : o \in Reached[x]}
<1>1. Component \subseteq Object
    BY DEF Component, Of
<1>2. o \in S
    BY <1>1, ReachedReflexive
<1>3. S \in Lineages
  <2> SUFFICES ASSUME NEW x \in S, NEW q \in ParentsOf(x)
               PROVE  q \in S
      BY DEF Lineages
  <2>1. q \in Component /\ q \in Object
      BY <1>1, AircraftAssumption DEF ParentsOf, Component, Of
  <2>2. x \in Told[q]
      BY <1>1, <2>1 DEF ParentsOf, Told, ReferencedBy
  <2>3. x \in Reached[q]
      BY <2>1, <2>2, ReachedReflexive, ReachedStep
  <2>4. o \in Reached[q]
      BY <2>1, <2>3, ReachedTransitive
  <2> QED
      BY <2>1, <2>4
<1>4. p \in S
    BY <1>2, <1>3 DEF Line
<1> QED
    BY <1>1, <1>4

\* The matrices that place a component tell it.
LEMMA FrameReaches ==
    ASSUME NEW o \in Component, NEW d \in Frame(o)
    PROVE  d[1] \in Object /\ o \in Reached[d[1]] /\ d \in CacheId /\ ~Kept(d)
<1>1. PICK t \in Of({"transformation"}) : d = <<t, "matrix">> /\ Owner[t] \in Line[o]
    BY DEF Frame
<1>2. t \in Object /\ KindOf[t] = "transformation"
    BY DEF Of
<1>3. o \in Reached[Owner[t]] /\ Owner[t] \in Object
    BY <1>1, LineReaches
<1>4. Owner[t] \in Told[t]
    BY <1>2, <1>3 DEF Told, Forwarded
<1>5. o \in Reached[t]
    BY <1>2, <1>3, <1>4, ReachedReflexive, ReachedStep, ReachedTransitive
<1>6. d \in CacheId /\ ~Kept(d)
    BY <1>1, <1>2 DEF CacheId, NamesOf, Kinds, Kept
<1> QED
    BY <1>1, <1>2, <1>5, <1>6

\* An element tells the segments that end on it, and their owner.
LEMMA ElementReaches ==
    ASSUME NEW s \in Of({"segment"}), NEW e \in Named[s]
    PROVE  e \in Object /\ s \in Reached[e] /\ Owner[s] \in Reached[e]
<1>1. s \in Object /\ KindOf[s] = "segment" /\ e \in Object /\ Owner[s] \in Object
    BY AircraftAssumption DEF Of
<1>2. s \in Told[e]
    BY <1>1 DEF Told, ReferencedBy
<1>3. Owner[s] \in Told[s]
    BY <1>1 DEF Told, Forwarded
<1> QED
    BY <1>1, <1>2, <1>3, ReachedReflexive, ReachedStep

\* So do the wires at its ends: profiles and transformations.
LEMMA OutlineReaches ==
    ASSUME NEW s \in Of({"segment"}), NEW d \in Outline(s)
    PROVE  /\ d[1] \in Object
           /\ s \in Reached[d[1]]
           /\ Owner[s] \in Reached[d[1]]
           /\ d \in CacheId
           /\ ~Kept(d)
<1>1. PICK e \in Named[s] : \/ \E t \in Placed(e) : d = <<t, "matrix">>
                           \/ \E p \in Named[e] \cap Of({"profile"}) : d = <<p, "wire">>
    BY DEF Outline
<1>2. e \in Object /\ KindOf[e] = "element" /\ Owner[e] \in Object /\ KindOf[Owner[e]] = "section"
    BY AircraftAssumption DEF Of
<1>3. s \in Reached[e] /\ Owner[s] \in Reached[e]
    BY ElementReaches
<1>4. ASSUME NEW t \in Placed(e), d = <<t, "matrix">>
      PROVE  e \in Reached[t] /\ t \in Object /\ d \in CacheId /\ ~Kept(d)
  <2>1. t \in Object /\ KindOf[t] = "transformation" /\ Owner[t] \in {e, Owner[e]}
      BY DEF Placed, Of
  <2>2. Owner[t] \in Told[t]
      BY <1>2, <2>1 DEF Told, Forwarded
  <2>3. e \in Told[Owner[e]]
      BY <1>2 DEF Told, Forwarded
  <2>4. Owner[t] \in Reached[t]
      BY <2>1, <2>2, ReachedReflexive, ReachedStep
  <2>5. e \in Reached[t]
      BY <2>1, <2>3, <2>4, ReachedStep
  <2>6. d \in CacheId /\ ~Kept(d)
      BY <1>4, <2>1 DEF CacheId, NamesOf, Kinds, Kept
  <2> QED
      BY <2>1, <2>5, <2>6
<1>5. ASSUME NEW p \in Named[e] \cap Of({"profile"}), d = <<p, "wire">>
      PROVE  e \in Reached[p] /\ p \in Object /\ d \in CacheId /\ ~Kept(d)
  <2>1. p \in Object /\ KindOf[p] = "profile"
      BY DEF Of
  <2>2. e \in Told[p]
      BY <1>2, <2>1 DEF Told, ReferencedBy
  <2>3. d \in CacheId /\ ~Kept(d)
      BY <1>5, <2>1 DEF CacheId, NamesOf, Kinds, Kept
  <2> QED
      BY <2>1, <2>2, <2>3, ReachedReflexive, ReachedStep
<1>6. /\ d[1] \in Object /\ e \in Reached[d[1]] /\ d \in CacheId /\ ~Kept(d)
    BY <1>1, <1>4, <1>5
<1> QED
    BY <1>3, <1>6, ReachedTransitive

-----------------------------------------------------------------------------
(* A change of an object informs a cache: the holder is reached from the   *)
(* object, and, for a transformation that is not the holder itself, also   *)
(* from the owner of the transformation alone.                             *)

Informs(o, c) ==
    /\ c[1] \in Reached[o]
    /\ KindOf[o] = "transformation" => c = <<o, "matrix">> \/ c[1] \in Reached[Owner[o]]

\* What a build function reads belongs to an object that tells the holder,
\* and is itself cleared by an invalidation; nobody reads a wing's loft but
\* the box around it.
Linked(c, d) ==
    /\ d \in CacheId
    /\ ~Kept(d)
    /\ Informs(d[1], c)
    /\ ~(d[2] = "loft" /\ KindOf[d[1]] = "wing")

\* Of a pair that is a cache, the object and its kind are known.
LEMMA CacheKinds ==
    ASSUME NEW c \in CacheId
    PROVE  /\ c[1] \in Object
           /\ KindOf[c[1]] \in Kinds
           /\ c[2] \in NamesOf[KindOf[c[1]]]
           /\ c = <<c[1], c[2]>>
BY AircraftAssumption DEF CacheId

\* A frame belongs to transformations, which tell the component they place
\* through their owner.
LEMMA FrameLinked ==
    ASSUME NEW c \in CacheId, NEW o \in Component, c[1] \in Reached[o], NEW d \in Frame(o)
    PROVE  Linked(c, d)
<1>1. /\ d[1] \in Object /\ o \in Reached[d[1]] /\ d \in CacheId /\ ~Kept(d)
    BY FrameReaches
<1>2. PICK t \in Of({"transformation"}) : d = <<t, "matrix">> /\ Owner[t] \in Line[o]
    BY DEF Frame
<1>3. Owner[t] \in Object /\ o \in Reached[Owner[t]]
    BY <1>2, LineReaches
<1>4. c[1] \in Reached[d[1]] /\ c[1] \in Reached[Owner[t]]
    BY <1>1, <1>3, ReachedTransitive
<1> QED
    BY <1>1, <1>2, <1>4 DEF Linked, Informs

\* So do the wires of a segment, through the element they stand at.
LEMMA OutlineLinked ==
    ASSUME NEW c \in CacheId, NEW s \in Of({"segment"}), NEW d \in Outline(s),
           c[1] = s \/ c[1] = Owner[s]
    PROVE  Linked(c, d)
<1>1. /\ d[1] \in Object /\ d \in CacheId /\ ~Kept(d) /\ c[1] \in Reached[d[1]]
    BY OutlineReaches
<1>2. PICK e \in Named[s] : \/ \E t \in Placed(e) : d = <<t, "matrix">>
                           \/ \E p \in Named[e] \cap Of({"profile"}) : d = <<p, "wire">>
    BY DEF Outline
<1>3. e \in Object /\ KindOf[e] = "element" /\ Owner[e] \in Object
      /\ c[1] \in Reached[e]
    BY AircraftAssumption, ElementReaches DEF Of
<1>4. c[1] \in Reached[Owner[e]]
  <2>1. e \in Told[Owner[e]]
      BY <1>3, AircraftAssumption DEF Told, Forwarded, Of
  <2> QED
      BY <1>3, <2>1, ReachedReflexive, ReachedStep, ReachedTransitive
<1>5. CASE \E t \in Placed(e) : d = <<t, "matrix">>
    BY <1>1, <1>3, <1>4, <1>5 DEF Placed, Linked, Informs
<1>6. CASE \E p \in Named[e] \cap Of({"profile"}) : d = <<p, "wire">>
    BY <1>1, <1>6 DEF Of, Linked, Informs
<1> QED
    BY <1>2, <1>5, <1>6

\* The owner of a segment tells it.
LEMMA OwnerOfSegment ==
    ASSUME NEW s \in Of({"segment", "componentSegment"}), KindOf[Owner[s]] # "duct"
    PROVE  Owner[s] \in Component /\ Owner[s] \in Object /\ s \in Reached[Owner[s]]
<1>1. s \in Object /\ KindOf[s] \in {"segment", "componentSegment"}
    BY DEF Of
<1>2. /\ Owner[s] \in Object
      /\ \/ KindOf[Owner[s]] = "wing"
         \/ KindOf[Owner[s]] = "fuselage" /\ KindOf[s] = "segment"
    BY <1>1, AircraftAssumption DEF Of
<1>3. s \in Told[Owner[s]]
    BY <1>1, <1>2 DEF Told, Forwarded
<1> QED
    BY <1>2, <1>3, ReachedReflexive, ReachedStep DEF Component, Of

\* Whatever the build function of a cleared cache reads is linked to it.
LEMMA InputsLinked ==
    ASSUME NEW c \in CacheId, ~Kept(c), NEW d \in Inputs[c]
    PROVE  Linked(c, d)
<1> DEFINE o == c[1]
           k == KindOf[o]
<1>1. /\ o \in Object /\ k \in Kinds /\ c[2] \in NamesOf[k]
    BY CacheKinds
<1>2. /\ c[2] # "boundingBox"
      /\ c[2] = "measures" => KindOf[Owner[o]] = "wing"
    BY DEF Kept
<1>3. o \in Reached[o]
    BY <1>1, ReachedReflexive
<1>4. \/ c[2] = "measures" /\ d = <<o, "loft">>
      \/ c[2] = "loft" /\ k \in {"wing", "fuselage"} /\ d = <<o, "clean">>
      \/ Lofted(c) /\ d \in Frame(o) \cup Outlines(o)
      \/ c[2] = "loft" /\ k = "segment" /\ d \in Frame(Owner[o]) \cup Outline(o) \cup {Whole(o)}
      \/ /\ k = "componentSegment"
         /\ d \in Frame(Owner[o]) \cup {<<s, "loft">> : s \in Parts(Owner[o], "segment")}
      \/ k = "assembly" /\ d \in Frame(o) \cup {<<x, "loft">> : x \in Named[o] \cap Of({"duct"})}
    BY <1>2 DEF Inputs, When
<1>5. CASE c[2] = "measures" /\ d = <<o, "loft">>
  <2>1. k = "segment"
      BY <1>1, <1>5 DEF NamesOf, Kinds
  <2>2. d \in CacheId /\ ~Kept(d)
      BY <1>1, <1>2, <1>5, <2>1 DEF CacheId, NamesOf, Kinds, Kept
  <2> QED
      BY <1>3, <1>5, <2>1, <2>2 DEF Linked, Informs
<1>6. CASE c[2] = "loft" /\ k \in {"wing", "fuselage"} /\ d = <<o, "clean">>
  <2>1. d \in CacheId /\ ~Kept(d)
      BY <1>1, <1>6 DEF CacheId, NamesOf, Kinds, Kept
  <2> QED
      BY <1>3, <1>6, <2>1 DEF Linked, Informs
<1>7. CASE Lofted(c) /\ d \in Frame(o) \cup Outlines(o)
  <2>1. o \in Component
      BY <1>1, <1>7 DEF Lofted, NamesOf, Kinds, Component, Of
  <2>2. CASE d \in Frame(o)
      BY <1>3, <2>1, <2>2, FrameLinked
  <2>3. CASE d \in Outlines(o)
    <3>1. PICK s \in Parts(o, "segment") : d \in Outline(s)
        BY <2>3 DEF Outlines
    <3>2. s \in Of({"segment"}) /\ Owner[s] = o
        BY <3>1 DEF Parts
    <3> QED
        BY <3>1, <3>2, OutlineLinked
  <2> QED
      BY <1>7, <2>2, <2>3
<1>8. CASE c[2] = "loft" /\ k = "segment" /\ d \in Frame(Owner[o]) \cup Outline(o) \cup {Whole(o)}
  <2>1. o \in Of({"segment"}) /\ o \in Of({"segment", "componentSegment"})
      BY <1>1, <1>8 DEF Of
  <2>2. KindOf[Owner[o]] \in {"wing", "fuselage"}
      BY <1>8, <2>1, AircraftAssumption DEF CacheId, Of
  <2>3. Owner[o] \in Component /\ Owner[o] \in Object /\ o \in Reached[Owner[o]]
      BY <2>1, <2>2, OwnerOfSegment
  <2>4. CASE d \in Frame(Owner[o])
      BY <2>3, <2>4, FrameLinked
  <2>5. CASE d \in Outline(o)
      BY <2>1, <2>5, OutlineLinked
  <2>6. CASE d = Whole(o)
    <3>1. /\ d[1] = Owner[o]
          /\ d[2] = IF KindOf[Owner[o]] = "wing" THEN "clean" ELSE "loft"
        BY <2>6 DEF Whole
    <3>2. d \in CacheId /\ ~Kept(d)
        BY <2>2, <2>3, <2>6 DEF Whole, CacheId, NamesOf, Kinds, Kept
    <3> QED
        BY <2>2, <2>3, <3>1, <3>2 DEF Linked, Informs
  <2> QED
      BY <1>8, <2>4, <2>5, <2>6
<1>9. CASE /\ k = "componentSegment"
           /\ d \in Frame(Owner[o]) \cup {<<s, "loft">> : s \in Parts(Owner[o], "segment")}
  <2>1. o \in Of({"componentSegment"}) /\ o \in Of({"segment", "componentSegment"})
      BY <1>1, <1>9 DEF Of
  <2>2. KindOf[Owner[o]] = "wing"
      BY <2>1, AircraftAssumption DEF Of
  <2>3. Owner[o] \in Component /\ Owner[o] \in Object /\ o \in Reached[Owner[o]]
      BY <2>1, <2>2, OwnerOfSegment
  <2>4. CASE d \in Frame(Owner[o])
      BY <2>3, <2>4, FrameLinked
  <2>5. CASE d \in {<<s, "loft">> : s \in Parts(Owner[o], "segment")}
    <3>1. PICK s \in Object : d = <<s, "loft">> /\ KindOf[s] = "segment" /\ Owner[s] = Owner[o]
        BY <2>5 DEF Parts, Of
    <3>2. Owner[o] \in Reached[s]
        BY <2>3, <3>1, ReachedReflexive, ReachedStep DEF Told, Forwarded
    <3>3. o \in Reached[s]
        BY <2>3, <3>1, <3>2, ReachedTransitive
    <3>4. d \in CacheId /\ ~Kept(d)
        BY <2>2, <3>1 DEF CacheId, NamesOf, Kinds, Kept
    <3> QED
        BY <3>1, <3>3, <3>4 DEF Linked, Informs
  <2> QED
      BY <1>9, <2>4, <2>5
<1>10. CASE k = "assembly" /\ d \in Frame(o) \cup {<<x, "loft">> : x \in Named[o] \cap Of({"duct"})}
  <2>1. o \in Component
      BY <1>1, <1>10 DEF Component, Of
  <2>2. CASE d \in Frame(o)
      BY <1>3, <2>1, <2>2, FrameLinked
  <2>3. CASE d \in {<<x, "loft">> : x \in Named[o] \cap Of({"duct"})}
    <3>1. PICK x \in Object : d = <<x, "loft">> /\ KindOf[x] = "duct" /\ x \in Named[o]
        BY <2>3 DEF Of
    <3>2. o \in Reached[x]
        BY <1>1, <3>1, ReachedReflexive, ReachedStep DEF Told, ReferencedBy
    <3>3. d \in CacheId /\ ~Kept(d)
        BY <3>1 DEF CacheId, NamesOf, Kinds, Kept
    <3> QED
        BY <3>1, <3>2, <3>3 DEF Linked, Informs
  <2> QED
      BY <1>10, <2>2, <2>3
<1> QED
    BY <1>4, <1>5, <1>6, <1>7, <1>8, <1>9, <1>10

\* And so are the objects whose own fields it reads.
LEMMA SourcesInform ==
    ASSUME NEW c \in CacheId, NEW o \in Sources[c]
    PROVE  o \in Object /\ Informs(o, c)
<1> DEFINE x == c[1]
           k == KindOf[x]
<1>1. /\ x \in Object /\ k \in Kinds /\ c[2] \in NamesOf[k] /\ c = <<x, c[2]>>
    BY CacheKinds
<1>2. x \in Reached[x]
    BY <1>1, ReachedReflexive
<1>3. \/ k \in {"transformation", "profile"} /\ o = x
      \/ Lofted(c) /\ o \in Line[x] \cup Elements(x)
      \/ c[2] = "loft" /\ k \in {"wing", "fuselage"} /\ o \in Of({"ducts"})
      \/ k = "assembly" /\ o \in Line[x]
    BY DEF Sources, When
<1>4. CASE k \in {"transformation", "profile"} /\ o = x
  <2>1. k = "transformation" => c = <<o, "matrix">>
      BY <1>1, <1>4 DEF NamesOf
  <2> QED
      BY <1>1, <1>2, <1>4, <2>1 DEF Informs
<1>5. CASE (Lofted(c) \/ k = "assembly") /\ o \in Line[x]
  <2>1. x \in Component
      BY <1>1, <1>5 DEF Lofted, NamesOf, Kinds, Component, Of
  <2>2. o \in Object /\ x \in Reached[o]
      BY <1>5, <2>1, LineReaches
  <2>3. KindOf[o] # "transformation"
      BY <1>5, <2>1 DEF Line, Component, Of
  <2> QED
      BY <2>2, <2>3 DEF Informs
<1>6. CASE Lofted(c) /\ o \in Elements(x)
  <2>1. PICK s \in Of({"segment"}) : o \in Named[s] /\ Owner[s] = x
      BY <1>6 DEF Elements, Parts
  <2>2. o \in Object /\ KindOf[o] = "element"
      BY <2>1, AircraftAssumption DEF Of
  <2> QED
      BY <2>1, <2>2, ElementReaches DEF Informs
<1>7. CASE c[2] = "loft" /\ k \in {"wing", "fuselage"} /\ o \in Of({"ducts"})
  <2>1. o \in Object /\ KindOf[o] = "ducts"
      BY <1>7 DEF Of
  <2>2. x \in Told[o]
      BY <1>1, <1>7, <2>1 DEF Told, Forwarded
  <2> QED
      BY <2>1, <2>2, ReachedReflexive, ReachedStep DEF Informs
<1> QED
    BY <1>3, <1>4, <1>5, <1>6, <1>7

-----------------------------------------------------------------------------
(* The invariant.                                                          *)

Followed == {c \in CacheId : ~Kept(c)}

\* The caches that Kept leaves alone are the boxes and the measures.
LEMMA FollowedCaches ==
    Followed = CacheId \ (Boxes \cup Measures)
<1>1. ASSUME NEW c \in CacheId, c[2] = "measures", KindOf[Owner[c[1]]] # "wing"
      PROVE  KindOf[Owner[c[1]]] = "fuselage"
  <2>1. c[1] \in Object /\ KindOf[c[1]] = "segment"
      BY <1>1, CacheKinds DEF NamesOf, Kinds
  <2> QED
      BY <1>1, <2>1, AircraftAssumption DEF CacheId, Of
<1> QED
    BY <1>1 DEF Followed, Kept, Boxes, Measures

\* Whatever a cached shape was computed from tells the holder of a change.
ReadersInformed ==
    \A c \in Followed :
        cache[c] # None => \A r \in cache[c].shape : r \in Object \X Value /\ Informs(r[1], c)

FollowingInv ==
    /\ InvalidationTypeOK
    /\ \A c \in Followed : cache[c] # None => Current(cache[c].shape)
    /\ \A c \in Followed : cache[c] # None => \A d \in Inputs[c] : cache[d] # None
    /\ ReadersInformed

LEMMA InitFollowing == Init => FollowingInv
<1> SUFFICES ASSUME Init PROVE FollowingInv
    OBVIOUS
<1>1. InvalidationTypeOK
    BY AircraftAssumption DEF Init, InvalidationTypeOK
<1>2. \A c \in Followed : cache[c] = None
    BY DEF Init, Followed
<1> QED
    BY <1>1, <1>2 DEF FollowingInv, ReadersInformed

\* What a first read adds has the type of a reading.
LEMMA BuildTyped ==
    ASSUME InvalidationTypeOK, NEW c \in CacheId, Build(c)
    PROVE  InvalidationTypeOK'
<1> DEFINE new == [shape   |->      {<<o, def[o]>> : o \in Sources[c]}
                               \cup (UNION {cache[d].shape : d \in Inputs[c]}),
                   cutouts |->      (UNION {cache[d].cutouts : d \in Inputs[c]})
                               \cup (UNION {cache[d].shape : d \in Cutters(c)})]
<1>1. /\ cache[c] = None
      /\ \A d \in Inputs[c] \cup Cutters(c) : cache[d] # None
      /\ cache' = [cache EXCEPT ![c] = new]
      /\ def' = def
    BY DEF Build
<1>2. Inputs[c] \subseteq CacheId /\ Cutters(c) \subseteq CacheId
  <2>1. ASSUME Kept(c) PROVE Inputs[c] \subseteq CacheId
    <3>1. /\ c[1] \in Object /\ KindOf[c[1]] \in Kinds
          /\ c[2] \in NamesOf[KindOf[c[1]]] /\ c = <<c[1], c[2]>>
        BY CacheKinds
    <3>2. c[2] \in {"boundingBox", "measures"}
        BY <2>1 DEF Kept
    <3>3. Inputs[c] = {<<c[1], "loft">>}
        BY <3>1, <3>2 DEF Inputs, When, Lofted, NamesOf, Kinds
    <3> QED
        BY <3>1, <3>2, <3>3 DEF CacheId, NamesOf, Kinds
  <2>2. ASSUME ~Kept(c) PROVE Inputs[c] \subseteq CacheId
      BY <2>2, InputsLinked DEF Linked
  <2> QED
      BY <2>1, <2>2 DEF Cutters
<1>3. \A d \in Inputs[c] \cup Cutters(c) : cache[d] \in [shape : Readings, cutouts : Readings]
    BY <1>1, <1>2 DEF InvalidationTypeOK
<1>4. new.shape \in Readings
  <2>1. ASSUME NEW o \in Sources[c] PROVE <<o, def[o]>> \in Object \X Value
      BY <2>1, SourcesInform DEF InvalidationTypeOK
  <2> QED
      BY <1>3, <2>1 DEF Readings
<1>5. new.cutouts \in Readings
    BY <1>3 DEF Readings
<1>6. new \in [shape : Readings, cutouts : Readings]
    BY <1>4, <1>5
<1> QED
    BY <1>1, <1>6 DEF InvalidationTypeOK, Readings

\* A first read adds a shape that is made of present ones.
LEMMA BuildFollowing ==
    ASSUME FollowingInv, NEW c \in CacheId, Build(c)
    PROVE  FollowingInv'
<1> DEFINE new == [shape   |->      {<<o, def[o]>> : o \in Sources[c]}
                               \cup (UNION {cache[d].shape : d \in Inputs[c]}),
                   cutouts |->      (UNION {cache[d].cutouts : d \in Inputs[c]})
                               \cup (UNION {cache[d].shape : d \in Cutters(c)})]
<1>1. /\ cache[c] = None
      /\ \A d \in Inputs[c] : cache[d] # None
      /\ cache' = [cache EXCEPT ![c] = new]
      /\ def' = def
    BY DEF Build
<1>2. \A o \in Sources[c] : o \in Object /\ Informs(o, c)
    BY SourcesInform
<1>3. InvalidationTypeOK'
    BY BuildTyped DEF FollowingInv
<1>4. ASSUME c \in Followed, NEW r \in new.shape
      PROVE  def[r[1]] = r[2] /\ r \in Object \X Value /\ Informs(r[1], c)
  <2>1. CASE \E o \in Sources[c] : r = <<o, def[o]>>
      BY <1>2, <1>4, <2>1 DEF FollowingInv, InvalidationTypeOK
  <2>2. CASE \E d \in Inputs[c] : r \in cache[d].shape
    <3>1. PICK d \in Inputs[c] : r \in cache[d].shape
        BY <2>2
    <3>2. Linked(c, d)
        BY <1>4, InputsLinked DEF Followed
    <3>3. d \in Followed /\ Informs(d[1], c)
        BY <3>2 DEF Linked, Followed
    <3>4. def[r[1]] = r[2] /\ r \in Object \X Value /\ Informs(r[1], d)
        BY <1>1, <3>1, <3>3 DEF FollowingInv, Current, ReadersInformed
    <3>5. r[1] \in Object /\ d[1] \in Reached[r[1]] /\ c[1] \in Reached[d[1]]
        BY <3>3, <3>4 DEF Informs
    <3>6. c[1] \in Reached[r[1]]
        BY <3>5, ReachedTransitive
    <3>7. ASSUME KindOf[r[1]] = "transformation" PROVE c[1] \in Reached[Owner[r[1]]] \/ c = <<r[1], "matrix">>
      <4>1. Owner[r[1]] \in Object
          BY <3>5, <3>7, AircraftAssumption DEF Of
      <4>2. CASE d = <<r[1], "matrix">>
        <5>1. d[1] = r[1]
            BY <4>2
        <5> QED
            BY <3>3, <3>7, <5>1 DEF Informs
      <4>3. CASE d[1] \in Reached[Owner[r[1]]]
          BY <3>5, <4>1, <4>3, ReachedTransitive
      <4> QED
          BY <3>4, <3>7, <4>2, <4>3 DEF Informs
    <3> QED
        BY <3>4, <3>6, <3>7 DEF Informs
  <2> QED
      BY <1>4, <2>1, <2>2
<1>5. \A b \in CacheId : b # c => cache'[b] = cache[b]
    BY <1>1 DEF FollowingInv, InvalidationTypeOK
<1>6. cache'[c] = new
    BY <1>1 DEF FollowingInv, InvalidationTypeOK
<1>7. \A b \in Followed : (cache[b] # None => Current(cache[b].shape))'
    BY <1>1, <1>4, <1>5, <1>6 DEF FollowingInv, Current, Followed
<1>8. \A b \in Followed : (cache[b] # None => \A d \in Inputs[b] : cache[d] # None)'
  <2> SUFFICES ASSUME NEW b \in Followed, cache'[b] # None, NEW d \in Inputs[b]
               PROVE  cache'[d] # None
      BY DEF Followed
  <2>1. d \in CacheId
      BY InputsLinked DEF Linked, Followed
  <2>2. cache[d] # None
      BY <1>1, <1>5 DEF FollowingInv, Followed
  <2> QED
      BY <1>1, <1>5, <2>1, <2>2
<1>9. ReadersInformed'
    BY <1>4, <1>5, <1>6 DEF FollowingInv, ReadersInformed, Followed
<1> QED
    BY <1>3, <1>7, <1>8, <1>9 DEF FollowingInv

\* A change keeps the invariant when it clears every reader it informs, and
\* with a cache all that read this cache.
LEMMA ClearFollowing ==
    ASSUME FollowingInv, NEW C, Clear(C),
           def' \in [Object -> Value],
           \A c \in Followed \ C :
               /\ \A o \in Object : Informs(o, c) => def'[o] = def[o]
               /\ \A d \in Inputs[c] : Linked(c, d) => d \notin C
    PROVE  FollowingInv'
<1>1. /\ cache' = [c \in CacheId |-> IF c \in C THEN None ELSE cache[c]]
      /\ cache \in [CacheId -> [shape : Readings, cutouts : Readings] \cup {None}]
    BY DEF Clear, FollowingInv, InvalidationTypeOK
<1>2. InvalidationTypeOK'
    BY <1>1 DEF InvalidationTypeOK, Readings
<1>3. ASSUME NEW c \in Followed, cache'[c] # None
      PROVE  c \in CacheId /\ c \notin C /\ cache'[c] = cache[c] /\ cache[c] # None
    BY <1>1, <1>3 DEF Followed
<1>4. \A c \in Followed : (cache[c] # None => Current(cache[c].shape))'
  <2> SUFFICES ASSUME NEW c \in Followed, cache'[c] # None, NEW r \in cache[c].shape
               PROVE  def'[r[1]] = r[2]
      BY <1>3 DEF Followed, Current
  <2>1. c \in Followed \ C /\ cache[c] # None
      BY <1>3
  <2>2. r[1] \in Object /\ Informs(r[1], c) /\ def[r[1]] = r[2]
      BY <2>1 DEF FollowingInv, ReadersInformed, Current
  <2> QED
      BY <2>1, <2>2
<1>5. \A c \in Followed : (cache[c] # None => \A d \in Inputs[c] : cache[d] # None)'
  <2> SUFFICES ASSUME NEW c \in Followed, cache'[c] # None, NEW d \in Inputs[c]
               PROVE  cache'[d] # None
      BY DEF Followed
  <2>1. c \in Followed \ C /\ cache[c] # None
      BY <1>3
  <2>2. Linked(c, d) /\ d \in CacheId /\ cache[d] # None
      BY <2>1, InputsLinked DEF FollowingInv, Followed, Linked
  <2> QED
      BY <1>1, <2>1, <2>2
<1>6. ReadersInformed'
    BY <1>3 DEF FollowingInv, ReadersInformed, Followed
<1> QED
    BY <1>2, <1>4, <1>5, <1>6 DEF FollowingInv

\* Sets of objects that nothing told leads out of.
Informed(R) == R \subseteq Object /\ \A p \in R : Reached[p] \subseteq R

LEMMA ReachedInformed ==
    ASSUME NEW o \in Object
    PROVE  Informed(Reached[o]) /\ o \in Reached[o]
BY ReachedReflexive, ReachedTransitive DEF Informed

LEMMA ModelInformed == Informed(ReachedFromModel)
<1>1. \A m \in Of({"model"}) : m \in Object /\ Informed(Reached[m])
    BY ReachedInformed DEF Of
<1> QED
    BY <1>1 DEF ReachedFromModel, Informed

\* The rotors' reset changes only transformations that are told of it.
LEMMA SettledInformed ==
    ASSUME NEW R, Informed(R), NEW d \in [Object -> Value]
    PROVE  /\ Settled(d, R) \in [Object -> Value]
           /\ \A o \in Object : Settled(d, R)[o] # d[o] => o \in R
<1>1. Settled(d, R) \in [Object -> Value]
    BY AircraftAssumption DEF Settled
<1>2. ASSUME NEW o \in Object, Settled(d, R)[o] # d[o] PROVE o \in R
  <2>1. KindOf[o] = "transformation" /\ KindOf[Owner[o]] = "rotor" /\ Owner[o] \in R
      BY <1>2 DEF Settled
  <2>2. Owner[o] \in Object
      BY <2>1 DEF Informed
  <2>3. o \in Told[Owner[o]]
      BY <2>1, <2>2 DEF Told, Forwarded
  <2> QED
      BY <2>1, <2>2, <2>3, ReachedReflexive, ReachedStep DEF Informed
<1> QED
    BY <1>1, <1>2

\* A cache that a member of R informs is cleared with R, and so is a cache
\* that reads one of those.
LEMMA InformedCleared ==
    ASSUME NEW R, Informed(R), NEW c \in Followed, c \notin ClearedWith(R)
    PROVE  /\ \A o \in R : ~Informs(o, c)
           /\ \A d \in ClearedWith(R) : ~Linked(c, d)
<1>1. c[1] \notin R
    BY DEF ClearedWith, Followed
<1>2. \A o \in R : c[1] \notin Reached[o]
    BY <1>1 DEF Informed
<1> QED
    BY <1>2 DEF Informs, Linked, ClearedWith

\* An object takes a definition, and everything it reaches is cleared.
LEMMA EnterFollowing ==
    ASSUME FollowingInv, NEW R, Informed(R), NEW o \in R, NEW v \in Value,
           Enter(o, v, R), Clear(ClearedWith(R))
    PROVE  FollowingInv'
<1> DEFINE e == [def EXCEPT ![o] = v]
<1>1. o \in Object /\ e \in [Object -> Value]
    BY DEF FollowingInv, InvalidationTypeOK, Informed
<1>2. def' = Settled(e, R)
    BY DEF Enter
<1>3. def' \in [Object -> Value]
    BY <1>1, <1>2, SettledInformed
<1>4. ASSUME NEW p \in Object, p \notin R PROVE def'[p] = def[p]
  <2>1. def'[p] = e[p]
      BY <1>1, <1>2, <1>4, SettledInformed
  <2> QED
      BY <1>4, <2>1 DEF FollowingInv, InvalidationTypeOK
<1>5. \A c \in Followed \ ClearedWith(R) :
          /\ \A p \in Object : Informs(p, c) => def'[p] = def[p]
          /\ \A d \in Inputs[c] : Linked(c, d) => d \notin ClearedWith(R)
    BY <1>4, InformedCleared
<1> QED
    BY <1>3, <1>5, ClearFollowing

LEMMA SetFollowing ==
    ASSUME FollowingInv, NEW o \in Object, NEW v \in Value, Set(o, v)
    PROVE  FollowingInv'
<1>1. Informed(Reached[o]) /\ o \in Reached[o]
    BY ReachedInformed
<1> QED
    BY <1>1, EnterFollowing DEF Set

LEMMA SetInCreatorFollowing ==
    ASSUME FollowingInv, NEW o \in Object, NEW v \in Value, SetInCreator(o, v)
    PROVE  FollowingInv'
<1> DEFINE R == Reached[o] \cup ReachedFromModel
<1>1. Informed(R) /\ o \in R
    BY ReachedInformed, ModelInformed DEF Informed
<1>2. Enter(o, v, R) /\ Clear(ClearedWith(R))
    BY DEF SetInCreator
<1> HIDE DEF R
<1> QED
    BY <1>1, <1>2, EnterFollowing

LEMMA ConfigurationInvalidateFollowing ==
    ASSUME FollowingInv, ConfigurationInvalidate
    PROVE  FollowingInv'
<1> DEFINE R == ReachedFromModel
<1>1. def' = Settled(def, R) /\ Clear(ClearedWith(R))
    BY DEF ConfigurationInvalidate
<1>2. def \in [Object -> Value]
    BY <1>1 DEF FollowingInv, InvalidationTypeOK
<1>3. def' \in [Object -> Value] /\ \A p \in Object : def'[p] # def[p] => p \in R
    BY <1>1, <1>2, ModelInformed, SettledInformed
<1>4. \A c \in Followed \ ClearedWith(R) :
          /\ \A p \in Object : Informs(p, c) => def'[p] = def[p]
          /\ \A d \in Inputs[c] : Linked(c, d) => d \notin ClearedWith(R)
    BY <1>3, ModelInformed, InformedCleared
<1> QED
    BY <1>1, <1>2, <1>3, <1>4, ClearFollowing

\* A fuselage passes on that its transformation was replaced; what it does
\* not pass on from the transformation itself, nobody reads.
LEMMA SetTransformationFollowing ==
    ASSUME FollowingInv, Replaced \subseteq Of({"fuselage"}),
           NEW t \in Object, NEW v \in Value, SetTransformation(t, v)
    PROVE  FollowingInv'
<1> DEFINE o == Owner[t]
           R == Reached[o]
           C == {<<t, "matrix">>} \cup ResetCaches(o) \cup ClearedWith(R)
           e == [def EXCEPT ![t] = v]
<1>1. o \in Object /\ KindOf[o] = "fuselage" /\ KindOf[t] = "transformation"
    BY DEF SetTransformation, Of
<1>2. Enter(t, v, R) /\ Clear(C)
    BY <1>1 DEF SetTransformation
<1>3. Informed(R) /\ o \in R
    BY <1>1, ReachedInformed
<1>4. e \in [Object -> Value]
    BY DEF FollowingInv, InvalidationTypeOK
<1>5. def' = Settled(e, R)
    BY <1>2 DEF Enter
<1>6. def' \in [Object -> Value]
    BY <1>3, <1>4, <1>5, SettledInformed
<1>7. ASSUME NEW p \in Object, p \notin R, p # t PROVE def'[p] = def[p]
  <2>1. def'[p] = e[p]
      BY <1>3, <1>4, <1>5, <1>7, SettledInformed
  <2> QED
      BY <1>7, <2>1 DEF FollowingInv, InvalidationTypeOK
<1>8. ASSUME NEW c \in Followed \ C
      PROVE  /\ \A p \in Object : Informs(p, c) => def'[p] = def[p]
             /\ \A d \in Inputs[c] : Linked(c, d) => d \notin C
  <2>1. /\ \A p \in R : ~Informs(p, c)
        /\ \A d \in ClearedWith(R) : ~Linked(c, d)
      BY <1>3, InformedCleared
  <2>2. c[1] \notin R
      BY DEF ClearedWith, Followed
  <2>3. ~Informs(t, c)
      BY <1>1, <2>2 DEF Informs
  <2>4. ~Linked(c, <<t, "matrix">>)
      BY <2>3 DEF Linked
  <2>5. ASSUME NEW d \in ResetCaches(o) PROVE ~Linked(c, d)
      BY <1>3, <2>1, <2>5 DEF ResetCaches, Linked
  <2> QED
      BY <1>7, <2>1, <2>3, <2>4, <2>5
<1> HIDE DEF C
<1> QED
    BY <1>2, <1>6, <1>8, ClearFollowing

\* Nobody reads what the switch of the flaps resets, but the box.
LEMMA SetBuildFlapsFollowing ==
    ASSUME FollowingInv, NEW w \in Object, SetBuildFlaps(w)
    PROVE  FollowingInv'
<1>1. KindOf[w] = "wing" /\ Clear(ResetCaches(w)) /\ def' = def
    BY DEF SetBuildFlaps
<1>2. def' \in [Object -> Value]
    BY <1>1 DEF FollowingInv, InvalidationTypeOK
<1>3. \A c, d : Linked(c, d) => d \notin ResetCaches(w)
    BY <1>1 DEF Linked, ResetCaches, Kept
<1> QED
    BY <1>1, <1>2, <1>3, ClearFollowing

THEOREM FollowingInductive ==
    ASSUME Replaced \subseteq Of({"fuselage"})
    PROVE  Spec => []FollowingInv
<1>1. Init => FollowingInv
    BY InitFollowing
<1>2. FollowingInv /\ [Next]_vars => FollowingInv'
  <2> SUFFICES ASSUME FollowingInv, [Next]_vars PROVE FollowingInv'
      OBVIOUS
  <2>1. CASE \E c \in CacheId : Build(c)
      BY <2>1, BuildFollowing
  <2>2. CASE \E o \in Object, v \in Value : Set(o, v)
      BY <2>2, SetFollowing
  <2>3. CASE \E o \in Object, v \in Value : SetInCreator(o, v)
      BY <2>3, SetInCreatorFollowing
  <2>4. CASE \E o \in Object, v \in Value : SetTransformation(o, v)
      BY <2>4, SetTransformationFollowing
  <2>5. CASE ConfigurationInvalidate
      BY <2>5, ConfigurationInvalidateFollowing
  <2>6. CASE \E w \in Object : SetBuildFlaps(w)
      BY <2>6, SetBuildFlapsFollowing
  <2>7. CASE UNCHANGED vars
      BY <2>7 DEF vars, FollowingInv, InvalidationTypeOK, ReadersInformed, Current
  <2> QED
      BY <2>1, <2>2, <2>3, <2>4, <2>5, <2>6, <2>7 DEF Next
<1> QED
    BY <1>1, <1>2, PTL DEF Spec

-----------------------------------------------------------------------------
(* The theorems: the first two for every aircraft in which only            *)
(* transformations of fuselages are replaced as a whole.                   *)

\* No cached wire, matrix, shape, loft or wing measure is outdated.
THEOREM ShapesFollow ==
    ASSUME Replaced \subseteq Of({"fuselage"})
    PROVE  Spec => []ShapesFollowDefinitions
<1>1. FollowingInv => ShapesFollowDefinitions
    BY FollowedCaches DEF FollowingInv, ShapesFollowDefinitions
<1> QED
    BY <1>1, FollowingInductive, PTL

\* No cached shape outlives what it was made from.
THEOREM InputsStay ==
    ASSUME Replaced \subseteq Of({"fuselage"})
    PROVE  Spec => []InputsStayCached
<1>1. FollowingInv => InputsStayCached
    BY FollowedCaches DEF FollowingInv, InputsStayCached
<1> QED
    BY <1>1, FollowingInductive, PTL

\* What is cleared has its type again.
LEMMA ClearTyped ==
    ASSUME InvalidationTypeOK, NEW C, Clear(C), def' \in [Object -> Value]
    PROVE  InvalidationTypeOK'
BY DEF Clear, InvalidationTypeOK, Readings

\* Resetting rotors and entering a definition keep the type of the definitions.
LEMMA EnterTyped ==
    ASSUME InvalidationTypeOK, NEW o \in Object, NEW v \in Value, NEW R, Enter(o, v, R)
    PROVE  def' \in [Object -> Value]
BY AircraftAssumption DEF InvalidationTypeOK, Enter, Settled

\* The definitions, and what the caches say about them, keep their types, in
\* every aircraft, also where a wing's transformation is replaced.
THEOREM InvalidationTypeCorrect == Spec => []InvalidationTypeOK
<1>1. Init => InvalidationTypeOK
    BY AircraftAssumption DEF Init, InvalidationTypeOK
<1>2. InvalidationTypeOK /\ [Next]_vars => InvalidationTypeOK'
  <2> SUFFICES ASSUME InvalidationTypeOK, [Next]_vars PROVE InvalidationTypeOK'
      OBVIOUS
  <2>1. CASE \E c \in CacheId : Build(c)
      BY <2>1, BuildTyped
  <2>2. ASSUME NEW o \in Object, NEW v \in Value, Set(o, v) PROVE InvalidationTypeOK'
      BY <2>2, EnterTyped, ClearTyped DEF Set
  <2>3. ASSUME NEW o \in Object, NEW v \in Value, SetInCreator(o, v) PROVE InvalidationTypeOK'
      BY <2>3, EnterTyped, ClearTyped DEF SetInCreator
  <2>4. ASSUME NEW o \in Object, NEW v \in Value, SetTransformation(o, v)
        PROVE  InvalidationTypeOK'
      BY <2>4, EnterTyped, ClearTyped DEF SetTransformation
  <2>5. CASE ConfigurationInvalidate
    <3>1. def' \in [Object -> Value]
        BY <2>5, AircraftAssumption DEF ConfigurationInvalidate, Settled, InvalidationTypeOK
    <3> QED
        BY <2>5, <3>1, ClearTyped DEF ConfigurationInvalidate
  <2>6. ASSUME NEW w \in Object, SetBuildFlaps(w) PROVE InvalidationTypeOK'
    <3>1. def' \in [Object -> Value]
        BY <2>6 DEF SetBuildFlaps, InvalidationTypeOK
    <3> QED
        BY <2>6, <3>1, ClearTyped DEF SetBuildFlaps
  <2>7. CASE UNCHANGED vars
      BY <2>7 DEF vars, InvalidationTypeOK
  <2> QED
      BY <2>1, <2>2, <2>3, <2>4, <2>5, <2>6, <2>7 DEF Next
<1> QED
    BY <1>1, <1>2, PTL DEF Spec
=============================================================================
