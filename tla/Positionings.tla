----------------------------- MODULE Positionings -----------------------------
(***************************************************************************)
(* The positionings of a wing or fuselage: tigl::CCPACSPositionings and    *)
(* CCPACSPositioning.  A positioning places its "to" section at a vector   *)
(* from the position of its "from" section, or from the origin if it names *)
(* none, so the positionings form chains.                                  *)
(*                                                                         *)
(* Two levels of caching meet here.  The container links the positionings  *)
(* and hands each its start point when it was invalidated; a positioning   *)
(* computes its end point when that was invalidated.  Both are read, and   *)
(* both invalidate, while the owner's loft is built under the mutex of the *)
(* loft's cache.                                                           *)
(*                                                                         *)
(* The code only adds and subtracts points, so points are the integers     *)
(* modulo N.  Length, sweep and dihedral are one vector, and the rounding  *)
(* of their values to close round numbers is left out.  Chains are shorter *)
(* than the 1000 links at which UpdateNextPositioning gives up.            *)
(***************************************************************************)
EXTENDS Integers, Sequences

CONSTANTS
    Section,            \* the sections of the owner, all used by its segments
    Order,              \* the sections in the order in which segments connect them
    N,                  \* there are N points
    Documents,          \* the positionings that documents may define
    MaxPositionings,    \* bound on the number of positionings
    MaxEdits,           \* bound on the number of edits in the widget
    None

ASSUME PositioningsAssumption ==
    /\ N \in Nat \ {0}
    /\ MaxPositionings \in Nat /\ MaxEdits \in Nat
    /\ Documents \subseteq Seq([from: Section \cup {None}, to: Section, vector: 0 .. N - 1])
    /\ \A defined \in Documents : Len(defined) <= MaxPositionings
    /\ Order \in Seq(Section) /\ Len(Order) <= MaxPositionings
    /\ \A i, j \in DOMAIN Order : Order[i] = Order[j] => i = j
    /\ None \notin Section \cup Int

VARIABLES
    positionings,       \* m_positionings, in their order
    invalidated,        \* the flag of the container
    loft,               \* the cached loft, as the section positions it was built from
    fault,              \* "deadlock" when a thread waits for a mutex it holds
    standardized,       \* where the standardizer put the first sections, while it runs
    edits               \* number of edits, for the bound only

vars == <<positionings, invalidated, loft, fault, standardized, edits>>

Point == 0 .. N - 1
Origin == 0
Plus(a, b)  == (a + b) % N
Minus(a, b) == (a - b) % N

\* toPoint is None while the positioning is invalidated.
Positioning ==
    [from: Section \cup {None}, to: Section, vector: Point, fromPoint: Point,
     toPoint: Point \cup {None}, dependents: SUBSET (1 .. MaxPositionings)]

PositioningsTypeOK ==
    /\ positionings \in Seq(Positioning)
    /\ Len(positionings) <= MaxPositionings
    /\ invalidated \in BOOLEAN
    /\ loft \in [Section -> Point] \cup {None}
    /\ fault \in {"none", "deadlock"}
    /\ standardized \in Seq(Point) \cup {None}
    /\ edits \in 0 .. MaxEdits

-----------------------------------------------------------------------------
(* One positioning.                                                        *)

\* A constructed positioning; its flag is set.
NewPositioning(from, to, vector) ==
    [from |-> from, to |-> to, vector |-> vector, fromPoint |-> Origin,
     toPoint |-> None, dependents |-> {}]

Valid(p) == p.toPoint # None
Invalid(p) == [p EXCEPT !.toPoint = None]
UpToDate(p) == IF Valid(p) THEN p ELSE [p EXCEPT !.toPoint = Plus(p.fromPoint, p.vector)]

GetToPoint(p) == UpToDate(p).toPoint

\* SetParametersFromVector.
WithVector(p, vector) == Invalid([p EXCEPT !.vector = vector])

WithToPoint(p, point) == WithVector(p, Minus(point, p.fromPoint))

\* Mutant: a dependent is invalidated and keeps its vector.
DraggedAlong(p, newFrom) == Invalid(p)

KeepingToPoint(p, newFrom) == WithVector(p, Minus(GetToPoint(p), newFrom))

-----------------------------------------------------------------------------
(* The container.                                                          *)

\* The first positioning that ends at s; a set of at most one.
FirstTo(list, s) ==
    {i \in DOMAIN list : list[i].to = s /\ \A j \in 1 .. i - 1 : list[j].to # s}

\* Those whose from section no positioning ends at: Update throws at the first.
Unknown(list) ==
    {i \in DOMAIN list : list[i].from # None /\ FirstTo(list, list[i].from) = {}}

Linked(list) == {j \in DOMAIN list : \A k \in Unknown(list) : j < k}

Dependents(list, i) ==
    {j \in Linked(list) : list[j].from # None /\ i \in FirstTo(list, list[j].from)}

\* The first half of Update: disconnect, reset and connect.
Connected(list) ==
    [i \in DOMAIN list |-> [list[i] EXCEPT !.dependents = Dependents(list, i),
                                           !.fromPoint = Origin,
                                           !.toPoint = None]]

\* One link further from the roots: where the positionings start whose predecessor
\* starts at a known point.
NextStarts(list, start) ==
    [i \in DOMAIN list |->
       IF list[i].from = None THEN Origin
       ELSE LET before == {j \in FirstTo(list, list[i].from) : start[j] # None}
            IN IF before = {} THEN None
               ELSE LET j == CHOOSE j \in before : TRUE
                    IN Plus(start[j], list[j].vector)]

\* Where each positioning starts according to the definitions alone; None on a
\* cycle, on what hangs on one, and behind an unknown section.
StartPoints(list) ==
    LET Start[d \in 0 .. Len(list)] ==
          IF d = 0 THEN [i \in DOMAIN list |-> None] ELSE NextStarts(list, Start[d - 1])
    IN Start[Len(list)]

\* The second half: from the roots, each hands its end point to its dependents.
\* What no root reaches stays at the origin.
Propagated(list) ==
    LET start == StartPoints(list)
    IN [i \in DOMAIN list |->
          IF start[i] = None THEN list[i]
          ELSE LET p == [list[i] EXCEPT !.fromPoint = start[i]]
               IN IF p.dependents = {} THEN p ELSE UpToDate(p)]

UpdateThrows == invalidated /\ Unknown(positionings) # {}

\* Update; the flag is down before anything can throw.
Updated(list, flag) ==
    IF ~flag THEN list
    ELSE IF Unknown(list) # {} THEN Connected(list)
    ELSE Propagated(Connected(list))

\* Whether an update, or invalidating everything, goes through a section to the
\* owner and clears its loft: an already invalidated positioning tells nobody.
TellsOwner(list) == \E i \in DOMAIN list : Valid(list[i])

UpdateTellsOwner == invalidated /\ TellsOwner(positionings)

\* Mutant: what is stored, without the update.
StoredPosition(list, s) ==
    IF FirstTo(list, s) = {} THEN Origin
    ELSE list[CHOOSE i \in FirstTo(list, s) : TRUE].toPoint

\* GetPositioningTransformation after its Update.
Position(list, s) ==
    IF FirstTo(list, s) = {} THEN Origin
    ELSE GetToPoint(list[CHOOSE i \in FirstTo(list, s) : TRUE])

\* The list after the positions of the sections S were read.
Read(list, S) ==
    [i \in DOMAIN list |-> IF \E s \in S : i \in FirstTo(list, s)
                           THEN UpToDate(list[i]) ELSE list[i]]

\* SetToPoint for positioning i, with its dependents.
ToPointSet(list, i, point, move) ==
    LET moved == [list EXCEPT ![i] = WithToPoint(@, point)]
    IN [j \in DOMAIN list |->
          IF j \notin moved[i].dependents THEN moved[j]
          ELSE IF move THEN Invalid(moved[j])
          ELSE KeepingToPoint(moved[j], point)]

\* The loop of SetPositioningTransformation: every positioning that ends at s.
AllSetTo(list, s, point, move) ==
    LET Step[n \in 0 .. Len(list)] ==
          IF n = 0 THEN list
          ELSE IF list[n].to = s THEN ToPointSet(Step[n - 1], n, point, move)
          ELSE Step[n - 1]
    IN Step[Len(list)]

\* SetPositioningTransformation after its Update: without a positioning that ends
\* at s there is a new one; then everything is invalidated.
Placed(list, s, point, move) ==
    LET new == WithToPoint(NewPositioning(None, s, Origin), point)
        set == IF \E i \in DOMAIN list : list[i].to = s THEN AllSetTo(list, s, point, move)
               ELSE Append(list, new)
    IN [i \in DOMAIN set |-> Invalid(set[i])]

\* The chain that the standardizer creates; CreatePositioning invalidates nothing.
Chain ==
    [i \in DOMAIN Order |->
       NewPositioning(IF i = 1 THEN None ELSE Order[i - 1], Order[i], 1 % N)]

-----------------------------------------------------------------------------
(* The behaviour.                                                          *)

\* A document was read: what Update threw at was dropped with its container.
Init ==
    /\ \/ positionings = <<>> /\ invalidated = TRUE
       \/ /\ \E defined \in Documents :
               LET read == [i \in DOMAIN defined |->
                              NewPositioning(defined[i].from, defined[i].to, defined[i].vector)]
               IN Unknown(read) = {} /\ positionings = Updated(read, TRUE)
          /\ invalidated = FALSE
    /\ loft = None
    /\ fault = "none"
    /\ edits = 0
    /\ standardized = None

\* GetPositioningTransformation outside the building of a loft.
GetPosition(s) ==
    /\ positionings' = IF UpdateThrows THEN Updated(positionings, invalidated)
                       ELSE Read(Updated(positionings, invalidated), {s})
    /\ invalidated' = FALSE
    /\ loft' = IF UpdateTellsOwner THEN None ELSE loft
    /\ UNCHANGED <<fault, edits>>

\* GetFromPoint, GetToPoint and GetToTransformation of one positioning.
GetPoint(i) ==
    /\ positionings' = [positionings EXCEPT ![i] = UpToDate(@)]
    /\ UNCHANGED <<invalidated, loft, fault, edits>>

\* Building the loft: the update would clear the loft, whose mutex is held; or
\* it throws and the cache stays empty; or the position of every section is read.
BuildLoft ==
    /\ loft = None
    /\ \/ /\ UpdateTellsOwner
          /\ fault' = "deadlock"
          /\ UNCHANGED <<positionings, invalidated, loft, edits>>
       \/ /\ ~UpdateTellsOwner
          /\ UpdateThrows
          /\ positionings' = Updated(positionings, invalidated)
          /\ invalidated' = FALSE
          /\ UNCHANGED <<loft, fault, edits>>
       \/ /\ ~UpdateTellsOwner
          /\ ~UpdateThrows
          /\ LET list == Updated(positionings, invalidated)
             IN /\ positionings' = Read(list, Section)
                /\ loft' = [s \in Section |-> Position(list, s)]
          /\ invalidated' = FALSE
          /\ UNCHANGED <<fault, edits>>

\* Mutant: the container is not invalidated.
SetPositionLeavingContainer(s, point, move) ==
    /\ ~UpdateThrows
    /\ positionings' = Placed(Updated(positionings, invalidated), s, point, move)
    /\ Len(positionings') <= MaxPositionings
    /\ invalidated' = FALSE
    /\ loft' = None
    /\ UNCHANGED <<fault, edits>>

\* SetPositioningTransformation.
SetPosition(s, point, move) ==
    \/ /\ UpdateThrows
       /\ positionings' = Updated(positionings, invalidated)
       /\ invalidated' = FALSE
       /\ loft' = IF UpdateTellsOwner THEN None ELSE loft
       /\ UNCHANGED <<fault, edits>>
    \/ /\ ~UpdateThrows
       /\ positionings' = Placed(Updated(positionings, invalidated), s, point, move)
       /\ Len(positionings') <= MaxPositionings
       /\ invalidated' = TRUE
       /\ loft' = None
       /\ UNCHANGED <<fault, edits>>

\* Positioning i as the widget's fields define it; apply does nothing unless
\* one was changed.
Edited(i, from, to, vector) ==
    [positionings[i] EXCEPT !.from = from, !.to = to, !.vector = vector]

\* Mutant: the owner is not invalidated.
ApplyUnnoticed(i, from, to, vector) ==
    /\ Edited(i, from, to, vector) # positionings[i]
    /\ positionings' = [positionings EXCEPT ![i] = Invalid(Edited(i, from, to, vector))]
    /\ edits < MaxEdits
    /\ edits' = edits + 1
    /\ UNCHANGED <<invalidated, loft, fault>>

\* The positioning widget: the setters of what was changed, then the owner's
\* Invalidate, which does not reach the container.
Apply(i, from, to, vector) ==
    /\ Edited(i, from, to, vector) # positionings[i]
    /\ positionings' = [positionings EXCEPT ![i] = Invalid(Edited(i, from, to, vector))]
    /\ loft' = None
    /\ edits < MaxEdits
    /\ edits' = edits + 1
    /\ UNCHANGED <<invalidated, fault>>

\* The standardizer replaces the positionings by a chain through the sections
\* and then puts one section after the other where it is to be.
BeginStandardize ==
    /\ positionings' = Chain
    /\ loft' = None
    /\ standardized' = <<>>
    /\ UNCHANGED <<invalidated, fault, edits>>

PlaceNext(point) ==
    /\ SetPosition(Order[Len(standardized) + 1], point, FALSE)
    /\ standardized' = Append(standardized, point)

EndStandardize ==
    /\ Len(standardized) = Len(Order)
    /\ standardized' = None
    /\ UNCHANGED <<positionings, invalidated, loft, fault, edits>>

Call ==
    \/ \E s \in Section : GetPosition(s)
    \/ \E i \in DOMAIN positionings : GetPoint(i)
    \/ BuildLoft
    \/ \E s \in Section, point \in Point, move \in BOOLEAN : SetPosition(s, point, move)
    \/ \E i \in DOMAIN positionings, from \in Section \cup {None},
          to \in Section, vector \in Point : Apply(i, from, to, vector)

Next ==
    \/ standardized = None /\ fault = "none" /\ Call /\ UNCHANGED standardized
    \/ standardized = None /\ fault = "none" /\ BeginStandardize
    \/ /\ standardized # None
       /\ Len(standardized) < Len(Order)
       /\ \E point \in Point : PlaceNext(point)
    \/ standardized # None /\ EndStandardize

Spec == Init /\ [][Next]_vars

-----------------------------------------------------------------------------
(* Safety.                                                                 *)

\* A cached loft shows each section where the positionings would put it now: no
\* sequence of reads, moves, edits and failed updates leaves an outdated loft.
LoftFollowsPositions ==
    loft # None /\ ~UpdateThrows =>
        \A s \in Section : loft[s] = Position(Updated(positionings, invalidated), s)

\* The container is as an update would leave it, or the next read will update it.
InStep ==
    /\ Unknown(positionings) = {}
    /\ \/ invalidated
       \/ \A i \in DOMAIN positionings :
            /\ positionings[i].dependents = Dependents(positionings, i)
            /\ StartPoints(positionings)[i] \in {None, positionings[i].fromPoint}

\* Where the definitions put each section; None on and behind a cycle.
DefinedPositions(list) ==
    LET start == StartPoints(list)
        end   == [i \in DOMAIN list |-> IF start[i] = None THEN None
                                        ELSE Plus(start[i], list[i].vector)]
    IN [s \in Section |-> IF FirstTo(list, s) = {} THEN Origin
                          ELSE end[CHOOSE i \in FirstTo(list, s) : TRUE]]

\* Moving one section puts it where it was asked to be.  Without its dependents,
\* every other section, whatever its distance on the chain, stays; with them, no
\* other link of any chain changes.
MovesAreExact ==
    InStep =>
      LET before == DefinedPositions(positionings)
          list   == Updated(positionings, invalidated)
      IN \A s \in Section, point \in Point :
            before[s] # None =>
              LET together == Placed(list, s, point, TRUE)
              IN /\ DefinedPositions(Placed(list, s, point, FALSE)) = [before EXCEPT ![s] = point]
                 /\ DefinedPositions(together)[s] = point
                 /\ \A i \in DOMAIN list :
                       list[i].to # s => together[i].vector = list[i].vector

\* Standardizing puts every section of the chain where it is wanted, and placing
\* a section never displaces those placed before.
StandardizedSectionsStay ==
    standardized # None =>
        \A i \in DOMAIN standardized :
            DefinedPositions(positionings)[Order[i]] = standardized[i]

-----------------------------------------------------------------------------
(* Claim of a header.                                                      *)

\* A mutex is locked only where "the calling thread does not own the mutex".
NoSelfDeadlock == fault # "deadlock"
=============================================================================
