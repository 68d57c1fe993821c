-------------------------- MODULE PositioningsProofs --------------------------
(***************************************************************************)
(* Proofs about Positionings, for lists and chains of any length.          *)
(*                                                                         *)
(* Start points and the loop of SetPositioningTransformation are recursive *)
(* functions.  What they compute is shown by looking at the smallest step  *)
(* that would be wrong.                                                    *)
(***************************************************************************)
EXTENDS Positionings, TLAPS, SequenceTheorems, FiniteSetTheorems, WellFoundedInduction

\* A positioning that has an end point has the one that follows from the rest of it.
EndsFollow(list) ==
    \A i \in DOMAIN list :
        Valid(list[i]) => list[i].toPoint = Plus(list[i].fromPoint, list[i].vector)

\* A loft is cached only while the container is up to date, with what it holds.
LoftRead ==
    loft # None => /\ ~invalidated
                   /\ \A s \in Section : loft[s] = Position(positionings, s)

\* The positionings lead from each section of the order to the next.
LinkedAs(list, order) ==
    /\ Len(list) = Len(order)
    /\ \A i \in DOMAIN list : /\ list[i].from = IF i = 1 THEN None ELSE order[i - 1]
                              /\ list[i].to = order[i]

\* While it is placed, the standardizer's chain stays one; before the first
\* placement the container may not know that it was replaced.
Standardizing ==
    standardized # None =>
        /\ Len(standardized) <= Len(Order)
        /\ LinkedAs(positionings, Order)
        /\ \/ invalidated
           \/ standardized = <<>> /\ positionings = Chain
        /\ StandardizedSectionsStay

PositioningsInv ==
    /\ PositioningsTypeOK
    /\ EndsFollow(positionings)
    /\ LoftRead
    /\ Standardizing

-----------------------------------------------------------------------------
(* Numbers, points and sequences.                                          *)

\* A non-empty set of natural numbers has a smallest one.
LEMMA SmallestOf ==
    ASSUME NEW T \in SUBSET Nat, T # {}
    PROVE  \E x \in T : \A y \in T : x <= y
<1> DEFINE R == OpToRel(<, Nat)
<1>1. IsWellFoundedOn(R, Nat)
  BY NatLessThanWellFounded
<1>2. \A x, y \in Nat : x < y => <<x, y>> \in R
  BY DEF OpToRel
<1> HIDE DEF R
<1>3. PICK x \in T : \A y \in T : ~(<<y, x>> \in R)
  BY <1>1, WFMin
<1>4. \A y \in T : x <= y
  <2> TAKE y \in T
  <2>1. x \in Nat /\ y \in Nat /\ ~(y < x)
    BY <1>2, <1>3
  <2> QED
    BY <2>1
<1> QED
  BY <1>4

\* A set of numbers up to n that holds 0, and with each its successor, holds all.
LEMMA AllSteps ==
    ASSUME NEW n \in Nat, NEW Good \in SUBSET (0 .. n), 0 \in Good,
           \A d \in 1 .. n : d - 1 \in Good => d \in Good
    PROVE  \A d \in 0 .. n : d \in Good
<1> DEFINE T == {d \in 0 .. n : d \notin Good}
<1> SUFFICES ASSUME T # {} PROVE FALSE
  OBVIOUS
<1>1. T \in SUBSET Nat
  OBVIOUS
<1> HIDE DEF T
<1>2. PICK d \in T : \A y \in T : d <= y
  BY <1>1, SmallestOf
<1> USE DEF T
<1>3. d \in 1 .. n /\ d \notin Good
  BY <1>2
<1>4. d - 1 \in 0 .. n /\ ~(d <= d - 1)
  BY <1>3
<1>5. d - 1 \in Good
  BY <1>2, <1>4
<1> QED
  BY <1>3, <1>5

\* The values f that are reached from x by the steps g.
StepsOn(X, n, g) == g \in [1 .. n -> [X -> X]]
Iterated(X, n, x, g, f) ==
    /\ f \in [0 .. n -> X]
    /\ f[0] = x
    /\ \A k \in 1 .. n : f[k] = g[k][f[k - 1]]

\* A step can be repeated any number of times.
LEMMA Iteration ==
    ASSUME NEW X, NEW n \in Nat, NEW x \in X, NEW g, StepsOn(X, n, g)
    PROVE  \E f : Iterated(X, n, x, g, f)
<1> USE DEF StepsOn
<1> DEFINE Upto(d, f) == /\ f[0] = x
                         /\ \A k \in 1 .. d : f[k] = g[k][f[k - 1]]
           Good == {d \in 0 .. n : \E f \in [0 .. d -> X] : Upto(d, f)}
<1>1. 0 \in Good
  <2> DEFINE f == [k \in 0 .. 0 |-> x]
  <2>1. f \in [0 .. 0 -> X] /\ Upto(0, f)
    OBVIOUS
  <2>2. 0 \in 0 .. n
    OBVIOUS
  <2> HIDE DEF f, Upto
  <2> QED
    BY <2>1, <2>2
<1>2. \A d \in 1 .. n : d - 1 \in Good => d \in Good
  <2> TAKE d \in 1 .. n
  <2> HAVE d - 1 \in Good
  <2>1. PICK f \in [0 .. d - 1 -> X] : Upto(d - 1, f)
    OBVIOUS
  <2> DEFINE h == [k \in 0 .. d |-> IF k = d THEN g[d][f[d - 1]] ELSE f[k]]
  <2>2. f[d - 1] \in X /\ g[d] \in [X -> X]
    OBVIOUS
  <2>3. h \in [0 .. d -> X]
    BY <2>2
  <2>4. \A k \in 1 .. d : h[k] = g[k][h[k - 1]]
    <3> TAKE k \in 1 .. d
    <3>1. CASE k = d
      BY <3>1
    <3>2. CASE k # d
      <4>1. k \in 1 .. d - 1 /\ k - 1 \in 0 .. d - 1
        BY <3>2
      <4>2. h[k] = f[k] /\ h[k - 1] = f[k - 1]
        BY <3>2, <4>1
      <4> QED
        BY <2>1, <4>1, <4>2
    <3> QED
      BY <3>1, <3>2
  <2>5. h[0] = x
    BY <2>1
  <2> HIDE DEF h
  <2>6. d \in 0 .. n /\ Upto(d, h)
    BY <2>4, <2>5
  <2> HIDE DEF Upto
  <2> QED
    BY <2>3, <2>6
<1> HIDE DEF Good
<1>3. Good \in SUBSET (0 .. n)
  BY DEF Good
<1>4. \A d \in 0 .. n : d \in Good
  BY <1>1, <1>2, <1>3, AllSteps
<1>5. \E f \in [0 .. n -> X] : Upto(n, f)
  BY <1>4 DEF Good
<1> QED
  BY <1>5 DEF Iterated

\* Points are a group under addition.
LEMMA PointArithmetic ==
    /\ Origin \in Point
    /\ None \notin Point
    /\ \A a, b \in Point : /\ Plus(a, b) \in Point
                           /\ Minus(a, b) \in Point
                           /\ Plus(a, Minus(b, a)) = b
<1>1. N \in Nat \ {0} /\ None \notin Int
  BY PositioningsAssumption
<1>2. Origin \in Point /\ None \notin Point
  BY <1>1 DEF Origin, Point
<1>3. ASSUME NEW a \in Point, NEW b \in Point
      PROVE  Plus(a, b) \in Point /\ Minus(a, b) \in Point
  BY <1>1 DEF Point, Plus, Minus
<1>4. ASSUME NEW a \in Point, NEW b \in Point
      PROVE  Plus(a, Minus(b, a)) = b
  BY <1>1 DEF Point, Plus, Minus
<1> QED
  BY <1>2, <1>3, <1>4

\* A function on 1 .. n is a sequence of length n.
LEMMA FunctionIsSequence ==
    ASSUME NEW S, NEW n \in Nat, NEW f \in [1 .. n -> S]
    PROVE  f \in Seq(S) /\ Len(f) = n
<1>1. f \in Seq(S)
  BY SeqDef
<1>2. Len(f) \in Nat /\ DOMAIN f = 1 .. Len(f)
  BY <1>1, LenProperties
<1>3. 1 .. Len(f) = 1 .. n
  BY <1>2
<1> QED
  BY <1>1, <1>2, <1>3

\* A sequence is a function on 1 .. n.
LEMMA SequenceIsFunction ==
    ASSUME NEW S, NEW f \in Seq(S)
    PROVE  /\ Len(f) \in Nat
           /\ DOMAIN f = 1 .. Len(f)
           /\ f \in [1 .. Len(f) -> S]
  BY LenProperties

-----------------------------------------------------------------------------
(* One positioning.                                                        *)

\* Two positionings that are defined alike; their points may differ.
SameDefinition(p, q) == p.from = q.from /\ p.to = q.to /\ p.vector = q.vector

\* What the methods of one positioning change.
LEMMA OnePositioning ==
    ASSUME NEW p \in Positioning
    PROVE  /\ Invalid(p) \in Positioning
           /\ SameDefinition(Invalid(p), p)
           /\ Invalid(p).fromPoint = p.fromPoint
           /\ Invalid(p).dependents = p.dependents
           /\ Invalid(p).toPoint = None
           /\ UpToDate(p) \in Positioning
           /\ SameDefinition(UpToDate(p), p)
           /\ UpToDate(p).fromPoint = p.fromPoint
           /\ UpToDate(p).dependents = p.dependents
           /\ UpToDate(p).toPoint \in Point
           /\ UpToDate(p).toPoint =
                IF Valid(p) THEN p.toPoint ELSE Plus(p.fromPoint, p.vector)
<1>1. Plus(p.fromPoint, p.vector) \in Point
  BY PointArithmetic DEF Positioning
<1>2. None \notin Point
  BY PointArithmetic
<1>3. CASE Valid(p)
  BY <1>2, <1>3 DEF Invalid, UpToDate, Valid, Positioning, SameDefinition
<1>4. CASE ~Valid(p)
  BY <1>1, <1>4 DEF Invalid, UpToDate, Valid, Positioning, SameDefinition
<1> QED
  BY <1>3, <1>4

\* Setting the vector, and what is set through it.
LEMMA OneVector ==
    ASSUME NEW p \in Positioning, NEW point \in Point
    PROVE  /\ WithVector(p, point) = [p EXCEPT !.vector = point, !.toPoint = None]
           /\ WithVector(p, point) \in Positioning
           /\ WithToPoint(p, point) = WithVector(p, Minus(point, p.fromPoint))
           /\ WithToPoint(p, point) \in Positioning
           /\ KeepingToPoint(p, point) = WithVector(p, Minus(UpToDate(p).toPoint, point))
           /\ KeepingToPoint(p, point) \in Positioning
<1>1. \A v \in Point : /\ WithVector(p, v) = [p EXCEPT !.vector = v, !.toPoint = None]
                       /\ WithVector(p, v) \in Positioning
  BY DEF WithVector, Invalid, Positioning
<1>2. /\ Minus(point, p.fromPoint) \in Point
      /\ Minus(UpToDate(p).toPoint, point) \in Point
  BY PointArithmetic, OnePositioning DEF Positioning
<1> QED
  BY <1>1, <1>2 DEF WithToPoint, KeepingToPoint, GetToPoint

-----------------------------------------------------------------------------
(* Start points.                                                           *)

\* The first positioning to a section is one, if there is any.
LEMMA FirstToIsFirst ==
    ASSUME NEW list \in Seq(Positioning), NEW s
    PROVE  /\ FirstTo(list, s) \subseteq DOMAIN list
           /\ \A i \in FirstTo(list, s) : list[i].to = s
           /\ \A i, j \in FirstTo(list, s) : i = j
           /\ \A k \in DOMAIN list : list[k].to = s => \E i \in FirstTo(list, s) : i <= k
<1>1. DOMAIN list = 1 .. Len(list) /\ Len(list) \in Nat
  BY SequenceIsFunction
<1>2. \A i, j \in FirstTo(list, s) : i = j
  BY <1>1 DEF FirstTo
<1>3. ASSUME NEW k \in DOMAIN list, list[k].to = s
      PROVE  \E i \in FirstTo(list, s) : i <= k
  <2> DEFINE T == {i \in DOMAIN list : list[i].to = s}
  <2>1. T \in SUBSET Nat /\ k \in T
    BY <1>1, <1>3
  <2>2. PICK i \in T : \A j \in T : i <= j
    BY <2>1, SmallestOf
  <2>3. i \in FirstTo(list, s)
    BY <1>1, <2>2 DEF FirstTo
  <2> QED
    BY <2>1, <2>2, <2>3
<1> QED
  BY <1>2, <1>3 DEF FirstTo

Start == Point \cup {None}

\* The start points "next", if the predecessors start where "start" says.
StepOf(list, start, next) ==
    /\ next \in [DOMAIN list -> Start]
    /\ \A i \in DOMAIN list :
          /\ list[i].from = None => next[i] = Origin
          /\ list[i].from # None /\ FirstTo(list, list[i].from) = {} => next[i] = None
          /\ list[i].from # None =>
                \A j \in FirstTo(list, list[i].from) :
                   next[i] = IF start[j] = None THEN None ELSE Plus(start[j], list[j].vector)

\* One link further.
LEMMA NextStartsStep ==
    ASSUME NEW list \in Seq(Positioning), NEW start \in [DOMAIN list -> Start]
    PROVE  StepOf(list, start, NextStarts(list, start))
<1> DEFINE next == NextStarts(list, start)
           before(i) == {j \in FirstTo(list, list[i].from) : start[j] # None}
           value(i) == IF list[i].from = None THEN Origin
                       ELSE IF before(i) = {} THEN None
                       ELSE Plus(start[CHOOSE j \in before(i) : TRUE],
                                 list[CHOOSE j \in before(i) : TRUE].vector)
<1>1. next = [i \in DOMAIN list |-> value(i)]
  BY DEF NextStarts
<1>2. ASSUME NEW i \in DOMAIN list, list[i].from # None, NEW j \in FirstTo(list, list[i].from)
      PROVE  value(i) = IF start[j] = None THEN None ELSE Plus(start[j], list[j].vector)
  <2>1. \A k \in FirstTo(list, list[i].from) : k = j
    BY <1>2, FirstToIsFirst
  <2>2. CASE start[j] = None
    <3>1. before(i) = {}
      BY <2>1, <2>2
    <3> QED
      BY <1>2, <2>2, <3>1
  <2>3. CASE start[j] # None
    <3>1. before(i) = {j}
      BY <1>2, <2>1, <2>3
    <3>2. (CHOOSE k \in before(i) : TRUE) = j
      BY <3>1
    <3> HIDE DEF before
    <3> QED
      BY <1>2, <2>3, <3>1, <3>2
  <2> QED
    BY <2>2, <2>3
<1>3. ASSUME NEW i \in DOMAIN list, list[i].from # None, FirstTo(list, list[i].from) = {}
      PROVE  value(i) = None
  BY <1>3
<1>4. \A i \in DOMAIN list : list[i].from = None => value(i) = Origin
  OBVIOUS
<1>5. \A i \in DOMAIN list : value(i) \in Start
  <2> TAKE i \in DOMAIN list
  <2> HIDE DEF value
  <2>1. CASE list[i].from = None
    BY <1>4, <2>1, PointArithmetic DEF Start
  <2>2. CASE list[i].from # None /\ FirstTo(list, list[i].from) = {}
    BY <1>3, <2>2 DEF Start
  <2>3. CASE list[i].from # None /\ FirstTo(list, list[i].from) # {}
    <3>1. PICK j \in FirstTo(list, list[i].from) : TRUE
      BY <2>3
    <3>2. j \in DOMAIN list
      BY FirstToIsFirst
    <3>3. list[j] \in Positioning
      BY <3>2, SequenceIsFunction
    <3>4. list[j].vector \in Point /\ start[j] \in Start
      BY <3>2, <3>3 DEF Positioning
    <3> QED
      BY <1>2, <2>3, <3>4, PointArithmetic DEF Start
  <2> QED
    BY <2>1, <2>2, <2>3
<1> HIDE DEF value
<1> QED
  BY <1>1, <1>2, <1>3, <1>4, <1>5 DEF StepOf

\* The levels of StartPoints: what is known after d links.
Levels(list, level) ==
    /\ level \in [0 .. Len(list) -> [DOMAIN list -> Start]]
    /\ \A i \in DOMAIN list : level[0][i] = None
    /\ \A d \in 1 .. Len(list) : StepOf(list, level[d - 1], level[d])

\* StartPoints goes through as many levels as there are positionings.
LEMMA StartPointsLevels ==
    ASSUME NEW list \in Seq(Positioning)
    PROVE  \E level : Levels(list, level) /\ StartPoints(list) = level[Len(list)]
<1> DEFINE n == Len(list)
           X == [DOMAIN list -> Start]
           none == [i \in DOMAIN list |-> None]
           R(f) == f = [d \in 0 .. Len(list) |->
                          IF d = 0 THEN [i \in DOMAIN list |-> None]
                          ELSE NextStarts(list, f[d - 1])]
           S == CHOOSE f : R(f)
<1>1. n \in Nat
  BY SequenceIsFunction
<1>2. none \in X
  BY DEF Start
<1>3. \A x \in X : NextStarts(list, x) \in X /\ StepOf(list, x, NextStarts(list, x))
  BY NextStartsStep DEF StepOf
<1>4. PICK f \in [0 .. n -> X] : f[0] = none /\ \A k \in 1 .. n : f[k] = NextStarts(list, f[k - 1])
  <2> DEFINE g == [k \in 1 .. n |-> [x \in X |-> NextStarts(list, x)]]
  <2>1. g \in [1 .. n -> [X -> X]]
    BY <1>3
  <2>2. \A k \in 1 .. n : \A x \in X : g[k][x] = NextStarts(list, x)
    OBVIOUS
  <2>3. StepsOn(X, n, g)
    BY <2>1 DEF StepsOn
  <2> HIDE DEF g, X, n, none
  <2>4. PICK f : Iterated(X, n, none, g, f)
    BY <1>1, <1>2, <2>3, Iteration
  <2>5. f \in [0 .. n -> X] /\ f[0] = none /\ \A k \in 1 .. n : f[k] = g[k][f[k - 1]]
    BY <2>4 DEF Iterated
  <2>6. \A k \in 1 .. n : f[k - 1] \in X
    BY <1>1, <2>5
  <2> QED
    BY <2>2, <2>5, <2>6
<1>5. R(f)
  BY <1>1, <1>4
<1>6. R(S)
  <2> HIDE DEF R
  <2> QED
    BY <1>5
<1>7. StartPoints(list) = S[n]
  BY DEF StartPoints
<1>8. S[0] = none /\ \A d \in 1 .. n : S[d] = NextStarts(list, S[d - 1])
  <2> HIDE DEF S
  <2> QED
    BY <1>1, <1>6
<1>9. \A d \in 0 .. n : S[d] \in X
  <2> DEFINE Good == {d \in 0 .. n : S[d] \in X}
  <2> HIDE DEF S, X, none, n
  <2>1. 0 \in Good
    BY <1>1, <1>2, <1>8
  <2>2. \A d \in 1 .. n : d - 1 \in Good => d \in Good
    BY <1>1, <1>3, <1>8
  <2> HIDE DEF Good
  <2>3. Good \in SUBSET (0 .. n)
    BY DEF Good
  <2>4. \A d \in 0 .. n : d \in Good
    BY <1>1, <2>1, <2>2, <2>3, AllSteps
  <2> QED
    BY <2>4 DEF Good
<1>10. Levels(list, S)
  <2>1. DOMAIN S = 0 .. n /\ S = [d \in 0 .. n |-> S[d]]
    <3> HIDE DEF S
    <3> QED
      BY <1>6
  <2> HIDE DEF S
  <2>2. S \in [0 .. n -> X]
    BY <1>9, <2>1
  <2>3. \A d \in 1 .. n : d - 1 \in 0 .. n
    BY <1>1
  <2> QED
    BY <1>3, <1>8, <1>9, <2>2, <2>3 DEF Levels
<1> QED
  BY <1>7, <1>10

\* One level follows from the one before.
LEMMA StepDetermined ==
    ASSUME NEW list \in Seq(Positioning), NEW a, NEW b, NEW c,
           StepOf(list, a, b), StepOf(list, a, c)
    PROVE  b = c
<1>1. ASSUME NEW i \in DOMAIN list
      PROVE  b[i] = c[i]
  BY <1>1 DEF StepOf
<1>2. b \in [DOMAIN list -> Start] /\ c \in [DOMAIN list -> Start]
  BY DEF StepOf
<1> QED
  BY <1>1, <1>2

\* What is known at one level stays at the next.
LEMMA StepKeeps ==
    ASSUME NEW list \in Seq(Positioning), NEW a, NEW b, NEW c,
           StepOf(list, a, b), StepOf(list, b, c),
           \A i \in DOMAIN list : a[i] # None => b[i] = a[i]
    PROVE  \A i \in DOMAIN list : b[i] # None => c[i] = b[i]
<1> TAKE i \in DOMAIN list
<1> HAVE b[i] # None
<1>1. CASE list[i].from = None
  BY <1>1 DEF StepOf
<1>2. CASE list[i].from # None
  <2>1. PICK j \in FirstTo(list, list[i].from) : TRUE
    BY <1>2 DEF StepOf
  <2>2. j \in DOMAIN list
    BY FirstToIsFirst
  <2>3. b[i] = IF a[j] = None THEN None ELSE Plus(a[j], list[j].vector)
    BY <1>2, <2>1 DEF StepOf
  <2>4. c[i] = IF b[j] = None THEN None ELSE Plus(b[j], list[j].vector)
    BY <1>2, <2>1 DEF StepOf
  <2> QED
    BY <2>2, <2>3, <2>4
<1> QED
  BY <1>1, <1>2

LEMMA LevelsGrow ==
    ASSUME NEW list \in Seq(Positioning), NEW level, Levels(list, level)
    PROVE  \A d \in 1 .. Len(list) : \A i \in DOMAIN list :
              level[d - 1][i] # None => level[d][i] = level[d - 1][i]
<1> DEFINE n == Len(list)
           Keeps(d) == \A i \in DOMAIN list :
                          level[d - 1][i] # None => level[d][i] = level[d - 1][i]
           Good == {d \in 0 .. n : d = 0 \/ Keeps(d)}
<1>1. n \in Nat
  BY SequenceIsFunction
<1>2. \A d \in 1 .. n : d - 1 \in Good => d \in Good
  <2> TAKE d \in 1 .. n
  <2> HAVE d - 1 \in Good
  <2>1. CASE d = 1
    BY <2>1 DEF Levels
  <2>2. CASE d # 1
    <3>1. /\ d - 1 \in 1 .. n
          /\ Keeps(d - 1)
      BY <1>1, <2>2
    <3>2. StepOf(list, level[(d - 1) - 1], level[d - 1]) /\ StepOf(list, level[d - 1], level[d])
      BY <3>1 DEF Levels
    <3>3. Keeps(d)
      BY <3>1, <3>2, StepKeeps
    <3> QED
      BY <3>3
  <2> QED
    BY <2>1, <2>2
<1>3. 0 \in Good /\ Good \in SUBSET (0 .. n)
  BY <1>1
<1> HIDE DEF Good, n
<1>4. \A d \in 0 .. n : d \in Good
  BY <1>1, <1>2, <1>3, AllSteps
<1> USE DEF Good, n
<1>5. \A d \in 1 .. n : d \in 0 .. n /\ d # 0
  BY <1>1
<1> QED
  BY <1>4, <1>5

\* After as many levels as there are positionings nothing is added: each level
\* before added one at least.
LEMMA LevelsSettle ==
    ASSUME NEW list \in Seq(Positioning), NEW level, Levels(list, level)
    PROVE  StepOf(list, level[Len(list)], level[Len(list)])
<1> DEFINE n == Len(list)
           Known(d) == {i \in DOMAIN list : level[d][i] # None}
           Settled(d) == d # 0 /\ level[d] = level[d - 1]
           Good == {d \in 0 .. n : Settled(d) \/ Cardinality(Known(d)) >= d}
<1>1. n \in Nat /\ DOMAIN list = 1 .. n
  BY SequenceIsFunction
<1>2. IsFiniteSet(DOMAIN list) /\ Cardinality(DOMAIN list) = n
  BY <1>1, FS_Interval
<1>3. \A d \in 0 .. n : IsFiniteSet(Known(d)) /\ Cardinality(Known(d)) \in Nat
  BY <1>2, FS_Subset, FS_CardinalityType
<1>4. \A d \in 0 .. n : level[d] \in [DOMAIN list -> Start]
  BY DEF Levels
<1>5. \A d \in 1 .. n : d - 1 \in Good => d \in Good
  <2> TAKE d \in 1 .. n
  <2> HAVE d - 1 \in Good
  <2>1. d - 1 \in 0 .. n /\ d \in 0 .. n /\ d # 0
    BY <1>1
  <2>2. CASE Settled(d - 1)
    <3>1. d - 1 \in 1 .. n
      BY <2>1, <2>2
    <3>2. /\ StepOf(list, level[(d - 1) - 1], level[d - 1])
          /\ StepOf(list, level[d - 1], level[d])
      BY <3>1 DEF Levels
    <3>3. level[d] = level[d - 1]
      BY <2>2, <3>2, StepDetermined
    <3> QED
      BY <2>1, <3>3
  <2>3. CASE Cardinality(Known(d - 1)) >= d - 1 /\ Known(d) = Known(d - 1)
    <3>1. \A i \in DOMAIN list : level[d][i] = level[d - 1][i]
      BY <2>3, LevelsGrow
    <3>2. level[d] = level[d - 1]
      BY <1>4, <2>1, <3>1
    <3> QED
      BY <2>1, <3>2
  <2>4. CASE Cardinality(Known(d - 1)) >= d - 1 /\ Known(d) # Known(d - 1)
    <3>1. Known(d - 1) \subseteq Known(d)
      BY LevelsGrow
    <3>2. IsFiniteSet(Known(d))
      BY <1>3, <2>1
    <3> HIDE DEF Known
    <3>3. Cardinality(Known(d - 1)) <= Cardinality(Known(d))
          /\ Cardinality(Known(d - 1)) # Cardinality(Known(d))
      BY <2>4, <3>1, <3>2, FS_Subset
    <3>4. Cardinality(Known(d)) >= d
      BY <1>3, <2>1, <2>4, <3>3
    <3> QED
      BY <2>1, <3>4
  <2> QED
    BY <2>1, <2>2, <2>3, <2>4
<1>6. 0 \in Good
  BY <1>1, <1>3
<1> HIDE DEF Good, n
<1>7. \A d \in 0 .. n : d \in Good
  <2>1. Good \in SUBSET (0 .. n)
    BY DEF Good
  <2> QED
    BY <1>1, <1>5, <1>6, <2>1, AllSteps
<1>8. n \in Good
  BY <1>1, <1>7
<1>9. CASE n = 0
  BY <1>1, <1>4, <1>9 DEF StepOf, n
<1>10. CASE n # 0 /\ Settled(n)
  <2>1. StepOf(list, level[n - 1], level[n])
    BY <1>1, <1>10 DEF Levels, n
  <2> QED
    BY <1>10, <2>1 DEF n
<1>11. CASE n # 0 /\ Cardinality(Known(n)) >= n
  <2>1. n \in 1 .. n /\ n \in 0 .. n
    BY <1>1, <1>11
  <2>2. Known(n) \subseteq DOMAIN list
    OBVIOUS
  <2> HIDE DEF Known
  <2>3. Known(n) = DOMAIN list
    BY <1>2, <1>3, <1>11, <2>1, <2>2, FS_Subset
  <2> USE DEF Known
  <2>4. \A i \in DOMAIN list : level[n][i] # None
    BY <2>3
  <2> DEFINE next == NextStarts(list, level[n])
  <2>5. StepOf(list, level[n], next)
    BY <1>4, <2>1, NextStartsStep
  <2>6. StepOf(list, level[n - 1], level[n])
    BY <2>1 DEF Levels, n
  <2>7. \A i \in DOMAIN list : level[n - 1][i] # None => level[n][i] = level[n - 1][i]
    BY <2>1, LevelsGrow DEF n
  <2> HIDE DEF next
  <2>8. \A i \in DOMAIN list : next[i] = level[n][i]
    BY <2>4, <2>5, <2>6, <2>7, StepKeeps
  <2>9. next = level[n]
    BY <1>4, <2>1, <2>5, <2>8 DEF StepOf
  <2> QED
    BY <2>5, <2>9 DEF n
<1> QED
  BY <1>8, <1>9, <1>10, <1>11 DEF Good

\* The number of links from a root, for what has a start point.
Depth(list, depth) ==
    /\ depth \in [DOMAIN list -> Nat]
    /\ \A i \in DOMAIN list :
          StartPoints(list)[i] # None /\ list[i].from # None =>
             \A j \in FirstTo(list, list[i].from) : depth[j] < depth[i]

\* Start points follow from those of the predecessors, and no chain of
\* positionings that have one is a cycle.
LEMMA StartPointsFollow ==
    ASSUME NEW list \in Seq(Positioning)
    PROVE  /\ StepOf(list, StartPoints(list), StartPoints(list))
           /\ \E depth : Depth(list, depth)
<1> DEFINE n == Len(list)
<1>1. PICK level : Levels(list, level) /\ StartPoints(list) = level[n]
  BY StartPointsLevels
<1>2. StepOf(list, StartPoints(list), StartPoints(list))
  BY <1>1, LevelsSettle
<1> DEFINE Known(i) == {d \in 0 .. n : level[d][i] # None}
           Least(i, d) == d \in Known(i) /\ \A e \in Known(i) : d <= e
           least(i) == IF Known(i) = {} THEN 0 ELSE CHOOSE d : Least(i, d)
           depth == [i \in DOMAIN list |-> least(i)]
<1>3. n \in Nat
  BY SequenceIsFunction
<1>4. \A i \in DOMAIN list : Known(i) # {} => Least(i, least(i))
  <2> TAKE i \in DOMAIN list
  <2> HAVE Known(i) # {}
  <2>1. Known(i) \in SUBSET Nat
    BY <1>3
  <2> HIDE DEF Known
  <2>2. \E d : Least(i, d)
    BY <2>1, SmallestOf
  <2> HIDE DEF Least
  <2> QED
    BY <2>2
<1>5. \A i \in DOMAIN list : least(i) \in Nat
  <2> TAKE i \in DOMAIN list
  <2>1. CASE Known(i) = {}
    BY <2>1
  <2>2. CASE Known(i) # {}
    <3>1. Least(i, least(i))
      BY <1>4, <2>2
    <3> HIDE DEF least
    <3> QED
      BY <1>3, <3>1
  <2> QED
    BY <2>1, <2>2
<1>6. ASSUME NEW i \in DOMAIN list, StartPoints(list)[i] # None, list[i].from # None,
             NEW j \in FirstTo(list, list[i].from)
      PROVE  least(j) < least(i)
  <2> HIDE DEF least
  <2>1. Known(i) # {}
    BY <1>1, <1>3, <1>6
  <2>2. Least(i, least(i))
    BY <1>4, <2>1
  <2>3. j \in DOMAIN list
    BY FirstToIsFirst
  <2> DEFINE d == least(i)
  <2>4. d \in 1 .. n /\ level[d][i] # None
    BY <1>1, <1>3, <1>6, <2>2 DEF Levels
  <2> HIDE DEF d
  <2>5. level[d - 1][j] # None
    BY <1>1, <1>6, <2>4 DEF Levels, StepOf
  <2>6. d - 1 \in Known(j)
    BY <1>3, <2>4, <2>5
  <2>7. Least(j, least(j))
    BY <1>4, <2>3, <2>6
  <2>8. least(j) <= d - 1
    BY <2>6, <2>7
  <2>9. least(j) \in Nat
    BY <1>5, <2>3
  <2> QED
    BY <1>3, <2>4, <2>8, <2>9 DEF d
<1> HIDE DEF least
<1>7. \A i \in DOMAIN list : \A s : FirstTo(list, s) \subseteq DOMAIN list
  BY FirstToIsFirst
<1>8. Depth(list, depth)
  BY <1>5, <1>6, <1>7 DEF Depth
<1> QED
  BY <1>2, <1>8

-----------------------------------------------------------------------------
(* Start points of lists that are linked alike.                            *)

\* What holds for i if it holds for everything of less depth holds for all.
LEMMA ByDepth ==
    ASSUME NEW D, NEW depth \in [D -> Nat], NEW Good,
           \A i \in D : (\A j \in D : depth[j] < depth[i] => j \in Good) => i \in Good
    PROVE  \A i \in D : i \in Good
<1> DEFINE T == {depth[i] : i \in {j \in D : j \notin Good}}
<1> SUFFICES ASSUME NEW i \in D, i \notin Good
             PROVE  FALSE
  OBVIOUS
<1>1. T \in SUBSET Nat /\ depth[i] \in T
  OBVIOUS
<1> HIDE DEF T
<1>2. PICK d \in T : \A e \in T : d <= e
  BY <1>1, SmallestOf
<1> USE DEF T
<1>3. PICK j \in D : j \notin Good /\ depth[j] = d
  BY <1>2
<1>4. PICK k \in D : depth[k] < depth[j] /\ k \notin Good
  BY <1>3
<1>5. depth[k] \in T /\ depth[k] \in Nat /\ depth[j] \in Nat
  BY <1>4
<1> HIDE DEF T
<1>6. depth[j] <= depth[k]
  BY <1>2, <1>3, <1>5
<1> QED
  BY <1>4, <1>5, <1>6

\* m starts with positionings that lead from and to the same sections as those of l.
SameLinks(l, m) ==
    /\ Len(l) <= Len(m)
    /\ \A i \in DOMAIN l : l[i].from = m[i].from /\ l[i].to = m[i].to

LEMMA FirstToSame ==
    ASSUME NEW l \in Seq(Positioning), NEW m \in Seq(Positioning), SameLinks(l, m), NEW s
    PROVE  /\ FirstTo(l, s) \subseteq FirstTo(m, s)
           /\ FirstTo(l, s) # {} => FirstTo(m, s) = FirstTo(l, s)
           /\ Len(l) = Len(m) => FirstTo(m, s) = FirstTo(l, s)
<1>1. /\ DOMAIN l = 1 .. Len(l) /\ Len(l) \in Nat
      /\ DOMAIN m = 1 .. Len(m) /\ Len(m) \in Nat
  BY SequenceIsFunction
<1>2. Len(l) <= Len(m) /\ \A i \in 1 .. Len(l) : l[i].to = m[i].to
  BY <1>1 DEF SameLinks
<1>3. ASSUME NEW i \in FirstTo(l, s)
      PROVE  i \in FirstTo(m, s)
  BY <1>1, <1>2, <1>3 DEF FirstTo
<1>4. Len(l) = Len(m) => FirstTo(m, s) = FirstTo(l, s)
  BY <1>1, <1>2 DEF FirstTo
<1>5. ASSUME NEW i \in FirstTo(l, s)
      PROVE  FirstTo(m, s) = FirstTo(l, s)
  <2>1. \A j \in FirstTo(m, s) : j = i
    BY <1>3, FirstToIsFirst
  <2> QED
    BY <1>3, <2>1
<1> QED
  BY <1>3, <1>4, <1>5

\* Start points q for the positionings R of l, which holds with each its predecessor,
\* that follow from each other by the vectors of m.
StartsAlong(l, m, R, q) ==
    /\ R \subseteq DOMAIN l
    /\ \A i \in R :
          /\ StartPoints(l)[i] # None
          /\ q[i] # None
          /\ l[i].from = None => q[i] = Origin
          /\ l[i].from # None =>
                \A j \in FirstTo(l, l[i].from) : j \in R /\ q[i] = Plus(q[j], m[j].vector)

\* Such start points are those of m.
LEMMA StartsAs ==
    ASSUME NEW l \in Seq(Positioning), NEW m \in Seq(Positioning), SameLinks(l, m),
           NEW R, NEW q, StartsAlong(l, m, R, q)
    PROVE  \A i \in R : StartPoints(m)[i] = q[i]
<1> USE DEF StartsAlong
<1>1. PICK depth : Depth(l, depth)
  BY StartPointsFollow
<1>2. StepOf(l, StartPoints(l), StartPoints(l)) /\ StepOf(m, StartPoints(m), StartPoints(m))
  BY StartPointsFollow
<1> DEFINE d == [i \in R |-> depth[i]]
           Good == {i \in R : StartPoints(m)[i] = q[i]}
<1>3. d \in [R -> Nat] /\ \A i \in R : d[i] = depth[i]
  BY <1>1 DEF Depth
<1>4. DOMAIN l \subseteq DOMAIN m
  BY SequenceIsFunction DEF SameLinks
<1>5. \A i \in R : (\A j \in R : d[j] < d[i] => j \in Good) => i \in Good
  <2> TAKE i \in R
  <2> HAVE \A j \in R : d[j] < d[i] => j \in Good
  <2>1. i \in DOMAIN m /\ m[i].from = l[i].from
    BY <1>4 DEF SameLinks
  <2>2. CASE l[i].from = None
    BY <1>2, <2>1, <2>2 DEF StepOf
  <2>3. CASE l[i].from # None
    <3>1. PICK j \in FirstTo(l, l[i].from) : TRUE
      BY <1>2, <2>3 DEF StepOf
    <3>2. j \in R /\ depth[j] < depth[i]
      BY <1>1, <2>3, <3>1 DEF Depth
    <3>3. StartPoints(m)[j] = q[j] /\ q[j] # None
      BY <1>3, <3>2
    <3>4. j \in FirstTo(m, m[i].from)
      BY <2>1, <3>1, FirstToSame
    <3>5. StartPoints(m)[i] = Plus(StartPoints(m)[j], m[j].vector)
      BY <1>2, <2>1, <2>3, <3>3, <3>4 DEF StepOf
    <3> QED
      BY <2>3, <3>1, <3>3, <3>5
  <2> QED
    BY <2>2, <2>3
<1> HIDE DEF d, Good
<1>6. \A i \in R : i \in Good
  BY <1>3, <1>5, ByDepth
<1> QED
  BY <1>6 DEF Good

\* A positioning that a root of m reaches is reached from a root of l.
LEMMA ReachedAlike ==
    ASSUME NEW l \in Seq(Positioning), NEW m \in Seq(Positioning), SameLinks(l, m),
           Unknown(l) = {}
    PROVE  \A i \in DOMAIN l : StartPoints(m)[i] # None => StartPoints(l)[i] # None
<1>1. PICK depth : Depth(m, depth)
  BY StartPointsFollow
<1>2. StepOf(l, StartPoints(l), StartPoints(l)) /\ StepOf(m, StartPoints(m), StartPoints(m))
  BY StartPointsFollow
<1>3. DOMAIN l \subseteq DOMAIN m
  BY SequenceIsFunction DEF SameLinks
<1> DEFINE D == DOMAIN l
           d == [i \in D |-> depth[i]]
           Good == {i \in D : StartPoints(m)[i] # None => StartPoints(l)[i] # None}
<1>4. d \in [D -> Nat] /\ \A i \in D : d[i] = depth[i]
  BY <1>1, <1>3 DEF Depth
<1>5. \A i \in D : (\A j \in D : d[j] < d[i] => j \in Good) => i \in Good
  <2> TAKE i \in D
  <2> HAVE \A j \in D : d[j] < d[i] => j \in Good
  <2> SUFFICES ASSUME StartPoints(m)[i] # None
               PROVE  StartPoints(l)[i] # None
    OBVIOUS
  <2>1. i \in DOMAIN m /\ m[i].from = l[i].from
    BY <1>3 DEF SameLinks
  <2>2. CASE l[i].from = None
    <3>1. StartPoints(l)[i] = Origin
      BY <1>2, <2>2 DEF StepOf
    <3> QED
      BY <3>1, PointArithmetic
  <2>3. CASE l[i].from # None
    <3>1. PICK j \in FirstTo(l, l[i].from) : TRUE
      BY <2>3 DEF Unknown
    <3>2. j \in FirstTo(m, m[i].from)
      BY <2>1, <3>1, FirstToSame
    <3>3. StartPoints(m)[j] # None
      BY <1>2, <2>1, <2>3, <3>2 DEF StepOf
    <3>4. depth[j] < depth[i]
      BY <1>1, <2>1, <2>3, <3>2 DEF Depth
    <3>5. j \in DOMAIN l
      BY FirstToIsFirst
    <3>6. StartPoints(l)[j] # None
      BY <1>4, <3>3, <3>4, <3>5
    <3>7. StartPoints(l)[i] = Plus(StartPoints(l)[j], l[j].vector)
      BY <1>2, <2>3, <3>1, <3>6 DEF StepOf
    <3>8. StartPoints(l)[j] \in Point
      BY <1>2, <3>5, <3>6 DEF StepOf, Start
    <3>9. l[j] \in Positioning
      BY <3>5, SequenceIsFunction
    <3>10. l[j].vector \in Point
      BY <3>9 DEF Positioning
    <3> QED
      BY <3>7, <3>8, <3>10, PointArithmetic
  <2> QED
    BY <2>2, <2>3
<1> HIDE DEF D, d, Good
<1>6. \A i \in D : i \in Good
  BY <1>4, <1>5, ByDepth
<1> QED
  BY <1>6 DEF D, Good

\* Start points depend on the definitions alone.
LEMMA StartsByDefinition ==
    ASSUME NEW l \in Seq(Positioning), NEW m \in Seq(Positioning), Len(l) = Len(m),
           Unknown(l) = {}, \A i \in DOMAIN l : SameDefinition(l[i], m[i])
    PROVE  StartPoints(l) = StartPoints(m)
<1>1. SameLinks(l, m) /\ DOMAIN l = DOMAIN m
  BY SequenceIsFunction DEF SameLinks, SameDefinition
<1>2. StepOf(l, StartPoints(l), StartPoints(l)) /\ StepOf(m, StartPoints(m), StartPoints(m))
  BY StartPointsFollow
<1> DEFINE R == {i \in DOMAIN l : StartPoints(l)[i] # None}
           q == StartPoints(l)
<1>3. StartsAlong(l, m, R, q)
  <2> SUFFICES ASSUME NEW i \in R
               PROVE  /\ l[i].from = None => q[i] = Origin
                      /\ l[i].from # None =>
                            \A j \in FirstTo(l, l[i].from) :
                               j \in R /\ q[i] = Plus(q[j], m[j].vector)
    BY DEF StartsAlong
  <2>1. l[i].from = None => q[i] = Origin
    BY <1>2 DEF StepOf
  <2>2. ASSUME l[i].from # None, NEW j \in FirstTo(l, l[i].from)
        PROVE  j \in R /\ q[i] = Plus(q[j], m[j].vector)
    <3>1. q[j] # None /\ q[i] = Plus(q[j], l[j].vector)
      BY <1>2, <2>2 DEF StepOf
    <3>2. j \in DOMAIN l
      BY FirstToIsFirst
    <3> QED
      BY <3>1, <3>2 DEF SameDefinition
  <2> QED
    BY <2>1, <2>2
<1> HIDE DEF R, q
<1>4. \A i \in R : StartPoints(m)[i] = q[i]
  BY <1>1, <1>3, StartsAs
<1>5. \A i \in DOMAIN l : StartPoints(m)[i] # None => StartPoints(l)[i] # None
  BY <1>1, ReachedAlike
<1>6. \A i \in DOMAIN l : StartPoints(m)[i] = StartPoints(l)[i]
  BY <1>4, <1>5 DEF R, q
<1> QED
  BY <1>1, <1>2, <1>6 DEF StepOf

-----------------------------------------------------------------------------
(* Moving a section.                                                       *)

\* Two positionings that differ at most in their vectors and end points.
SamePlace(p, q) ==
    /\ p.from = q.from /\ p.to = q.to
    /\ p.fromPoint = q.fromPoint /\ p.dependents = q.dependents

\* What SetToPoint does to the list l for positioning i and for every other.
LEMMA SetOne ==
    ASSUME NEW n \in Nat, NEW l \in [1 .. n -> Positioning], NEW i \in 1 .. n,
           NEW point \in Point, NEW move \in BOOLEAN
    PROVE  /\ ToPointSet(l, i, point, move) \in [1 .. n -> Positioning]
           /\ \A j \in 1 .. n : SamePlace(ToPointSet(l, i, point, move)[j], l[j])
           /\ i \notin l[i].dependents =>
                 ToPointSet(l, i, point, move)[i].vector = Minus(point, l[i].fromPoint)
           /\ \A j \in 1 .. n : j # i =>
                 IF j \notin l[i].dependents THEN ToPointSet(l, i, point, move)[j] = l[j]
                 ELSE ToPointSet(l, i, point, move)[j].vector =
                        IF move THEN l[j].vector ELSE Minus(UpToDate(l[j]).toPoint, point)
<1> DEFINE moved == [l EXCEPT ![i] = WithToPoint(l[i], point)]
           set(j) == IF j \notin l[i].dependents THEN moved[j]
                     ELSE IF move THEN Invalid(moved[j])
                     ELSE KeepingToPoint(moved[j], point)
<1>1. \A p \in Positioning :
        /\ WithToPoint(p, point) \in Positioning
        /\ SamePlace(WithToPoint(p, point), p)
        /\ WithToPoint(p, point).vector = Minus(point, p.fromPoint)
        /\ KeepingToPoint(p, point) \in Positioning
        /\ SamePlace(KeepingToPoint(p, point), p)
        /\ KeepingToPoint(p, point).vector = Minus(UpToDate(p).toPoint, point)
        /\ Invalid(p) \in Positioning
        /\ SamePlace(Invalid(p), p)
        /\ Invalid(p).vector = p.vector
  <2> TAKE p \in Positioning
  <2>1. \A v \in Point : /\ SamePlace(WithVector(p, v), p)
                         /\ WithVector(p, v).vector = v
    <3> TAKE v \in Point
    <3>1. WithVector(p, v) = [p EXCEPT !.vector = v, !.toPoint = None]
      BY OneVector
    <3> QED
      BY <3>1 DEF SamePlace, Positioning
  <2>2. Minus(point, p.fromPoint) \in Point /\ Minus(UpToDate(p).toPoint, point) \in Point
    BY PointArithmetic, OnePositioning DEF Positioning
  <2>3. /\ WithToPoint(p, point) = WithVector(p, Minus(point, p.fromPoint))
        /\ KeepingToPoint(p, point) = WithVector(p, Minus(UpToDate(p).toPoint, point))
        /\ WithToPoint(p, point) \in Positioning
        /\ KeepingToPoint(p, point) \in Positioning
    BY OneVector
  <2>4. Invalid(p) \in Positioning /\ SamePlace(Invalid(p), p) /\ Invalid(p).vector = p.vector
    BY OnePositioning DEF SamePlace, SameDefinition
  <2> QED
    BY <2>1, <2>2, <2>3, <2>4
<1>2. /\ moved \in [1 .. n -> Positioning]
      /\ moved[i] = WithToPoint(l[i], point)
      /\ \A j \in 1 .. n : j # i => moved[j] = l[j]
  BY <1>1
<1>3. moved[i].dependents = l[i].dependents
  BY <1>1, <1>2 DEF SamePlace
<1>4. ToPointSet(l, i, point, move) = [j \in 1 .. n |-> set(j)]
  BY <1>2, <1>3 DEF ToPointSet
<1> HIDE DEF moved
<1>5. \A j \in 1 .. n : set(j) \in Positioning /\ SamePlace(set(j), l[j])
  <2> TAKE j \in 1 .. n
  <2>1. SamePlace(moved[j], l[j])
    BY <1>1, <1>2 DEF SamePlace
  <2>2. set(j) \in Positioning /\ SamePlace(set(j), moved[j])
    BY <1>1, <1>2 DEF SamePlace
  <2> HIDE DEF set
  <2> QED
    BY <2>1, <2>2 DEF SamePlace
<1>6. i \notin l[i].dependents => set(i).vector = Minus(point, l[i].fromPoint)
  BY <1>1, <1>2
<1>7. \A j \in 1 .. n : j # i =>
        IF j \notin l[i].dependents THEN set(j) = l[j]
        ELSE set(j).vector = IF move THEN l[j].vector ELSE Minus(UpToDate(l[j]).toPoint, point)
  BY <1>1, <1>2
<1> HIDE DEF set
<1> QED
  BY <1>4, <1>5, <1>6, <1>7

\* SetToPoint gives a positioning that does not depend on itself the vector to the point.
LEMMA SetOwn ==
    ASSUME NEW n \in Nat, NEW l \in [1 .. n -> Positioning], NEW i \in 1 .. n,
           NEW point \in Point, i \notin l[i].dependents
    PROVE  ToPointSet(l, i, point, FALSE)[i].vector = Minus(point, l[i].fromPoint)
<1>1. \A move \in BOOLEAN :
        ToPointSet(l, i, point, move)[i].vector = Minus(point, l[i].fromPoint)
  BY SetOne
<1> QED
  BY <1>1

\* The list after each step of the loop.
LoopOf(list, s, point, move, step) ==
    /\ step \in [0 .. Len(list) -> [1 .. Len(list) -> Positioning]]
    /\ step[0] = list
    /\ \A k \in 1 .. Len(list) :
          step[k] = IF list[k].to = s THEN ToPointSet(step[k - 1], k, point, move)
                    ELSE step[k - 1]

LEMMA LoopSteps ==
    ASSUME NEW list \in Seq(Positioning), NEW s, NEW point \in Point, NEW move \in BOOLEAN
    PROVE  \E step : /\ LoopOf(list, s, point, move, step)
                     /\ AllSetTo(list, s, point, move) = step[Len(list)]
<1> DEFINE n == Len(list)
           X == [1 .. n -> Positioning]
           after(l, k) == IF list[k].to = s THEN ToPointSet(l, k, point, move) ELSE l
           R(f) == f = [k \in 0 .. Len(list) |->
                          IF k = 0 THEN list
                          ELSE IF list[k].to = s THEN ToPointSet(f[k - 1], k, point, move)
                          ELSE f[k - 1]]
           S == CHOOSE f : R(f)
<1>1. n \in Nat /\ list \in X
  BY SequenceIsFunction
<1>2. \A k \in 1 .. n : \A l \in X : after(l, k) \in X
  <2> TAKE k \in 1 .. n
  <2> TAKE l \in X
  <2>1. ToPointSet(l, k, point, move) \in X
    BY <1>1, SetOne
  <2> QED
    BY <2>1
<1>3. PICK f : /\ f \in [0 .. n -> X]
               /\ f[0] = list
               /\ \A k \in 1 .. n : f[k] = after(f[k - 1], k)
  <2> DEFINE g == [k \in 1 .. n |-> [l \in X |-> after(l, k)]]
  <2> HIDE DEF after, X, n
  <2>1. g \in [1 .. n -> [X -> X]]
    BY <1>2
  <2>2. \A k \in 1 .. n : \A l \in X : g[k][l] = after(l, k)
    OBVIOUS
  <2>3. StepsOn(X, n, g)
    BY <2>1 DEF StepsOn
  <2> HIDE DEF g
  <2>4. PICK f : Iterated(X, n, list, g, f)
    BY <1>1, <2>3, Iteration
  <2>5. /\ f \in [0 .. n -> X] /\ f[0] = list
        /\ \A k \in 1 .. n : f[k] = g[k][f[k - 1]]
    BY <2>4 DEF Iterated
  <2>6. \A k \in 1 .. n : f[k - 1] \in X
    BY <1>1, <2>5
  <2>7. \A k \in 1 .. n : f[k] = after(f[k - 1], k)
    BY <2>2, <2>5, <2>6
  <2> QED
    BY <2>5, <2>7
<1>4. R(f)
  BY <1>1, <1>3
<1>5. R(S)
  <2> HIDE DEF R
  <2> QED
    BY <1>4
<1>6. AllSetTo(list, s, point, move) = S[n]
  BY DEF AllSetTo
<1>7. /\ S = [k \in 0 .. n |-> S[k]]
      /\ S[0] = list
      /\ \A k \in 1 .. n : S[k] = after(S[k - 1], k)
  <2> HIDE DEF S
  <2> QED
    BY <1>1, <1>5
<1>8. \A k \in 0 .. n : S[k] \in X
  <2> DEFINE Good == {k \in 0 .. n : S[k] \in X}
  <2> HIDE DEF S, X, n, after
  <2>1. 0 \in Good
    BY <1>1, <1>7
  <2>2. \A k \in 1 .. n : k - 1 \in Good => k \in Good
    BY <1>1, <1>2, <1>7
  <2> HIDE DEF Good
  <2>3. Good \in SUBSET (0 .. n)
    BY DEF Good
  <2>4. \A k \in 0 .. n : k \in Good
    BY <1>1, <2>1, <2>2, <2>3, AllSteps
  <2> QED
    BY <2>4 DEF Good
<1>9. LoopOf(list, s, point, move, S)
  <2> HIDE DEF S
  <2> QED
    BY <1>7, <1>8 DEF LoopOf
<1> QED
  BY <1>6, <1>9

\* The loop keeps everything but vectors and end points.
LEMMA LoopKeeps ==
    ASSUME NEW list \in Seq(Positioning), NEW s, NEW point \in Point, NEW move \in BOOLEAN,
           NEW step, LoopOf(list, s, point, move, step)
    PROVE  \A k \in 0 .. Len(list) : \A i \in 1 .. Len(list) : SamePlace(step[k][i], list[i])
<1> DEFINE n == Len(list)
           Good == {k \in 0 .. n : \A i \in 1 .. n : SamePlace(step[k][i], list[i])}
<1>1. n \in Nat
  BY SequenceIsFunction
<1>2. 0 \in Good
  BY <1>1 DEF LoopOf, SamePlace
<1>3. \A k \in 1 .. n : k - 1 \in Good => k \in Good
  <2> TAKE k \in 1 .. n
  <2> HAVE k - 1 \in Good
  <2>1. k - 1 \in 0 .. n /\ step[k - 1] \in [1 .. n -> Positioning]
    BY <1>1 DEF LoopOf
  <2>2. \A i \in 1 .. n : SamePlace(ToPointSet(step[k - 1], k, point, move)[i], step[k - 1][i])
    BY <1>1, <2>1, SetOne
  <2>3. \A i \in 1 .. n : SamePlace(step[k][i], list[i])
    <3> TAKE i \in 1 .. n
    <3>1. SamePlace(step[k - 1][i], list[i])
      OBVIOUS
    <3>2. CASE list[k].to = s
      BY <2>2, <3>1, <3>2 DEF LoopOf, SamePlace
    <3>3. CASE list[k].to # s
      BY <3>1, <3>3 DEF LoopOf
    <3> QED
      BY <3>2, <3>3
  <2> QED
    BY <2>3
<1> HIDE DEF Good, n
<1>4. Good \in SUBSET (0 .. n)
  BY DEF Good
<1>5. \A k \in 0 .. n : k \in Good
  BY <1>1, <1>2, <1>3, <1>4, AllSteps
<1> QED
  BY <1>5 DEF Good, n

\* A list as an update leaves it, whatever was read since.
Current(list) ==
    /\ list \in Seq(Positioning)
    /\ Unknown(list) = {}
    /\ \A i \in DOMAIN list :
          /\ list[i].dependents = Dependents(list, i)
          /\ StartPoints(list)[i] \in {None, list[i].fromPoint}
          /\ Valid(list[i]) => list[i].toPoint = Plus(list[i].fromPoint, list[i].vector)

\* The dependents of a positioning are those that start at its end, if it is the
\* first that ends there; nothing that has a start point depends on itself.
LEMMA CurrentDependents ==
    ASSUME NEW list, Current(list), NEW f \in DOMAIN list
    PROVE  /\ \A j : j \in list[f].dependents <=>
                        j \in DOMAIN list /\ list[j].from # None /\ f \in FirstTo(list, list[j].from)
           /\ StartPoints(list)[f] # None => f \notin list[f].dependents
<1>1. list \in Seq(Positioning)
  BY DEF Current
<1>2. \A j : j \in list[f].dependents <=>
                j \in DOMAIN list /\ list[j].from # None /\ f \in FirstTo(list, list[j].from)
  BY DEF Current, Dependents, Linked
<1>3. PICK depth : Depth(list, depth)
  BY <1>1, StartPointsFollow
<1>4. ASSUME StartPoints(list)[f] # None, f \in list[f].dependents
      PROVE  FALSE
  <2>1. depth[f] < depth[f] /\ depth[f] \in Nat
    BY <1>2, <1>3, <1>4 DEF Depth
  <2> QED
    BY <2>1
<1> QED
  BY <1>2, <1>4

\* What the loop does to the vectors: the first positioning to s gets the one to the
\* wanted point, and each that starts there keeps its end unless it is to move along.
VectorsMoved(list, s, point, move, f, m) ==
    /\ m[f].vector = Minus(point, list[f].fromPoint)
    /\ \A j \in DOMAIN list : list[j].to # s =>
          m[j].vector = IF j \in list[f].dependents /\ ~move
                        THEN Minus(Plus(list[j].fromPoint, list[j].vector), point)
                        ELSE list[j].vector

LEMMA LoopMoves ==
    ASSUME NEW list, Current(list), NEW s, NEW point \in Point, NEW move \in BOOLEAN,
           NEW f \in FirstTo(list, s), StartPoints(list)[f] # None,
           NEW step, LoopOf(list, s, point, move, step)
    PROVE  VectorsMoved(list, s, point, move, f, step[Len(list)])
<1> DEFINE n == Len(list)
           P(k) == IF k < f THEN step[k] = list ELSE VectorsMoved(list, s, point, move, f, step[k])
           Good == {k \in 0 .. n : P(k)}
<1>1. list \in Seq(Positioning) /\ n \in Nat /\ DOMAIN list = 1 .. n
      /\ list \in [1 .. n -> Positioning]
  BY SequenceIsFunction DEF Current
<1>2. f \in 1 .. n /\ list[f].to = s /\ \A k \in 1 .. f - 1 : list[k].to # s
  BY <1>1 DEF FirstTo
<1>3. 0 \in Good
  BY <1>1, <1>2 DEF LoopOf
<1>4. \A k \in 1 .. n : k - 1 \in Good => k \in Good
  <2> TAKE k \in 1 .. n
  <2> HAVE k - 1 \in Good
  <2> DEFINE l == step[k - 1]
             set == ToPointSet(l, k, point, move)
  <2>1. k - 1 \in 0 .. n /\ l \in [1 .. n -> Positioning]
    BY <1>1 DEF LoopOf
  <2>2. step[k] = IF list[k].to = s THEN set ELSE l
    BY DEF LoopOf
  <2>3. P(k - 1)
    OBVIOUS
  <2>4. CASE k < f
    <3>1. list[k].to # s /\ k - 1 < f
      BY <1>1, <1>2, <2>4
    <3> QED
      BY <2>2, <2>3, <2>4, <3>1
  <2>5. CASE k = f
    <3>1. l = list
      BY <1>1, <1>2, <2>3, <2>5
    <3>2. f \notin list[f].dependents
      BY <1>1, <1>2, CurrentDependents
    <3>3. \A j \in 1 .. n : UpToDate(list[j]).toPoint = Plus(list[j].fromPoint, list[j].vector)
      BY <1>1, OnePositioning DEF Current
    <3>4. /\ set[f].vector = Minus(point, list[f].fromPoint)
          /\ \A j \in 1 .. n : j # f =>
                IF j \notin list[f].dependents THEN set[j] = list[j]
                ELSE set[j].vector =
                       IF move THEN list[j].vector ELSE Minus(UpToDate(list[j]).toPoint, point)
      BY <1>1, <1>2, <2>5, <3>1, <3>2, SetOne
    <3>5. step[k] = set
      BY <1>2, <2>2, <2>5
    <3> HIDE DEF set, l
    <3>6. ASSUME NEW j \in 1 .. n, list[j].to # s
          PROVE  set[j].vector = IF j \in list[f].dependents /\ ~move
                                 THEN Minus(Plus(list[j].fromPoint, list[j].vector), point)
                                 ELSE list[j].vector
      <4>1. j # f
        BY <1>2, <3>6
      <4> QED
        BY <3>3, <3>4, <4>1
    <3>7. VectorsMoved(list, s, point, move, f, set)
      BY <1>1, <3>4, <3>6 DEF VectorsMoved
    <3> QED
      BY <1>1, <2>5, <3>5, <3>7
  <2>6. CASE k > f
    <3>1. VectorsMoved(list, s, point, move, f, l)
      BY <1>1, <1>2, <2>3, <2>6
    <3>2. CASE list[k].to # s
      BY <1>1, <1>2, <2>2, <2>6, <3>1, <3>2
    <3>3. CASE list[k].to = s
      <4>1. list[k].dependents = {}
        <5>1. \A t : k \notin FirstTo(list, t)
          BY <1>1, <1>2, <2>6, <3>3 DEF FirstTo
        <5> QED
          BY <1>1, <5>1, CurrentDependents
      <4>2. l[k].dependents = {}
        <5>1. \A m \in 0 .. n : \A i \in 1 .. n : SamePlace(step[m][i], list[i])
          BY <1>1, LoopKeeps
        <5> QED
          BY <2>1, <4>1, <5>1 DEF SamePlace
      <4>3. \A j \in 1 .. n : j # k => set[j] = l[j]
        <5> HIDE DEF l
        <5>1. \A j \in 1 .. n : j # k =>
                IF j \notin l[k].dependents THEN set[j] = l[j]
                ELSE set[j].vector = IF move THEN l[j].vector ELSE Minus(UpToDate(l[j]).toPoint, point)
          <6> HIDE DEF n
          <6> QED
            BY <1>1, <2>1, SetOne
        <5> QED
          BY <4>2, <5>1
      <4>4. step[k] = set
        BY <2>2, <3>3
      <4> HIDE DEF set, l
      <4>5. VectorsMoved(list, s, point, move, f, set)
        BY <1>1, <1>2, <2>6, <3>1, <3>3, <4>3 DEF VectorsMoved
      <4> QED
        BY <1>1, <1>2, <2>6, <4>4, <4>5
    <3> QED
      BY <3>2, <3>3
  <2> QED
    BY <1>1, <1>2, <2>4, <2>5, <2>6
<1> HIDE DEF Good, n, P
<1>5. Good \in SUBSET (0 .. n)
  BY DEF Good
<1>6. \A k \in 0 .. n : k \in Good
  BY <1>1, <1>3, <1>4, <1>5, AllSteps
<1>7. P(n) /\ ~(n < f)
  BY <1>1, <1>2, <1>6 DEF Good
<1> QED
  BY <1>7 DEF P, n

\* A new positioning is one; it starts at the origin.
LEMMA NewIsPositioning ==
    ASSUME NEW from \in Section \cup {None}, NEW to \in Section, NEW vector \in Point
    PROVE  /\ NewPositioning(from, to, vector) \in Positioning
           /\ NewPositioning(from, to, vector).from = from
           /\ NewPositioning(from, to, vector).to = to
           /\ NewPositioning(from, to, vector).vector = vector
           /\ NewPositioning(from, to, vector).fromPoint = Origin
           /\ NewPositioning(from, to, vector).toPoint = None
           /\ NewPositioning(from, to, vector).dependents = {}
  BY PointArithmetic DEF NewPositioning, Positioning

\* Placing a section that a positioning ends at is the loop.
LEMMA PlacedExisting ==
    ASSUME NEW list \in Seq(Positioning), NEW s \in Section, NEW point \in Point,
           NEW move \in BOOLEAN, \E i \in DOMAIN list : list[i].to = s
    PROVE  LET placed == Placed(list, s, point, move)
           IN /\ placed \in Seq(Positioning) /\ Len(placed) = Len(list)
              /\ SameLinks(list, placed)
              /\ \A i \in DOMAIN placed : placed[i].toPoint = None
              /\ \E step : /\ LoopOf(list, s, point, move, step)
                           /\ \A i \in DOMAIN list :
                                 placed[i].vector = step[Len(list)][i].vector
<1> DEFINE n == Len(list)
           placed == Placed(list, s, point, move)
<1>1. n \in Nat /\ DOMAIN list = 1 .. n
  BY SequenceIsFunction
<1>2. PICK step : LoopOf(list, s, point, move, step) /\ AllSetTo(list, s, point, move) = step[n]
  BY LoopSteps
<1>3. step[n] \in [1 .. n -> Positioning] /\ \A i \in 1 .. n : SamePlace(step[n][i], list[i])
  <2>1. n \in 0 .. n
    BY <1>1
  <2>2. \A k \in 0 .. n : \A i \in 1 .. n : SamePlace(step[k][i], list[i])
    BY <1>2, LoopKeeps
  <2> QED
    BY <1>2, <2>1, <2>2 DEF LoopOf
<1>4. placed = [i \in 1 .. n |-> Invalid(step[n][i])]
  BY <1>2, <1>3 DEF Placed
<1> HIDE DEF placed
<1>5. \A i \in 1 .. n : /\ placed[i] \in Positioning
                        /\ SameDefinition(placed[i], step[n][i])
                        /\ placed[i].toPoint = None
  BY <1>3, <1>4, OnePositioning
<1>6. placed \in [1 .. n -> Positioning]
  BY <1>4, <1>5
<1>7. placed \in Seq(Positioning) /\ Len(placed) = n
  BY <1>1, <1>6, FunctionIsSequence
<1>8. SameLinks(list, placed)
  BY <1>1, <1>3, <1>5, <1>7 DEF SameLinks, SamePlace, SameDefinition
<1> QED
  BY <1>1, <1>2, <1>5, <1>6, <1>7, <1>8 DEF SameDefinition, placed

\* Placing a section that none ends at adds a positioning from the origin.
LEMMA PlacedNew ==
    ASSUME NEW list \in Seq(Positioning), NEW s \in Section, NEW point \in Point,
           NEW move \in BOOLEAN, \A i \in DOMAIN list : list[i].to # s
    PROVE  LET placed == Placed(list, s, point, move)
               n == Len(list)
           IN /\ placed \in Seq(Positioning) /\ Len(placed) = n + 1
              /\ SameLinks(list, placed)
              /\ \A i \in DOMAIN placed : placed[i].toPoint = None
              /\ \A i \in DOMAIN list : placed[i].vector = list[i].vector
              /\ placed[n + 1].from = None /\ placed[n + 1].to = s
              /\ placed[n + 1].vector = Minus(point, Origin)
<1> DEFINE n == Len(list)
           placed == Placed(list, s, point, move)
           first == NewPositioning(None, s, Origin)
           new == WithToPoint(first, point)
           more == Append(list, new)
<1>1. n \in Nat /\ DOMAIN list = 1 .. n
  BY SequenceIsFunction
<1>2. /\ first \in Positioning /\ first.from = None /\ first.to = s
      /\ first.fromPoint = Origin /\ first.dependents = {}
  BY PointArithmetic, NewIsPositioning
<1> HIDE DEF first
<1>3. /\ new \in Positioning /\ new.from = None /\ new.to = s
      /\ new.vector = Minus(point, Origin)
  <2>1. /\ new \in Positioning
        /\ new = [first EXCEPT !.vector = Minus(point, Origin), !.toPoint = None]
    <3>1. Minus(point, Origin) \in Point
      BY PointArithmetic
    <3>2. WithToPoint(first, point) = WithVector(first, Minus(point, Origin))
      BY <1>2, OneVector
    <3> QED
      BY <1>2, <3>1, <3>2, OneVector
  <2> QED
    BY <1>2, <2>1 DEF Positioning
<1> HIDE DEF new
<1>4. /\ more \in Seq(Positioning) /\ Len(more) = n + 1
      /\ DOMAIN more = 1 .. n + 1
      /\ \A i \in 1 .. n : more[i] = list[i]
      /\ more[n + 1] = new
  BY <1>1, <1>3, AppendProperties, SequenceIsFunction
<1>5. placed = [i \in 1 .. n + 1 |-> Invalid(more[i])]
  <2>1. placed = [i \in DOMAIN more |-> Invalid(more[i])]
    BY DEF Placed, new, first
  <2> QED
    BY <1>4, <2>1
<1> HIDE DEF placed, more
<1>6. \A i \in 1 .. n + 1 : more[i] \in Positioning
  BY <1>4, SequenceIsFunction
<1>7. \A i \in 1 .. n + 1 : /\ placed[i] \in Positioning
                            /\ SameDefinition(placed[i], more[i])
                            /\ placed[i].toPoint = None
  BY <1>5, <1>6, OnePositioning
<1>8. placed \in [1 .. n + 1 -> Positioning]
  BY <1>5, <1>7
<1>9. placed \in Seq(Positioning) /\ Len(placed) = n + 1 /\ DOMAIN placed = 1 .. n + 1
  BY <1>1, <1>8, FunctionIsSequence
<1>10. \A i \in 1 .. n : SameDefinition(placed[i], list[i])
  BY <1>1, <1>4, <1>7 DEF SameDefinition
<1>11. SameLinks(list, placed)
  BY <1>1, <1>9, <1>10 DEF SameLinks, SameDefinition
<1>12. n + 1 \in 1 .. n + 1
  BY <1>1
<1> QED
  BY <1>1, <1>3, <1>4, <1>7, <1>9, <1>10, <1>11, <1>12 DEF SameDefinition, placed, n

\* Where the definitions put a section, by the first positioning that ends there.
LEMMA DefinedPosition ==
    ASSUME NEW list \in Seq(Positioning), NEW s \in Section
    PROVE  /\ FirstTo(list, s) = {} => DefinedPositions(list)[s] = Origin
           /\ \A j \in FirstTo(list, s) :
                 DefinedPositions(list)[s] =
                    IF StartPoints(list)[j] = None THEN None
                    ELSE Plus(StartPoints(list)[j], list[j].vector)
<1> DEFINE start == StartPoints(list)
           end == [i \in DOMAIN list |-> IF start[i] = None THEN None
                                         ELSE Plus(start[i], list[i].vector)]
           value(t) == IF FirstTo(list, t) = {} THEN Origin
                       ELSE end[CHOOSE i \in FirstTo(list, t) : TRUE]
<1>1. DefinedPositions(list) = [t \in Section |-> value(t)]
  BY DEF DefinedPositions
<1>2. DefinedPositions(list)[s] = value(s)
  <2> HIDE DEF value
  <2> QED
    BY <1>1
<1>3. ASSUME NEW j \in FirstTo(list, s)
      PROVE  value(s) = IF start[j] = None THEN None ELSE Plus(start[j], list[j].vector)
  <2>1. FirstTo(list, s) = {j} /\ j \in DOMAIN list
    BY FirstToIsFirst
  <2>2. (CHOOSE i \in FirstTo(list, s) : TRUE) = j
    BY <2>1
  <2>3. end[j] = IF start[j] = None THEN None ELSE Plus(start[j], list[j].vector)
    BY <2>1
  <2> HIDE DEF end
  <2> QED
    BY <2>1, <2>2, <2>3
<1> QED
  BY <1>2, <1>3

\* Positions of sections are compared one by one.
LEMMA PositionsEqual ==
    ASSUME NEW list, NEW list2, NEW s \in Section, NEW point,
           DefinedPositions(list2)[s] = point,
           \A t \in Section \ {s} : DefinedPositions(list2)[t] = DefinedPositions(list)[t]
    PROVE  DefinedPositions(list2) = [DefinedPositions(list) EXCEPT ![s] = point]
<1>1. /\ DefinedPositions(list) = [t \in Section |-> DefinedPositions(list)[t]]
      /\ DefinedPositions(list2) = [t \in Section |-> DefinedPositions(list2)[t]]
  BY DEF DefinedPositions
<1> QED
  BY <1>1

\* A section that no positioning ends at gets one and no other section moves.
LEMMA MoveUnplaced ==
    ASSUME NEW list, Current(list), NEW s \in Section, NEW point \in Point,
           NEW move \in BOOLEAN, \A i \in DOMAIN list : list[i].to # s
    PROVE  DefinedPositions(Placed(list, s, point, move)) =
              [DefinedPositions(list) EXCEPT ![s] = point]
<1> DEFINE n == Len(list)
           m == Placed(list, s, point, move)
<1>1. list \in Seq(Positioning) /\ n \in Nat /\ DOMAIN list = 1 .. n
  BY SequenceIsFunction DEF Current
<1>2. /\ m \in Seq(Positioning) /\ Len(m) = n + 1
      /\ SameLinks(list, m)
      /\ \A i \in DOMAIN list : m[i].vector = list[i].vector
      /\ m[n + 1].from = None /\ m[n + 1].to = s
      /\ m[n + 1].vector = Minus(point, Origin)
  BY <1>1, PlacedNew
<1> HIDE DEF m, n
<1>3. DOMAIN m = 1 .. n + 1 /\ n + 1 \in 1 .. n + 1
  BY <1>1, <1>2, SequenceIsFunction
<1>4. /\ StepOf(list, StartPoints(list), StartPoints(list))
      /\ StepOf(m, StartPoints(m), StartPoints(m))
  BY <1>1, <1>2, StartPointsFollow
<1>5. \A i \in DOMAIN list : StartPoints(m)[i] = StartPoints(list)[i]
  <2> DEFINE q == StartPoints(list)
             R == {i \in DOMAIN list : q[i] # None}
  <2>1. StartsAlong(list, m, R, q)
    <3> SUFFICES ASSUME NEW i \in R
                 PROVE  /\ list[i].from = None => q[i] = Origin
                        /\ list[i].from # None =>
                              \A j \in FirstTo(list, list[i].from) :
                                 j \in R /\ q[i] = Plus(q[j], m[j].vector)
      BY DEF StartsAlong
    <3>1. list[i].from = None => q[i] = Origin
      BY <1>4 DEF StepOf
    <3>2. ASSUME list[i].from # None, NEW j \in FirstTo(list, list[i].from)
          PROVE  j \in R /\ q[i] = Plus(q[j], m[j].vector)
      <4>1. q[j] # None /\ q[i] = Plus(q[j], list[j].vector)
        BY <1>4, <3>2 DEF StepOf
      <4>2. j \in DOMAIN list
        BY <1>1, FirstToIsFirst
      <4> QED
        BY <1>2, <4>1, <4>2
    <3> QED
      BY <3>1, <3>2
  <2> HIDE DEF q, R
  <2>2. \A i \in R : StartPoints(m)[i] = q[i]
    BY <1>1, <1>2, <2>1, StartsAs
  <2>3. \A i \in DOMAIN list : StartPoints(m)[i] # None => StartPoints(list)[i] # None
    BY <1>1, <1>2, ReachedAlike DEF Current
  <2> QED
    BY <2>2, <2>3 DEF q, R
<1>6. DefinedPositions(m)[s] = point
  <2>1. n + 1 \in FirstTo(m, s)
    <3>1. \A j \in 1 .. n : m[j].to # s
      BY <1>1, <1>2 DEF SameLinks
    <3>2. \A j \in 1 .. (n + 1) - 1 : m[j].to # s
      BY <1>1, <3>1
    <3> QED
      BY <1>2, <1>3, <3>2 DEF FirstTo
  <2>2. StartPoints(m)[n + 1] = Origin
    BY <1>2, <1>3, <1>4 DEF StepOf
  <2> QED
    BY <1>2, <2>1, <2>2, DefinedPosition, PointArithmetic
<1>7. ASSUME NEW t \in Section \ {s}
      PROVE  DefinedPositions(m)[t] = DefinedPositions(list)[t]
  <2>1. CASE FirstTo(list, t) = {}
    <3>1. \A j \in 1 .. n : m[j].to # t
      BY <1>1, <1>2, <2>1, FirstToIsFirst DEF SameLinks
    <3>2. FirstTo(m, t) = {}
      BY <1>1, <1>2, <1>3, <1>7, <3>1 DEF FirstTo
    <3> QED
      BY <1>1, <1>2, <2>1, <3>2, DefinedPosition
  <2>2. CASE FirstTo(list, t) # {}
    <3>1. PICK k \in FirstTo(list, t) : k \in FirstTo(m, t)
      BY <1>1, <1>2, <2>2, FirstToSame
    <3>2. k \in DOMAIN list
      BY <1>1, FirstToIsFirst
    <3>3. StartPoints(m)[k] = StartPoints(list)[k] /\ m[k].vector = list[k].vector
      BY <1>2, <1>5, <3>2
    <3>4. DefinedPositions(m)[t] = IF StartPoints(m)[k] = None THEN None
                                   ELSE Plus(StartPoints(m)[k], m[k].vector)
      BY <1>2, <3>1, DefinedPosition
    <3>5. DefinedPositions(list)[t] = IF StartPoints(list)[k] = None THEN None
                                      ELSE Plus(StartPoints(list)[k], list[k].vector)
      BY <1>1, <3>1, DefinedPosition
    <3> QED
      BY <3>3, <3>4, <3>5
  <2> QED
    BY <2>1, <2>2
<1>8. DefinedPositions(m) = [DefinedPositions(list) EXCEPT ![s] = point]
  BY <1>6, <1>7, PositionsEqual
<1> QED
  BY <1>8 DEF m

\* A section that is placed, with its first positioning f: without the dependents
\* it alone moves, with them it gets where it was asked to be.
LEMMA MovePlaced ==
    ASSUME NEW list, Current(list), NEW s \in Section, NEW point \in Point,
           NEW move \in BOOLEAN, NEW f \in FirstTo(list, s), StartPoints(list)[f] # None
    PROVE  LET m == Placed(list, s, point, move)
           IN /\ DefinedPositions(m)[s] = point
              /\ ~move => DefinedPositions(m) = [DefinedPositions(list) EXCEPT ![s] = point]
              /\ move => \A i \in DOMAIN list : list[i].to # s => m[i].vector = list[i].vector
<1> DEFINE n == Len(list)
           m == Placed(list, s, point, move)
           q == StartPoints(list)
           deps == list[f].dependents
<1>1. list \in Seq(Positioning) /\ n \in Nat /\ DOMAIN list = 1 .. n
  BY SequenceIsFunction DEF Current
<1>2. f \in DOMAIN list /\ list[f].to = s /\ \A i \in FirstTo(list, s) : i = f
  BY <1>1, FirstToIsFirst
<1>3. /\ m \in Seq(Positioning) /\ Len(m) = n
      /\ SameLinks(list, m)
      /\ \E step : /\ LoopOf(list, s, point, move, step)
                   /\ \A i \in DOMAIN list : m[i].vector = step[n][i].vector
  BY <1>1, <1>2, PlacedExisting
<1>4. /\ m[f].vector = Minus(point, list[f].fromPoint)
      /\ \A j \in DOMAIN list : list[j].to # s =>
            m[j].vector = IF j \in deps /\ ~move
                          THEN Minus(Plus(list[j].fromPoint, list[j].vector), point)
                          ELSE list[j].vector
  <2>1. PICK step : /\ LoopOf(list, s, point, move, step)
                    /\ \A i \in DOMAIN list : m[i].vector = step[n][i].vector
    BY <1>3
  <2>2. VectorsMoved(list, s, point, move, f, step[n])
    BY <2>1, LoopMoves
  <2> HIDE DEF m
  <2> QED
    BY <1>2, <2>1, <2>2 DEF VectorsMoved
<1> HIDE DEF m, n
<1>5. StepOf(list, q, q) /\ StepOf(m, StartPoints(m), StartPoints(m))
  BY <1>1, <1>3, StartPointsFollow
<1>6. /\ \A j : j \in deps <=> /\ j \in DOMAIN list
                               /\ list[j].from # None
                               /\ f \in FirstTo(list, list[j].from)
      /\ f \notin deps
  BY <1>2, CurrentDependents
<1>7. \A i \in DOMAIN list : q[i] # None => /\ q[i] = list[i].fromPoint
                                            /\ q[i] \in Point
                                            /\ list[i].vector \in Point
                                            /\ Plus(q[i], list[i].vector) \in Point
  <2> TAKE i \in DOMAIN list
  <2> HAVE q[i] # None
  <2>1. q[i] = list[i].fromPoint
    BY DEF Current
  <2>2. list[i] \in Positioning
    BY <1>1, SequenceIsFunction
  <2>3. list[i].fromPoint \in Point /\ list[i].vector \in Point
    BY <2>2 DEF Positioning
  <2> QED
    BY <2>1, <2>3, PointArithmetic
<1> HIDE DEF q, deps
<1>8. Plus(q[f], m[f].vector) = point
  BY <1>2, <1>4, <1>7, PointArithmetic DEF q
<1>9. \A s1 : FirstTo(m, s1) = FirstTo(list, s1)
  BY <1>1, <1>3, FirstToSame DEF n
<1>10. ASSUME StartPoints(m)[f] = q[f]
       PROVE  DefinedPositions(m)[s] = point
  <2>1. f \in FirstTo(m, s) /\ StartPoints(m)[f] # None
    BY <1>9, <1>10 DEF q
  <2> QED
    BY <1>3, <1>8, <1>10, <2>1, DefinedPosition
<1>11. CASE move
  <2>1. PICK depth : Depth(list, depth)
    BY <1>1, StartPointsFollow
  <2> DEFINE R == {i \in DOMAIN list : q[i] # None /\ depth[i] <= depth[f]}
  <2>2. StartsAlong(list, m, R, q)
    <3> SUFFICES ASSUME NEW i \in R
                 PROVE  /\ list[i].from = None => q[i] = Origin
                        /\ list[i].from # None =>
                              \A j \in FirstTo(list, list[i].from) :
                                 j \in R /\ q[i] = Plus(q[j], m[j].vector)
      BY DEF StartsAlong, q
    <3>1. list[i].from = None => q[i] = Origin
      BY <1>5 DEF StepOf
    <3>2. ASSUME list[i].from # None, NEW j \in FirstTo(list, list[i].from)
          PROVE  j \in R /\ q[i] = Plus(q[j], m[j].vector)
      <4>1. q[j] # None /\ q[i] = Plus(q[j], list[j].vector)
        BY <1>5, <3>2 DEF StepOf
      <4>2. j \in DOMAIN list /\ list[j].to = list[i].from
        BY <1>1, FirstToIsFirst
      <4>3. depth[j] < depth[i] /\ depth[j] \in Nat /\ depth[i] \in Nat /\ depth[f] \in Nat
        BY <1>2, <2>1, <3>2, <4>2 DEF Depth, q
      <4>4. depth[j] < depth[f]
        BY <4>3
      <4>5. j # f
        BY <4>3, <4>4
      <4>6. list[j].to # s
        BY <1>2, <3>2, <4>2, <4>5
      <4>7. m[j].vector = list[j].vector
        BY <1>4, <1>11, <4>2, <4>6
      <4> QED
        BY <4>1, <4>2, <4>3, <4>4, <4>7
    <3> QED
      BY <3>1, <3>2
  <2>3. f \in R
    BY <1>2, <2>1 DEF Depth, q
  <2> HIDE DEF R
  <2>4. StartPoints(m)[f] = q[f]
    BY <1>1, <1>3, <2>2, <2>3, StartsAs
  <2>5. \A i \in DOMAIN list : list[i].to # s => m[i].vector = list[i].vector
    BY <1>4, <1>11
  <2> QED
    BY <1>10, <1>11, <2>4, <2>5 DEF m
<1>12. CASE ~move
  <2> DEFINE R == {i \in DOMAIN list : q[i] # None}
             p == [i \in DOMAIN list |-> IF i \in deps THEN point ELSE q[i]]
  <2>1. ASSUME NEW j \in R, list[j].to # s
        PROVE  Plus(p[j], m[j].vector) = Plus(q[j], list[j].vector)
    <3>1. CASE j \in deps
      <4>1. m[j].vector = Minus(Plus(q[j], list[j].vector), point)
        BY <1>4, <1>7, <1>12, <2>1, <3>1
      <4>2. Plus(q[j], list[j].vector) \in Point
        BY <1>7
      <4> QED
        BY <3>1, <4>1, <4>2, PointArithmetic
    <3>2. CASE j \notin deps
      BY <1>4, <2>1, <3>2
    <3> QED
      BY <3>1, <3>2
  <2>2. p[f] = q[f]
    BY <1>2, <1>6
  <2>3. StartsAlong(list, m, R, p)
    <3> SUFFICES ASSUME NEW i \in R
                 PROVE  /\ p[i] # None
                        /\ list[i].from = None => p[i] = Origin
                        /\ list[i].from # None =>
                              \A j \in FirstTo(list, list[i].from) :
                                 j \in R /\ p[i] = Plus(p[j], m[j].vector)
      BY DEF StartsAlong, q
    <3>1. p[i] # None
      BY PointArithmetic
    <3>2. list[i].from = None => p[i] = Origin
      BY <1>5, <1>6 DEF StepOf
    <3>3. ASSUME list[i].from # None, NEW j \in FirstTo(list, list[i].from)
          PROVE  j \in R /\ p[i] = Plus(p[j], m[j].vector)
      <4>1. q[j] # None /\ q[i] = Plus(q[j], list[j].vector)
        BY <1>5, <3>3 DEF StepOf
      <4>2. j \in R /\ list[j].to = list[i].from
        BY <1>1, <4>1, FirstToIsFirst
      <4> HIDE DEF R, p
      <4>3. CASE j = f
        <5>1. i \in deps
          BY <1>6, <3>3, <4>3 DEF R
        <5> QED
          BY <1>8, <2>2, <4>2, <4>3, <5>1 DEF p, R
      <4>4. CASE j # f
        <5>1. list[j].to # s
          BY <1>2, <3>3, <4>2, <4>4
        <5>2. i \notin deps
          BY <1>1, <1>6, <3>3, <4>4, FirstToIsFirst
        <5>3. p[i] = q[i]
          BY <5>2 DEF p, R
        <5> QED
          BY <2>1, <4>1, <4>2, <5>1, <5>3
      <4> QED
        BY <4>3, <4>4
    <3> QED
      BY <3>1, <3>2, <3>3
  <2>4. \A i \in DOMAIN list : StartPoints(m)[i] # None => q[i] # None
    BY <1>1, <1>3, ReachedAlike DEF Current, q
  <2>5. f \in R
    BY <1>2 DEF q
  <2>6. \A j \in R : p[j] # None
    BY PointArithmetic
  <2> HIDE DEF R, p
  <2>7. \A i \in R : StartPoints(m)[i] = p[i]
    BY <1>1, <1>3, <2>3, StartsAs
  <2>8. DefinedPositions(m)[s] = point
    BY <1>10, <2>2, <2>5, <2>7
  <2>9. ASSUME NEW t \in Section \ {s}
        PROVE  DefinedPositions(m)[t] = DefinedPositions(list)[t]
    <3>1. CASE FirstTo(list, t) = {}
      BY <1>1, <1>3, <1>9, <3>1, DefinedPosition
    <3>2. CASE FirstTo(list, t) # {}
      <4>1. PICK k \in FirstTo(list, t) : k \in DOMAIN list /\ list[k].to = t
        BY <1>1, <3>2, FirstToIsFirst
      <4>2. DefinedPositions(m)[t] = IF StartPoints(m)[k] = None THEN None
                                     ELSE Plus(StartPoints(m)[k], m[k].vector)
        BY <1>3, <1>9, <4>1, DefinedPosition
      <4>3. DefinedPositions(list)[t] = IF q[k] = None THEN None ELSE Plus(q[k], list[k].vector)
        BY <1>1, <4>1, DefinedPosition DEF q
      <4>4. CASE q[k] = None
        BY <2>4, <4>1, <4>2, <4>3, <4>4
      <4>5. CASE q[k] # None
        <5>1. k \in R /\ list[k].to # s
          BY <2>9, <4>1, <4>5 DEF R
        <5> QED
          BY <2>1, <2>6, <2>7, <4>2, <4>3, <4>5, <5>1
      <4> QED
        BY <4>4, <4>5
    <3> QED
      BY <3>1, <3>2
  <2>10. DefinedPositions(m) = [DefinedPositions(list) EXCEPT ![s] = point]
    BY <2>8, <2>9, PositionsEqual
  <2> QED
    BY <1>12, <2>8, <2>10 DEF m
<1> QED
  BY <1>11, <1>12

-----------------------------------------------------------------------------
(* What an update and reading do to a list.                                *)

SameDefinitions(l, m) ==
    Len(l) = Len(m) /\ \A i \in DOMAIN l : SameDefinition(l[i], m[i])

\* What the definitions alone decide.
LEMMA DefinedAlike ==
    ASSUME NEW l \in Seq(Positioning), NEW m \in Seq(Positioning), SameDefinitions(l, m)
    PROVE  /\ SameLinks(l, m) /\ DOMAIN l = DOMAIN m
           /\ \A s : FirstTo(m, s) = FirstTo(l, s)
           /\ Unknown(m) = Unknown(l)
           /\ \A i : Dependents(m, i) = Dependents(l, i)
           /\ Unknown(l) = {} => /\ StartPoints(m) = StartPoints(l)
                                 /\ DefinedPositions(m) = DefinedPositions(l)
<1>1. /\ Len(l) = Len(m) /\ Len(l) \in Nat /\ DOMAIN l = DOMAIN m
      /\ SameLinks(l, m)
  BY SequenceIsFunction DEF SameLinks, SameDefinitions, SameDefinition
<1>2. \A s : FirstTo(m, s) = FirstTo(l, s)
  BY <1>1, FirstToSame
<1>3. Unknown(m) = Unknown(l)
  BY <1>1, <1>2 DEF Unknown, SameLinks
<1>4. Linked(m) = Linked(l) /\ Linked(l) \subseteq DOMAIN l
  BY <1>1, <1>3 DEF Linked
<1>5. \A i : Dependents(m, i) = Dependents(l, i)
  BY <1>1, <1>2, <1>4 DEF Dependents, SameLinks
<1>6. ASSUME Unknown(l) = {}
      PROVE  StartPoints(m) = StartPoints(l) /\ DefinedPositions(m) = DefinedPositions(l)
  <2>1. StartPoints(m) = StartPoints(l)
    BY <1>1, <1>6, StartsByDefinition DEF SameDefinitions
  <2>2. ASSUME NEW s \in Section
        PROVE  DefinedPositions(m)[s] = DefinedPositions(l)[s]
    <3>1. CASE FirstTo(l, s) = {}
      BY <1>2, <3>1, DefinedPosition
    <3>2. CASE FirstTo(l, s) # {}
      <4>1. PICK k \in FirstTo(l, s) : k \in FirstTo(m, s) /\ k \in DOMAIN l
        BY <1>2, <3>2, FirstToIsFirst
      <4>2. l[k].vector = m[k].vector
        BY <4>1 DEF SameDefinitions, SameDefinition
      <4>3. DefinedPositions(m)[s] = IF StartPoints(m)[k] = None THEN None
                                     ELSE Plus(StartPoints(m)[k], m[k].vector)
        BY <4>1, DefinedPosition
      <4>4. DefinedPositions(l)[s] = IF StartPoints(l)[k] = None THEN None
                                     ELSE Plus(StartPoints(l)[k], l[k].vector)
        BY <4>1, DefinedPosition
      <4> QED
        BY <2>1, <4>2, <4>3, <4>4
    <3> QED
      BY <3>1, <3>2
  <2>3. DefinedPositions(m) = DefinedPositions(l)
    <3>1. /\ DefinedPositions(l) = [t \in Section |-> DefinedPositions(l)[t]]
          /\ DefinedPositions(m) = [t \in Section |-> DefinedPositions(m)[t]]
      BY DEF DefinedPositions
    <3> QED
      BY <2>2, <3>1
  <2> QED
    BY <2>1, <2>3
<1> QED
  BY <1>1, <1>2, <1>3, <1>5, <1>6

\* A list within the bound.
TypedList(list) == list \in Seq(Positioning) /\ Len(list) <= MaxPositionings

\* A list changed element by element, with the definitions as they were.
LEMMA ListChanged ==
    ASSUME NEW list, TypedList(list), NEW m, DOMAIN m = DOMAIN list,
           m = [i \in DOMAIN list |-> m[i]],
           \A i \in DOMAIN list : m[i] \in Positioning /\ SameDefinition(m[i], list[i])
    PROVE  TypedList(m) /\ SameDefinitions(list, m) /\ SameDefinitions(m, list)
<1>1. DOMAIN list = 1 .. Len(list) /\ Len(list) \in Nat
  BY SequenceIsFunction DEF TypedList
<1>2. m \in [1 .. Len(list) -> Positioning]
  BY <1>1
<1>3. m \in Seq(Positioning) /\ Len(m) = Len(list)
  BY <1>1, <1>2, FunctionIsSequence
<1> QED
  BY <1>3 DEF TypedList, SameDefinitions, SameDefinition

\* Connecting sets the dependents and resets the points.
LEMMA ConnectedList ==
    ASSUME NEW list, TypedList(list)
    PROVE  /\ TypedList(Connected(list)) /\ SameDefinitions(list, Connected(list))
           /\ \A i \in DOMAIN list : /\ Connected(list)[i].dependents = Dependents(list, i)
                                     /\ Connected(list)[i].fromPoint = Origin
                                     /\ Connected(list)[i].toPoint = None
<1> DEFINE m == Connected(list)
           entry(i) == [list[i] EXCEPT !.dependents = Dependents(list, i),
                                       !.fromPoint = Origin, !.toPoint = None]
<1>1. DOMAIN list = 1 .. Len(list) /\ Len(list) \in Nat /\ Len(list) <= MaxPositionings
  BY SequenceIsFunction DEF TypedList
<1>2. \A i : Dependents(list, i) \in SUBSET (1 .. MaxPositionings)
  BY <1>1, PositioningsAssumption DEF Dependents, Linked
<1>3. \A i \in DOMAIN list : /\ entry(i) \in Positioning
                             /\ SameDefinition(entry(i), list[i])
                             /\ entry(i).dependents = Dependents(list, i)
                             /\ entry(i).fromPoint = Origin
                             /\ entry(i).toPoint = None
  <2> TAKE i \in DOMAIN list
  <2>1. list[i] \in Positioning
    BY SequenceIsFunction DEF TypedList
  <2>2. Dependents(list, i) \in SUBSET (1 .. MaxPositionings) /\ Origin \in Point
    BY <1>2, PointArithmetic
  <2> QED
    BY <2>1, <2>2 DEF Positioning, SameDefinition
<1>4. m = [i \in DOMAIN list |-> entry(i)]
  BY DEF Connected
<1> HIDE DEF m, entry
<1>5. DOMAIN m = DOMAIN list /\ m = [i \in DOMAIN list |-> m[i]]
      /\ \A i \in DOMAIN list : m[i] = entry(i)
  BY <1>4
<1>6. TypedList(m) /\ SameDefinitions(list, m)
  BY <1>3, <1>5, ListChanged
<1> QED
  BY <1>3, <1>5, <1>6 DEF m

\* Propagation hands out the start points and computes end points from them.
LEMMA PropagatedList ==
    ASSUME NEW list, TypedList(list),
           \A i \in DOMAIN list : list[i].fromPoint = Origin /\ list[i].toPoint = None
    PROVE  LET m == Propagated(list)
           IN /\ TypedList(m) /\ SameDefinitions(list, m)
              /\ \A i \in DOMAIN list :
                    /\ m[i].dependents = list[i].dependents
                    /\ StartPoints(list)[i] \in {None, m[i].fromPoint}
                    /\ Valid(m[i]) => m[i].toPoint = Plus(m[i].fromPoint, m[i].vector)
<1> DEFINE m == Propagated(list)
           start == StartPoints(list)
           put(i) == [list[i] EXCEPT !.fromPoint = start[i]]
           entry(i) == IF start[i] = None THEN list[i]
                       ELSE IF put(i).dependents = {} THEN put(i) ELSE UpToDate(put(i))
<1>1. StepOf(list, start, start)
  BY StartPointsFollow DEF TypedList
<1>2. m = [i \in DOMAIN list |-> entry(i)]
  BY DEF Propagated
<1>3. ASSUME NEW i \in DOMAIN list
      PROVE  /\ entry(i) \in Positioning
             /\ SameDefinition(entry(i), list[i])
             /\ entry(i).dependents = list[i].dependents
             /\ start[i] \in {None, entry(i).fromPoint}
             /\ Valid(entry(i)) => entry(i).toPoint = Plus(entry(i).fromPoint, entry(i).vector)
  <2>1. list[i] \in Positioning
    BY SequenceIsFunction DEF TypedList
  <2>2. CASE start[i] = None
    BY <2>1, <2>2 DEF Valid, SameDefinition
  <2>3. CASE start[i] # None
    <3> DEFINE p == put(i)
    <3>1. start[i] \in Point
      BY <1>1, <2>3 DEF StepOf, Start
    <3> HIDE DEF start
    <3>2. /\ p \in Positioning /\ SameDefinition(p, list[i])
          /\ p.dependents = list[i].dependents
          /\ p.fromPoint = start[i] /\ p.toPoint = None
      BY <2>1, <3>1 DEF Positioning, SameDefinition
    <3>3. entry(i) = IF p.dependents = {} THEN p ELSE UpToDate(p)
      BY <2>3
    <3> HIDE DEF p, entry
    <3>4. CASE p.dependents = {}
      BY <3>2, <3>3, <3>4 DEF Valid
    <3>5. CASE p.dependents # {}
      BY <3>2, <3>3, <3>5, OnePositioning DEF Valid, SameDefinition
    <3> QED
      BY <3>4, <3>5
  <2> QED
    BY <2>2, <2>3
<1> HIDE DEF m, entry, start
<1>4. DOMAIN m = DOMAIN list /\ m = [i \in DOMAIN list |-> m[i]]
      /\ \A i \in DOMAIN list : m[i] = entry(i)
  BY <1>2
<1>5. TypedList(m) /\ SameDefinitions(list, m)
  BY <1>3, <1>4, ListChanged
<1> QED
  BY <1>3, <1>4, <1>5 DEF m, start

\* An update keeps the definitions.  Where none starts behind an unknown section, it
\* leaves the list current.
LEMMA UpdatedList ==
    ASSUME NEW list, TypedList(list), EndsFollow(list), NEW flag \in BOOLEAN
    PROVE  LET m == Updated(list, flag)
           IN /\ TypedList(m) /\ SameDefinitions(list, m)
              /\ EndsFollow(m)
              /\ flag /\ Unknown(list) = {} => Current(m)
<1>1. CASE ~flag
  BY <1>1 DEF Updated, SameDefinitions, SameDefinition
<1>2. CASE flag /\ Unknown(list) # {}
  <2>1. Updated(list, flag) = Connected(list)
    BY <1>2 DEF Updated
  <2>2. TypedList(Connected(list)) /\ SameDefinitions(list, Connected(list))
        /\ \A i \in DOMAIN list : Connected(list)[i].toPoint = None
    BY ConnectedList
  <2>3. DOMAIN Connected(list) = DOMAIN list
    BY <2>2, DefinedAlike DEF TypedList
  <2> QED
    BY <1>2, <2>1, <2>2, <2>3 DEF EndsFollow, Valid
<1>3. CASE flag /\ Unknown(list) = {}
  <2> DEFINE c == Connected(list)
             m == Propagated(c)
  <2>1. Updated(list, flag) = m
    BY <1>3 DEF Updated
  <2>2. /\ TypedList(c) /\ SameDefinitions(list, c)
        /\ \A i \in DOMAIN list : /\ c[i].dependents = Dependents(list, i)
                                  /\ c[i].fromPoint = Origin
                                  /\ c[i].toPoint = None
    BY ConnectedList
  <2>3. DOMAIN c = DOMAIN list
    BY <2>2, DefinedAlike DEF TypedList
  <2>4. /\ TypedList(m) /\ SameDefinitions(c, m)
        /\ \A i \in DOMAIN list :
              /\ m[i].dependents = c[i].dependents
              /\ StartPoints(c)[i] \in {None, m[i].fromPoint}
              /\ Valid(m[i]) => m[i].toPoint = Plus(m[i].fromPoint, m[i].vector)
    BY <2>2, <2>3, PropagatedList
  <2> HIDE DEF c, m
  <2>5. SameDefinitions(list, m)
    BY <2>2, <2>3, <2>4 DEF SameDefinitions, SameDefinition
  <2>6. /\ Unknown(c) = {} /\ Unknown(m) = {} /\ DOMAIN m = DOMAIN list
        /\ \A i : Dependents(m, i) = Dependents(list, i)
    BY <1>3, <2>2, <2>4, <2>5, DefinedAlike DEF TypedList
  <2>7. StartPoints(m) = StartPoints(c)
    BY <2>2, <2>4, <2>6, DefinedAlike DEF TypedList
  <2>8. Current(m)
    BY <2>2, <2>4, <2>6, <2>7 DEF Current, TypedList
  <2>9. EndsFollow(m)
    BY <2>4, <2>6 DEF EndsFollow
  <2> QED
    BY <2>1, <2>4, <2>5, <2>8, <2>9
<1> QED
  BY <1>1, <1>2, <1>3

\* Bringing some positionings of a list up to date changes no position.
LEMMA SomeUpToDate ==
    ASSUME NEW list, TypedList(list), EndsFollow(list), NEW m, DOMAIN m = DOMAIN list,
           m = [i \in DOMAIN list |-> m[i]],
           \A i \in DOMAIN list : m[i] \in {list[i], UpToDate(list[i])}
    PROVE  /\ TypedList(m) /\ SameDefinitions(list, m)
           /\ EndsFollow(m)
           /\ \A s : Position(m, s) = Position(list, s)
<1>1. ASSUME NEW i \in DOMAIN list
      PROVE  /\ list[i] \in Positioning
             /\ m[i] \in Positioning
             /\ SameDefinition(m[i], list[i])
             /\ Valid(m[i]) => m[i].toPoint = Plus(m[i].fromPoint, m[i].vector)
             /\ GetToPoint(m[i]) = GetToPoint(list[i])
  <2>1. list[i] \in Positioning
    BY SequenceIsFunction DEF TypedList
  <2>2. CASE m[i] = list[i]
    BY <2>1, <2>2 DEF SameDefinition, EndsFollow
  <2>3. CASE m[i] = UpToDate(list[i])
    <3>1. UpToDate(list[i]).toPoint \in Point /\ None \notin Point
      BY <2>1, OnePositioning, PointArithmetic
    <3>2. UpToDate(UpToDate(list[i])) = UpToDate(list[i])
      BY <3>1 DEF UpToDate, Valid
    <3>3. UpToDate(list[i]).toPoint = Plus(list[i].fromPoint, list[i].vector)
      BY <2>1, OnePositioning DEF EndsFollow
    <3> QED
      BY <2>1, <2>3, <3>2, <3>3, OnePositioning DEF SameDefinition, GetToPoint
  <2> QED
    BY <2>2, <2>3
<1>2. TypedList(m) /\ SameDefinitions(list, m)
  BY <1>1, ListChanged
<1>3. ASSUME NEW s
      PROVE  Position(m, s) = Position(list, s)
  <2>1. FirstTo(m, s) = FirstTo(list, s) /\ FirstTo(list, s) \subseteq DOMAIN list
    BY <1>2, DefinedAlike, FirstToIsFirst DEF TypedList
  <2>2. CASE FirstTo(list, s) = {}
    BY <2>1, <2>2 DEF Position
  <2>3. CASE FirstTo(list, s) # {}
    <3> DEFINE k == CHOOSE i \in FirstTo(list, s) : TRUE
    <3>1. k \in DOMAIN list
      BY <2>1, <2>3
    <3>2. Position(m, s) = GetToPoint(m[k]) /\ Position(list, s) = GetToPoint(list[k])
      BY <2>1, <2>3 DEF Position
    <3> HIDE DEF k
    <3> QED
      BY <1>1, <3>1, <3>2
  <2> QED
    BY <2>2, <2>3
<1> QED
  BY <1>1, <1>2, <1>3 DEF EndsFollow

\* Positions are points.
LEMMA PositionIsPoint ==
    ASSUME NEW list \in Seq(Positioning), NEW s
    PROVE  Position(list, s) \in Point
<1>1. CASE FirstTo(list, s) = {}
  BY <1>1, PointArithmetic DEF Position
<1>2. CASE FirstTo(list, s) # {}
  <2> DEFINE k == CHOOSE i \in FirstTo(list, s) : TRUE
  <2>1. k \in DOMAIN list
    BY <1>2, FirstToIsFirst
  <2>2. Position(list, s) = GetToPoint(list[k])
    BY <1>2 DEF Position
  <2> HIDE DEF k
  <2>3. list[k] \in Positioning
    BY <2>1, SequenceIsFunction
  <2> QED
    BY <2>2, <2>3, OnePositioning DEF GetToPoint
<1> QED
  BY <1>1, <1>2

\* Reading positions.
LEMMA ReadList ==
    ASSUME NEW list, TypedList(list), EndsFollow(list), NEW S
    PROVE  /\ TypedList(Read(list, S)) /\ EndsFollow(Read(list, S))
           /\ \A s : Position(Read(list, S), s) = Position(list, s)
<1> DEFINE m == Read(list, S)
<1>1. DOMAIN m = DOMAIN list /\ m = [i \in DOMAIN list |-> m[i]]
      /\ \A i \in DOMAIN list : m[i] \in {list[i], UpToDate(list[i])}
  BY DEF Read
<1> HIDE DEF m
<1> QED
  BY <1>1, SomeUpToDate DEF m

\* Placing keeps the list typed and leaves no end point.
LEMMA PlacedList ==
    ASSUME NEW list \in Seq(Positioning), NEW s \in Section, NEW point \in Point,
           NEW move \in BOOLEAN
    PROVE  /\ Placed(list, s, point, move) \in Seq(Positioning)
           /\ EndsFollow(Placed(list, s, point, move))
           /\ SameLinks(list, Placed(list, s, point, move))
           /\ (\E i \in DOMAIN list : list[i].to = s) =>
                 Len(Placed(list, s, point, move)) = Len(list)
<1>1. CASE \E i \in DOMAIN list : list[i].to = s
  BY <1>1, PlacedExisting DEF EndsFollow, Valid
<1>2. CASE ~\E i \in DOMAIN list : list[i].to = s
  BY <1>2, PlacedNew DEF EndsFollow, Valid
<1> QED
  BY <1>1, <1>2

-----------------------------------------------------------------------------
(* Moves are exact.                                                        *)

\* Where the container is in step, an update makes its list current and changes
\* no definition.
LEMMA InStepCurrent ==
    ASSUME PositioningsTypeOK, EndsFollow(positionings), InStep
    PROVE  /\ Current(Updated(positionings, invalidated))
           /\ DefinedPositions(Updated(positionings, invalidated)) =
                 DefinedPositions(positionings)
           /\ SameLinks(positionings, Updated(positionings, invalidated))
           /\ Len(Updated(positionings, invalidated)) = Len(positionings)
<1> DEFINE list == Updated(positionings, invalidated)
<1>1. TypedList(positionings) /\ invalidated \in BOOLEAN /\ Unknown(positionings) = {}
  BY DEF PositioningsTypeOK, TypedList, InStep
<1>2. TypedList(list) /\ SameDefinitions(positionings, list)
      /\ (invalidated => Current(list))
  BY <1>1, UpdatedList
<1>3. CASE ~invalidated
  <2>1. list = positionings
    BY <1>3 DEF Updated
  <2>2. \A i \in DOMAIN positionings : /\ positionings[i].dependents = Dependents(positionings, i)
                                       /\ StartPoints(positionings)[i] \in {None, positionings[i].fromPoint}
    BY <1>3 DEF InStep
  <2>3. Current(positionings)
    BY <1>1, <2>2 DEF Current, TypedList, EndsFollow
  <2> QED
    BY <1>1, <1>2, <2>1, <2>3, DefinedAlike DEF SameDefinitions, TypedList
<1>4. CASE invalidated
  <2> HIDE DEF list
  <2>1. DefinedPositions(list) = DefinedPositions(positionings) /\ SameLinks(positionings, list)
    BY <1>1, <1>2, DefinedAlike DEF TypedList
  <2> QED
    BY <1>2, <1>4, <2>1 DEF list, SameDefinitions
<1> QED
  BY <1>1, <1>3, <1>4

\* Moving one section of a current list.
ExactMove(list, s, point) ==
    /\ DefinedPositions(Placed(list, s, point, FALSE)) =
          [DefinedPositions(list) EXCEPT ![s] = point]
    /\ DefinedPositions(Placed(list, s, point, TRUE))[s] = point
    /\ \A i \in DOMAIN list :
          list[i].to # s => Placed(list, s, point, TRUE)[i].vector = list[i].vector

LEMMA MoveIsExact ==
    ASSUME NEW list, Current(list), NEW s \in Section, NEW point \in Point,
           DefinedPositions(list)[s] # None
    PROVE  ExactMove(list, s, point)
<1> USE DEF ExactMove
<1>1. list \in Seq(Positioning)
  BY DEF Current
<1>2. CASE FirstTo(list, s) = {}
  <2>1. \A i \in DOMAIN list : list[i].to # s
    BY <1>1, <1>2, FirstToIsFirst
  <2>2. \A move \in BOOLEAN : DefinedPositions(Placed(list, s, point, move)) =
                                 [DefinedPositions(list) EXCEPT ![s] = point]
    BY <2>1, MoveUnplaced
  <2>3. \A i \in DOMAIN list : Placed(list, s, point, TRUE)[i].vector = list[i].vector
    BY <1>1, <2>1, PlacedNew
  <2>4. DOMAIN DefinedPositions(list) = Section
    BY DEF DefinedPositions
  <2>5. DefinedPositions(Placed(list, s, point, TRUE))[s] = point
    BY <2>2, <2>4
  <2> QED
    BY <2>2, <2>3, <2>5
<1>3. CASE FirstTo(list, s) # {}
  <2>1. PICK f \in FirstTo(list, s) : TRUE
    BY <1>3
  <2>2. StartPoints(list)[f] # None
    BY <1>1, <2>1, DefinedPosition
  <2>3. \A move \in BOOLEAN :
          LET m == Placed(list, s, point, move)
          IN /\ DefinedPositions(m)[s] = point
             /\ ~move => DefinedPositions(m) = [DefinedPositions(list) EXCEPT ![s] = point]
             /\ move => \A i \in DOMAIN list : list[i].to # s => m[i].vector = list[i].vector
    BY <2>1, <2>2, MovePlaced
  <2> QED
    BY <2>3
<1> QED
  BY <1>2, <1>3

\* Moves are exact wherever the types and end points are right.
LEMMA TypedMovesAreExact ==
    ASSUME PositioningsTypeOK, EndsFollow(positionings)
    PROVE  MovesAreExact
<1> SUFFICES ASSUME InStep, NEW s \in Section, NEW point \in Point,
                    DefinedPositions(positionings)[s] # None
             PROVE  LET list == Updated(positionings, invalidated)
                        together == Placed(list, s, point, TRUE)
                    IN /\ DefinedPositions(Placed(list, s, point, FALSE)) =
                             [DefinedPositions(positionings) EXCEPT ![s] = point]
                       /\ DefinedPositions(together)[s] = point
                       /\ \A i \in DOMAIN list :
                             list[i].to # s => together[i].vector = list[i].vector
  BY DEF MovesAreExact
<1> DEFINE list == Updated(positionings, invalidated)
<1>1. Current(list) /\ DefinedPositions(list) = DefinedPositions(positionings)
  BY InStepCurrent
<1> HIDE DEF list
<1>2. DefinedPositions(list)[s] # None
  BY <1>1
<1>3. ExactMove(list, s, point)
  BY <1>1, <1>2, MoveIsExact
<1> QED
  BY <1>1, <1>3 DEF list, ExactMove

-----------------------------------------------------------------------------
(* The standardizer's chain.                                               *)

\* In a chain through the order, one positioning ends at each section, and each is
\* reached from the first.
LEMMA ChainIsReached ==
    ASSUME NEW list \in Seq(Positioning), LinkedAs(list, Order)
    PROVE  /\ Unknown(list) = {}
           /\ \A i \in DOMAIN Order : FirstTo(list, Order[i]) = {i}
           /\ \A i \in DOMAIN Order : StartPoints(list)[i] # None
           /\ \A i \in DOMAIN Order : DefinedPositions(list)[Order[i]] # None
<1> DEFINE n == Len(Order)
           start == StartPoints(list)
<1>1. /\ n \in Nat /\ DOMAIN Order = 1 .. n /\ DOMAIN list = 1 .. n
      /\ \A i, j \in 1 .. n : Order[i] = Order[j] => i = j
      /\ \A i \in 1 .. n : Order[i] \in Section
      /\ None \notin Section
  BY PositioningsAssumption, SequenceIsFunction DEF LinkedAs
<1>2. \A i \in 1 .. n : list[i].to = Order[i] /\ list[i].from = IF i = 1 THEN None ELSE Order[i - 1]
  BY <1>1 DEF LinkedAs
<1>3. \A i \in 1 .. n : FirstTo(list, Order[i]) = {i}
  <2> TAKE i \in 1 .. n
  <2>1. i \in FirstTo(list, Order[i])
    BY <1>1, <1>2 DEF FirstTo
  <2> QED
    BY <2>1, FirstToIsFirst
<1>4. Unknown(list) = {}
  <2> SUFFICES ASSUME NEW i \in 1 .. n, list[i].from # None
               PROVE  FirstTo(list, list[i].from) # {}
    BY <1>1 DEF Unknown
  <2>1. i - 1 \in 1 .. n /\ list[i].from = Order[i - 1]
    BY <1>1, <1>2
  <2> QED
    BY <1>3, <2>1
<1>5. StepOf(list, start, start)
  BY StartPointsFollow
<1> HIDE DEF start
<1>6. \A i \in 1 .. n : start[i] # None
  <2> DEFINE Good == {k \in 0 .. n : k # 0 => start[k] # None}
  <2>1. 0 \in Good
    BY <1>1
  <2>2. \A k \in 1 .. n : k - 1 \in Good => k \in Good
    <3> TAKE k \in 1 .. n
    <3> HAVE k - 1 \in Good
    <3>1. CASE k = 1
      BY <1>1, <1>2, <1>5, <3>1, PointArithmetic DEF StepOf
    <3>2. CASE k # 1
      <4>1. /\ k - 1 \in 1 .. n /\ start[k - 1] # None
            /\ list[k].from = Order[k - 1] /\ list[k].from # None
        BY <1>1, <1>2, <3>2
      <4>2. FirstTo(list, list[k].from) = {k - 1}
        BY <1>3, <4>1
      <4>3. start[k] = Plus(start[k - 1], list[k - 1].vector)
        BY <1>1, <1>5, <4>1, <4>2 DEF StepOf
      <4>4. start[k - 1] \in Point
        BY <1>1, <1>5, <4>1 DEF StepOf, Start
      <4>5. list[k - 1] \in Positioning
        BY <1>1, <4>1, SequenceIsFunction
      <4>6. list[k - 1].vector \in Point
        BY <4>5 DEF Positioning
      <4> QED
        BY <4>3, <4>4, <4>6, PointArithmetic
    <3> QED
      BY <3>1, <3>2
  <2> HIDE DEF Good, n
  <2>3. Good \in SUBSET (0 .. n)
    BY DEF Good
  <2>4. \A k \in 0 .. n : k \in Good
    BY <1>1, <2>1, <2>2, <2>3, AllSteps
  <2>5. \A i \in 1 .. n : i \in 0 .. n /\ i # 0
    BY <1>1
  <2> QED
    BY <2>4, <2>5 DEF Good
<1>7. ASSUME NEW i \in 1 .. n
      PROVE  DefinedPositions(list)[Order[i]] # None
  <2>1. DefinedPositions(list)[Order[i]] = Plus(start[i], list[i].vector)
    BY <1>1, <1>3, <1>6, DefinedPosition DEF start
  <2>2. start[i] \in Point
    BY <1>1, <1>5, <1>6 DEF StepOf, Start
  <2>3. list[i] \in Positioning
    BY <1>1, SequenceIsFunction
  <2>4. list[i].vector \in Point
    BY <2>3 DEF Positioning
  <2> QED
    BY <2>1, <2>2, <2>4, PointArithmetic
<1> QED
  BY <1>1, <1>3, <1>4, <1>6, <1>7 DEF start

\* The chain as it is created.
LEMMA ChainIsLinked ==
    /\ TypedList(Chain)
    /\ LinkedAs(Chain, Order)
    /\ EndsFollow(Chain)
    /\ \A i \in DOMAIN Chain : /\ Chain[i].fromPoint = Origin
                               /\ Chain[i].dependents = {}
                               /\ Chain[i].toPoint = None
<1> DEFINE n == Len(Order)
           entry(i) == NewPositioning(IF i = 1 THEN None ELSE Order[i - 1], Order[i], 1 % N)
           chain == Chain
<1>1. /\ n \in Nat /\ n <= MaxPositionings /\ DOMAIN Order = 1 .. n
      /\ \A i \in 1 .. n : Order[i] \in Section
  BY PositioningsAssumption, SequenceIsFunction
<1>2. 1 % N \in Point
  BY PositioningsAssumption DEF Point
<1>3. ASSUME NEW i \in 1 .. n
      PROVE  /\ entry(i) \in Positioning
             /\ entry(i).from = IF i = 1 THEN None ELSE Order[i - 1]
             /\ entry(i).to = Order[i]
             /\ entry(i).fromPoint = Origin
             /\ entry(i).dependents = {}
             /\ entry(i).toPoint = None
  <2> DEFINE from == IF i = 1 THEN None ELSE Order[i - 1]
  <2>1. i # 1 => i - 1 \in 1 .. n
    BY <1>1
  <2>2. from \in Section \cup {None} /\ Order[i] \in Section
    BY <1>1, <2>1
  <2>3. entry(i) = NewPositioning(from, Order[i], 1 % N)
    OBVIOUS
  <2> HIDE DEF entry
  <2> QED
    BY <1>2, <2>2, <2>3, NewIsPositioning
<1>4. chain = [i \in 1 .. n |-> entry(i)]
  BY <1>1 DEF Chain
<1> HIDE DEF entry, chain
<1>5. chain \in [1 .. n -> Positioning]
  BY <1>3, <1>4
<1>6. chain \in Seq(Positioning) /\ Len(chain) = n /\ DOMAIN chain = 1 .. n
  BY <1>1, <1>5, FunctionIsSequence
<1>7. \A i \in 1 .. n : chain[i] = entry(i)
  BY <1>4
<1> QED
  BY <1>1, <1>3, <1>6, <1>7 DEF TypedList, LinkedAs, EndsFollow, Valid, chain

-----------------------------------------------------------------------------
(* The invariant.                                                          *)

\* The invariant without the history of the standardizer.
Caches == PositioningsTypeOK /\ EndsFollow(positionings) /\ LoftRead

\* A document that was read meets the invariant.
LEMMA InitInvariant == Init => PositioningsInv
<1> SUFFICES ASSUME Init
             PROVE  PositioningsInv
  OBVIOUS
<1>1. TypedList(positionings) /\ EndsFollow(positionings) /\ invalidated \in BOOLEAN
  <2>1. CASE positionings = <<>> /\ invalidated = TRUE
    BY <2>1, PositioningsAssumption, EmptySeq DEF TypedList, EndsFollow
  <2>2. CASE \E defined \in Documents :
               LET read == [i \in DOMAIN defined |->
                              NewPositioning(defined[i].from, defined[i].to, defined[i].vector)]
               IN Unknown(read) = {} /\ positionings = Updated(read, TRUE)
    <3>1. PICK defined \in Documents :
            positionings = Updated([i \in DOMAIN defined |->
                              NewPositioning(defined[i].from, defined[i].to, defined[i].vector)],
                              TRUE)
      BY <2>2
    <3> DEFINE entry(i) == NewPositioning(defined[i].from, defined[i].to, defined[i].vector)
               read == [i \in DOMAIN defined |-> entry(i)]
               n == Len(defined)
    <3>2. /\ n \in Nat /\ n <= MaxPositionings /\ DOMAIN defined = 1 .. n
          /\ \A i \in 1 .. n :
                defined[i] \in [from: Section \cup {None}, to: Section, vector: Point]
      BY PositioningsAssumption, SequenceIsFunction DEF Point
    <3>3. ASSUME NEW i \in 1 .. n
          PROVE  entry(i) \in Positioning /\ entry(i).toPoint = None
      <4>1. defined[i].from \in Section \cup {None} /\ defined[i].to \in Section
            /\ defined[i].vector \in Point
        BY <3>2
      <4> QED
        BY <4>1, NewIsPositioning
    <3>4. positionings = Updated(read, TRUE)
      BY <3>1
    <3> HIDE DEF entry
    <3>5. read \in [1 .. n -> Positioning]
      BY <3>2, <3>3
    <3>6. read \in Seq(Positioning) /\ Len(read) = n /\ DOMAIN read = 1 .. n
      BY <3>2, <3>5, FunctionIsSequence
    <3>7. TypedList(read) /\ EndsFollow(read)
      BY <3>2, <3>3, <3>6 DEF TypedList, EndsFollow, Valid
    <3> HIDE DEF read
    <3>8. TypedList(positionings) /\ EndsFollow(positionings)
      BY <3>4, <3>7, UpdatedList
    <3> QED
      BY <3>8 DEF Init
  <2> QED
    BY <2>1, <2>2 DEF Init
<1>2. PositioningsTypeOK
  BY <1>1, PositioningsAssumption DEF Init, PositioningsTypeOK, TypedList
<1> QED
  BY <1>1, <1>2 DEF Init, PositioningsInv, LoftRead, Standardizing

\* A list that was brought up to date in part leaves a cached loft right.
LEMMA CachesKept ==
    ASSUME Caches, TypedList(positionings'), EndsFollow(positionings'),
           invalidated' = FALSE, UNCHANGED <<standardized, fault, edits>>,
           \/ loft' = None
           \/ /\ loft' = loft /\ ~invalidated
              /\ \A s \in Section : Position(positionings', s) = Position(positionings, s)
    PROVE  Caches'
<1>1. PositioningsTypeOK'
  BY DEF Caches, PositioningsTypeOK, TypedList
<1>2. LoftRead'
  BY DEF Caches, LoftRead
<1> QED
  BY <1>1, <1>2 DEF Caches

\* Reading a position updates the container first, which empties the cache if it must.
LEMMA GetPositionKeeps ==
    ASSUME Caches, NEW s \in Section, GetPosition(s), UNCHANGED standardized
    PROVE  Caches'
<1> DEFINE list == Updated(positionings, invalidated)
<1>1. TypedList(positionings) /\ EndsFollow(positionings) /\ invalidated \in BOOLEAN
  BY DEF Caches, PositioningsTypeOK, TypedList
<1>2. TypedList(list) /\ EndsFollow(list)
  BY <1>1, UpdatedList
<1>3. /\ TypedList(Read(list, {s})) /\ EndsFollow(Read(list, {s}))
      /\ \A t : Position(Read(list, {s}), t) = Position(list, t)
  BY <1>2, ReadList
<1>4. ~invalidated => list = positionings
  BY DEF Updated
<1> HIDE DEF list
<1>5. TypedList(positionings') /\ EndsFollow(positionings')
  BY <1>2, <1>3 DEF GetPosition, list, EndsFollow
<1>6. invalidated' = FALSE /\ UNCHANGED <<standardized, fault, edits>>
  BY DEF GetPosition
<1>7. CASE ~invalidated
  <2>1. loft' = loft
    BY <1>7 DEF GetPosition, UpdateTellsOwner
  <2>2. positionings' = Read(list, {s})
    BY <1>7 DEF GetPosition, UpdateThrows, list
  <2> QED
    BY <1>3, <1>4, <1>5, <1>6, <1>7, <2>1, <2>2, CachesKept
<1>8. CASE invalidated
  <2>1. loft' = None
    BY <1>8 DEF GetPosition, Caches, LoftRead
  <2> QED
    BY <1>5, <1>6, <2>1, CachesKept
<1> QED
  BY <1>1, <1>7, <1>8

\* Reading an end point changes no position.
LEMMA GetPointKeeps ==
    ASSUME Caches, NEW i \in DOMAIN positionings, GetPoint(i), UNCHANGED standardized
    PROVE  Caches'
<1>1. TypedList(positionings) /\ EndsFollow(positionings)
  BY DEF Caches, PositioningsTypeOK, TypedList
<1> DEFINE m == [positionings EXCEPT ![i] = UpToDate(positionings[i])]
<1>2. positionings' = m
  BY DEF GetPoint
<1>3. positionings = [j \in DOMAIN positionings |-> positionings[j]]
  BY <1>1, SequenceIsFunction DEF TypedList
<1>4. /\ DOMAIN m = DOMAIN positionings
      /\ m = [j \in DOMAIN positionings |-> m[j]]
      /\ \A j \in DOMAIN positionings : m[j] \in {positionings[j], UpToDate(positionings[j])}
  OBVIOUS
<1> HIDE DEF m
<1>5. TypedList(m) /\ EndsFollow(m) /\ \A s : Position(m, s) = Position(positionings, s)
  BY <1>1, <1>4, SomeUpToDate
<1>6. PositioningsTypeOK'
  BY <1>2, <1>5 DEF Caches, PositioningsTypeOK, TypedList, GetPoint
<1>7. LoftRead'
  BY <1>2, <1>5 DEF Caches, LoftRead, GetPoint
<1> QED
  BY <1>2, <1>5, <1>6, <1>7 DEF Caches, EndsFollow

\* A built loft is what the container holds.
LEMMA BuildLoftKeeps ==
    ASSUME Caches, BuildLoft, UNCHANGED standardized
    PROVE  Caches'
<1> DEFINE list == Updated(positionings, invalidated)
<1>1. TypedList(positionings) /\ EndsFollow(positionings) /\ invalidated \in BOOLEAN
  BY DEF Caches, PositioningsTypeOK, TypedList
<1>2. TypedList(list) /\ EndsFollow(list)
  BY <1>1, UpdatedList
<1>3. CASE fault' = "deadlock" /\ UNCHANGED <<positionings, invalidated, loft, edits>>
  BY <1>3 DEF Caches, PositioningsTypeOK, EndsFollow, LoftRead, Position
<1>4. CASE /\ positionings' = list
           /\ invalidated' = FALSE
           /\ UNCHANGED <<loft, fault, edits>>
  <2>1. loft' = None
    BY <1>4 DEF BuildLoft
  <2>2. TypedList(positionings') /\ EndsFollow(positionings')
    BY <1>2, <1>4 DEF EndsFollow
  <2> QED
    BY <1>4, <2>1, <2>2, CachesKept
<1>5. CASE /\ positionings' = Read(list, Section)
           /\ loft' = [s \in Section |-> Position(list, s)]
           /\ invalidated' = FALSE
           /\ UNCHANGED <<fault, edits>>
  <2>1. /\ TypedList(Read(list, Section)) /\ EndsFollow(Read(list, Section))
        /\ \A t : Position(Read(list, Section), t) = Position(list, t)
    BY <1>2, ReadList
  <2> HIDE DEF list
  <2>2. \A s \in Section : Position(list, s) \in Point
    BY <1>2, PositionIsPoint DEF TypedList
  <2>3. PositioningsTypeOK'
    BY <1>5, <2>1, <2>2 DEF Caches, PositioningsTypeOK, TypedList
  <2>4. LoftRead'
    BY <1>5, <2>1 DEF LoftRead
  <2> QED
    BY <1>5, <2>1, <2>3, <2>4 DEF Caches
<1> QED
  BY <1>3, <1>4, <1>5 DEF BuildLoft

\* A move empties the cache of the loft.
LEMMA SetPositionKeeps ==
    ASSUME Caches, NEW s \in Section, NEW point \in Point, NEW move \in BOOLEAN,
           SetPosition(s, point, move),
           standardized' \in Seq(Point) \cup {None}
    PROVE  Caches'
<1> DEFINE list == Updated(positionings, invalidated)
<1>1. TypedList(positionings) /\ EndsFollow(positionings) /\ invalidated \in BOOLEAN
  BY DEF Caches, PositioningsTypeOK, TypedList
<1>2. TypedList(list) /\ EndsFollow(list)
  BY <1>1, UpdatedList
<1>3. loft' = None
  BY DEF SetPosition, UpdateThrows, Caches, LoftRead
<1>4. TypedList(positionings') /\ EndsFollow(positionings')
  <2>1. CASE positionings' = list
    BY <1>2, <2>1
  <2>2. CASE positionings' = Placed(list, s, point, move) /\ Len(positionings') <= MaxPositionings
    BY <1>2, <2>2, PlacedList DEF TypedList
  <2> QED
    BY <2>1, <2>2 DEF SetPosition
<1>5. invalidated' \in BOOLEAN /\ UNCHANGED <<fault, edits>>
  BY DEF SetPosition
<1>6. PositioningsTypeOK'
  BY <1>3, <1>4, <1>5 DEF Caches, PositioningsTypeOK, TypedList
<1> QED
  BY <1>3, <1>4, <1>6 DEF Caches, LoftRead

\* The widget's edit empties the cache of the loft.
LEMMA ApplyKeeps ==
    ASSUME Caches, NEW i \in DOMAIN positionings, NEW from \in Section \cup {None},
           NEW to \in Section, NEW vector \in Point, Apply(i, from, to, vector),
           UNCHANGED standardized
    PROVE  Caches'
<1> DEFINE n == Len(positionings)
           e == Invalid(Edited(i, from, to, vector))
<1>1. /\ n \in Nat /\ n <= MaxPositionings /\ DOMAIN positionings = 1 .. n
      /\ positionings \in [1 .. n -> Positioning]
  BY SequenceIsFunction DEF Caches, PositioningsTypeOK
<1>2. Edited(i, from, to, vector) \in Positioning
  BY <1>1 DEF Edited, Positioning
<1>3. e \in Positioning /\ e.toPoint = None
  BY <1>2, OnePositioning
<1> HIDE DEF e
<1>4. positionings' = [positionings EXCEPT ![i] = e]
  BY DEF Apply, e
<1>5. positionings' \in [1 .. n -> Positioning]
  BY <1>1, <1>3, <1>4
<1>6. TypedList(positionings')
  BY <1>1, <1>5, FunctionIsSequence DEF TypedList
<1>7. EndsFollow(positionings')
  BY <1>1, <1>3, <1>4 DEF Caches, EndsFollow, Valid
<1>8. PositioningsTypeOK'
  BY <1>6, PositioningsAssumption DEF Caches, PositioningsTypeOK, TypedList, Apply
<1> QED
  BY <1>7, <1>8 DEF Caches, LoftRead, Apply

\* The chain that replaces the positionings is linked along the order.
LEMMA BeginStandardizeKeeps ==
    ASSUME Caches, BeginStandardize
    PROVE  PositioningsInv'
<1>1. PositioningsTypeOK'
  BY ChainIsLinked, EmptySeq DEF Caches, PositioningsTypeOK, BeginStandardize, TypedList
<1>2. EndsFollow(positionings')
  BY ChainIsLinked DEF BeginStandardize
<1>3. Standardizing'
  <2>1. LinkedAs(positionings', Order) /\ standardized' = <<>> /\ positionings' = Chain
    BY ChainIsLinked DEF BeginStandardize
  <2>2. Len(<<>>) <= Len(Order) /\ DOMAIN <<>> = {}
    BY PositioningsAssumption, SequenceIsFunction, EmptySeq
  <2>3. Chain' = Chain
    BY DEF Chain, NewPositioning
  <2> QED
    BY <2>1, <2>2, <2>3 DEF Standardizing, StandardizedSectionsStay
<1> QED
  BY <1>1, <1>2, <1>3 DEF PositioningsInv, LoftRead, BeginStandardize

-----------------------------------------------------------------------------
(* Placing the sections of the chain.                                      *)

\* Placing moves no link of the chain.
LEMMA PlacedChain ==
    ASSUME NEW list, TypedList(list), LinkedAs(list, Order),
           NEW i \in DOMAIN Order, NEW point \in Point
    PROVE  /\ Placed(list, Order[i], point, FALSE) \in Seq(Positioning)
           /\ LinkedAs(Placed(list, Order[i], point, FALSE), Order)
<1> DEFINE placed == Placed(list, Order[i], point, FALSE)
<1>1. /\ list \in Seq(Positioning) /\ DOMAIN list = DOMAIN Order
      /\ Order[i] \in Section /\ list[i].to = Order[i]
  BY PositioningsAssumption, SequenceIsFunction DEF TypedList, LinkedAs
<1>2. placed \in Seq(Positioning) /\ SameLinks(list, placed) /\ Len(placed) = Len(list)
  BY <1>1, PlacedList
<1> HIDE DEF placed
<1>3. DOMAIN placed = DOMAIN list
  BY <1>1, <1>2, SequenceIsFunction
<1>4. LinkedAs(placed, Order)
  BY <1>2, <1>3 DEF LinkedAs, SameLinks
<1> QED
  BY <1>2, <1>4 DEF placed

\* The first placement may meet the chain as it was created, without dependents and
\* every start at the origin; it gets the first section right all the same.
LEMMA FirstPlacement ==
    ASSUME NEW point \in Point, 1 \in DOMAIN Order
    PROVE  DefinedPositions(Placed(Chain, Order[1], point, FALSE))[Order[1]] = point
<1> DEFINE list == Chain
           n == Len(list)
           s == Order[1]
           placed == Placed(list, s, point, FALSE)
<1>1. /\ TypedList(list) /\ LinkedAs(list, Order)
      /\ \A i \in DOMAIN list : list[i].fromPoint = Origin /\ list[i].dependents = {}
  BY ChainIsLinked
<1> HIDE DEF list
<1>2. /\ list \in Seq(Positioning) /\ n \in Nat /\ DOMAIN list = 1 .. n
      /\ list \in [1 .. n -> Positioning]
      /\ 1 \in 1 .. n /\ DOMAIN Order = 1 .. n /\ s \in Section
  BY <1>1, PositioningsAssumption, SequenceIsFunction DEF TypedList, LinkedAs
<1>3. list[1].to = s /\ \A k \in 1 .. n : k # 1 => list[k].to # s
  BY <1>1, <1>2, PositioningsAssumption DEF LinkedAs
<1> HIDE DEF s
<1>4. PICK step : /\ LoopOf(list, s, point, FALSE, step)
                  /\ \A i \in DOMAIN list : placed[i].vector = step[n][i].vector
  BY <1>2, <1>3, PlacedExisting
<1> HIDE DEF placed, n
<1>5. step[n][1].vector = Minus(point, Origin)
  <2> DEFINE Good == {k \in 0 .. n : k # 0 => step[k][1].vector = Minus(point, Origin)}
  <2>1. 0 \in Good
    BY <1>2
  <2>2. \A k \in 1 .. n : k - 1 \in Good => k \in Good
    <3> TAKE k \in 1 .. n
    <3> HAVE k - 1 \in Good
    <3>1. step[k] = IF list[k].to = s THEN ToPointSet(step[k - 1], k, point, FALSE)
                    ELSE step[k - 1]
      BY <1>4 DEF LoopOf, n
    <3>2. CASE k = 1
      <4>1. step[k] = ToPointSet(list, 1, point, FALSE)
        <5>1. step[0] = list /\ k - 1 = 0
          BY <1>4, <3>2 DEF LoopOf
        <5> QED
          BY <1>3, <3>1, <3>2, <5>1
      <4>2. 1 \notin list[1].dependents /\ list[1].fromPoint = Origin
        BY <1>1, <1>2
      <4>3. ToPointSet(list, 1, point, FALSE)[1].vector = Minus(point, list[1].fromPoint)
        <5>1. n \in Nat /\ list \in [1 .. n -> Positioning] /\ 1 \in 1 .. n
          BY <1>2
        <5> HIDE DEF Good
        <5> QED
          BY <4>2, <5>1, SetOwn
      <4>4. step[k][1].vector = Minus(point, Origin)
        BY <4>1, <4>2, <4>3
      <4> QED
        BY <1>2, <4>4
    <3>3. CASE k # 1
      <4>1. step[k] = step[k - 1]
        BY <1>3, <3>1, <3>3
      <4>2. k - 1 # 0
        BY <3>3
      <4> QED
        BY <1>2, <4>1, <4>2
    <3> QED
      BY <3>2, <3>3
  <2> HIDE DEF Good
  <2>3. Good \in SUBSET (0 .. n)
    BY DEF Good
  <2>4. \A k \in 0 .. n : k \in Good
    BY <1>2, <2>1, <2>2, <2>3, AllSteps
  <2>5. n \in 0 .. n /\ n # 0
    BY <1>2
  <2> QED
    BY <2>4, <2>5 DEF Good
<1>6. placed \in Seq(Positioning) /\ LinkedAs(placed, Order)
  BY <1>1, <1>2, PlacedChain DEF placed, s
<1>7. FirstTo(placed, s) = {1} /\ DOMAIN placed = 1 .. n
  <2>1. FirstTo(placed, Order[1]) = {1}
    BY <1>2, <1>6, ChainIsReached
  <2>2. Len(placed) = Len(Order) /\ Len(list) = Len(Order)
    BY <1>1, <1>6 DEF LinkedAs
  <2> QED
    BY <1>6, <2>1, <2>2, SequenceIsFunction DEF s, n
<1>8. placed[1].from = None
  BY <1>2, <1>6, <1>7 DEF LinkedAs
<1>9. StartPoints(placed)[1] = Origin
  <2>1. StepOf(placed, StartPoints(placed), StartPoints(placed))
    BY <1>6, StartPointsFollow
  <2> QED
    BY <1>2, <1>7, <1>8, <2>1 DEF StepOf
<1>10. DefinedPositions(placed)[s] = Plus(Origin, placed[1].vector)
  BY <1>2, <1>6, <1>7, <1>9, DefinedPosition, PointArithmetic
<1>11. placed[1].vector = Minus(point, Origin)
  BY <1>2, <1>4, <1>5
<1>12. DefinedPositions(placed)[s] = point
  BY <1>10, <1>11, PointArithmetic
<1> QED
  BY <1>12 DEF placed, s, list

\* The next section gets where it is wanted and those placed before stay.
LEMMA PlaceNextKeeps ==
    ASSUME PositioningsInv, standardized # None, Len(standardized) < Len(Order),
           NEW point \in Point, PlaceNext(point)
    PROVE  PositioningsInv'
<1> DEFINE k == Len(standardized) + 1
           s == Order[k]
           list == Updated(positionings, invalidated)
           placed == Placed(list, s, point, FALSE)
           before == DefinedPositions(positionings)
<1>1. /\ standardized \in Seq(Point) /\ Len(standardized) \in Nat
      /\ DOMAIN standardized = 1 .. Len(standardized)
      /\ DOMAIN Order = 1 .. Len(Order) /\ Len(Order) \in Nat
      /\ k \in DOMAIN Order /\ s \in Section
      /\ \A i, j \in DOMAIN Order : Order[i] = Order[j] => i = j
      /\ \A i \in DOMAIN Order : Order[i] \in Section
  BY PositioningsAssumption, SequenceIsFunction DEF PositioningsInv, PositioningsTypeOK
<1>2. /\ standardized' = Append(standardized, point)
      /\ standardized' \in Seq(Point) /\ Len(standardized') = k
      /\ DOMAIN standardized' = 1 .. k
      /\ standardized'[k] = point
      /\ \A i \in DOMAIN standardized : standardized'[i] = standardized[i]
  BY <1>1, AppendProperties DEF PlaceNext
<1>3. SetPosition(s, point, FALSE)
  BY DEF PlaceNext
<1>4. Caches
  BY DEF PositioningsInv, Caches
<1>5. Caches'
  BY <1>1, <1>2, <1>3, <1>4, SetPositionKeeps
<1>6. /\ TypedList(positionings) /\ EndsFollow(positionings) /\ invalidated \in BOOLEAN
      /\ LinkedAs(positionings, Order)
      /\ invalidated \/ (standardized = <<>> /\ positionings = Chain)
      /\ \A i \in DOMAIN standardized : before[Order[i]] = standardized[i]
  BY DEF PositioningsInv, PositioningsTypeOK, TypedList, Standardizing, StandardizedSectionsStay
<1>7. /\ Unknown(positionings) = {}
      /\ \A i \in DOMAIN Order : before[Order[i]] # None
  BY <1>6, ChainIsReached DEF TypedList
<1>8. positionings' = placed /\ invalidated' = TRUE
  BY <1>3, <1>7 DEF SetPosition, UpdateThrows
<1>9. TypedList(list) /\ LinkedAs(list, Order)
  <2>1. TypedList(list) /\ SameDefinitions(positionings, list)
    BY <1>6, UpdatedList
  <2> HIDE DEF list
  <2>2. DOMAIN list = DOMAIN positionings /\ Len(list) = Len(positionings)
    BY <1>6, <2>1, DefinedAlike DEF TypedList, SameDefinitions
  <2> QED
    BY <1>6, <2>1, <2>2 DEF LinkedAs, SameDefinitions, SameDefinition
<1> HIDE DEF list
<1>10. LinkedAs(placed, Order)
  BY <1>1, <1>9, PlacedChain
<1>11. \A i \in DOMAIN standardized' : DefinedPositions(placed)[Order[i]] = standardized'[i]
  <2>1. CASE invalidated
    <3>1. InStep
      BY <1>7, <2>1 DEF InStep
    <3>2. PositioningsTypeOK /\ EndsFollow(positionings)
      BY DEF PositioningsInv
    <3>3. Current(list) /\ DefinedPositions(list) = before
      BY <3>1, <3>2, InStepCurrent DEF list
    <3>4. DefinedPositions(list)[s] # None
      BY <1>1, <1>7, <3>3
    <3>5. ExactMove(list, s, point)
      BY <1>1, <3>3, <3>4, MoveIsExact
    <3>6. DefinedPositions(placed) = [before EXCEPT ![s] = point]
      BY <3>3, <3>5 DEF ExactMove
    <3>7. DOMAIN before = Section
      BY DEF DefinedPositions
    <3> HIDE DEF before, placed
    <3> TAKE i \in DOMAIN standardized'
    <3>8. CASE i = k
      BY <1>1, <1>2, <3>6, <3>7, <3>8
    <3>9. CASE i # k
      <4>1. i \in DOMAIN standardized /\ i \in DOMAIN Order
        BY <1>1, <1>2, <3>9
      <4>2. Order[i] # s /\ Order[i] \in Section
        BY <1>1, <3>9, <4>1
      <4> QED
        BY <1>2, <1>6, <3>6, <3>7, <4>1, <4>2
    <3> QED
      BY <3>8, <3>9
  <2>2. CASE ~invalidated
    <3>1. standardized = <<>> /\ positionings = Chain
      BY <1>6, <2>2
    <3>2. k = 1 /\ list = Chain
      BY <2>2, <3>1, EmptySeq DEF Updated, list
    <3>3. DefinedPositions(placed)[Order[1]] = point
      BY <1>1, <3>2, FirstPlacement
    <3> HIDE DEF placed, k
    <3>4. \A i \in DOMAIN standardized' : i = 1
      BY <1>2, <3>2
    <3> QED
      BY <1>2, <3>2, <3>3, <3>4
  <2> QED
    BY <1>6, <2>1, <2>2
<1>12. StandardizedSectionsStay'
  <2>1. DefinedPositions(positionings)' = DefinedPositions(positionings')
    BY DEF DefinedPositions
  <2> HIDE DEF placed
  <2> QED
    BY <1>8, <1>11, <2>1 DEF StandardizedSectionsStay
<1>13. Standardizing'
  <2> HIDE DEF placed
  <2> QED
    BY <1>1, <1>2, <1>8, <1>10, <1>12 DEF Standardizing
<1> QED
  BY <1>5, <1>13 DEF Caches, PositioningsInv

\* While no standardizer runs, the calls keep the caches.
LEMMA CallKeeps ==
    ASSUME PositioningsInv, standardized = None, Call, UNCHANGED standardized
    PROVE  PositioningsInv'
<1>1. Caches
  BY DEF PositioningsInv, Caches
<1>2. Standardizing'
  BY DEF Standardizing
<1>3. ASSUME NEW s \in Section, GetPosition(s)
      PROVE  Caches'
  BY <1>1, <1>3, GetPositionKeeps
<1>4. ASSUME NEW i \in DOMAIN positionings, GetPoint(i)
      PROVE  Caches'
  BY <1>1, <1>4, GetPointKeeps
<1>5. ASSUME BuildLoft
      PROVE  Caches'
  BY <1>1, <1>5, BuildLoftKeeps
<1>6. ASSUME NEW s \in Section, NEW point \in Point, NEW move \in BOOLEAN,
             SetPosition(s, point, move)
      PROVE  Caches'
  <2>1. standardized' \in Seq(Point) \cup {None}
    BY <1>1 DEF Caches, PositioningsTypeOK
  <2> QED
    BY <1>1, <1>6, <2>1, SetPositionKeeps
<1>7. ASSUME NEW i \in DOMAIN positionings, NEW from \in Section \cup {None},
             NEW to \in Section, NEW vector \in Point, Apply(i, from, to, vector)
      PROVE  Caches'
  BY <1>1, <1>7, ApplyKeeps
<1>8. Caches'
  BY <1>3, <1>4, <1>5, <1>6, <1>7 DEF Call
<1> QED
  BY <1>2, <1>8 DEF Caches, PositioningsInv

\* Every step keeps the invariant.
LEMMA NextKeeps ==
    ASSUME PositioningsInv, [Next]_vars
    PROVE  PositioningsInv'
<1>1. CASE standardized = None /\ Call /\ UNCHANGED standardized
  BY <1>1, CallKeeps
<1>2. CASE BeginStandardize
  BY <1>2, BeginStandardizeKeeps DEF PositioningsInv, Caches
<1>3. ASSUME NEW point \in Point, standardized # None, Len(standardized) < Len(Order),
             PlaceNext(point)
      PROVE  PositioningsInv'
  BY <1>3, PlaceNextKeeps
<1>4. CASE EndStandardize
  <2>1. PositioningsTypeOK'
    BY <1>4 DEF PositioningsInv, PositioningsTypeOK, EndStandardize
  <2>2. EndsFollow(positionings)' /\ LoftRead'
    BY <1>4 DEF PositioningsInv, EndsFollow, LoftRead, Position, EndStandardize
  <2>3. Standardizing'
    BY <1>4 DEF EndStandardize, Standardizing
  <2> QED
    BY <2>1, <2>2, <2>3 DEF PositioningsInv
<1>5. CASE UNCHANGED vars
  <2>1. PositioningsTypeOK'
    BY <1>5 DEF PositioningsInv, PositioningsTypeOK, vars
  <2>2. EndsFollow(positionings)' /\ LoftRead'
    BY <1>5 DEF PositioningsInv, EndsFollow, LoftRead, Position, vars
  <2>3. StandardizedSectionsStay' <=> StandardizedSectionsStay
    BY <1>5 DEF StandardizedSectionsStay, DefinedPositions, vars
  <2>4. Standardizing'
    BY <1>5, <2>3 DEF PositioningsInv, Standardizing, LinkedAs, vars
  <2> QED
    BY <2>1, <2>2, <2>4 DEF PositioningsInv
<1> QED
  BY <1>1, <1>2, <1>3, <1>4, <1>5 DEF Next

-----------------------------------------------------------------------------
(* Theorems.                                                               *)

\* In every state: end points follow from what they were computed from, a cached
\* loft shows an up-to-date container, and the standardizer's chain is intact with
\* the sections placed so far where they were wanted.
THEOREM PositioningsInductive == Spec => []PositioningsInv
<1>1. PositioningsInv /\ [Next]_vars => PositioningsInv'
  BY NextKeeps
<1> QED
  BY InitInvariant, <1>1, PTL DEF Spec

\* The containers, positionings and caches hold what the code may put there.
THEOREM PositioningsTypeCorrect == Spec => []PositioningsTypeOK
<1>1. PositioningsInv => PositioningsTypeOK
  BY DEF PositioningsInv
<1> QED
  BY PositioningsInductive, <1>1, PTL

\* No sequence of reads, moves, widget edits, standardizings and failed updates
\* leaves a cached loft that shows a section elsewhere than the positionings do.
THEOREM LoftsFollow == Spec => []LoftFollowsPositions
<1>1. PositioningsInv => LoftFollowsPositions
  BY DEF PositioningsInv, LoftRead, LoftFollowsPositions, Updated
<1> QED
  BY PositioningsInductive, <1>1, PTL

\* SetPositioningTransformation puts a section where it was asked to, for chains of
\* any length and sections with several positionings; without its dependents no
\* other section moves, with them no other vector changes.
THEOREM MovesStayExact == Spec => []MovesAreExact
<1>1. PositioningsInv => MovesAreExact
  BY TypedMovesAreExact DEF PositioningsInv
<1> QED
  BY PositioningsInductive, <1>1, PTL

\* The standardizer puts every section where it is wanted, one after the other,
\* and none of its moves displaces a section that it placed before.
THEOREM StandardizedStay == Spec => []StandardizedSectionsStay
<1>1. PositioningsInv => StandardizedSectionsStay
  BY DEF PositioningsInv, Standardizing, StandardizedSectionsStay
<1> QED
  BY PositioningsInductive, <1>1, PTL
=============================================================================
