---------------------------- MODULE CachesProofs ----------------------------
(***************************************************************************)
(* Theorems about Caches, for any threads, any caches and any acyclic way  *)
(* of reading each other.                                                  *)
(***************************************************************************)
EXTENDS Caches, TLAPS

\* No build function reads its own cache.
LEMMA NoSelfRead ==
    ASSUME NEW c \in Cache
    PROVE  c \notin Reads[c]
<1>1. {c} \in SUBSET Cache /\ {c} # {}
    OBVIOUS
<1> QED
    BY <1>1, CachesAssumption

\* The builds a thread is in form a chain: the innermost is its own; one that
\* was asked for by another has the thread, and is not the innermost's; and
\* one that is not the innermost has asked for a build.
Chained ==
    /\ \A t \in Thread : inner[t] # None => owner[inner[t]] = t
    /\ \A c \in Cache : owner[c] # None /\ reader[c] # None =>
           /\ owner[reader[c]] = owner[c]
           /\ c \in Reads[reader[c]]
           /\ inner[owner[c]] # reader[c]
    /\ \A c, d \in Cache :
           owner[c] # None /\ owner[d] # None /\ reader[c] # None /\ reader[c] = reader[d] => c = d
    /\ \A c \in Cache : owner[c] # None /\ inner[owner[c]] # c =>
           \E d \in Reads[c] : owner[d] = owner[c] /\ reader[d] = c

\* A thread inside a build asks only for what the build reads.
ReadsAsked ==
    \A t \in Thread : wants[t] # None /\ inner[t] # None => wants[t] \in Reads[inner[t]]

LockedBuilds == \A c \in Cache : value[c] = "building" <=> owner[c] # None

CachesInv == CachesTypeOK /\ Chained /\ ReadsAsked /\ LockedBuilds

LEMMA InitCaches == Init => CachesInv
BY CachesAssumption
   DEF Init, CachesInv, CachesTypeOK, Chained, ReadsAsked, LockedBuilds

LEMMA CallCaches ==
    ASSUME CachesInv, NEW t \in Thread, NEW c \in Cache, Call(t, c)
    PROVE  CachesInv'
<1>1. inner[t] = None /\ wants' = [wants EXCEPT ![t] = c]
      /\ UNCHANGED <<value, owner, reader, seen, inner, failing>>
    BY DEF Call, Outside
<1>2. CachesTypeOK'
    BY <1>1 DEF CachesInv, CachesTypeOK
<1>3. ReadsAsked'
    BY <1>1 DEF CachesInv, CachesTypeOK, ReadsAsked
<1> QED
    BY <1>1, <1>2, <1>3 DEF CachesInv, Chained, LockedBuilds

LEMMA ReadCaches ==
    ASSUME CachesInv, NEW t \in Thread, NEW c \in Cache, Read(t, c)
    PROVE  CachesInv'
<1>1. /\ inner[t] \in Cache /\ c \in Reads[inner[t]]
      /\ seen' = [seen EXCEPT ![inner[t]] = @ \cup {c}]
      /\ wants' = [wants EXCEPT ![t] = c]
      /\ UNCHANGED <<value, owner, reader, inner, failing>>
    BY DEF Read, CachesInv, CachesTypeOK
<1>2. CachesTypeOK'
    BY <1>1 DEF CachesInv, CachesTypeOK
<1>3. ReadsAsked'
    BY <1>1 DEF CachesInv, CachesTypeOK, ReadsAsked
<1> QED
    BY <1>1, <1>2, <1>3 DEF CachesInv, Chained, LockedBuilds

LEMMA HitCaches ==
    ASSUME CachesInv, NEW t \in Thread, NEW c \in Cache, Hit(t, c)
    PROVE  CachesInv'
<1>1. /\ wants' = [wants EXCEPT ![t] = None]
      /\ UNCHANGED <<value, owner, reader, seen, inner, failing>>
    BY DEF Hit
<1>2. CachesTypeOK' /\ ReadsAsked'
    BY <1>1 DEF CachesInv, CachesTypeOK, ReadsAsked
<1> QED
    BY <1>1, <1>2 DEF CachesInv, Chained, LockedBuilds

LEMMA MissCaches ==
    ASSUME CachesInv, NEW t \in Thread, NEW c \in Cache, Miss(t, c)
    PROVE  CachesInv'
<1>1. /\ wants[t] = c /\ owner[c] = None
      /\ value' = [value EXCEPT ![c] = "building"]
      /\ owner' = [owner EXCEPT ![c] = t]
      /\ reader' = [reader EXCEPT ![c] = inner[t]]
      /\ inner' = [inner EXCEPT ![t] = c]
      /\ wants' = [wants EXCEPT ![t] = None]
      /\ UNCHANGED <<seen, failing>>
    BY DEF Miss
<1>2. c # None /\ t # None /\ None \notin Cache /\ None \notin Thread
    BY CachesAssumption
<1>3. CachesTypeOK'
    BY <1>1 DEF CachesInv, CachesTypeOK
<1>4. LockedBuilds' /\ ReadsAsked'
    BY <1>1, <1>2 DEF CachesInv, CachesTypeOK, LockedBuilds, ReadsAsked
<1>5. \A d \in Cache : owner[d] # None /\ reader[d] # None =>
          /\ reader[d] # c
          /\ d # c
          /\ inner[owner[d]] # reader[d]
          /\ owner[reader[d]] = owner[d]
          /\ d \in Reads[reader[d]]
    BY <1>1, <1>2 DEF CachesInv, CachesTypeOK, Chained
<1>6. inner[t] # None => owner[inner[t]] = t /\ c \in Reads[inner[t]] /\ inner[t] # c
    BY <1>1, <1>2 DEF CachesInv, Chained, ReadsAsked
<1>7. Chained'
  <2>1. \A u \in Thread : inner'[u] # None => owner'[inner'[u]] = u
    <3>1. owner'[inner'[t]] = t
        BY <1>1 DEF CachesInv, CachesTypeOK
    <3>2. ASSUME NEW u \in Thread, u # t, inner'[u] # None PROVE owner'[inner'[u]] = u
      <4>1. inner'[u] = inner[u] /\ owner[inner[u]] = u
          BY <1>1, <3>2 DEF CachesInv, CachesTypeOK, Chained
      <4>2. inner[u] # c
          BY <1>1, <1>2, <4>1
      <4> QED
          BY <1>1, <3>2, <4>1, <4>2 DEF CachesInv, CachesTypeOK
    <3> QED
        BY <3>1, <3>2
  <2>2. ASSUME NEW d \in Cache, owner'[d] # None, reader'[d] # None
        PROVE  /\ owner'[reader'[d]] = owner'[d]
               /\ d \in Reads[reader'[d]]
               /\ inner'[owner'[d]] # reader'[d]
    <3>1. CASE d = c
      <4>1. reader'[c] = inner[t] /\ owner'[c] = t /\ inner'[t] = c
          BY <1>1 DEF CachesInv, CachesTypeOK
      <4>2. inner[t] \in Cache /\ inner[t] # c
          BY <1>6, <2>2, <3>1, <4>1 DEF CachesInv, CachesTypeOK
      <4>3. owner'[inner[t]] = owner[inner[t]]
          BY <1>1, <4>2 DEF CachesInv, CachesTypeOK
      <4> QED
          BY <1>6, <2>2, <3>1, <4>1, <4>2, <4>3
    <3>2. CASE d # c
      <4>1. owner'[d] = owner[d] /\ reader'[d] = reader[d] /\ reader[d] \in Cache
          BY <1>1, <2>2, <3>2 DEF CachesInv, CachesTypeOK
      <4>2. /\ owner'[reader[d]] = owner[reader[d]]
            /\ inner'[owner[d]] = inner[owner[d]] \/ inner'[owner[d]] = c
          BY <1>1, <1>5, <2>2, <4>1 DEF CachesInv, CachesTypeOK
      <4> QED
          BY <1>5, <2>2, <4>1, <4>2
    <3> QED
        BY <3>1, <3>2
  <2>3. ASSUME NEW d \in Cache, NEW e \in Cache, owner'[d] # None, owner'[e] # None,
               reader'[d] # None, reader'[d] = reader'[e]
        PROVE  d = e
    <3>1. \A x \in Cache \ {c} : owner'[x] = owner[x] /\ reader'[x] = reader[x]
        BY <1>1 DEF CachesInv, CachesTypeOK
    <3>2. reader'[c] = inner[t]
        BY <1>1 DEF CachesInv, CachesTypeOK
    <3>3. ASSUME NEW x \in Cache \ {c}, owner'[x] # None, reader'[x] = inner[t], inner[t] # None
          PROVE  FALSE
        BY <1>5, <1>6, <3>1, <3>3
    <3>4. CASE d # c /\ e # c
        BY <2>3, <3>1, <3>4 DEF CachesInv, Chained
    <3> QED
        BY <2>3, <3>2, <3>3, <3>4
  <2>4. ASSUME NEW b \in Cache, owner'[b] # None, inner'[owner'[b]] # b
        PROVE  \E d \in Reads[b] : owner'[d] = owner'[b] /\ reader'[d] = b
    <3>1. b # c /\ owner'[b] = owner[b]
        BY <1>1, <2>4 DEF CachesInv, CachesTypeOK
    <3>2. CASE inner[owner[b]] = b
      <4>1. owner[b] = t /\ inner[t] = b
          BY <1>1, <2>4, <3>1, <3>2 DEF CachesInv, CachesTypeOK
      <4> QED
          BY <1>1, <1>2, <1>6, <3>1, <4>1 DEF CachesInv, CachesTypeOK
    <3>3. CASE inner[owner[b]] # b
      <4>1. PICK d \in Reads[b] : owner[d] = owner[b] /\ reader[d] = b
          BY <2>4, <3>1, <3>3 DEF CachesInv, Chained
      <4>2. d # c /\ d \in Cache
          BY <1>1, <2>4, <3>1, <4>1, CachesAssumption
      <4> QED
          BY <1>1, <3>1, <4>1, <4>2 DEF CachesInv, CachesTypeOK
    <3> QED
        BY <3>2, <3>3
  <2> QED
      BY <2>1, <2>2, <2>3, <2>4 DEF Chained
<1> QED
    BY <1>3, <1>4, <1>7 DEF CachesInv

LEMMA LeaveCaches ==
    ASSUME CachesInv, NEW t \in Thread, NEW c \in Cache, NEW v \in {"none", "built"},
           Leave(t, c, v), failing' \in [Thread -> BOOLEAN]
    PROVE  CachesInv'
<1>1. /\ inner[t] = c /\ wants[t] = None
      /\ value' = [value EXCEPT ![c] = v]
      /\ owner' = [owner EXCEPT ![c] = None]
      /\ inner' = [inner EXCEPT ![t] = reader[c]]
      /\ reader' = [reader EXCEPT ![c] = None]
      /\ seen' = [seen EXCEPT ![c] = {}]
      /\ wants' = wants
    BY DEF Leave
<1>2. c # None /\ t # None /\ None \notin Cache /\ None \notin Thread
    BY CachesAssumption
<1>3. owner[c] = t
    BY <1>1, <1>2 DEF CachesInv, Chained
<1>4. CachesTypeOK'
    BY <1>1 DEF CachesInv, CachesTypeOK
<1>5. LockedBuilds' /\ ReadsAsked'
    BY <1>1, <1>2 DEF CachesInv, CachesTypeOK, LockedBuilds, ReadsAsked
<1>6. \A d \in Cache : owner[d] # None /\ reader[d] # None =>
          /\ reader[d] # c
          /\ owner[reader[d]] = owner[d]
          /\ d \in Reads[reader[d]]
          /\ inner[owner[d]] # reader[d]
    BY <1>1, <1>3 DEF CachesInv, CachesTypeOK, Chained
<1>7. \A d \in Cache \ {c} : owner'[d] = owner[d] /\ reader'[d] = reader[d]
    BY <1>1 DEF CachesInv, CachesTypeOK
<1>8. owner'[c] = None
    BY <1>1 DEF CachesInv, CachesTypeOK
<1>9. inner'[t] = reader[c] /\ \A u \in Thread \ {t} : inner'[u] = inner[u] /\ inner'[u] # c
    BY <1>1, <1>2, <1>3 DEF CachesInv, CachesTypeOK, Chained
<1>10. Chained'
  <2>1. \A u \in Thread : inner'[u] # None => owner'[inner'[u]] = u
    <3>1. ASSUME reader[c] # None PROVE owner'[reader[c]] = t
        BY <1>2, <1>3, <1>6, <1>7, <3>1 DEF CachesInv, CachesTypeOK
    <3>2. ASSUME NEW u \in Thread \ {t}, inner[u] # None PROVE owner'[inner[u]] = u
        BY <1>7, <1>9, <3>2 DEF CachesInv, CachesTypeOK, Chained
    <3> QED
        BY <1>9, <3>1, <3>2
  <2>2. ASSUME NEW d \in Cache, owner'[d] # None, reader'[d] # None
        PROVE  /\ owner'[reader'[d]] = owner'[d]
               /\ d \in Reads[reader'[d]]
               /\ inner'[owner'[d]] # reader'[d]
    <3>1. d # c /\ owner'[d] = owner[d] /\ reader'[d] = reader[d]
        BY <1>7, <1>8, <2>2
    <3>2. reader[d] \in Cache \ {c} /\ owner[d] \in Thread
        BY <1>6, <2>2, <3>1 DEF CachesInv, CachesTypeOK
    <3>3. owner'[reader[d]] = owner[d] /\ d \in Reads[reader[d]]
        BY <1>6, <1>7, <2>2, <3>1, <3>2
    <3>4. inner'[owner[d]] # reader[d]
      <4>1. CASE owner[d] = t
        <5>1. reader[c] # reader[d]
            BY <1>2, <1>3, <2>2, <3>1 DEF CachesInv, Chained
        <5> QED
            BY <1>9, <4>1, <5>1
      <4>2. CASE owner[d] # t
          BY <1>6, <1>9, <2>2, <3>1, <3>2, <4>2
      <4> QED
          BY <4>1, <4>2
    <3> QED
        BY <3>1, <3>3, <3>4
  <2>3. ASSUME NEW d \in Cache, NEW e \in Cache, owner'[d] # None, owner'[e] # None,
               reader'[d] # None, reader'[d] = reader'[e]
        PROVE  d = e
      BY <1>7, <1>8, <2>3 DEF CachesInv, Chained
  <2>4. ASSUME NEW b \in Cache, owner'[b] # None, inner'[owner'[b]] # b
        PROVE  \E d \in Reads[b] : owner'[d] = owner'[b] /\ reader'[d] = b
    <3>1. b # c /\ owner'[b] = owner[b] /\ owner[b] \in Thread
        BY <1>7, <1>8, <2>4 DEF CachesInv, CachesTypeOK
    <3>2. inner[owner[b]] # b
        BY <1>1, <1>9, <2>4, <3>1
    <3>3. PICK d \in Reads[b] : owner[d] = owner[b] /\ reader[d] = b
        BY <2>4, <3>1, <3>2 DEF CachesInv, Chained
    <3>4. d \in Cache
        BY CachesAssumption
    <3>5. d # c
        BY <1>3, <1>9, <2>4, <3>1, <3>3
    <3> QED
        BY <1>7, <3>1, <3>3, <3>4, <3>5
  <2> QED
      BY <2>1, <2>2, <2>3, <2>4 DEF Chained
<1> QED
    BY <1>4, <1>5, <1>10 DEF CachesInv

LEMMA CatchCaches ==
    ASSUME CachesInv, NEW t \in Thread, Catch(t)
    PROVE  CachesInv'
BY DEF Catch, CachesInv, CachesTypeOK, Chained, ReadsAsked, LockedBuilds

LEMMA ClearCaches ==
    ASSUME CachesInv, NEW c \in Cache, Clear(c)
    PROVE  CachesInv'
BY DEF Clear, CachesInv, CachesTypeOK, Chained, ReadsAsked, LockedBuilds

THEOREM CachesInductive == Spec => []CachesInv
<1>1. Init => CachesInv
    BY InitCaches
<1>2. CachesInv /\ [Next]_vars => CachesInv'
  <2> SUFFICES ASSUME CachesInv, [Next]_vars PROVE CachesInv'
      OBVIOUS
  <2>1. CASE \E t \in Thread, c \in Cache : Call(t, c)
      BY <2>1, CallCaches
  <2>2. CASE \E t \in Thread, c \in Cache : Read(t, c)
      BY <2>2, ReadCaches
  <2>3. CASE \E t \in Thread, c \in Cache : Hit(t, c)
      BY <2>3, HitCaches
  <2>4. CASE \E t \in Thread, c \in Cache : Miss(t, c)
      BY <2>4, MissCaches
  <2>5. CASE \E t \in Thread, c \in Cache : Finish(t, c)
    <3>1. failing' \in [Thread -> BOOLEAN]
        BY <2>5 DEF Finish, CachesInv, CachesTypeOK
    <3> QED
        BY <2>5, <3>1, LeaveCaches DEF Finish
  <2>6. CASE \E t \in Thread, c \in Cache : Throw(t, c)
    <3>1. failing' \in [Thread -> BOOLEAN]
        BY <2>6 DEF Throw, CachesInv, CachesTypeOK
    <3> QED
        BY <2>6, <3>1, LeaveCaches DEF Throw
  <2>7. CASE \E t \in Thread : Catch(t)
      BY <2>7, CatchCaches
  <2>8. CASE \E c \in Cache : Clear(c)
      BY <2>8, ClearCaches
  <2>9. CASE UNCHANGED vars
      BY <2>9 DEF vars, CachesInv, CachesTypeOK, Chained, ReadsAsked, LockedBuilds
  <2> QED
      BY <2>1, <2>2, <2>3, <2>4, <2>5, <2>6, <2>7, <2>8, <2>9 DEF Next, Step
<1> QED
    BY <1>1, <1>2, PTL DEF Spec

-----------------------------------------------------------------------------

\* The variables keep their types.
THEOREM CachesTypeCorrect == Spec => []CachesTypeOK
<1>1. CachesInv => CachesTypeOK
    BY DEF CachesInv
<1> QED
    BY <1>1, CachesInductive, PTL

\* A thread outside all builds holds no mutex: what it held would form a set
\* of caches each of which reads another one of the set.
LEMMA OutsideHoldsNothing ==
    ASSUME CachesInv, NEW t \in Thread, inner[t] = None
    PROVE  \A c \in Cache : owner[c] # t
<1> DEFINE S == {c \in Cache : owner[c] = t}
<1>1. ASSUME NEW c \in S PROVE Reads[c] \cap S # {}
  <2>1. PICK d \in Reads[c] : owner[d] = t
      BY CachesAssumption DEF CachesInv, Chained
  <2>2. d \in Cache
      BY CachesAssumption
  <2> QED
      BY <2>1, <2>2
<1>2. S \in SUBSET Cache
    OBVIOUS
<1>3. S = {}
    BY <1>1, <1>2, CachesAssumption
<1> QED
    BY <1>3

\* No half-built value without its mutex, and no mutex after the last build.
THEOREM BuildsLocked == Spec => []BuildsAreLocked
<1>1. CachesInv => BuildsAreLocked
    BY OutsideHoldsNothing DEF BuildsAreLocked, CachesInv, LockedBuilds
<1> QED
    BY <1>1, CachesInductive, PTL

\* Threads that wait for each other would hold a set of caches each of which
\* reads another one of the set.
THEOREM NoDeadlock == Spec => []NoCircularWait
<1>1. CachesInv => NoCircularWait
  <2> SUFFICES ASSUME CachesInv, NEW S \in SUBSET Thread, S # {},
                      \A t \in S : \E u \in S : Waits(t, u)
               PROVE  FALSE
      BY DEF NoCircularWait
  <2> DEFINE D == {c \in Cache : owner[c] \in S}
  <2>1. \A t \in S : wants[t] \in D
      BY DEF Waits, CachesInv, CachesTypeOK
  <2>2. D # {} /\ D \in SUBSET Cache
      BY <2>1
  <2>3. ASSUME NEW c \in D PROVE Reads[c] \cap D # {}
    <3>1. owner[c] \in S /\ owner[c] \in Thread /\ owner[c] # None
        BY CachesAssumption
    <3>2. CASE inner[owner[c]] = c
      <4>1. wants[owner[c]] \in Reads[c]
          BY <2>1, <3>1, <3>2, CachesAssumption DEF CachesInv, ReadsAsked
      <4> QED
          BY <2>1, <3>1, <4>1
    <3>3. CASE inner[owner[c]] # c
      <4>1. PICK d \in Reads[c] : owner[d] = owner[c]
          BY <3>1, <3>3 DEF CachesInv, Chained
      <4>2. d \in D
          BY <3>1, <4>1, CachesAssumption
      <4> QED
          BY <4>1, <4>2
    <3> QED
        BY <3>2, <3>3
  <2> QED
      BY <2>2, <2>3, CachesAssumption
<1> QED
    BY <1>1, CachesInductive, PTL

\* Only clear() takes a value away.
THEOREM ClearEndsValues == Spec => OnlyClearEndsValues
<1> DEFINE A == \A c \in Cache : value[c] = "built" /\ value'[c] # "built" => Clear(c)
<1>1. CachesInv /\ [Next]_vars => [A]_vars
  <2> SUFFICES ASSUME CachesInv, Next, NEW c \in Cache, value[c] = "built", value'[c] # "built"
               PROVE  Clear(c)
      OBVIOUS
  <2>1. ASSUME NEW t \in Thread, Step(t) PROVE FALSE
    <3>1. CASE \E d \in Cache : Read(t, d) \/ Hit(t, d)
        BY <3>1 DEF Read, Hit
    <3>2. CASE \E d \in Cache : Miss(t, d)
        BY <3>2 DEF Miss, CachesInv, CachesTypeOK
    <3>3. ASSUME NEW d \in Cache, NEW v, Leave(t, d, v) PROVE FALSE
      <4>1. owner[d] = t /\ value[d] = "building" /\ value' = [value EXCEPT ![d] = v]
          BY <3>3, CachesAssumption DEF Leave, CachesInv, Chained, LockedBuilds
      <4> QED
          BY <4>1 DEF CachesInv, CachesTypeOK
    <3>4. CASE \E d \in Cache : Finish(t, d) \/ Throw(t, d)
        BY <3>3, <3>4 DEF Finish, Throw
    <3>5. CASE Catch(t)
        BY <3>5 DEF Catch
    <3> QED
        BY <2>1, <3>1, <3>2, <3>4, <3>5 DEF Step
  <2>2. ASSUME NEW t \in Thread, NEW d \in Cache, Call(t, d) PROVE FALSE
      BY <2>2 DEF Call
  <2>3. ASSUME NEW d \in Cache, Clear(d) PROVE Clear(c)
    <3>1. d = c
        BY <2>3 DEF Clear, CachesInv, CachesTypeOK
    <3> QED
        BY <2>3, <3>1
  <2> QED
      BY <2>1, <2>2, <2>3 DEF Next
<1> QED
    BY <1>1, CachesInductive, PTL DEF Spec, OnlyClearEndsValues
=============================================================================
