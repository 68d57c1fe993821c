------------------------------- MODULE Caches -------------------------------
(***************************************************************************)
(* The template Cache: a value that is built at its first read, under the  *)
(* mutex of the cache.  A build function reads other caches while it holds *)
(* this mutex, so a thread that asks for one value holds the mutexes of a  *)
(* whole chain of builds; an exception leaves the builds one by one.       *)
(*                                                                         *)
(* Shapes are left out: a value is there or not.  A reader copies what it  *)
(* is given; that another thread may clear the value before the copy is    *)
(* made is not modelled here.  Nor is writeAccess(), which puts in a value *)
(* that was not built: no code calls it.                                   *)
(***************************************************************************)
EXTENDS Naturals

CONSTANTS
    None,       \* no cache, or no thread
    Cache,
    Thread,
    Reads,      \* the caches that the build function of a cache reads
    MaxCalls    \* bound: the calls of value() from outside a build

\* Build functions do not read each other's caches in a circle.
ASSUME CachesAssumption ==
    /\ None \notin Cache \cup Thread
    /\ Reads \in [Cache -> SUBSET Cache]
    /\ \A S \in SUBSET Cache : S # {} => \E c \in S : Reads[c] \cap S = {}

VARIABLES
    value,      \* "none", "building" or "built"
    owner,      \* the thread that has locked the mutex of a cache, or None
    reader,     \* the cache whose build function asked for this build
    seen,       \* what a build under way has read so far
    inner,      \* the innermost build a thread is in
    wants,      \* the cache whose value a thread is asking for
    failing,    \* whether an exception is passing through a thread
    calls

vars == <<value, owner, reader, seen, inner, wants, failing, calls>>

CachesTypeOK ==
    /\ value \in [Cache -> {"none", "building", "built"}]
    /\ owner \in [Cache -> Thread \cup {None}]
    /\ reader \in [Cache -> Cache \cup {None}]
    /\ seen \in [Cache -> SUBSET Cache]
    /\ inner \in [Thread -> Cache \cup {None}]
    /\ wants \in [Thread -> Cache \cup {None}]
    /\ failing \in [Thread -> BOOLEAN]

Init ==
    /\ value = [c \in Cache |-> "none"]
    /\ owner = [c \in Cache |-> None]
    /\ reader = [c \in Cache |-> None]
    /\ seen = [c \in Cache |-> {}]
    /\ inner = [t \in Thread |-> None]
    /\ wants = [t \in Thread |-> None]
    /\ failing = [t \in Thread |-> FALSE]
    /\ calls = 0

Outside(t) == inner[t] = None /\ wants[t] = None

\* A user asks for a value.
Call(t, c) ==
    /\ Outside(t)
    /\ calls < MaxCalls
    /\ calls' = calls + 1
    /\ wants' = [wants EXCEPT ![t] = c]
    /\ UNCHANGED <<value, owner, reader, seen, inner, failing>>

\* A bug that could be there: a build function that reads any cache.
ReadAny(t, c) ==
    /\ inner[t] # None
    /\ wants[t] = None
    /\ ~failing[t]
    /\ c \notin seen[inner[t]]
    /\ seen' = [seen EXCEPT ![inner[t]] = @ \cup {c}]
    /\ wants' = [wants EXCEPT ![t] = c]
    /\ UNCHANGED <<value, owner, reader, inner, failing, calls>>

\* A build function asks for a value it needs; a second read of it finds the
\* value as the first one did, and is left out.
Read(t, c) ==
    /\ inner[t] # None
    /\ wants[t] = None
    /\ ~failing[t]
    /\ c \in Reads[inner[t]] \ seen[inner[t]]
    /\ seen' = [seen EXCEPT ![inner[t]] = @ \cup {c}]
    /\ wants' = [wants EXCEPT ![t] = c]
    /\ UNCHANGED <<value, owner, reader, inner, failing, calls>>

\* The mutex is free, and the value is there.
Hit(t, c) ==
    /\ wants[t] = c
    /\ owner[c] = None
    /\ value[c] # "none"
    /\ wants' = [wants EXCEPT ![t] = None]
    /\ UNCHANGED <<value, owner, reader, seen, inner, failing, calls>>

\* A bug that could be there: the test of the value before the mutex, so
\* that a thread which waited for it builds the value once more.
MissUnchecked(t, c) ==
    /\ wants[t] = c
    /\ owner[c] = None
    /\ value' = [value EXCEPT ![c] = "building"]
    /\ owner' = [owner EXCEPT ![c] = t]
    /\ reader' = [reader EXCEPT ![c] = inner[t]]
    /\ inner' = [inner EXCEPT ![t] = c]
    /\ wants' = [wants EXCEPT ![t] = None]
    /\ UNCHANGED <<seen, failing, calls>>

\* The mutex is free, and the value is not there: an empty one is put in its
\* place and given to the build function, with the mutex kept.
Miss(t, c) ==
    /\ wants[t] = c
    /\ owner[c] = None
    /\ value[c] = "none"
    /\ value' = [value EXCEPT ![c] = "building"]
    /\ owner' = [owner EXCEPT ![c] = t]
    /\ reader' = [reader EXCEPT ![c] = inner[t]]
    /\ inner' = [inner EXCEPT ![t] = c]
    /\ wants' = [wants EXCEPT ![t] = None]
    /\ UNCHANGED <<seen, failing, calls>>

\* A bug that could be there: a mutex that nobody unlocks.
LeaveLocked(t, c, v) ==
    /\ inner[t] = c
    /\ wants[t] = None
    /\ value' = [value EXCEPT ![c] = v]
    /\ inner' = [inner EXCEPT ![t] = reader[c]]
    /\ reader' = [reader EXCEPT ![c] = None]
    /\ seen' = [seen EXCEPT ![c] = {}]
    /\ UNCHANGED <<owner, wants, calls>>

\* The innermost build is left, and its mutex released.
Leave(t, c, v) ==
    /\ inner[t] = c
    /\ wants[t] = None
    /\ value' = [value EXCEPT ![c] = v]
    /\ owner' = [owner EXCEPT ![c] = None]
    /\ inner' = [inner EXCEPT ![t] = reader[c]]
    /\ reader' = [reader EXCEPT ![c] = None]
    /\ seen' = [seen EXCEPT ![c] = {}]
    /\ UNCHANGED <<wants, calls>>

\* Some build functions read less than they may.
Finish(t, c) ==
    /\ ~failing[t]
    /\ Leave(t, c, "built")
    /\ UNCHANGED failing

\* A bug that could be there: no catch that resets the half-built value.
ThrowWithoutReset(t, c) ==
    /\ Leave(t, c, "building")
    /\ failing' = [failing EXCEPT ![t] = reader[c] # None]

\* The build function throws, or lets an exception through; the exception
\* goes on to the build that asked, or to the user.
Throw(t, c) ==
    /\ Leave(t, c, "none")
    /\ failing' = [failing EXCEPT ![t] = reader[c] # None]

\* Some functions that build functions use do without what could not be built
\* (findSegment skips such a segment).
Catch(t) ==
    /\ failing[t]
    /\ failing' = [failing EXCEPT ![t] = FALSE]
    /\ UNCHANGED <<value, owner, reader, seen, inner, wants, calls>>

\* A bug that could be there: the values are a map, and clearing erases.
ClearErasing(c) ==
    /\ owner[c] = None
    /\ value' = [d \in Cache \ {c} |-> value[d]]
    /\ UNCHANGED <<owner, reader, seen, inner, wants, failing, calls>>

\* clear() waits for a build of the value.
Clear(c) ==
    /\ owner[c] = None
    /\ value' = [value EXCEPT ![c] = "none"]
    /\ UNCHANGED <<owner, reader, seen, inner, wants, failing, calls>>

Step(t) ==
    \/ \E c \in Cache : Read(t, c) \/ Hit(t, c) \/ Miss(t, c) \/ Finish(t, c) \/ Throw(t, c)
    \/ Catch(t)

Next ==
    \/ \E t \in Thread : Step(t) \/ \E c \in Cache : Call(t, c)
    \/ \E c \in Cache : Clear(c)

Spec == Init /\ [][Next]_vars

\* A thread goes on as long as it can; nobody has to call or to clear.
FairSpec == Spec /\ \A t \in Thread : WF_vars(Step(t))

-----------------------------------------------------------------------------
(* Correctness.                                                            *)

\* A value that is not complete is never left where a reader could find it,
\* and no mutex stays locked once a thread has left the last build, also
\* when exceptions pass through several builds.
BuildsAreLocked ==
    /\ \A c \in Cache : value[c] = "building" <=> owner[c] # None
    /\ \A t \in Thread : inner[t] = None => \A c \in Cache : owner[c] # t

Waits(t, u) == wants[t] # None /\ owner[wants[t]] = u

\* No threads wait for mutexes that they hold among themselves, and none for
\* one that it holds itself: with any number of threads inside any builds.
NoCircularWait ==
    \A S \in SUBSET Thread : S # {} => \E t \in S : \A u \in S : ~Waits(t, u)

\* The references that value() has handed out stay good until a clear():
\* no later call, and no build that fails, puts another value in the place.
OnlyClearEndsValues ==
    [][\A c \in Cache : value[c] = "built" /\ value'[c] # "built" => Clear(c)]_vars

\* Every call returns, with a value or with an exception.
CallsEnd == \A t \in Thread : ~Outside(t) ~> Outside(t)
=============================================================================
