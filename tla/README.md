# A TLA+ verification of TiGL

TiGL reads an aircraft described in CPACS (an XML format), keeps it as a tree of C++ objects, and computes its
geometry from them. `src/src` is the library, `src/TIGLCreator` a Qt program that shows an aircraft and edits it.

The geometry itself is computation on real numbers and is not the subject here. What can go wrong without a
test noticing are the structures around it: the registry of uIDs, the tree of components, the caches and who
invalidates them, the order of segments, and the edits that must keep several of them in step. An edit of the
creator works on structures that many earlier edits have left behind, and tests try a few of the sequences.

## Inventory

Line counts are those of `src/src` unless another directory is named.

| Component | State it keeps | Operations and what they call | What makes it correct |
|---|---|---|---|
| UID manager (`cpacs_other/CTiglUIDManager`, 1829 with the directory) | `cpacsObjects`, `uidReferences` | register, rename, unregister objects and references; called by constructors, readers, setters and destructors of all generated classes | the registry agrees with the living objects; references are counted as often as fields name them; a rename changes no meaning |
| Component tree (same class, `geometry/CTiglRelativelyPositionedComponent`) | `allShapes`, `relativeComponents`, `rootComponents`; parent and children in the components | entered and left with registration; `BuildTree` at opening (`SetParentComponents`) and by the manager's `Update`, which `GetRelativeComponents` and `GetRootGeometricComponents` call | the containers follow the registry; the tree is a forest, both directions agree, no pointer dangles |
| Positionings (`CCPACSPositionings`, `CCPACSPositioning`) | chains of vectors between sections, two levels of cached positions | read, moved by `CTiglSectionElement`, edited by a widget of the creator, replaced by `CTiglStandardizer`; they invalidate sections and through them the owner | what is cached is what the definitions say; a move does to the other sections what was asked |
| Segment ordering (`common/sorting.h`, `ReorderSegments`) | the list of segments | at reading and after each creation of a section | succeeds for every chain in every order and loses no segment |
| Connected elements (`CCPACSWing`, `CCPACSFuselage` and their sections and segments) | sections, segments, a cached helper with the order of elements | creation between, after, before; deletion; called by the creator | the three agree after every edit; the edit is the one asked for |
| Caches and invalidation (`Cache.h`, `CTiglUIDObject`, `ReentryGuard`, all `InvalidateImpl`) | an optional value and a mutex per cache; a flag per object | value, clear; an object tells its parent, its parts and whoever references it | no cached value is outdated when read; half-built values are never seen; no deadlock |
| Configuration manager and C API (`configuration/CCPACSConfigurationManager`, `api`, 13124) | configurations by handle | open, close, use by handle | a handle names the configuration it was given for, or an error is returned |
| Configuration (`configuration/CCPACSConfiguration`) | the aircraft, rotorcraft, profiles | reads, links parents, hands out parts | parts are linked once reading is over |
| Fused plane (`configuration/CTiglFusePlane`, `CTiglShapeCache`) | mode, two result flags, shapes | perform, set modes | the result belongs to the mode and to the current components |
| Memory pool, type registry (`system`, 459) | blocks handed out by the C API | allocate, release | each block released once |
| Logging (`logging`, 955) | the current loggers | replace loggers, log from any thread | a message reaches the loggers set last |
| Rotors (`rotor`, 2307) | attachments of blades to hubs | attach, invalidate attached blades | an attached blade follows its wing |
| Wings (18200), fuselages (9068), geometry (16439), math (2688), guide curves, boolean operations | shapes and curves, all derived and cached | computations with OpenCASCADE | numerical |
| Control devices, ducts, engines, systems, tanks, structure | CPACS nodes and derived shapes | reading, building | as for wings |
| Exports and imports (3616) | none | file output and input | |
| Generated classes (`generated`, 142000) | fields, parent pointer, pointer to the UID manager | constructor, `ReadCPACS`, setters, destructor, from one template | feed the UID manager completely |
| TIGLCreator (19000) | document, current file, watcher, undo stack, tree model, scene | open, new from template, save, close, reload when another program writes the file, edits, undo by reloading from text | what is unsaved is flagged; undo follows the text; one configuration per document |
| Bindings, tests, examples, third-party code | | | not considered |

The library starts no threads. `Cache` and `ReentryGuard` are written to be used by several, and a caller may do
that; in the creator all edits happen in one. Nothing is persisted except by writing the document, and nothing is
sent over a network, so lost messages and timeouts do not occur; the creator may end, by itself or by an exception
that nobody catches, and then only its files are left. What is hard in this program is the protocol of calls: state
left behind by exceptions half-way through, caches that survive a change, structures that are updated by different
calls of one operation, mutexes that are held through a whole chain of calls, files that others write while there
is something to undo, and questions to the user inside which other handlers run. `PROJECT.json` lists these hazards line by line.

## Modules

| Module | What it is | Depends on |
|---|---|---|
| `UIDManager` | registry, references, and life of the objects | |
| `UIDManagerProofs` | theorems about it | `UIDManager` |
| `ComponentTree` | containers and tree, composed with the registry | extends `UIDManager` |
| `ComponentTreeProofs` | theorems about it | `ComponentTree`, `UIDManagerProofs` |
| `Positionings` | both cache levels, moves, edits, loft | |
| `PositioningsProofs` | theorems about it | `Positionings` |
| `Reordering` | abstract: what a caller may expect of reordering | |
| `FollowSort` | the sorting loop, step by step; refines `Reordering` | instances `Reordering` |
| `FollowSortProofs` | theorems about it, the refinement among them | `FollowSort` |
| `ElementOrder` | abstract: one row of elements, changed by one at a time | |
| `ConnectedElements` | edits of wings and fuselages; refines `ElementOrder` | instances `ElementOrder` |
| `ConnectedElementsProofs` | theorems about it, the refinement among them | `ConnectedElements` |
| `Invalidation` | who is told of a change, and what each cache was computed from | |
| `InvalidationProofs` | theorems about it | `Invalidation` |
| `Caches` | the mutexes of the caches, threads, nested builds, exceptions | |
| `CachesProofs` | theorems about it | `Caches` |
| `Configurations` | handles: opening and closing a configuration | |
| `Creator` | window, document, file, reload and undo, composed with the handles | extends `Configurations` |
| `CreatorProofs` | theorems about it | `Creator` |
| `MC...` | constants for TLC | the module they are named after |

### UIDManager

An object is one C++ instance of a class with a uID. `cpacsObjects` is the manager's map, `uidReferences` its count
per referenced uID and referencing object; `ref` holds the fields of the objects and `uid` their own names. Reading is
a stack: `ReadBegin` constructs an object below one that is being read and registers its references, `ReadRegister`
ends it. `ReadFails` is an exception of any kind (a uID in use, a value that cannot be converted, profiles of a
segment that do not fit): it destroys the innermost object or, further up, more of the subtree, and takes out what
their destructors take out. A class that checks what it read after its generated reader has registered it can fail
when its uID is registered already (`TakenOut`). `repeated` is history: the document gave the uID of an existing
object again. Only the properties about names are limited to documents that do not; all other failures occur in them
too. `Rename` is `UpdateObjectUID` with `UpdateReferences` and the callbacks that change the fields of whoever refers;
`SetReference` is a generated setter, `Remove` the destruction of a subtree. A wing that is a rotor blade drops its
`parentUID` without telling the manager (`Blade`).

### ComponentTree

Extends `UIDManager`: each of its operations is conjoined with what it does to `allShapes` and `relativeComponents`,
so one action is the whole call. `Open` is the end of opening a document, `Update` the rebuild; both run `BuildTree`,
which may throw at an unknown parent, recurse without end at a cycle, or succeed. `fault` records an overflow or the
use of a destroyed component.

### Positionings

The list of positionings in its order, each with definition, start point and end point (`None` while invalidated), the
container's flag, and the owner's loft, represented by the positions it was built from. Reading a position, building
the loft, moving a section alone or together with what depends on it, the edit in the widget and the standardizer are
actions; the last is several, since it places section after section and each placement relies on the one before.
Points are integers modulo `N`: the code only adds and subtracts. `StartPoints` follows the definitions link by link
from the roots (`NextStarts`), `AllSetTo` is the loop over the positionings that end at the moved section.

### Reordering and FollowSort

`Reordering` says that the list becomes some permutation that is continuous, or that an error is thrown with the list
in a permutation whose beginning nothing continues. `FollowSort` has one step per turn of the loop in `follow_sort`,
with its iterators as positions. `Contract` is the instance, with the machine's progress hidden: everything before the
loop ends is a stutter.

### ElementOrder and ConnectedElements

`ElementOrder` is what a user sees: a row of elements into which one is inserted, or from which one is taken.
`ConnectedElements` keeps sections, segments and the helper, for a wing or a fuselage. The operations are
`CreateNewConnectedElementBetween`, `...After` and `...Before` (each with its special case at the end of the row) and
`DeleteConnectedElement`. Every operation decides by the helper, which is cached: `Helper` is what the code finds, a new
one if none is cached. `Reordered` uses the result that `Reordering` promises instead of the loop; `Sorted` is the
stable sort of the sections by the place of their first element in the row (`Rank`). `OwnerTold` is the only
nondeterminism besides it: whether placing a new element invalidates the owner depends on which positionings are valid,
so the model leaves it open where the positionings that were certainly read are not enough to tell. `AbandonCreation` is
a setter that throws when the section was already created. `RowsAssumption` says which documents are considered: rows do
not return to an element, no section has two connected elements, and fuselages are positioned.

### Invalidation

An aircraft is a constant: objects, their kinds, who owns each, and whose uIDs the fields of each hold. `Told` is what
the `InvalidateImpl` functions of all kinds call, the `InvalidateReferences` of `CTiglUIDObject`, and the callbacks of
ducts; since `ReentryGuard` makes a second visit return, an `Invalidate` visits what can be reached, `Reached`.
`Inputs` and `Sources` are what the build functions read: other caches, and fields of objects. The variable `cache`
holds, for each cache with a value, the pairs of object and definition that went into it, directly or through other
caches. `Set` is any setter that invalidates its object, `SetInCreator` the widget that invalidates the configuration
as well, `SetTransformation` and `SetBuildFlaps` the two that clear caches without an invalidation, `Build` the first
read of a cache. Invalidation is one step: it runs in the thread that edits.

Several caches that are built and cleared together are one here: a segment's `measures` are its areas, volumes and
surfaces, a component segment's loft stands for its geometry. A profile's wire, and the matrix of a transformation,
are caches too. `Kept` names the caches that an invalidation of their holder leaves alone; they are the subject of
`stale_measures`.

### Caches

`value()` is split where another thread can come in between: `Miss` locks and puts in an empty value, `Read` is a
build function that asks for another cache with its own mutex held, `Finish` and `Throw` leave the innermost build. An
exception goes from build to build (`failing`) until a function catches it (`Catch`;
`CCPACSWingComponentSegment::findSegment` does) or it reaches the user. `Hit` is a read that finds a value, `Clear`
the `clear()` of an invalidation. `writeAccess`, which no code calls, is left out. Build functions may not read in a
circle, as an assumption (`CachesAssumption`); `self_deadlock` is the one place found where a build leads back to its
own cache, through `clear()`.

### Configurations and Creator

`Configurations` has the map of `CCPACSConfigurationManager` and its signed counter, which wraps from `Limit` to
`Least`: `Opened`, `Handle` and `Counted` are what `tiglOpenCPACSConfiguration` does when the text can be read and
when it cannot, and when a handle is refused because it is in use or below 1.

`Creator` has one action per event of the window: `openFile`, `openNewFile`, `save`, `saveAs`, `closeConfiguration`,
`closeEvent`, `undo`, `redo`, `reopenFile` (when the watcher's timer ends), and `createUndoCommand`, in which every
edit of every widget ends. `External` is another program that writes a file. A text stands for the content of a
document; it may describe several models, and it may be unreadable, so that a reload or an undo fails after the
configuration was closed.

Handlers do not run one at a time. Where one asks the user, an event loop runs inside it
(`QInputDialog::getItem`, `TIGLCreatorDocument.cpp:283`; `QMessageBox::exec`, `TIGLCreatorWindow.cpp:325`), in which the
user can do nothing else, but the watcher and the timer go on. So a handler that asks is two actions: the part up to the
question, which `dialogs` then holds (`Open`, `updateConfiguration`, `AskToSave`), and the part from the answer on, with
the state found then (`openAnswered`, `reloadAnswered`, `closeAnswered`, `quitAnswered`, `closeCancelled`). `UserEvent`
needs `dialogs` to be empty; `External` and `reopenFile` do not, and `reopenFile` may ask inside another question.
Answers come innermost first. A reload closes the configuration before it asks and stores the handle after: `abandoned`
collects the handles that were stored in between by a reload inside it.

A save fails before the file is opened, and says so, or writes the text, or breaks off and leaves `Partial` without
noticing. `Started` is a program that ended and is started again: saving a document that lost its configuration, and
undoing to a text without the model that is open, throw what nobody catches. `own`, `saved`, `reloaded` and `abandoned`
are not in the code and only tell the properties apart.

## Runs

| Run | Configuration | Shows | Distinct states, time |
|---|---|---|---|
| `registry` | `MCUIDManager` | registry, counts and fields agree through reading, failing, renaming, removing | 264450, 46 s |
| `component_tree` | `MCComponentTree` | containers follow the registry; a valid tree is a forest; opening links every component whose parent exists | 142609, 24 s |
| `positionings` | `MCPositionings` | no outdated loft is read; moves do what was asked | 150867, 71 s |
| `follow_sort` | `MCFollowSort` | the loop ends, loses nothing, sorts every chain, refines `Reordering` | 524000, 30 s |
| `connected_elements` | `MCConnectedElements` | sections, segments and helper agree; insertion where asked; refines `ElementOrder` | 3092 up to renaming, 18 s |
| `invalidation` | `MCInvalidation` | no cached shape is outdated or has lost what it was made from | 122144, 95 s |
| `caches` | `MCCaches` | half-built values are locked, no circular wait, only `clear` ends a value, every call returns | 39047, 21 s |
| `creator` | `MCCreator` | one configuration per document, unsaved changes flagged, undo follows the text and keeps the model, with reloads inside questions and writes that break off | 4191349, 150 s |
| `self_deadlock`, `stale_measures`, `overwritten_file`, `foreign_undo` | `MCSelfDeadlock`, `MCStaleMeasures`, `MCOverwrittenFile`, `MCForeignUndo` | one disagreement each, see below | |

Bounds and why they are enough:

- *registry*: a wing that owns a segment, and a section element outside it that the segment can refer to with both of
  its fields; two uIDs, which allow a duplicate, a rename to a dangling name and a name not in use. The hazards need a
  referencing object, a referenced one, and one that contains the failing one. The blade is left to `component_tree`,
  where `Blade = {wing}`.
- *component_tree*: a fuselage and a wing that can be each other's parent, and a component segment of the wing that
  has a shape without a place in the tree; two uIDs, the empty uID and the missing parent. That gives a parent and its
  child, a cycle of two, a dangling parent, and a shape in only one of the containers.
- *positionings*: three sections and at most three positionings, so that there are chains of three, branches, cycles
  and a section without any; two points tell "moved" from "not moved"; one edit in the widget, as a second repeats it.
- *follow_sort*: up to four segments on five elements, all ways of connecting them; three passes of the loop occur.
- *connected_elements*: five elements, rows of up to five, documents with sections in and out of order, with an unused
  element, with and without guide curves and positionings. Every naming of the elements is a document, which makes
  `Symmetry` sound. Fuselages are positioned here; the other ones are under *Further observations*. The run also checks
  `RowsAssumption` for its documents. uIDs of deleted elements are used again, as `MakeUIDUnique` does.
- *invalidation*: a fuselage with a segment, a wing on it with a segment and a component segment, a duct and its
  assembly that cut both, a profile that wing and duct share; two definitions for each of five edited objects, in any
  order with any reads in between. Every way of telling and every kind of cache occurs but the rotor's, which is left
  to the theorem. Nobody reads bounding boxes here (`Unread`); in `stale_measures` they are read.
- *caches*: four caches that read each other in a chain of four with a shortcut, three threads, three calls from
  outside: each thread can be inside a different build while another clears.
- *creator*: a text with one model, a text with two, and what a broken write leaves, which has none and cannot be read.
  One file: any save of it may fail, and the loaded and the current file differ through templates and a `saveAs` that
  failed. Two undo commands, so that there is one to undo and one to redo at once. Two questions inside each other,
  which gives a reload inside a reload and a reload inside each other question. Handles up to 2; the counter wraps to 0,
  which is refused, and to handles that are in use. The two runs that find a disagreement have a second file.

Deadlock is checked in `invalidation`, `caches` and `creator`. In the other runs it is not: a program that reached the
bound of a counter, a finished sort, a wing with one element left (to which none can be connected any more) or a fault
stops there.

Fairness: `FollowSort` assumes `WF_vars(Next)`, for `SortingEnds`: the loop runs in one call, so it takes its next
step as long as there is one. `Caches` assumes `WF_vars(Step(t))` for each thread, for `CallsEnd`: a thread inside
`value()` goes on when it can. Weak fairness is enough for a thread that waits for a mutex only because the calls of
the other threads are bounded by `MaxCalls`, so that a mutex is free for good at some time; `boost::mutex` promises no
more. All other properties are safety; nothing in the code promises that a user acts.

## Disagreements found

Each is a run that TLC ends with the counterexample.

1. `self_deadlock`: after a move and the reading of one positioning, `GetLoft` invalidates its own loft while it holds
   the mutex (`CCPACSPositionings.cpp:146`).
2. `stale_measures`: volumes and areas of a fuselage segment (`CCPACSFuselageSegment.cpp:176`) and the bounding boxes
   of wings and fuselages (`CCPACSWing.cpp:143`, `CCPACSFuselage.cpp:106`) survive every edit.
3. `overwritten_file`: with a file open, a document made from a template is saved into that file
   (`TIGLCreatorWindow.cpp:509`); Save should ask for a name (`:718`).
4. `foreign_undo`: opening over an open document keeps its undo commands (`TIGLCreatorWindow.cpp:404`); an undo then
   puts a text of the former document into the new one, or ends the program when that has no model of the same uID
   (`tigl.cpp:264`).

### Further observations

What was met while modelling and has no run of its own:

- Registry: a refused object's destructor erases the registration of the object that had the uID first
  (`CTiglUIDManager.cpp:175`). `rootComponents` is never cleared, and a removed component is still reached from it
  (`:446`).
- Positionings: an edit of one through its setters leaves its dependents where they were (`CCPACSPositioning.cpp:85`).
  A cycle is never looked at (`CCPACSPositionings.cpp:113`), though its rejection is intended.
- Connected elements: appending to a fuselage without positionings leaves the cached row without the new element
  (`CCPACSFuselage.cpp:895`), as fuselage segments have no `AddSegment` that invalidates, as wing segments have.
  Deleting an element removes its whole section, also when a second element of it is connected
  (`CCPACSWing.cpp:1699`).
- Invalidation: replacing the whole transformation of a wing leaves its clean shape, its segments and its children
  outdated (`CTiglRelativelyPositionedComponent.cpp:126`). A changed duct tells its assembly, not what it cuts
  (`CCPACSDuct.cpp:149`). A rotor that is invalidated resets its transformation, so edits of it are lost
  (`CCPACSRotor.cpp:48`). The model's `InvalidateImpl` is empty, so `CCPACSConfiguration::Invalidate` reaches its
  parts only through references. `CCPACSDucts::SetEnabled` runs its callbacks before it sets the switch. Attached
  rotor blades and `CTiglWingConnection::m_resolved` are never refreshed.
- Caches: `writeAccess` (`Cache.h:63-68`) puts in a default value that `value()` then takes for a built one; no code
  calls it, and `Caches` leaves it out.
- Two threads: `ReentryGuard` makes an invalidation return while another thread's passes the same object; `value()`
  returns a reference after it unlocked. A program may read with several threads, not edit.
- Ribs name the spar that they start, end or are measured at by its uID, but the field is not registered as a reference
  (`generated/CPACSWingRibsPositioning.cpp:181`, as against `:113` for spar positions), so an edit of a spar does not
  reach the ribs that were computed from it (`wing/CCPACSWingRibsDefinition.cpp:605-621`). Read from the code; the
  structure is not modelled.
- Creator: opening over a modified document does not ask to save. Closing with "yes" closes even when saving failed.
  An undo that fails leaves a document without a configuration, which cannot be closed by the menu and ends the
  program when it is saved. `saveAs` renames the document also when the file could not be written. A reload keeps the
  undo stack.
- Creator, reload inside a reload: while a reload asks for the model, the file may change again and the timer starts a
  second reload, which asks too. The outer answer overwrites the handle of the inner one
  (`TIGLCreatorDocument.cpp:283-286`; a cancelled outer question sets it to -1, `:295`): the inner configuration stays
  open and nothing can close it, and what is shown is the older of the two texts.
- Creator, a write that breaks off: after the file was opened and cut to nothing, neither the stream nor the file is
  asked for errors, and the document counts as saved (`TIGLCreatorWindow.cpp:801-811`). On a full disk the file is lost
  and the unsaved text is not flagged.

## Proofs

All theorems are checked by TLAPS, from the named assumptions on the constants only:

- `ObjectAssumption` (`None` is neither an object nor a uID; `Above`, the owners of an object, is transitive and
  irreflexive; `Blade` is a set of objects) and `ReferenceAssumption` (an object has finitely many reference fields,
  which can hold any uID or nothing).
- `ComponentAssumption` (relative components are shapes, shapes are objects, uIDs are ordered like integers).
- `PositioningsAssumption` (`N` is a positive modulus; documents define lists of positionings within the bound; `Order`
  names sections once each; `None` is neither a section nor a number). The bounds are parameters, so the theorems hold
  for chains and numbers of edits of any length.
- `DocumentsAssumption` (documents define lists of sections and segments) and `RowsAssumption` (the segments lead
  through a row of distinct elements, no section is empty, shares an element or holds two connected ones, and
  fuselages are positioned). The code does not enforce the latter; without it the properties are false, as *Further
  observations* says of unpositioned fuselages and of sections with two connected elements.
- `InputAssumption` (the sorted lists name each segment once, and every segment has two ends).
- `AircraftAssumption` (kinds, owners and references fit: a segment lies in a wing, fuselage or duct and names
  elements, an element lies in a section, and so on). Any number of objects of every kind, rotors included, with any
  references among them.
- `CachesAssumption` (build functions do not read in a circle).
- `FileAssumption`, `TemplateAssumption`, `DocumentAssumption`, `PartialAssumption`, `CommandsAssumption`,
  `TextAssumption`, `LimitAssumption`, `NoneAssumption` (types of the creator's constants; `None` is none of the other
  values; what a broken write leaves describes no model; the counter's range contains 0).

`UIDManagerProofs`: `RegistryInvariant` proves the inductive invariant `IInv`. `TypeOK` and the agreement of registry
and objects are not inductive alone: what is counted must be backed by a field (`CountsBackedByFields`), objects that
are not alive must have no name and no fields (`DormantObjects`), an object must live inside living ones
(`OwnersExist`), or destruction of a subtree would leave entries, and no two objects may share a uID, half-read ones
included (`UniqueNames`), or the destructor of one would take out the entry of the other. `TypeCorrect`,
`CountsCorrect` and `RegistryCorrect` follow; the last holds for documents without repeated uIDs, which is necessary
(see *Further observations*), and after any other failure of reading.
`ReferencesCorrect` is about steps: a name that comes in, a rename and a removal are shown one by one to leave what a
counted reference denotes alone. For a destruction this needs that the names it drops are exactly those of the objects
that die (`DroppedNames`).

`ComponentTreeProofs` builds on that: every step of `ComponentTree` is one of `UIDManager` or leaves the registry as
it is (`CompositionImplementsRegistry`), so `IInv` holds. That children and parents agree is not inductive alone: a
component that comes in could have children left from an earlier life. `LinkedAreNamed` excludes it: who is in a
relation has a uID or died with one, and only an object without one is entered (`TreeStays`). `TreeInv` adds that there
is no tree before the document is read. `ContainersCorrect` and `ForestCorrect` hold with repeated uIDs too;
`OpeningCorrect` does not.

`PositioningsProofs`: that a loft is current is not inductive alone, since it compares stored points with computed ones.
`PositioningsInv` adds, to the types, `EndsFollow` (an end point that is present is the start point plus the vector),
`LoftRead` (a loft is cached only while the container is up to date and shows what that holds), and, for the
standardizer, `Standardizing` (while it runs its chain is intact, the container is invalidated unless nothing has been
placed yet, and the sections placed are where they should be). What is computed along a chain is a recursive function of
the number of links. The proofs look at the least number of links at which a statement about it would be wrong; that
there is a least one is the well-foundedness of the naturals. So `LevelsSettle` says that as many links as there are
positionings reach everything a root reaches (each link either gives a further positioning its start point, which can
happen only as often as there are positionings, or changes nothing any more), `StartPointsFollow` that start points
satisfy the equation of the chain, and `LoopMoves` what the loop of a move has done after each turn. On these rests
`MovesStayExact`: moving a section without its dependents leaves every other section of its chain where it is, however
long the chain. `PositioningsTypeCorrect`, `LoftsFollow` and `StandardizedStay` follow as well.

`ConnectedElementsProofs`: an operation decides by the helper and changes sections and segments, so `ConnectedInv` is
about all three: the segments lead through one row of distinct elements (`Leading`), each in a section that holds no
other connected element (`Holding`: a deletion removes the whole section), fuselages are positioned (an appended
element is noticed only through its positioning, and `HelperCorrect` says nothing of the fuselages where it is not),
and the helper is current. The row that `GetElementUIDsInOrder` computes from segments that lead through a row is that
row (`RowOfSegments`), and segments of which some arrangement leads through a row have no other order (`OneOrder`), so
that reordering puts a new segment in its place (`AddedInPlace`). Hence each operation inserts one element into the
row or takes one out of it (`BetweenEffect`, `AfterLastEffect`, `BeforeFirstEffect`, `DeleteEffect`). With it come
`ChainCorrect`, `HelperCorrect`, `InsertedCorrect`, and `ElementOrderImplemented`, that every step is one of
`ElementOrder` or a stutter of it. `SectionsFollowCorrect` needs besides that `Sorted` is a permutation in the order
of the ranks (`SortedSections`, by counting the sections that go before). `GuidedSegmentsCorrect` needs only the type
of the segments, that an arrangement loses no entry (`ReorderedKeeps`) and that a deletion makes the list shorter.

`FollowSortProofs`: `SortInvariant` states types, that the list is always a rearrangement, that the sorted part is in
order, and that what a pass has left behind fits at neither end since the ends last moved. From it come
`SortTypeCorrect`, `PrefixStaysContinuous`, `SortLosesNothing` and `PassedSegmentsNeverFit`. `SortImplementsContract`
proves that the loop refines `Reordering`, so `ConnectedElements` may use the contract. `ChainsAreAlwaysSorted` says
that an error is thrown only if no order is continuous, for lists of any length: if the sorted part of a chain were
stuck, the segment of least distance to it would have to fit; the least one exists by the well-foundedness of the
naturals.

`InvalidationProofs`: that no shape is outdated is not inductive alone, since what is cleared depends on the graph of
who tells whom and what is outdated on the graph of who reads whom. `FollowingInv` adds the link, `ReadersInformed`:
every object that went into a cached shape reaches the holder of the cache. Lemmas show for each kind of cache that
its sources and inputs do (`SourcesInform`, `InputsLinked`), and `ClearFollowing` that a change which clears what it
reaches keeps the invariant; each action is one use of it. `ShapesFollow` and `InputsStay` need that only fuselages
have their transformation replaced as a whole, which the observation about wings shows to be necessary;
`InvalidationTypeCorrect` does not.

`CachesProofs`: mutual exclusion is by the mutex; the absence of a circular wait needs more. `Chained` says that the
builds of a thread form a path in which each was asked for by the next one, and `ReadsAsked` that a thread waits for
something its innermost build may read. So each wait leads further down in what is read: among the caches that any set
of threads hold, one reads none of the others, and its owner waits for no one in the set. `NoDeadlock` has no bound on
threads, caches or calls.

`CreatorProofs`: `CreatorInv` is the conjunction of the checked invariants, `ForeignFirst` and `Questions`.
`ForeignFirst` (commands of another document lie below those of the present one) makes `UndoFollowsText` inductive:
dropping undone commands never leaves foreign ones on top. `Questions` says that only a reload asks inside another
question, and that the document stays open while the user is asked whether to close it or what to reload; without it an
answer could come to a window without a document. The bound of the questions inside each other is a parameter. That the
handles in `abandoned` are the only ones left over is part of the invariant; that there can be such handles is under
*Further observations*.

Only model-checked: `SortingEnds` and `CallsEnd`, which are liveness properties and out of the prover's reach. Every
other property of a passing run is a theorem. The four disagreements are counterexamples, and need no proof.

## Not modelled

- Geometry (wings, fuselages, guide curves, Boolean operations, the fused plane, exports, `math` and `geometry`: some
  50000 lines): computation on real numbers with OpenCASCADE. What is modelled of it is which definitions a shape
  depends on, and when it is recomputed.
- The generated classes, 142000 of the 264000 lines, are one template written out some 500 times; `UIDManager` models
  the template once, with sets of objects and fields. The same holds for the C functions of `api/tigl.cpp` (look up a
  handle, forward, translate the exception) and the generated bindings. This is why the map covers a small part of the
  lines: a model of the rest would repeat the same definitions.
- Caches of the structure (cells, spars, ribs, shells), control devices, tanks and nacelles. The component segment's
  `InvalidateImpl` (`wing/CCPACSWingComponentSegment.cpp:158-173`) forwards to its structure, which forwards to its
  spars, ribs and shells (`wing/CCPACSWingCSStructure.cpp:146-157`); each of these clears its own caches. The references
  among spars, ribs and cells, and the caches behind them, are not modelled.
- Removing components while ducts or their callbacks exist; two threads that edit.
- The fused plane: two flags, a mode and Boolean operations. It is not told of edits other than those of flaps, and
  nothing promises it.
- Memory pool, type registry and logging: no part of the program depends on what they keep.
- In the creator: the tree view, the scene, scripts, drawing and the undo commands of drawing, which share the stack
  and do not touch the document; the deletion of a section that is refused after it changed the document. Choosing a
  file and showing an error are event loops too. They come before the handler reads its state or after it has written
  it, so a reload inside them is one before or after the handler. The one exception is the error message of a `saveAs`
  that failed, during which a reload still reads the former file. Events that run while shapes are drawn are left out.
- `RemovePositioning`, and edits of the uIDs of positionings by renaming.

## Plan

Done: the modules and theorems above. What is left is the structure of the wing: spars, ribs and cells as kinds of
`Invalidation`, with the references among them.
