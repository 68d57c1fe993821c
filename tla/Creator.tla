------------------------------- MODULE Creator -------------------------------
(***************************************************************************)
(* TIGLCreator's document: the window that opens, saves, reloads and closes *)
(* it (src/TIGLCreator/src/TIGLCreatorWindow.cpp), the document itself       *)
(* (TIGLCreatorDocument.cpp), the editor that changes it                     *)
(* (ModificatorModel.cpp) and the undo commands (TIGLCreatorUndoCommands.cpp)*)
(*                                                                           *)
(* Files are changed by other programs too.  Every action is one event       *)
(* handler of the window, or the part of one up to a question to the user or *)
(* from its answer on.  A question is an event loop of its own inside the    *)
(* handler: it keeps the user from everything but the answer, while other    *)
(* programs go on and the timer may start another handler, which may ask too.*)
(***************************************************************************)
EXTENDS Configurations, FiniteSets, Sequences

CONSTANTS
    File,           \* names of .xml files
    Template,       \* the texts "new file" offers
    Partial,        \* what is in a file when a write broke off
    MaxCommands,    \* bound on the length of the undo stack
    MaxDialogs      \* bound on the questions open at a time

ASSUME FileAssumption == None \notin File
ASSUME TemplateAssumption == Template \subseteq Text
ASSUME DocumentAssumption ==
    None \notin [handle : Int \cup {None}, loaded : File \cup {None}, modified : BOOLEAN,
                 saved : Text, reloaded : BOOLEAN]
ASSUME PartialAssumption == Partial \in Text /\ ModelsOf[Partial] = {}
ASSUME CommandsAssumption == MaxCommands \in Nat /\ MaxDialogs \in Nat

VARIABLES
    disk,           \* the text in every file
    document,       \* cpacsConfiguration, the open document, or None
    currentFile,    \* the file Save writes and the watcher watches, or None
    timer,          \* openTimer runs: a change of the watched file was seen
    history,        \* undoStack: the commands that were done, then those undone
    done,           \* how many of them are done
    dialogs,        \* the questions that wait for an answer, the innermost last
    abandoned       \* history: handles that an outer reload overwrote

vars == <<configurations, handleCounter, disk, document, currentFile, timer, history, done,
          dialogs, abandoned>>
window == <<currentFile, timer>>
stack == <<history, done>>

(***************************************************************************)
(* A document holds m_cpacsHandle, loadedConfigurationFileName and           *)
(* modifiedSinceLastSave.  saved and reloaded are not in the code: the text  *)
(* that was loaded or written last, and whether the file was loaded again    *)
(* over undo commands.  A command holds oldConfig and newConfig; own, not in *)
(* the code, says whether it was recorded in the present document.           *)
(***************************************************************************)
Document == [handle : (1 .. Limit) \cup {None}, loaded : File \cup {None},
             modified : BOOLEAN, saved : Text, reloaded : BOOLEAN]
Command == [old : Text, new : Text, own : BOOLEAN]

configurationIsSet == document # None /\ document.handle # None
Shown == configurations[document.handle]

(* Which model to open, of a text that was read; whether to save.             *)
Dialog == [for : {"open"}, text : Text, file : File \cup {None}]
          \cup [for : {"reload"}, text : Text]
          \cup [for : {"close", "quit"}]

Innermost == dialogs[Len(dialogs)]
Asked(for) == dialogs # <<>> /\ Innermost.for = for
Ask(dialog) == dialogs' = Append(dialogs, dialog)
Answer == dialogs' = SubSeq(dialogs, 1, Len(dialogs) - 1)

(* TIGLCreatorWindow(), also of a window that is started again.               *)
Started ==
    /\ document' = None /\ currentFile' = None /\ timer' = FALSE
    /\ history' = <<>> /\ done' = 0
    /\ configurations' = NoConfiguration /\ handleCounter' = 0
    /\ dialogs' = <<>> /\ abandoned' = {}

Init ==
    /\ disk \in [File -> Text]
    /\ document = None /\ currentFile = None /\ timer = FALSE
    /\ history = <<>> /\ done = 0
    /\ configurations = NoConfiguration /\ handleCounter = 0
    /\ dialogs = <<>> /\ abandoned = {}

(***************************************************************************)
(* openCpacsConfiguration asks for the model when the text describes several *)
(* (the text was read before); the user may cancel.                          *)
(***************************************************************************)
Asks(text) == \E a, b \in ModelsOf[text] : a # b

Answers(text) == IF Cardinality(ModelsOf[text]) = 1 THEN ModelsOf[text]
                 ELSE ModelsOf[text] \cup {None}

(***************************************************************************)
(* openFile, openNewFile: the new document is opened first and takes the     *)
(* place of the old one, whose destructor closes its configuration.  When    *)
(* it cannot be opened or gets no handle, the old document stays.            *)
(***************************************************************************)
\* A bug that could be there: the destructor does not close the configuration.
HandedNone == None

Handed == IF configurationIsSet THEN document.handle ELSE None

Disowned == [i \in DOMAIN history |-> [history[i] EXCEPT !.own = FALSE]]

Replace(text, model, file) ==
    /\ configurations' = Closed(Opened(configurations, text, model), Handed)
    /\ document' = [handle |-> Handle(configurations, text, model), loaded |-> file,
                    modified |-> FALSE, saved |-> text, reloaded |-> FALSE]
    /\ currentFile' = IF file = None THEN currentFile ELSE file
    /\ history' = Disowned

Place(text, model, file) ==
    /\ handleCounter' = Counted(text, model)
    /\ IF Loadable(text, model) /\ Accepts(configurations)
       THEN Replace(text, model, file)
       ELSE UNCHANGED <<configurations, document, currentFile, history>>
    /\ UNCHANGED <<disk, timer, done, abandoned>>

Open(text, file) ==
    IF Asks(text)
    THEN /\ Ask([for |-> "open", text |-> text, file |-> file])
         /\ UNCHANGED <<configurations, handleCounter, disk, document, window, stack, abandoned>>
    ELSE /\ \E model \in Answers(text) : Place(text, model, file)
         /\ UNCHANGED dialogs

openFile(file) == Open(disk[file], file)

openNewFile(text) == Open(text, None)

openAnswered ==
    /\ Asked("open")
    /\ Answer
    /\ \E model \in Answers(Innermost.text) : Place(Innermost.text, model, Innermost.file)

(***************************************************************************)
(* saveFile: the export or the opening of the file may fail, and says so.    *)
(* Writing may break off too (a full disk), and nobody looks: the file is    *)
(* cut short and counts as saved.  A document that lost its configuration    *)
(* makes GetConfiguration throw, and nothing catches it: the program ends.   *)
(* saveAs renames the document even when the file could not be written.      *)
(***************************************************************************)
Written(file, text) == [disk EXCEPT ![file] = text]

\* A bug that could be there: the flag is reset even when nothing was written.
saveFileResetting(file, doc) ==
    /\ disk' \in {disk, Written(file, Shown.text)}
    /\ currentFile' \in {currentFile, file}
    /\ document' = [doc EXCEPT !.modified = FALSE]

saveFile(file, doc) ==
    \/ document' = doc /\ UNCHANGED <<disk, currentFile>>
    \/ \E text \in {Shown.text, Partial} :
          /\ disk' = Written(file, text)
          /\ currentFile' = file
          /\ document' = [doc EXCEPT !.modified = FALSE, !.saved = text]

save ==
    /\ document # None /\ currentFile # None /\ document.modified
    /\ IF configurationIsSet
       THEN /\ saveFile(currentFile, document)
            /\ UNCHANGED <<configurations, handleCounter, timer, stack, dialogs, abandoned>>
       ELSE Started /\ UNCHANGED disk

saveAs(file) ==
    /\ document # None
    /\ IF configurationIsSet
       THEN /\ saveFile(file, [document EXCEPT !.loaded = file])
            /\ UNCHANGED <<configurations, handleCounter, timer, stack, dialogs, abandoned>>
       ELSE Started /\ UNCHANGED disk

(***************************************************************************)
(* closeConfiguration and closeEvent ask whether to save what was modified.  *)
(* Save writes the current file, or the one the user names; when that fails, *)
(* or the user names none, the document is closed all the same.              *)
(***************************************************************************)
SavedOrNot ==
    \/ UNCHANGED disk
    \/ /\ configurationIsSet
       /\ \E file \in File, text \in {Shown.text, Partial} :
             /\ currentFile \in {None, file}
             /\ disk' = Written(file, text)

\* A bug that could be there: the position in the undo stack is not reset.
ClosingKeepingPosition ==
    /\ configurations' = Closed(configurations, Handed)
    /\ document' = None /\ currentFile' = None
    /\ history' = <<>>
    /\ UNCHANGED <<done, handleCounter, timer, abandoned>>

Closing ==
    /\ configurations' = Closed(configurations, Handed)
    /\ document' = None /\ currentFile' = None
    /\ history' = <<>> /\ done' = 0
    /\ UNCHANGED <<handleCounter, timer, abandoned>>

AskToSave(for) ==
    /\ Ask([for |-> for])
    /\ UNCHANGED <<configurations, handleCounter, disk, document, window, stack, abandoned>>

closeConfiguration ==
    /\ configurationIsSet
    /\ IF document.modified THEN AskToSave("close")
       ELSE Closing /\ UNCHANGED <<disk, dialogs>>

closeEvent ==
    IF document # None /\ document.modified THEN AskToSave("quit")
    ELSE Started /\ UNCHANGED disk

\* A reload may have failed meanwhile; saving then throws and ends the program.
closeAnswered ==
    /\ Asked("close")
    /\ \/ SavedOrNot /\ Closing /\ Answer
       \/ ~configurationIsSet /\ Started /\ UNCHANGED disk

quitAnswered == Asked("quit") /\ SavedOrNot /\ Started

closeCancelled ==
    /\ Asked("close") \/ Asked("quit")
    /\ Answer
    /\ UNCHANGED <<configurations, handleCounter, disk, document, window, stack, abandoned>>

(***************************************************************************)
(* An editor changes the aircraft and asks for an undo command, which keeps  *)
(* the old text, writes the aircraft into the document and keeps the new     *)
(* text.  Pushing it drops the commands that were undone.                    *)
(***************************************************************************)
\* A bug that could be there: the commands that were undone stay.
createUndoCommandAppending(text) ==
    /\ configurationIsSet
    /\ Len(history) < MaxCommands
    /\ Shown.model \in ModelsOf[text]
    /\ configurations' = [configurations EXCEPT ![document.handle].text = text]
    /\ history' = Append(history, [old |-> Shown.text, new |-> text, own |-> TRUE])
    /\ done' = Len(history')
    /\ document' = [document EXCEPT !.modified = TRUE]
    /\ UNCHANGED <<handleCounter, disk, window, dialogs, abandoned>>

createUndoCommand(text) ==
    /\ configurationIsSet
    /\ done < MaxCommands
    /\ Shown.model \in ModelsOf[text]
    /\ configurations' = [configurations EXCEPT ![document.handle].text = text]
    /\ history' = Append(SubSeq(history, 1, done),
                         [old |-> Shown.text, new |-> text, own |-> TRUE])
    /\ done' = done + 1
    /\ document' = [document EXCEPT !.modified = TRUE]
    /\ UNCHANGED <<handleCounter, disk, window, dialogs, abandoned>>

(***************************************************************************)
(* updateCpacsConfigurationFromString: the configuration is closed, and the  *)
(* model of the same uID is opened from the text.  A text without that model *)
(* makes tiglOpenCPACSConfiguration build a string from a null pointer: the  *)
(* program ends.  Without a configuration only the position moves.           *)
(***************************************************************************)
\* A bug that could be there: no uID is passed, and the first model is taken.
FirstModel(text) == CHOOSE model \in ModelsOf[text] : model # Shown.model \/ ModelsOf[text] = {model}

SameModel(text) == Shown.model

Update(text, position) ==
    LET open  == Closed(configurations, Handed)
        model == SameModel(text)
    IN  IF model \in ModelsOf[text]
        THEN /\ configurations' = Opened(open, text, model)
             /\ handleCounter' = Counted(text, model)
             /\ document' = [document EXCEPT !.handle = Handle(open, text, model),
                                             !.modified = TRUE]
             /\ done' = position
             /\ UNCHANGED <<disk, window, history, dialogs, abandoned>>
        ELSE Started /\ UNCHANGED disk

Move(text, position) ==
    IF configurationIsSet
    THEN Update(text, position)
    ELSE /\ done' = position
         /\ UNCHANGED <<configurations, handleCounter, disk, document, window, history,
                        dialogs, abandoned>>

undo == done > 0 /\ Move(history[done].old, done - 1)

redo == done < Len(history) /\ Move(history[done + 1].new, done + 1)

(***************************************************************************)
(* Another program writes a file.  The watcher sees the current file and     *)
(* starts the timer; reopenFile then loads the file of the document again.   *)
(* While it asks for the model, the document has no configuration, and the   *)
(* timer may come again.  The answer, or that there was none, overwrites the *)
(* handle, also one that a reload inside the question has set meanwhile.     *)
(***************************************************************************)
External(file, text) ==
    /\ disk' = [disk EXCEPT ![file] = text]
    /\ timer' = (timer \/ file = currentFile)
    /\ UNCHANGED <<configurations, handleCounter, document, currentFile, stack,
                   dialogs, abandoned>>

Reloaded(open, doc, text, model) ==
    LET handle == Handle(open, text, model)
    IN  /\ configurations' = Opened(open, text, model)
        /\ handleCounter' = Counted(text, model)
        /\ abandoned' = abandoned \cup ({doc.handle} \ {None})
        /\ document' = [doc EXCEPT
                           !.handle = handle,
                           !.saved = IF handle = None THEN @ ELSE text,
                           !.reloaded = @ \/ history # <<>>]

updateConfiguration(text) ==
    LET open == Closed(configurations, Handed)
        doc  == [document EXCEPT !.handle = None]
    IN  IF Asks(text)
        THEN /\ Len(dialogs) < MaxDialogs
             /\ configurations' = open
             /\ document' = doc
             /\ Ask([for |-> "reload", text |-> text])
             /\ UNCHANGED <<handleCounter, abandoned>>
        ELSE /\ \E model \in Answers(text) : Reloaded(open, doc, text, model)
             /\ UNCHANGED dialogs

reopenFile ==
    /\ timer
    /\ timer' = FALSE
    /\ IF currentFile # None /\ document.loaded # None
       THEN updateConfiguration(disk[document.loaded])
       ELSE UNCHANGED <<configurations, handleCounter, document, dialogs, abandoned>>
    /\ UNCHANGED <<disk, currentFile, stack>>

reloadAnswered ==
    /\ Asked("reload")
    /\ Answer
    /\ \E model \in Answers(Innermost.text) :
          Reloaded(configurations, document, Innermost.text, model)
    /\ UNCHANGED <<disk, window, stack>>

\* What the user starts; a question has to be answered first.
UserEvent ==
    \/ \E file \in File : openFile(file) \/ saveAs(file)
    \/ \E text \in Template : openNewFile(text)
    \/ save \/ closeConfiguration \/ closeEvent
    \/ \E text \in Text : createUndoCommand(text)
    \/ undo \/ redo

Next ==
    \/ dialogs = <<>> /\ UserEvent
    \/ openAnswered \/ closeAnswered \/ quitAnswered \/ closeCancelled \/ reloadAnswered
    \/ \E file \in File, text \in Text : External(file, text)
    \/ reopenFile

Spec == Init /\ [][Next]_vars

-----------------------------------------------------------------------------
(***************************************************************************)
(* Properties                                                                *)
(***************************************************************************)

(* Every variable has its type; the position lies in the undo stack.         *)
CreatorTypeOK ==
    /\ ConfigurationsTypeOK
    /\ disk \in [File -> Text]
    /\ document \in Document \cup {None}
    /\ currentFile \in File \cup {None}
    /\ timer \in BOOLEAN
    /\ history \in Seq(Command)
    /\ done \in 0 .. Len(history)
    /\ dialogs \in Seq(Dialog)
    /\ abandoned \subseteq 1 .. Limit

(***************************************************************************)
(* The manager holds the configuration of the document and no other, however *)
(* openings, reloads and undos failed or came inside each other, but for     *)
(* those whose handle was overwritten after a reload inside the question of  *)
(* another reload.  Without a document there is no file to save to or to     *)
(* reload, which save() and reopenFile() rely on when they use               *)
(* cpacsConfiguration unchecked, and nothing to undo.                        *)
(***************************************************************************)
NothingOutlivesTheDocument ==
    /\ DOMAIN configurations =
          abandoned \cup (IF configurationIsSet THEN {document.handle} ELSE {})
    /\ configurationIsSet => document.handle \notin abandoned
    /\ document = None => currentFile = None /\ history = <<>>

(***************************************************************************)
(* What Save would have to write is flagged as modified: a text that differs *)
(* from the one that was loaded or saved last, after any edits, undos, saves *)
(* that failed and reloads ("stores information whether the configuration    *)
(* was modified since the last save", TIGLCreatorDocument.h:70).  The one    *)
(* exception is a save whose write broke off after the file was opened.      *)
(***************************************************************************)
UnsavedIsFlagged ==
    configurationIsSet /\ document.saved \notin {Shown.text, Partial} => document.modified

(***************************************************************************)
(* As long as no file was loaded over the undo stack, the text shown is the  *)
(* one the next undo leaves and the next redo starts from, and the commands  *)
(* follow one another.                                                       *)
(***************************************************************************)
Unbroken == ~document.reloaded /\ \A i \in DOMAIN history : history[i].own

UndoFollowsText ==
    configurationIsSet /\ Unbroken =>
        /\ done > 0 => Shown.text = history[done].new
        /\ done < Len(history) => Shown.text = history[done + 1].old
        /\ \A i \in 1 .. Len(history) - 1 : history[i].new = history[i + 1].old

(***************************************************************************)
(* Undo and redo reopen the model that was open, whatever other models their *)
(* texts describe ("reopen the same model from the content string",          *)
(* TIGLCreatorDocument.h:64).                                                *)
(***************************************************************************)
Position == done' # done /\ document # None /\ document' # None /\ history' = history

UndoKeepsModel ==
    [][Position /\ configurationIsSet /\ configurationIsSet' => Shown'.model = Shown.model]_vars

(***************************************************************************)
(* "if the file was generated from a template" the current file has no name *)
(* (TIGLCreatorWindow.cpp:718), so that Save asks for one.                   *)
(***************************************************************************)
TemplateHasNoFile == document # None /\ document.loaded = None => currentFile = None

(***************************************************************************)
(* "when the document is closed, we remove all undo"                         *)
(* (TIGLCreatorWindow.cpp:354): every command belongs to the open document.  *)
(***************************************************************************)
UndoOfDocument == \A i \in DOMAIN history : history[i].own
=============================================================================
