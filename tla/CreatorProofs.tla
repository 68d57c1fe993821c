---------------------------- MODULE CreatorProofs ----------------------------
(***************************************************************************)
(* Proofs about TIGLCreator's document, for any texts, files, templates and  *)
(* models, any range of the handle counter, and any bounds of the undo stack  *)
(* and of the questions inside each other.                                   *)
(***************************************************************************)
EXTENDS Creator, TLAPS

(***************************************************************************)
(* The commands that belong to another document lie below those of the       *)
(* present one: they were all recorded before it was opened.                 *)
(***************************************************************************)
ForeignFirst ==
    \A i, j \in DOMAIN history : i < j /\ history[i].own => history[j].own

(***************************************************************************)
(* Only a reload asks inside another question.  While the user is asked      *)
(* whether to save it, or which model to reload, the document stays open.    *)
(***************************************************************************)
Questions ==
    \A i \in DOMAIN dialogs :
        /\ dialogs[i].for # "reload" => i = 1
        /\ dialogs[i].for \in {"reload", "close"} => document # None

CreatorInv ==
    /\ CreatorTypeOK
    /\ NothingOutlivesTheDocument
    /\ UnsavedIsFlagged
    /\ UndoFollowsText
    /\ ForeignFirst
    /\ Questions

-----------------------------------------------------------------------------
(* A document is not None.                                                   *)
LEMMA DocumentIsNotNone == None \notin Document
<1>1. Document \subseteq [handle : Int \cup {None}, loaded : File \cup {None},
                          modified : BOOLEAN, saved : Text, reloaded : BOOLEAN]
  BY DEF Document
<1> QED BY <1>1, DocumentAssumption

(* The counter stays in its range; what is at least 1 is a handle.           *)
LEMMA NextHandleType ==
    ASSUME handleCounter \in Counter
    PROVE  /\ NextHandle \in Counter
           /\ NextHandle >= 1 => NextHandle \in 1 .. Limit
           /\ NextHandle # None
  BY LimitAssumption, NoneAssumption DEF Counter, NextHandle

(***************************************************************************)
(* What opening a configuration leaves in the manager: either nothing has    *)
(* changed and no handle is returned, or the handle is new and names the     *)
(* configuration.                                                            *)
(***************************************************************************)
Opens(open, text, model) ==
    LET handle == Handle(open, text, model)
        after  == Opened(open, text, model)
    IN  /\ Counted(text, model) \in Counter
        /\ Loadable(text, model) => model \in Model
        /\ DOMAIN after \subseteq 1 .. Limit
        /\ \A h \in DOMAIN after : after[h] \in Configuration
        /\ \/ /\ handle = None
              /\ ~(Loadable(text, model) /\ Accepts(open))
              /\ after = open
           \/ /\ handle \in 1 .. Limit
              /\ handle \notin DOMAIN open
              /\ DOMAIN after = DOMAIN open \cup {handle}
              /\ after[handle] = [text |-> text, model |-> model]

LEMMA OpenedFacts ==
    ASSUME handleCounter \in Counter, NEW open, NEW text \in Text, NEW model,
           DOMAIN open \subseteq 1 .. Limit,
           \A h \in DOMAIN open : open[h] \in Configuration
    PROVE  Opens(open, text, model)
<1>1. Loadable(text, model) => model \in Model
  BY TextAssumption DEF Loadable
<1>2. Counted(text, model) \in Counter
  BY NextHandleType DEF Counted
<1>3. CASE Loadable(text, model) /\ Accepts(open)
  <2>1. Handle(open, text, model) = NextHandle
    BY <1>3 DEF Handle
  <2>2. NextHandle \in 1 .. Limit /\ NextHandle \notin DOMAIN open
    BY <1>3, NextHandleType DEF Accepts
  <2>3. Opened(open, text, model)
            = [h \in DOMAIN open \cup {NextHandle} |->
                  IF h = NextHandle THEN [text |-> text, model |-> model] ELSE open[h]]
    BY <1>3 DEF Opened
  <2>4. [text |-> text, model |-> model] \in Configuration
    BY <1>1, <1>3 DEF Configuration
  <2> QED BY <1>1, <1>2, <2>1, <2>2, <2>3, <2>4 DEF Opens
<1>4. CASE ~(Loadable(text, model) /\ Accepts(open))
  BY <1>1, <1>2, <1>4 DEF Handle, Opened, Opens
<1> QED BY <1>3, <1>4

(* Closing takes one handle away and leaves the others alone.                *)
LEMMA ClosedFacts ==
    ASSUME NEW open, NEW handle
    PROVE  /\ DOMAIN Closed(open, handle) = DOMAIN open \ {handle}
           /\ \A h \in DOMAIN open \ {handle} : Closed(open, handle)[h] = open[h]
  BY DEF Closed

(* A window that has just been started satisfies everything.                 *)
LEMMA StartedEstablishes ==
    ASSUME Started, disk' \in [File -> Text]
    PROVE  CreatorInv'
<1>1. CreatorTypeOK'
  <2>1. ConfigurationsTypeOK'
    <3>1. DOMAIN configurations' = {} /\ handleCounter' = 0
      BY DEF Started, NoConfiguration
    <3>2. 0 \in Counter
      BY LimitAssumption DEF Counter
    <3> QED BY <3>1, <3>2 DEF ConfigurationsTypeOK
  <2>2. /\ history' \in Seq(Command) /\ done' \in 0 .. Len(history')
        /\ dialogs' \in Seq(Dialog)
    BY DEF Started
  <2> QED BY <2>1, <2>2 DEF Started, CreatorTypeOK
<1>2. NothingOutlivesTheDocument'
  BY DEF Started, NothingOutlivesTheDocument, configurationIsSet, NoConfiguration
<1>3. UnsavedIsFlagged' /\ UndoFollowsText'
  BY DEF Started, UnsavedIsFlagged, UndoFollowsText, configurationIsSet
<1>4. ForeignFirst' /\ Questions'
  BY DEF Started, ForeignFirst, Questions
<1> QED BY <1>1, <1>2, <1>3, <1>4 DEF CreatorInv

-----------------------------------------------------------------------------
(***************************************************************************)
(* What the invariant says of the document, as the steps use it.             *)
(***************************************************************************)
LEMMA DocumentFacts ==
    ASSUME CreatorInv
    PROVE  /\ handleCounter \in Counter
           /\ DOMAIN configurations \subseteq 1 .. Limit
           /\ \A h \in DOMAIN configurations : configurations[h] \in Configuration
           /\ abandoned \subseteq 1 .. Limit
           /\ ~configurationIsSet => DOMAIN configurations = abandoned /\ Handed = None
           /\ configurationIsSet => /\ document \in Document
                                    /\ Handed = document.handle
                                    /\ document.handle \in 1 .. Limit
                                    /\ document.handle \notin abandoned
                                    /\ DOMAIN configurations = abandoned \cup {document.handle}
                                    /\ Shown \in Configuration
           /\ document # None => document \in Document
           /\ history \in Seq(Command) /\ done \in 0 .. Len(history)
           /\ disk \in [File -> Text]
           /\ currentFile \in File \cup {None} /\ timer \in BOOLEAN
           /\ dialogs \in Seq(Dialog)
<1>1. /\ CreatorTypeOK /\ ConfigurationsTypeOK
      /\ DOMAIN configurations =
            abandoned \cup (IF configurationIsSet THEN {document.handle} ELSE {})
      /\ configurationIsSet => document.handle \notin abandoned
  BY DEF CreatorInv, CreatorTypeOK, NothingOutlivesTheDocument
<1>2. document # None => document \in Document
  BY <1>1 DEF CreatorTypeOK
<1>3. CASE configurationIsSet
  <2>1. document \in Document /\ document.handle # None /\ Handed = document.handle
    BY <1>2, <1>3 DEF configurationIsSet, Handed
  <2>2. document.handle \in 1 .. Limit
    BY <2>1 DEF Document
  <2>3. Shown \in Configuration
    BY <1>1, <1>3 DEF Shown, ConfigurationsTypeOK
  <2> QED BY <1>1, <1>2, <1>3, <2>1, <2>2, <2>3 DEF CreatorTypeOK, ConfigurationsTypeOK
<1>4. CASE ~configurationIsSet
  <2>1. Handed = None
    BY <1>4 DEF Handed
  <2> QED BY <1>1, <1>2, <1>4, <2>1 DEF CreatorTypeOK, ConfigurationsTypeOK
<1> QED BY <1>3, <1>4

(* Without the document's own configuration, those that were lost are left.  *)
LEMMA HandedFacts ==
    ASSUME CreatorInv
    PROVE  LET open == Closed(configurations, Handed)
           IN  /\ DOMAIN open = abandoned
               /\ DOMAIN open \subseteq 1 .. Limit
               /\ \A h \in DOMAIN open : open[h] \in Configuration
<1>1. /\ DOMAIN Closed(configurations, Handed) = DOMAIN configurations \ {Handed}
      /\ \A h \in DOMAIN configurations \ {Handed} :
            Closed(configurations, Handed)[h] = configurations[h]
  BY ClosedFacts, Zenon
<1>2. \A h \in 1 .. Limit : h # None
  BY LimitAssumption, NoneAssumption
<1>3. DOMAIN configurations \ {Handed} = abandoned
  BY <1>2, DocumentFacts
<1> QED BY <1>1, <1>3, DocumentFacts

(* Opening one more configuration.                                           *)
LEMMA FreshFacts ==
    ASSUME CreatorInv, NEW open, NEW text \in Text, NEW model,
           DOMAIN open \subseteq 1 .. Limit,
           \A h \in DOMAIN open : open[h] \in Configuration
    PROVE  LET handle == Handle(open, text, model)
               after == Opened(open, text, model)
           IN  /\ Counted(text, model) \in Counter
               /\ handle \in (1 .. Limit) \cup {None}
               /\ DOMAIN after = DOMAIN open \cup (IF handle = None THEN {} ELSE {handle})
               /\ DOMAIN after \subseteq 1 .. Limit
               /\ \A h \in DOMAIN after : after[h] \in Configuration
               /\ handle # None => /\ handle \notin DOMAIN open
                                   /\ after[handle] = [text |-> text, model |-> model]
<1>1. Opens(open, text, model)
  <2>1. handleCounter \in Counter
    BY DocumentFacts
  <2> QED BY <2>1, OpenedFacts, Zenon
<1>2. \A h \in 1 .. Limit : h # None
  BY LimitAssumption, NoneAssumption
<1> QED BY <1>1, <1>2 DEF Opens

-----------------------------------------------------------------------------
(***************************************************************************)
(* Questions and answers.                                                    *)
(***************************************************************************)
LEMMA QuestionsStay ==
    ASSUME CreatorInv, dialogs' = dialogs, document # None => document' # None
    PROVE  dialogs' \in Seq(Dialog) /\ Questions'
  BY DocumentFacts DEF CreatorInv, Questions

(* A user's event starts when nothing is asked.                               *)
LEMMA NoQuestion ==
    ASSUME dialogs = <<>>, dialogs' = dialogs
    PROVE  dialogs' \in Seq(Dialog) /\ Questions'
  BY DEF Questions

LEMMA AskFacts ==
    ASSUME CreatorInv, NEW dialog \in Dialog, Ask(dialog),
           dialog.for # "reload" => dialogs = <<>>,
           dialog.for \in {"reload", "close"} => document # None,
           document # None => document' # None
    PROVE  dialogs' \in Seq(Dialog) /\ Questions'
<1>1. dialogs \in Seq(Dialog) /\ dialogs' = Append(dialogs, dialog)
  BY DocumentFacts DEF Ask
<1>2. /\ dialogs' \in Seq(Dialog) /\ Len(dialogs') = Len(dialogs) + 1
      /\ \A i \in DOMAIN dialogs : dialogs'[i] = dialogs[i]
      /\ dialogs'[Len(dialogs) + 1] = dialog
  BY <1>1
<1>3. ASSUME NEW i \in DOMAIN dialogs'
      PROVE  /\ dialogs'[i].for # "reload" => i = 1
             /\ dialogs'[i].for \in {"reload", "close"} => document' # None
  <2>1. CASE i = Len(dialogs) + 1
    BY <1>1, <1>2, <2>1
  <2>2. CASE i # Len(dialogs) + 1
    <3>1. i \in DOMAIN dialogs
      BY <1>1, <1>2, <2>2
    <3> QED BY <1>2, <3>1 DEF CreatorInv, Questions
  <2> QED BY <2>1, <2>2
<1> QED BY <1>2, <1>3 DEF Questions

LEMMA AskedFacts ==
    ASSUME CreatorInv, NEW for, Asked(for)
    PROVE  /\ dialogs \in Seq(Dialog) /\ Len(dialogs) \in DOMAIN dialogs
           /\ Innermost \in Dialog /\ Innermost.for = for
           /\ for # "reload" => Len(dialogs) = 1
           /\ for \in {"reload", "close"} => document # None
           /\ for \in {"open", "reload"} => Innermost.text \in Text
           /\ for = "open" => Innermost.file \in File \cup {None}
<1>1. dialogs \in Seq(Dialog) /\ dialogs # <<>> /\ Innermost.for = for
  BY DocumentFacts DEF Asked
<1>2. Len(dialogs) \in DOMAIN dialogs
  BY <1>1
<1>3. Innermost \in Dialog
  BY <1>1, <1>2 DEF Innermost
<1>4. /\ for # "reload" => Len(dialogs) = 1
      /\ for \in {"reload", "close"} => document # None
  BY <1>1, <1>2 DEF CreatorInv, Questions, Innermost
<1>5. /\ for \in {"open", "reload"} => Innermost.text \in Text
      /\ for = "open" => Innermost.file \in File \cup {None}
  BY <1>1, <1>3 DEF Dialog
<1> QED BY <1>1, <1>2, <1>3, <1>4, <1>5

LEMMA AnswerFacts ==
    ASSUME CreatorInv, NEW for, Asked(for), Answer
    PROVE  /\ dialogs' \in Seq(Dialog)
           /\ for # "reload" \/ document' # None => Questions'
<1>1. /\ dialogs \in Seq(Dialog) /\ Len(dialogs) \in DOMAIN dialogs
      /\ dialogs' = SubSeq(dialogs, 1, Len(dialogs) - 1)
      /\ for # "reload" => Len(dialogs) = 1
  BY AskedFacts DEF Answer
<1>2. /\ dialogs' \in Seq(Dialog) /\ DOMAIN dialogs' = 1 .. (Len(dialogs) - 1)
      /\ \A i \in DOMAIN dialogs' : i \in DOMAIN dialogs /\ dialogs'[i] = dialogs[i]
  <2>1. Len(dialogs) \in Nat /\ Len(dialogs) - 1 \in 0 .. Len(dialogs)
    BY <1>1
  <2>2. dialogs' \in Seq(Dialog) /\ Len(dialogs') = Len(dialogs) - 1
    <3>1. \A m \in 0 .. Len(dialogs) :
             SubSeq(dialogs, 1, m) \in Seq(Dialog) /\ Len(SubSeq(dialogs, 1, m)) = m
      BY <1>1
    <3> QED BY <1>1, <2>1, <3>1
  <2>3. DOMAIN dialogs' = 1 .. (Len(dialogs) - 1)
    BY <2>2
  <2>4. \A i \in 1 .. (Len(dialogs) - 1) : i \in DOMAIN dialogs /\ dialogs'[i] = dialogs[i]
    BY <1>1, <2>1
  <2> QED BY <2>2, <2>3, <2>4
<1>3. CASE for # "reload"
  <2> SUFFICES ASSUME NEW i \in DOMAIN dialogs' PROVE FALSE
    BY <1>2, Zenon DEF Questions
  <2>1. Len(dialogs) = 1
    BY <1>1, <1>3
  <2>2. i \in 1 .. (Len(dialogs) - 1)
    BY <1>2
  <2> QED BY <2>1, <2>2
<1>4. CASE document' # None
  BY <1>2, <1>4 DEF CreatorInv, Questions
<1> QED BY <1>2, <1>3, <1>4

(* A step that leaves the document and its undo stack alone.                 *)
LEMMA DocumentStays ==
    ASSUME CreatorInv, disk' \in [File -> Text], timer' \in BOOLEAN,
           handleCounter' \in Counter, dialogs' \in Seq(Dialog), Questions',
           UNCHANGED <<configurations, document, currentFile, stack, abandoned>>
    PROVE  CreatorInv'
<1>1. /\ configurations' = configurations /\ document' = document
      /\ currentFile' = currentFile /\ history' = history /\ done' = done
      /\ abandoned' = abandoned
  BY DEF stack
<1>2. CreatorTypeOK'
  BY <1>1 DEF CreatorInv, CreatorTypeOK, ConfigurationsTypeOK
<1>3. NothingOutlivesTheDocument' /\ UnsavedIsFlagged'
  BY <1>1 DEF CreatorInv, NothingOutlivesTheDocument, UnsavedIsFlagged, configurationIsSet, Shown
<1>4. UndoFollowsText'
  BY <1>1 DEF CreatorInv, UndoFollowsText, Unbroken, configurationIsSet, Shown
<1>5. ForeignFirst'
  BY <1>1 DEF CreatorInv, ForeignFirst
<1> QED BY <1>2, <1>3, <1>4, <1>5 DEF CreatorInv

(* The same, of the whole state but for the questions.                       *)
LEMMA UnmovedPreserves ==
    ASSUME CreatorInv, dialogs' \in Seq(Dialog), Questions',
           UNCHANGED <<configurations, handleCounter, disk, document, window, stack, abandoned>>
    PROVE  CreatorInv'
<1>1. /\ UNCHANGED <<configurations, document, currentFile, stack, abandoned>>
      /\ disk' \in [File -> Text] /\ timer' \in BOOLEAN /\ handleCounter' \in Counter
  BY DocumentFacts DEF window
<1> QED BY <1>1, DocumentStays

(***************************************************************************)
(* Opening a document over another one, or over none.                        *)
(***************************************************************************)
LEMMA ReplacePreserves ==
    ASSUME CreatorInv, NEW text \in Text, NEW model, NEW file \in File \cup {None},
           Loadable(text, model), Accepts(configurations), Replace(text, model, file),
           handleCounter' = Counted(text, model), UNCHANGED <<disk, timer, done, abandoned>>,
           dialogs' \in Seq(Dialog), Questions'
    PROVE  CreatorInv'
<1> DEFINE after == Opened(configurations, text, model)
           handle == Handle(configurations, text, model)
<1>1. /\ Counted(text, model) \in Counter
      /\ handle \in 1 .. Limit
      /\ DOMAIN after = DOMAIN configurations \cup {handle}
      /\ DOMAIN after \subseteq 1 .. Limit
      /\ \A h \in DOMAIN after : after[h] \in Configuration
      /\ handle \notin DOMAIN configurations
      /\ after[handle] = [text |-> text, model |-> model]
  <2>1. /\ DOMAIN configurations \subseteq 1 .. Limit
        /\ \A h \in DOMAIN configurations : configurations[h] \in Configuration
    BY DocumentFacts
  <2>2. handle # None
    BY DocumentFacts, NextHandleType DEF Handle
  <2>3. /\ Counted(text, model) \in Counter
        /\ handle \in (1 .. Limit) \cup {None}
        /\ DOMAIN after = DOMAIN configurations \cup (IF handle = None THEN {} ELSE {handle})
        /\ DOMAIN after \subseteq 1 .. Limit
        /\ \A h \in DOMAIN after : after[h] \in Configuration
        /\ handle # None => /\ handle \notin DOMAIN configurations
                            /\ after[handle] = [text |-> text, model |-> model]
    BY <2>1, FreshFacts, ZenonT(30)
  <2> HIDE DEF handle, after
  <2> QED BY <2>2, <2>3
<1>2. DOMAIN configurations \ {Handed} = abandoned /\ Handed # handle /\ handle \notin abandoned
  BY <1>1, DocumentFacts, LimitAssumption, NoneAssumption
<1> HIDE DEF after, handle
<1>3. /\ configurations' = Closed(after, Handed)
      /\ handleCounter' = Counted(text, model)
      /\ document' = [handle |-> handle, loaded |-> file, modified |-> FALSE,
                      saved |-> text, reloaded |-> FALSE]
      /\ history' = Disowned
      /\ currentFile' = IF file = None THEN currentFile ELSE file
      /\ disk' = disk /\ timer' = timer /\ done' = done /\ abandoned' = abandoned
  BY DEF Replace, after, handle
<1>4. /\ DOMAIN configurations' = abandoned \cup {handle}
      /\ \A h \in DOMAIN configurations' : configurations'[h] = after[h]
  <2>1. /\ DOMAIN Closed(after, Handed) = DOMAIN after \ {Handed}
        /\ \A h \in DOMAIN after \ {Handed} : Closed(after, Handed)[h] = after[h]
    BY ClosedFacts, Zenon
  <2> QED BY <1>1, <1>2, <1>3, <2>1
<1>5. document' \in Document /\ document' # None
  <2>1. document' \in Document
    BY <1>1, <1>3 DEF Document
  <2> QED BY <2>1, DocumentIsNotNone
<1>6. configurationIsSet' /\ document'.handle = handle
  BY <1>1, <1>3, <1>5, LimitAssumption, NoneAssumption DEF configurationIsSet
<1>7. /\ history' \in Seq(Command) /\ Len(history') = Len(history)
      /\ \A i \in DOMAIN history' : history'[i].own = FALSE
  <2>1. history \in Seq(Command)
    BY DocumentFacts
  <2>2. /\ DOMAIN history' = DOMAIN history
        /\ \A i \in DOMAIN history' :
              history'[i] \in Command /\ history'[i].own = FALSE
    <3>1. \A i \in DOMAIN history : history[i] \in Command
      BY <2>1
    <3>2. \A i \in DOMAIN history :
             [history[i] EXCEPT !.own = FALSE] \in Command
      BY <3>1 DEF Command
    <3>3. \A i \in DOMAIN history : [history[i] EXCEPT !.own = FALSE].own = FALSE
      BY <3>1 DEF Command
    <3> QED BY <1>3, <3>2, <3>3 DEF Disowned
  <2>3. history' = [i \in 1 .. Len(history) |-> history'[i]]
    BY <1>3, <2>1 DEF Disowned
  <2> QED BY <2>1, <2>2, <2>3
<1>8. CreatorTypeOK'
  <2>1. ConfigurationsTypeOK'
    BY <1>1, <1>2, <1>3, <1>4 DEF ConfigurationsTypeOK
  <2>2. currentFile' \in File \cup {None}
    BY <1>3, DocumentFacts
  <2> QED BY <1>3, <1>5, <1>7, <2>1, <2>2 DEF CreatorTypeOK, CreatorInv
<1>9. NothingOutlivesTheDocument'
  BY <1>2, <1>3, <1>4, <1>5, <1>6 DEF NothingOutlivesTheDocument
<1>10. UnsavedIsFlagged'
  <2>1. Shown'.text = text
    BY <1>1, <1>4, <1>6 DEF Shown
  <2> QED BY <1>3, <2>1 DEF UnsavedIsFlagged
<1>11. ForeignFirst'
  BY <1>7 DEF ForeignFirst
<1>12. UndoFollowsText'
  <2>1. CASE Len(history') = 0
    <3>1. done' = 0
      BY <1>8, <2>1 DEF CreatorTypeOK
    <3> QED BY <2>1, <3>1 DEF UndoFollowsText
  <2>2. CASE Len(history') # 0
    <3>1. 1 \in DOMAIN history'
      BY <1>7, <2>2
    <3>2. ~Unbroken'
      BY <1>7, <3>1 DEF Unbroken
    <3> QED BY <3>2 DEF UndoFollowsText
  <2> QED BY <2>1, <2>2
<1> QED BY <1>8, <1>9, <1>10, <1>11, <1>12 DEF CreatorInv

LEMMA PlacePreserves ==
    ASSUME CreatorInv, NEW text \in Text, NEW model, NEW file \in File \cup {None},
           Place(text, model, file), dialogs' \in Seq(Dialog), Questions'
    PROVE  CreatorInv'
<1>1. handleCounter' = Counted(text, model) /\ UNCHANGED <<disk, timer, done, abandoned>>
  BY DEF Place
<1>2. CASE Loadable(text, model) /\ Accepts(configurations)
  <2>1. Replace(text, model, file)
    BY <1>2 DEF Place
  <2> QED BY <1>1, <1>2, <2>1, ReplacePreserves
<1>3. CASE ~(Loadable(text, model) /\ Accepts(configurations))
  <2>1. UNCHANGED <<configurations, document, currentFile, stack, abandoned>>
    BY <1>1, <1>3 DEF Place, stack
  <2>2. handleCounter' \in Counter
    BY <1>1, DocumentFacts, NextHandleType DEF Counted
  <2>3. disk' \in [File -> Text] /\ timer' \in BOOLEAN
    BY <1>1, DocumentFacts
  <2> QED BY <2>1, <2>2, <2>3, DocumentStays
<1> QED BY <1>2, <1>3

(* openFile and openNewFile place the document, or ask for the model first.   *)
LEMMA OpenPreserves ==
    ASSUME CreatorInv, dialogs = <<>>, NEW text \in Text, NEW file \in File \cup {None},
           Open(text, file)
    PROVE  CreatorInv'
<1>1. CASE Asks(text)
  <2> DEFINE dialog == [for |-> "open", text |-> text, file |-> file]
  <2>1. /\ Ask(dialog)
        /\ UNCHANGED <<configurations, handleCounter, disk, document, window, stack, abandoned>>
    BY <1>1 DEF Open
  <2>2. dialog \in Dialog /\ dialog.for = "open"
    BY DEF Dialog
  <2> HIDE DEF dialog
  <2>3. document' = document
    BY <2>1
  <2>4. dialogs' \in Seq(Dialog) /\ Questions'
    BY <2>1, <2>2, <2>3, AskFacts
  <2> QED BY <2>1, <2>4, UnmovedPreserves
<1>2. CASE ~Asks(text)
  <2>1. PICK model \in Answers(text) : Place(text, model, file)
    BY <1>2 DEF Open
  <2>2. dialogs' \in Seq(Dialog) /\ Questions'
    BY <1>2, NoQuestion DEF Open
  <2> QED BY <2>1, <2>2, PlacePreserves
<1> QED BY <1>1, <1>2

LEMMA openAnsweredPreserves ==
    ASSUME CreatorInv, openAnswered
    PROVE  CreatorInv'
<1>1. Asked("open") /\ Answer
  BY DEF openAnswered
<1>2. Innermost.text \in Text /\ Innermost.file \in File \cup {None}
  BY <1>1, AskedFacts
<1>3. dialogs' \in Seq(Dialog) /\ Questions'
  BY <1>1, AnswerFacts
<1>4. PICK model \in Answers(Innermost.text) : Place(Innermost.text, model, Innermost.file)
  BY DEF openAnswered
<1> QED BY <1>2, <1>3, <1>4, PlacePreserves

(***************************************************************************)
(* Saving changes the disk, and of the document what undo does not read.     *)
(***************************************************************************)
Saves ==
    /\ configurationIsSet
    /\ disk' \in [File -> Text] /\ currentFile' \in File \cup {None}
    /\ document' \in Document
    /\ document'.handle = document.handle /\ document'.reloaded = document.reloaded
    /\ \/ document'.saved \in {Shown.text, Partial}
       \/ document'.saved = document.saved /\ document'.modified = document.modified
    /\ UNCHANGED <<configurations, handleCounter, timer, stack, dialogs, abandoned>>

LEMMA SavesPreserves ==
    ASSUME CreatorInv, Saves
    PROVE  CreatorInv'
<1>1. /\ configurations' = configurations /\ handleCounter' = handleCounter
      /\ timer' = timer /\ history' = history /\ done' = done
      /\ dialogs' = dialogs /\ abandoned' = abandoned
  BY DEF Saves, stack
<1>2. document' # None /\ document # None
  BY DocumentIsNotNone DEF Saves, configurationIsSet
<1>3. configurationIsSet /\ configurationIsSet' /\ Shown' = Shown
  BY <1>1, <1>2 DEF Saves, configurationIsSet, Shown
<1>4. CreatorTypeOK'
  BY <1>1 DEF CreatorInv, CreatorTypeOK, ConfigurationsTypeOK, Saves
<1>5. NothingOutlivesTheDocument'
  BY <1>1, <1>2, <1>3 DEF CreatorInv, NothingOutlivesTheDocument, Saves
<1>6. UnsavedIsFlagged'
  BY <1>3 DEF CreatorInv, UnsavedIsFlagged, Saves
<1>7. Unbroken' => Unbroken
  BY <1>1 DEF Unbroken, Saves
<1>8. UndoFollowsText'
  BY <1>1, <1>3, <1>7 DEF CreatorInv, UndoFollowsText
<1>9. ForeignFirst'
  BY <1>1 DEF CreatorInv, ForeignFirst
<1>10. Questions'
  BY <1>1, <1>2, QuestionsStay
<1> QED BY <1>4, <1>5, <1>6, <1>8, <1>9, <1>10 DEF CreatorInv

(* What a file holds after a write is a text, whole or broken off.            *)
LEMMA WrittenType ==
    ASSUME CreatorInv, configurationIsSet, NEW file \in File,
           NEW text \in {Shown.text, Partial}
    PROVE  Written(file, text) \in [File -> Text]
<1>1. disk \in [File -> Text] /\ text \in Text
  BY DocumentFacts, PartialAssumption DEF Configuration
<1> QED BY <1>1 DEF Written

LEMMA saveFilePreserves ==
    ASSUME CreatorInv, configurationIsSet, NEW file \in File, NEW doc \in Document,
           doc.handle = document.handle, doc.reloaded = document.reloaded,
           doc.saved = document.saved, doc.modified = document.modified,
           saveFile(file, doc),
           UNCHANGED <<configurations, handleCounter, timer, stack, dialogs, abandoned>>
    PROVE  CreatorInv'
<1>1. disk \in [File -> Text] /\ currentFile \in File \cup {None}
  BY DocumentFacts
<1>2. CASE document' = doc /\ UNCHANGED <<disk, currentFile>>
  BY <1>1, <1>2, SavesPreserves DEF Saves
<1>3. ASSUME NEW text \in {Shown.text, Partial},
             disk' = Written(file, text), currentFile' = file,
             document' = [doc EXCEPT !.modified = FALSE, !.saved = text]
      PROVE  CreatorInv'
  <2>1. disk' \in [File -> Text]
    BY <1>3, WrittenType
  <2>2. text \in Text
    BY DocumentFacts, PartialAssumption DEF Configuration
  <2>3. /\ document' \in Document /\ document'.handle = document.handle
        /\ document'.reloaded = document.reloaded /\ document'.saved = text
    BY <1>3, <2>2 DEF Document
  <2> QED BY <1>3, <2>1, <2>3, SavesPreserves DEF Saves
<1> QED BY <1>2, <1>3 DEF saveFile

LEMMA savePreserves ==
    ASSUME CreatorInv, save
    PROVE  CreatorInv'
<1>1. CASE configurationIsSet
  <2>1. /\ document \in Document /\ currentFile \in File
        /\ saveFile(currentFile, document)
        /\ UNCHANGED <<configurations, handleCounter, timer, stack, dialogs, abandoned>>
    BY <1>1, DocumentFacts DEF save
  <2> QED BY <1>1, <2>1, saveFilePreserves
<1>2. CASE ~configurationIsSet
  <2>1. Started /\ disk' = disk
    BY <1>2 DEF save
  <2> QED BY <2>1, DocumentFacts, StartedEstablishes
<1> QED BY <1>1, <1>2

LEMMA saveAsPreserves ==
    ASSUME CreatorInv, NEW file \in File, saveAs(file)
    PROVE  CreatorInv'
<1> DEFINE doc == [document EXCEPT !.loaded = file]
<1>1. CASE configurationIsSet
  <2>1. document \in Document
    BY <1>1, DocumentFacts
  <2>2. /\ doc \in Document /\ doc.handle = document.handle
        /\ doc.reloaded = document.reloaded
        /\ doc.saved = document.saved /\ doc.modified = document.modified
    BY <2>1 DEF Document
  <2>3. /\ saveFile(file, doc)
        /\ UNCHANGED <<configurations, handleCounter, timer, stack, dialogs, abandoned>>
    BY <1>1 DEF saveAs
  <2> HIDE DEF doc
  <2> QED BY <1>1, <2>2, <2>3, saveFilePreserves
<1>2. CASE ~configurationIsSet
  <2>1. Started /\ disk' = disk
    BY <1>2 DEF saveAs
  <2> QED BY <2>1, DocumentFacts, StartedEstablishes
<1> QED BY <1>1, <1>2

-----------------------------------------------------------------------------
LEMMA SavedOrNotType ==
    ASSUME CreatorInv, SavedOrNot
    PROVE  disk' \in [File -> Text]
<1>1. disk \in [File -> Text]
  BY DocumentFacts
<1>2. ASSUME configurationIsSet, NEW file \in File, NEW text \in {Shown.text, Partial},
             disk' = Written(file, text)
      PROVE  disk' \in [File -> Text]
  BY <1>2, WrittenType
<1> QED BY <1>1, <1>2 DEF SavedOrNot

LEMMA ClosingPreserves ==
    ASSUME CreatorInv, Closing, disk' \in [File -> Text],
           dialogs' \in Seq(Dialog), Questions'
    PROVE  CreatorInv'
<1>1. /\ document' = None /\ currentFile' = None /\ history' = <<>> /\ done' = 0
      /\ handleCounter' = handleCounter /\ timer' = timer /\ abandoned' = abandoned
      /\ configurations' = Closed(configurations, Handed)
  BY DEF Closing
<1>2. /\ DOMAIN configurations' = abandoned
      /\ DOMAIN configurations' \subseteq 1 .. Limit
      /\ \A h \in DOMAIN configurations' : configurations'[h] \in Configuration
  BY <1>1, HandedFacts
<1>3. CreatorTypeOK'
  <2>1. ConfigurationsTypeOK'
    BY <1>1, <1>2, DocumentFacts DEF ConfigurationsTypeOK
  <2>2. history' \in Seq(Command) /\ done' \in 0 .. Len(history')
    BY <1>1
  <2> QED BY <1>1, <2>1, <2>2, DocumentFacts DEF CreatorTypeOK
<1>4. ~configurationIsSet'
  BY <1>1 DEF configurationIsSet
<1>5. NothingOutlivesTheDocument'
  BY <1>1, <1>2, <1>4 DEF NothingOutlivesTheDocument
<1>6. UnsavedIsFlagged' /\ UndoFollowsText'
  BY <1>4 DEF UnsavedIsFlagged, UndoFollowsText
<1>7. ForeignFirst'
  BY <1>1 DEF ForeignFirst
<1> QED BY <1>3, <1>5, <1>6, <1>7 DEF CreatorInv

LEMMA AskToSavePreserves ==
    ASSUME CreatorInv, dialogs = <<>>, document # None, NEW for \in {"close", "quit"},
           AskToSave(for)
    PROVE  CreatorInv'
<1> DEFINE dialog == [for |-> for]
<1>1. /\ Ask(dialog)
      /\ UNCHANGED <<configurations, handleCounter, disk, document, window, stack, abandoned>>
  BY DEF AskToSave
<1>2. dialog \in Dialog
  BY DEF Dialog
<1> HIDE DEF dialog
<1>3. dialogs' \in Seq(Dialog) /\ Questions'
  BY <1>1, <1>2, AskFacts
<1> QED BY <1>1, <1>3, UnmovedPreserves

LEMMA closeConfigurationPreserves ==
    ASSUME CreatorInv, dialogs = <<>>, closeConfiguration
    PROVE  CreatorInv'
<1>1. CASE document.modified
  <2>1. document # None /\ AskToSave("close")
    BY <1>1 DEF closeConfiguration, configurationIsSet
  <2> QED BY <2>1, AskToSavePreserves
<1>2. CASE ~document.modified
  <2>1. Closing /\ UNCHANGED <<disk, dialogs>>
    BY <1>2 DEF closeConfiguration
  <2>2. disk' \in [File -> Text]
    BY <2>1, DocumentFacts
  <2> QED BY <2>1, <2>2, NoQuestion, ClosingPreserves
<1> QED BY <1>1, <1>2

LEMMA closeEventPreserves ==
    ASSUME CreatorInv, dialogs = <<>>, closeEvent
    PROVE  CreatorInv'
<1>1. CASE document # None /\ document.modified
  BY <1>1, AskToSavePreserves DEF closeEvent
<1>2. CASE ~(document # None /\ document.modified)
  BY <1>2, DocumentFacts, StartedEstablishes DEF closeEvent
<1> QED BY <1>1, <1>2

LEMMA closeAnsweredPreserves ==
    ASSUME CreatorInv, closeAnswered
    PROVE  CreatorInv'
<1>1. CASE SavedOrNot /\ Closing /\ Answer
  <2>1. Asked("close")
    BY DEF closeAnswered
  <2>2. dialogs' \in Seq(Dialog) /\ Questions'
    BY <1>1, <2>1, AnswerFacts
  <2> QED BY <1>1, <2>2, SavedOrNotType, ClosingPreserves
<1>2. CASE Started /\ UNCHANGED disk
  BY <1>2, DocumentFacts, StartedEstablishes
<1> QED BY <1>1, <1>2 DEF closeAnswered

LEMMA closeCancelledPreserves ==
    ASSUME CreatorInv, closeCancelled
    PROVE  CreatorInv'
<1>1. PICK for \in {"close", "quit"} : Asked(for)
  BY DEF closeCancelled
<1>2. dialogs' \in Seq(Dialog) /\ Questions'
  BY <1>1, AnswerFacts DEF closeCancelled
<1> QED BY <1>2, UnmovedPreserves DEF closeCancelled

LEMMA ExternalPreserves ==
    ASSUME CreatorInv, NEW file \in File, NEW text \in Text, External(file, text)
    PROVE  CreatorInv'
<1>1. /\ UNCHANGED <<configurations, handleCounter, document, currentFile, stack,
                     dialogs, abandoned>>
      /\ disk' = [disk EXCEPT ![file] = text]
      /\ timer' \in BOOLEAN
  BY DEF External
<1>2. disk' \in [File -> Text] /\ handleCounter' \in Counter
  BY <1>1, DocumentFacts
<1>3. dialogs' \in Seq(Dialog) /\ Questions'
  BY <1>1, QuestionsStay
<1> QED BY <1>1, <1>2, <1>3, DocumentStays

(***************************************************************************)
(* A new undo command.  If all commands that stay are the document's own,    *)
(* then so were, by ForeignFirst, those that are dropped: the text that was  *)
(* shown is the one the last command left.                                   *)
(***************************************************************************)
LEMMA createUndoCommandPreserves ==
    ASSUME CreatorInv, NEW text \in Text, createUndoCommand(text)
    PROVE  CreatorInv'
<1> DEFINE last == [old |-> Shown.text, new |-> text, own |-> TRUE]
<1>1. /\ configurationIsSet /\ document \in Document /\ Shown \in Configuration
      /\ document.handle \in 1 .. Limit
      /\ DOMAIN configurations = abandoned \cup {document.handle}
      /\ document.handle \notin abandoned
      /\ \A h \in DOMAIN configurations : configurations[h] \in Configuration
      /\ history \in Seq(Command) /\ done \in 0 .. Len(history)
      /\ handleCounter \in Counter
  BY DocumentFacts DEF createUndoCommand
<1>2. last \in Command
  BY <1>1 DEF Command, Configuration
<1> HIDE DEF last
<1>3. /\ configurations' = [configurations EXCEPT ![document.handle].text = text]
      /\ history' = Append(SubSeq(history, 1, done), last)
      /\ done' = done + 1
      /\ document' = [document EXCEPT !.modified = TRUE]
      /\ handleCounter' = handleCounter /\ disk' = disk
      /\ currentFile' = currentFile /\ timer' = timer
      /\ dialogs' = dialogs /\ abandoned' = abandoned
  BY DEF createUndoCommand, last, window
<1>4. /\ document' \in Document /\ document'.handle = document.handle
      /\ document'.modified = TRUE /\ document'.reloaded = document.reloaded
  BY <1>1, <1>3 DEF Document
<1>5. configurationIsSet'
  BY <1>1, <1>4, DocumentIsNotNone DEF configurationIsSet
<1>6. /\ DOMAIN configurations' = DOMAIN configurations
      /\ \A h \in DOMAIN configurations' : configurations'[h] \in Configuration
      /\ Shown'.text = text
  <2>1. Shown' = [Shown EXCEPT !.text = text]
    BY <1>1, <1>3, <1>4 DEF Shown
  <2>2. \A h \in DOMAIN configurations' :
           configurations'[h] = IF h = document.handle THEN Shown' ELSE configurations[h]
    BY <1>3, <1>4 DEF Shown
  <2>3. Shown' \in Configuration /\ Shown'.text = text
    BY <1>1, <2>1 DEF Configuration
  <2>4. DOMAIN configurations' = DOMAIN configurations
    BY <1>3
  <2> QED BY <1>1, <2>2, <2>3, <2>4
<1>7. /\ history' \in Seq(Command) /\ Len(history') = done + 1
      /\ \A i \in 1 .. done : history'[i] = history[i]
      /\ history'[done + 1] = last
  BY <1>1, <1>2, <1>3
<1>8. CreatorTypeOK'
  <2>1. ConfigurationsTypeOK'
    BY <1>3, <1>6, DocumentFacts DEF ConfigurationsTypeOK
  <2> QED BY <1>1, <1>3, <1>4, <1>7, <2>1 DEF CreatorInv, CreatorTypeOK
<1>9. NothingOutlivesTheDocument'
  <2>1. abandoned' = abandoned
    BY <1>3
  <2>2. DOMAIN configurations' = abandoned' \cup {document'.handle}
    BY <1>1, <1>4, <1>6, <2>1
  <2>3. document'.handle \notin abandoned' /\ document' # None
    BY <1>1, <1>4, <2>1, DocumentIsNotNone
  <2> QED BY <1>5, <2>2, <2>3 DEF NothingOutlivesTheDocument
<1>10. UnsavedIsFlagged'
  BY <1>4 DEF UnsavedIsFlagged
<1>11. ForeignFirst'
  <2>1. last.own = TRUE
    BY DEF last
  <2> SUFFICES ASSUME NEW i \in DOMAIN history', NEW j \in DOMAIN history',
                      i < j, history'[i].own
               PROVE  history'[j].own
    BY DEF ForeignFirst
  <2>2. CASE j = done + 1
    BY <1>7, <2>1, <2>2
  <2>3. CASE j # done + 1
    <3>1. i \in 1 .. done /\ j \in 1 .. done /\ i \in DOMAIN history /\ j \in DOMAIN history
      BY <1>1, <1>7, <2>3
    <3> QED BY <1>7, <3>1 DEF CreatorInv, ForeignFirst
  <2> QED BY <2>2, <2>3
<1>12. UndoFollowsText'
  <2>1. last.new = text /\ last.old = Shown.text
    BY DEF last
  <2>2. done' > 0 => Shown'.text = history'[done'].new
    BY <1>3, <1>6, <1>7, <2>1
  <2>3. ~(done' < Len(history'))
    BY <1>1, <1>3, <1>7
  <2>4. ASSUME Unbroken', done > 0
        PROVE  \A i \in 1 .. Len(history') - 1 : history'[i].new = history'[i + 1].old
    <3>1. ~document.reloaded /\ history'[1].own /\ history'[1] = history[1]
      BY <1>1, <1>4, <1>7, <2>4 DEF Unbroken
    <3>2. \A i \in DOMAIN history : history[i].own
      BY <1>1, <2>4, <3>1 DEF CreatorInv, ForeignFirst
    <3>3. Unbroken
      BY <3>1, <3>2 DEF Unbroken
    <3>4. /\ Shown.text = history[done].new
          /\ \A i \in 1 .. Len(history) - 1 : history[i].new = history[i + 1].old
      BY <1>1, <2>4, <3>3 DEF CreatorInv, UndoFollowsText
    <3> SUFFICES ASSUME NEW i \in 1 .. Len(history') - 1
                 PROVE  history'[i].new = history'[i + 1].old
      OBVIOUS
    <3>5. i \in 1 .. done /\ history'[i] = history[i]
      BY <1>1, <1>7
    <3>6. CASE i = done
      BY <1>7, <2>1, <3>4, <3>5, <3>6
    <3>7. CASE i # done
      <4>1. i \in 1 .. Len(history) - 1 /\ history'[i + 1] = history[i + 1]
        BY <1>1, <1>7, <3>5, <3>7
      <4> QED BY <3>4, <3>5, <4>1
    <3> QED BY <3>6, <3>7
  <2>5. ASSUME ~(done > 0)
        PROVE  \A i \in 1 .. Len(history') - 1 : history'[i].new = history'[i + 1].old
    BY <1>1, <1>7, <2>5
  <2> QED BY <2>2, <2>3, <2>4, <2>5 DEF UndoFollowsText
<1>13. Questions'
  BY <1>3, <1>5, QuestionsStay DEF configurationIsSet
<1> QED BY <1>8, <1>9, <1>10, <1>11, <1>12, <1>13 DEF CreatorInv

-----------------------------------------------------------------------------
(***************************************************************************)
(* Going to another position of the stack and showing its text.              *)
(***************************************************************************)
Leads(text, position) ==
    Unbroken => /\ position > 0 => text = history[position].new
                /\ position < Len(history) => text = history[position + 1].old

LEMMA UpdatePreserves ==
    ASSUME CreatorInv, configurationIsSet, NEW text \in Text,
           NEW position \in 0 .. Len(history), Leads(text, position), Update(text, position)
    PROVE  CreatorInv'
<1> DEFINE open == Closed(configurations, Handed)
           model == Shown.model
           handle == Handle(open, text, model)
           after == Opened(open, text, model)
<1>1. /\ document \in Document /\ disk \in [File -> Text]
      /\ history \in Seq(Command)
  BY DocumentFacts
<1>2. CASE model \notin ModelsOf[text]
  <2>1. Started /\ disk' = disk
    BY <1>2 DEF Update, SameModel
  <2> QED BY <1>1, <2>1, StartedEstablishes
<1>3. CASE model \in ModelsOf[text]
  <2>1. /\ configurations' = after /\ handleCounter' = Counted(text, model)
        /\ document' = [document EXCEPT !.handle = handle, !.modified = TRUE]
        /\ done' = position /\ history' = history /\ disk' = disk
        /\ currentFile' = currentFile /\ timer' = timer
        /\ dialogs' = dialogs /\ abandoned' = abandoned
    BY <1>3 DEF Update, SameModel, window
  <2>2. /\ Counted(text, model) \in Counter
        /\ handle \in (1 .. Limit) \cup {None}
        /\ DOMAIN after = abandoned \cup (IF handle = None THEN {} ELSE {handle})
        /\ DOMAIN after \subseteq 1 .. Limit
        /\ \A h \in DOMAIN after : after[h] \in Configuration
        /\ handle # None => /\ handle \notin abandoned
                            /\ after[handle] = [text |-> text, model |-> model]
    <3>1. /\ DOMAIN open = abandoned /\ DOMAIN open \subseteq 1 .. Limit
          /\ \A h \in DOMAIN open : open[h] \in Configuration
      BY HandedFacts
    <3> HIDE DEF open, model
    <3> QED BY <3>1, FreshFacts, ZenonT(30)
  <2> HIDE DEF open, model, handle, after
  <2>3. /\ document' \in Document /\ document'.handle = handle
        /\ document'.modified = TRUE /\ document'.reloaded = document.reloaded
    BY <1>1, <2>1, <2>2 DEF Document
  <2>4. /\ document' # None
        /\ configurationIsSet' <=> handle # None
    BY <2>3, DocumentIsNotNone DEF configurationIsSet
  <2>5. CreatorTypeOK'
    <3>1. ConfigurationsTypeOK'
      BY <2>1, <2>2 DEF ConfigurationsTypeOK
    <3> QED BY <2>1, <2>3, <3>1 DEF CreatorInv, CreatorTypeOK
  <2>6. NothingOutlivesTheDocument' /\ Questions'
    <3>1. NothingOutlivesTheDocument'
      BY <2>1, <2>2, <2>3, <2>4 DEF NothingOutlivesTheDocument
    <3> QED BY <2>1, <2>4, <3>1, QuestionsStay
  <2>7. UnsavedIsFlagged'
    BY <2>3 DEF UnsavedIsFlagged
  <2>8. ForeignFirst'
    BY <2>1 DEF CreatorInv, ForeignFirst
  <2>9. ASSUME configurationIsSet', Unbroken'
        PROVE  /\ done' > 0 => Shown'.text = history'[done'].new
               /\ done' < Len(history') => Shown'.text = history'[done' + 1].old
               /\ \A i \in 1 .. Len(history') - 1 : history'[i].new = history'[i + 1].old
    <3>1. Unbroken
      BY <2>1, <2>3, <2>9 DEF Unbroken
    <3>2. Shown'.text = text
      BY <2>1, <2>2, <2>3, <2>4, <2>9 DEF Shown
    <3>3. \A i \in 1 .. Len(history) - 1 : history[i].new = history[i + 1].old
      BY <3>1 DEF CreatorInv, UndoFollowsText
    <3> QED BY <2>1, <3>1, <3>2, <3>3 DEF Leads
  <2>10. UndoFollowsText'
    BY <2>9 DEF UndoFollowsText
  <2> QED BY <2>5, <2>6, <2>7, <2>8, <2>10 DEF CreatorInv
<1> QED BY <1>2, <1>3

LEMMA MovePreserves ==
    ASSUME CreatorInv, NEW text \in Text, NEW position \in 0 .. Len(history),
           configurationIsSet => Leads(text, position), Move(text, position)
    PROVE  CreatorInv'
<1>1. CASE configurationIsSet
  <2>1. Update(text, position)
    BY <1>1 DEF Move
  <2> QED BY <1>1, <2>1, UpdatePreserves
<1>2. CASE ~configurationIsSet
  <2>1. /\ done' = position /\ configurations' = configurations
        /\ handleCounter' = handleCounter /\ disk' = disk /\ document' = document
        /\ currentFile' = currentFile /\ timer' = timer /\ history' = history
        /\ dialogs' = dialogs /\ abandoned' = abandoned
    BY <1>2 DEF Move, window
  <2>2. ~configurationIsSet'
    BY <1>2, <2>1 DEF configurationIsSet
  <2>3. CreatorTypeOK'
    BY <2>1 DEF CreatorInv, CreatorTypeOK, ConfigurationsTypeOK
  <2>4. NothingOutlivesTheDocument'
    BY <1>2, <2>1, <2>2 DEF CreatorInv, NothingOutlivesTheDocument
  <2>5. UnsavedIsFlagged' /\ UndoFollowsText'
    BY <2>2 DEF UnsavedIsFlagged, UndoFollowsText
  <2>6. ForeignFirst' /\ Questions'
    BY <2>1, QuestionsStay DEF CreatorInv, ForeignFirst
  <2> QED BY <2>3, <2>4, <2>5, <2>6 DEF CreatorInv
<1> QED BY <1>1, <1>2

LEMMA undoPreserves ==
    ASSUME CreatorInv, undo
    PROVE  CreatorInv'
<1>1. history \in Seq(Command) /\ done \in 0 .. Len(history) /\ done > 0
  BY DocumentFacts DEF undo
<1>2. history[done].old \in Text /\ done - 1 \in 0 .. Len(history)
  <2>1. history[done] \in Command /\ done - 1 \in 0 .. Len(history)
    BY <1>1
  <2> QED BY <2>1 DEF Command
<1>3. configurationIsSet => Leads(history[done].old, done - 1)
  <2> SUFFICES ASSUME configurationIsSet, Unbroken, done - 1 > 0
               PROVE  history[done].old = history[done - 1].new
    BY <1>1 DEF Leads
  <2>1. done - 1 \in 1 .. Len(history) - 1 /\ done - 1 + 1 = done
    BY <1>1
  <2> QED BY <2>1 DEF CreatorInv, UndoFollowsText
<1>4. Move(history[done].old, done - 1)
  BY DEF undo
<1> QED BY <1>2, <1>3, <1>4, MovePreserves

LEMMA redoPreserves ==
    ASSUME CreatorInv, redo
    PROVE  CreatorInv'
<1>1. history \in Seq(Command) /\ done \in 0 .. Len(history) /\ done < Len(history)
  BY DocumentFacts DEF redo
<1>2. history[done + 1].new \in Text /\ done + 1 \in 0 .. Len(history)
  <2>1. history[done + 1] \in Command /\ done + 1 \in 0 .. Len(history)
    BY <1>1
  <2> QED BY <2>1 DEF Command
<1>3. configurationIsSet => Leads(history[done + 1].new, done + 1)
  <2> SUFFICES ASSUME configurationIsSet, Unbroken, done + 1 < Len(history)
               PROVE  history[done + 1].new = history[done + 1 + 1].old
    BY <1>1 DEF Leads
  <2>1. done + 1 \in 1 .. Len(history) - 1
    BY <1>1
  <2> QED BY <2>1 DEF CreatorInv, UndoFollowsText
<1>4. Move(history[done + 1].new, done + 1)
  BY DEF redo
<1> QED BY <1>2, <1>3, <1>4, MovePreserves

(***************************************************************************)
(* Loading the file again shows the text that was loaded, and breaks the     *)
(* line of the undo stack, if there is one.  The configurations it starts    *)
(* from are those that were lost before and the one the handle still names,  *)
(* which is lost with it.                                                    *)
(***************************************************************************)
LEMMA ReloadedPreserves ==
    ASSUME CreatorInv, NEW open, NEW doc \in Document, NEW text \in Text, NEW model,
           DOMAIN open = abandoned \cup ({doc.handle} \ {None}),
           \A h \in DOMAIN open : open[h] \in Configuration,
           Reloaded(open, doc, text, model), timer' \in BOOLEAN,
           UNCHANGED <<disk, currentFile, stack>>,
           dialogs' \in Seq(Dialog), document' # None => Questions'
    PROVE  CreatorInv'
<1> DEFINE handle == Handle(open, text, model)
           after == Opened(open, text, model)
<1>1. /\ disk \in [File -> Text] /\ abandoned \subseteq 1 .. Limit
      /\ history \in Seq(Command) /\ done \in 0 .. Len(history)
  BY DocumentFacts
<1>2. /\ configurations' = after /\ handleCounter' = Counted(text, model)
      /\ abandoned' = DOMAIN open
      /\ document' = [doc EXCEPT !.handle = handle,
                                 !.saved = IF handle = None THEN @ ELSE text,
                                 !.reloaded = @ \/ history # <<>>]
      /\ done' = done /\ history' = history /\ disk' = disk /\ currentFile' = currentFile
  BY DEF Reloaded, stack
<1>3. DOMAIN open \subseteq 1 .. Limit
  BY <1>1 DEF Document
<1>4. /\ Counted(text, model) \in Counter
      /\ handle \in (1 .. Limit) \cup {None}
      /\ DOMAIN after = DOMAIN open \cup (IF handle = None THEN {} ELSE {handle})
      /\ DOMAIN after \subseteq 1 .. Limit
      /\ \A h \in DOMAIN after : after[h] \in Configuration
      /\ handle # None => /\ handle \notin DOMAIN open
                          /\ after[handle] = [text |-> text, model |-> model]
  BY <1>3, FreshFacts, ZenonT(30)
<1> HIDE DEF handle, after
<1>5. /\ document' \in Document /\ document'.handle = handle
      /\ document'.saved = IF handle = None THEN doc.saved ELSE text
      /\ document'.reloaded = (doc.reloaded \/ history # <<>>)
  <2>1. (doc.reloaded \/ history # <<>>) \in BOOLEAN
    BY DEF Document
  <2>2. (IF handle = None THEN doc.saved ELSE text) \in Text
    BY DEF Document
  <2> QED BY <1>2, <1>4, <2>1, <2>2 DEF Document
<1>6. /\ document' # None
      /\ configurationIsSet' <=> handle # None
  BY <1>5, DocumentIsNotNone DEF configurationIsSet
<1>7. CreatorTypeOK'
  <2>1. ConfigurationsTypeOK'
    BY <1>2, <1>4 DEF ConfigurationsTypeOK
  <2> QED BY <1>2, <1>3, <1>5, <2>1 DEF CreatorInv, CreatorTypeOK
<1>8. NothingOutlivesTheDocument'
  BY <1>2, <1>4, <1>5, <1>6 DEF NothingOutlivesTheDocument
<1>9. UnsavedIsFlagged'
  BY <1>2, <1>4, <1>5, <1>6 DEF UnsavedIsFlagged, Shown
<1>10. UndoFollowsText'
  <2>1. CASE history = <<>>
    <3>1. Len(history') = 0 /\ done' = 0
      BY <1>1, <1>2, <2>1
    <3> QED BY <3>1 DEF UndoFollowsText
  <2>2. CASE history # <<>>
    <3>1. ~Unbroken'
      BY <1>5, <2>2 DEF Unbroken
    <3> QED BY <3>1 DEF UndoFollowsText
  <2> QED BY <2>1, <2>2
<1>11. ForeignFirst' /\ Questions'
  BY <1>2, <1>6 DEF CreatorInv, ForeignFirst
<1> QED BY <1>7, <1>8, <1>9, <1>10, <1>11 DEF CreatorInv

(* A reload that asks leaves the document without a configuration.           *)
LEMMA ReloadAskedPreserves ==
    ASSUME CreatorInv, document # None, NEW text \in Text,
           Ask([for |-> "reload", text |-> text]),
           configurations' = Closed(configurations, Handed),
           document' = [document EXCEPT !.handle = None], timer' \in BOOLEAN,
           UNCHANGED <<handleCounter, disk, currentFile, stack, abandoned>>
    PROVE  CreatorInv'
<1> DEFINE dialog == [for |-> "reload", text |-> text]
<1>1. /\ handleCounter' = handleCounter /\ disk' = disk /\ currentFile' = currentFile
      /\ history' = history /\ done' = done /\ abandoned' = abandoned
  BY DEF stack
<1>2. /\ DOMAIN configurations' = abandoned
      /\ DOMAIN configurations' \subseteq 1 .. Limit
      /\ \A h \in DOMAIN configurations' : configurations'[h] \in Configuration
  BY HandedFacts
<1>3. document' \in Document /\ document'.handle = None
  BY DocumentFacts DEF Document
<1>4. document' # None /\ ~configurationIsSet'
  BY <1>3, DocumentIsNotNone DEF configurationIsSet
<1>5. dialogs' \in Seq(Dialog) /\ Questions'
  <2>1. dialog \in Dialog /\ dialog.for = "reload"
    BY DEF Dialog
  <2>2. Ask(dialog)
    OBVIOUS
  <2> HIDE DEF dialog
  <2> QED BY <1>4, <2>1, <2>2, AskFacts
<1>6. CreatorTypeOK'
  <2>1. ConfigurationsTypeOK'
    BY <1>1, <1>2, DocumentFacts DEF ConfigurationsTypeOK
  <2> QED BY <1>1, <1>3, <1>5, <2>1 DEF CreatorInv, CreatorTypeOK
<1>7. NothingOutlivesTheDocument'
  BY <1>1, <1>2, <1>4 DEF NothingOutlivesTheDocument
<1>8. UnsavedIsFlagged' /\ UndoFollowsText'
  BY <1>4 DEF UnsavedIsFlagged, UndoFollowsText
<1>9. ForeignFirst'
  BY <1>1 DEF CreatorInv, ForeignFirst
<1> QED BY <1>5, <1>6, <1>7, <1>8, <1>9 DEF CreatorInv

LEMMA updateConfigurationPreserves ==
    ASSUME CreatorInv, document # None, NEW text \in Text,
           updateConfiguration(text), timer' \in BOOLEAN,
           UNCHANGED <<disk, currentFile, stack>>
    PROVE  CreatorInv'
<1> DEFINE open == Closed(configurations, Handed)
           doc == [document EXCEPT !.handle = None]
<1>1. CASE Asks(text)
  <2>1. /\ configurations' = open /\ document' = doc
        /\ Ask([for |-> "reload", text |-> text])
        /\ UNCHANGED <<handleCounter, abandoned>>
    BY <1>1 DEF updateConfiguration
  <2> QED BY <2>1, ReloadAskedPreserves
<1>2. CASE ~Asks(text)
  <2>1. PICK model \in Answers(text) : Reloaded(open, doc, text, model)
    BY <1>2 DEF updateConfiguration
  <2>2. dialogs' = dialogs
    BY <1>2 DEF updateConfiguration
  <2>3. dialogs' \in Seq(Dialog) /\ (document' # None => Questions')
    BY <2>2, QuestionsStay, DocumentFacts
  <2>4. doc \in Document /\ doc.handle = None
    BY DocumentFacts DEF Document
  <2>5. DOMAIN open = abandoned /\ \A h \in DOMAIN open : open[h] \in Configuration
    BY HandedFacts
  <2> HIDE DEF open, doc
  <2>6. DOMAIN open = abandoned \cup ({doc.handle} \ {None})
    BY <2>4, <2>5
  <2> QED BY <2>1, <2>3, <2>4, <2>5, <2>6, ReloadedPreserves
<1> QED BY <1>1, <1>2

LEMMA reopenFilePreserves ==
    ASSUME CreatorInv, reopenFile
    PROVE  CreatorInv'
<1>1. timer' \in BOOLEAN /\ UNCHANGED <<disk, currentFile, stack>>
  BY DEF reopenFile
<1>2. CASE currentFile # None /\ document.loaded # None
  <2>1. document # None
    BY <1>2 DEF CreatorInv, NothingOutlivesTheDocument
  <2>2. document \in Document /\ disk \in [File -> Text]
    BY <2>1, DocumentFacts
  <2>3. disk[document.loaded] \in Text
    BY <1>2, <2>2 DEF Document
  <2>4. updateConfiguration(disk[document.loaded])
    BY <1>2 DEF reopenFile
  <2> QED BY <1>1, <2>1, <2>3, <2>4, updateConfigurationPreserves
<1>3. CASE ~(currentFile # None /\ document.loaded # None)
  <2>1. UNCHANGED <<configurations, handleCounter, document, dialogs, abandoned>>
    BY <1>3 DEF reopenFile
  <2>2. disk' \in [File -> Text] /\ handleCounter' \in Counter
    BY <1>1, <2>1, DocumentFacts
  <2>3. dialogs' \in Seq(Dialog) /\ Questions'
    BY <2>1, QuestionsStay
  <2> QED BY <1>1, <2>1, <2>2, <2>3, DocumentStays
<1> QED BY <1>2, <1>3

LEMMA reloadAnsweredPreserves ==
    ASSUME CreatorInv, reloadAnswered
    PROVE  CreatorInv'
<1>1. /\ Asked("reload") /\ Answer /\ UNCHANGED <<disk, window, stack>>
      /\ timer' \in BOOLEAN /\ UNCHANGED <<disk, currentFile, stack>>
  BY DocumentFacts DEF reloadAnswered, window
<1>2. document \in Document /\ Innermost.text \in Text
  BY <1>1, AskedFacts, DocumentFacts
<1>3. PICK model \in Answers(Innermost.text) :
         Reloaded(configurations, document, Innermost.text, model)
  BY DEF reloadAnswered
<1>4. dialogs' \in Seq(Dialog) /\ (document' # None => Questions')
  BY <1>1, AnswerFacts
<1>5. /\ DOMAIN configurations = abandoned \cup ({document.handle} \ {None})
      /\ \A h \in DOMAIN configurations : configurations[h] \in Configuration
  BY <1>2, DocumentFacts, DocumentIsNotNone, LimitAssumption, NoneAssumption
     DEF configurationIsSet
<1> QED BY <1>1, <1>2, <1>3, <1>4, <1>5, ReloadedPreserves

-----------------------------------------------------------------------------
LEMMA CreatorInit == Init => CreatorInv
<1> SUFFICES ASSUME Init PROVE CreatorInv
  OBVIOUS
<1>1. CreatorTypeOK
  <2>1. ConfigurationsTypeOK
    <3>1. DOMAIN configurations = {} /\ handleCounter = 0
      BY DEF Init, NoConfiguration
    <3>2. 0 \in Counter
      BY LimitAssumption DEF Counter
    <3> QED BY <3>1, <3>2 DEF ConfigurationsTypeOK
  <2>2. /\ history \in Seq(Command) /\ done \in 0 .. Len(history)
        /\ dialogs \in Seq(Dialog)
    BY DEF Init
  <2> QED BY <2>1, <2>2 DEF Init, CreatorTypeOK
<1>2. NothingOutlivesTheDocument
  BY DEF Init, NothingOutlivesTheDocument, configurationIsSet, NoConfiguration
<1>3. UnsavedIsFlagged /\ UndoFollowsText
  BY DEF Init, UnsavedIsFlagged, UndoFollowsText, configurationIsSet
<1>4. ForeignFirst /\ Questions
  BY DEF Init, ForeignFirst, Questions
<1> QED BY <1>1, <1>2, <1>3, <1>4 DEF CreatorInv

(* What the user starts keeps the invariant.                                 *)
LEMMA UserEventPreserves ==
    ASSUME CreatorInv, dialogs = <<>>, UserEvent
    PROVE  CreatorInv'
<1>1. ASSUME NEW file \in File, openFile(file)
      PROVE  CreatorInv'
  <2>1. disk[file] \in Text
    BY DocumentFacts
  <2>2. Open(disk[file], file)
    BY <1>1 DEF openFile
  <2> QED BY <2>1, <2>2, OpenPreserves
<1>2. ASSUME NEW text \in Template, openNewFile(text)
      PROVE  CreatorInv'
  BY <1>2, TemplateAssumption, OpenPreserves DEF openNewFile
<1>3. ASSUME NEW file \in File, saveAs(file)
      PROVE  CreatorInv'
  BY <1>3, saveAsPreserves
<1>4. CASE save
  BY <1>4, savePreserves
<1>5. CASE closeConfiguration
  BY <1>5, closeConfigurationPreserves
<1>6. CASE closeEvent
  BY <1>6, closeEventPreserves
<1>7. ASSUME NEW text \in Text, createUndoCommand(text)
      PROVE  CreatorInv'
  BY <1>7, createUndoCommandPreserves
<1>8. CASE undo
  BY <1>8, undoPreserves
<1>9. CASE redo
  BY <1>9, redoPreserves
<1> QED BY <1>1, <1>2, <1>3, <1>4, <1>5, <1>6, <1>7, <1>8, <1>9 DEF UserEvent

LEMMA CreatorNext == CreatorInv /\ [Next]_vars => CreatorInv'
<1> SUFFICES ASSUME CreatorInv, [Next]_vars
             PROVE  CreatorInv'
  OBVIOUS
<1>1. CASE dialogs = <<>> /\ UserEvent
  BY <1>1, UserEventPreserves
<1>2. CASE openAnswered
  BY <1>2, openAnsweredPreserves
<1>3. CASE closeAnswered
  BY <1>3, closeAnsweredPreserves
<1>4. CASE quitAnswered
  BY <1>4, SavedOrNotType, StartedEstablishes DEF quitAnswered
<1>5. CASE closeCancelled
  BY <1>5, closeCancelledPreserves
<1>6. CASE reloadAnswered
  BY <1>6, reloadAnsweredPreserves
<1>7. ASSUME NEW file \in File, NEW text \in Text, External(file, text)
      PROVE  CreatorInv'
  BY <1>7, ExternalPreserves
<1>8. CASE reopenFile
  BY <1>8, reopenFilePreserves
<1>9. CASE UNCHANGED vars
  <2>1. UNCHANGED <<configurations, handleCounter, disk, document, window, stack, abandoned>>
    BY <1>9 DEF vars, window, stack
  <2>2. dialogs' \in Seq(Dialog) /\ Questions'
    BY <1>9, QuestionsStay DEF vars
  <2> QED BY <2>1, <2>2, UnmovedPreserves
<1> QED BY <1>1, <1>2, <1>3, <1>4, <1>5, <1>6, <1>7, <1>8, <1>9 DEF Next

(***************************************************************************)
(* The inductive invariant of the document.                                  *)
(***************************************************************************)
THEOREM CreatorInductive == Spec => []CreatorInv
  BY CreatorInit, CreatorNext, PTL DEF Spec

(* Every variable keeps its type.                                            *)
THEOREM CreatorTypeCorrect == Spec => []CreatorTypeOK
<1>1. CreatorInv => CreatorTypeOK
  BY DEF CreatorInv
<1> QED BY <1>1, CreatorInductive, PTL

(***************************************************************************)
(* The manager holds the document's configuration only, and a window without *)
(* a document has no file and nothing to undo.                               *)
(***************************************************************************)
THEOREM DocumentOwns == Spec => []NothingOutlivesTheDocument
<1>1. CreatorInv => NothingOutlivesTheDocument
  BY DEF CreatorInv
<1> QED BY <1>1, CreatorInductive, PTL

(* What differs from the last loaded or saved text is flagged as modified.    *)
THEOREM UnsavedFlagged == Spec => []UnsavedIsFlagged
<1>1. CreatorInv => UnsavedIsFlagged
  BY DEF CreatorInv
<1> QED BY <1>1, CreatorInductive, PTL

(* The undo stack follows the text that is shown.                             *)
THEOREM UndoFollows == Spec => []UndoFollowsText
<1>1. CreatorInv => UndoFollowsText
  BY DEF CreatorInv
<1> QED BY <1>1, CreatorInductive, PTL

(***************************************************************************)
(* Undo and redo keep the model that is shown.  Of the other actions, only   *)
(* an edit moves the position and keeps the document.                        *)
(***************************************************************************)
LEMMA UpdateKeepsModel ==
    ASSUME CreatorInv, configurationIsSet, NEW text \in Text, NEW position,
           Update(text, position), configurationIsSet'
    PROVE  Shown'.model = Shown.model
<1> DEFINE open == Closed(configurations, Handed)
           model == Shown.model
           handle == Handle(open, text, model)
           after == Opened(open, text, model)
<1>1. document \in Document
  BY DocumentFacts
<1>2. model \in ModelsOf[text]
  BY DEF Update, SameModel, Started, configurationIsSet
<1>3. /\ configurations' = after
      /\ document' = [document EXCEPT !.handle = handle, !.modified = TRUE]
  BY <1>2 DEF Update, SameModel
<1>4. handle # None => after[handle] = [text |-> text, model |-> model]
  <2>1. /\ DOMAIN open \subseteq 1 .. Limit
        /\ \A h \in DOMAIN open : open[h] \in Configuration
    BY HandedFacts
  <2> HIDE DEF open, model
  <2> QED BY <2>1, FreshFacts, ZenonT(30)
<1> HIDE DEF open, model, handle, after
<1>5. document'.handle = handle
  BY <1>1, <1>3 DEF Document
<1>6. Shown'.model = model
  BY <1>3, <1>4, <1>5 DEF configurationIsSet, Shown
<1> QED BY <1>6 DEF model

THEOREM UndoKeeps == Spec => UndoKeepsModel
<1> DEFINE Kept == Position /\ configurationIsSet /\ configurationIsSet'
                        => Shown'.model = Shown.model
<1>1. CreatorInv /\ [Next]_vars => Kept
  <2> SUFFICES ASSUME CreatorInv, [Next]_vars, Position,
                      configurationIsSet, configurationIsSet'
               PROVE  Shown'.model = Shown.model
    OBVIOUS
  <2>1. done' # done /\ document' # None
    BY DEF Position
  <2>2. /\ \A file \in File : ~openFile(file) /\ ~saveAs(file)
        /\ \A text : ~openNewFile(text)
        /\ ~openAnswered /\ ~save /\ ~closeConfiguration /\ ~closeEvent
    BY <2>1 DEF openFile, openNewFile, openAnswered, Open, Place, save, saveAs,
                closeConfiguration, closeEvent, Closing, AskToSave, Started, stack
  <2>3. /\ ~closeAnswered /\ ~quitAnswered /\ ~closeCancelled /\ ~reloadAnswered /\ ~reopenFile
        /\ \A file \in File, text \in Text : ~External(file, text)
        /\ ~UNCHANGED vars
    BY <2>1 DEF closeAnswered, quitAnswered, closeCancelled, reloadAnswered, reopenFile,
                External, Closing, Started, stack, vars
  <2>4. ASSUME NEW text \in Text, createUndoCommand(text)
        PROVE  Shown'.model = Shown.model
    <3>1. /\ document \in Document /\ Shown \in Configuration
          /\ document.handle \in DOMAIN configurations
      BY DocumentFacts
    <3>2. /\ configurations' = [configurations EXCEPT ![document.handle].text = text]
          /\ document'.handle = document.handle
      BY <2>4, <3>1 DEF createUndoCommand, Document
    <3>3. Shown' = [Shown EXCEPT !.text = text]
      BY <3>1, <3>2 DEF Shown
    <3> QED BY <3>1, <3>3 DEF Configuration
  <2>5. CASE undo
    <3>1. history \in Seq(Command) /\ done \in 1 .. Len(history)
      BY <2>5, DocumentFacts DEF undo
    <3>2. history[done].old \in Text
      <4>1. history[done] \in Command
        BY <3>1
      <4> QED BY <4>1 DEF Command
    <3>3. Update(history[done].old, done - 1)
      BY <2>5 DEF undo, Move
    <3> QED BY <3>2, <3>3, UpdateKeepsModel
  <2>6. CASE redo
    <3>1. history \in Seq(Command) /\ done + 1 \in 1 .. Len(history)
      BY <2>6, DocumentFacts DEF redo
    <3>2. history[done + 1].new \in Text
      <4>1. history[done + 1] \in Command
        BY <3>1
      <4> QED BY <4>1 DEF Command
    <3>3. Update(history[done + 1].new, done + 1)
      BY <2>6 DEF redo, Move
    <3> QED BY <3>2, <3>3, UpdateKeepsModel
  <2> QED BY <2>2, <2>3, <2>4, <2>5, <2>6 DEF Next, UserEvent
<1> QED BY <1>1, CreatorInductive, PTL DEF Spec, UndoKeepsModel, Kept
=============================================================================
