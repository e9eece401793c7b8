--------------------------------- MODULE Tui ----------------------------------
(***************************************************************************)
(* The terminal interface of one session: tui/tui.go, its views and its    *)
(* prompts, on a database that other sessions use as well.                 *)
(*                                                                         *)
(* Bubble Tea handles one message after the other.  A handler may return   *)
(* commands; each runs in a goroutine of its own, and the message it comes *)
(* to is handled when it comes, whatever the order.  Keys do not wait for  *)
(* the messages of earlier ones.                                           *)
(***************************************************************************)
EXTENDS SettingsView, Sequences, SequencesExt, Bags

CONSTANTS
    Files,
    NoFile,
    Starts,      \* what users have when a session begins
    MaxFlight,   \* bound on the commands and messages under way
    MaxHasty,    \* bound on the keys pressed while any are
    MaxElsewhere \* bound on what others do to the files

ASSUME NoFileAssumption == NoFile \notin Files
ASSUME MaxFlightAssumption ==
    MaxFlight \in Nat /\ MaxHasty \in Nat /\ MaxElsewhere \in Nat
ASSUME StartsAssumption ==
    Starts \subseteq [private : SUBSET Files, public : SUBSET Files,
                      keys : SUBSET Ids, spare : SUBSET Ids]

VARIABLES
    db,          \* db[f]: the visibility of a file, or how it went
    items,       \* the files listed by the browser, as they were read
    stack,       \* TUI.views
    copy,        \* Prompt.file, of which the options window has the pointer
    shown,       \* whether the options window has a file
    index,       \* Options.index, from 1
    dialog,      \* Prompt.dialog, by its kind
    finished,    \* Prompt.finished
    flight,      \* commands and messages under way, a bag
    ended,       \* how the program has ended
    hasty,       \* the number of keys pressed while flight was not empty
    elsewhere,   \* the number of things others have done to the files
    (* History, for the properties. *)
    chosen,      \* the file last chosen in the browser
    crossed,     \* a file was chosen while another one was loading
    rushed,      \* what was under way when keys were pressed
    asked,       \* files of which the user's last yes was to make them public
    ours,        \* files of which this session, or nobody, made the last change
    pressed      \* the API key of the last x, if the settings have seen no key since

stored == <<db, ours>>
windows == <<stack, copy, shown, index, dialog, finished>>
browsing == <<stored, items, windows>>
history == <<chosen, crossed, asked>>
vars == <<settingsVars, browsing, flight, ended, hasty, elsewhere, history, rushed, pressed>>

Views == {"browser", "code", "options", "prompt", "settings"}
Dialogs == {"rename", "extension", "sign", "visibility", "delete"}

(* available: the options of a file.  (Without the extension for a binary  *)
(* file, whose window is one option shorter whatever else it has.)         *)
Offered(file) ==
    IF file.private THEN <<"rename", "extension", "sign", "visibility", "delete">>
                    ELSE <<"rename", "extension", "visibility", "delete">>

Item == [id : Files, private : BOOLEAN]
NoCopy == [id |-> NoFile, private |-> TRUE]

Push(v) == [kind |-> "push", view |-> v]
Pop == [kind |-> "pop"]
Quit == [kind |-> "quit"]
Deselect == [kind |-> "deselect"]
SetKind(d) == [kind |-> "setkind", dialog |-> d]
Feedback(done) == [kind |-> "feedback", done |-> done]

\* FileSelected and the LoadFile that answers it; then FileLoaded.
Load(f) == [kind |-> "load", id |-> f]
Loaded(file) == [kind |-> "loaded", file |-> file]

\* The command ReloadFiles, and its message.
Reload == [kind |-> "reload"]
Reloaded(files) == [kind |-> "reloaded", items |-> files]

Messages ==
    {Push(v) : v \in Views} \cup {Pop, Quit, Deselect, Reload} \cup
    {SetKind(d) : d \in Dialogs} \cup {Feedback(b) : b \in BOOLEAN} \cup
    {Load(f) : f \in Files} \cup {Loaded(i) : i \in Item} \cup
    {Reloaded(s) : s \in SUBSET Item}

TypeOK ==
    /\ SettingsTypeOK
    /\ db \in [Files -> {"none", "private", "public", "deleted", "gone"}]
    /\ items \subseteq Item
    /\ stack \in Seq(Views)
    /\ copy \in Item \cup {NoCopy}
    /\ dialog \in Dialogs \cup {"none"}
    /\ shown \in BOOLEAN /\ finished \in BOOLEAN /\ index \in 1..5
    /\ BagToSet(flight) \subseteq Messages
    /\ ended \in {"no", "quit", "killed", "underflow", "overrun"}
    /\ hasty \in 0..MaxHasty /\ elsewhere \in 0..MaxElsewhere
    /\ chosen \in Files \cup {NoFile}
    /\ crossed \in BOOLEAN
    /\ rushed \subseteq {"push", "pop", "setkind", "load"}
    /\ asked \subseteq Files /\ ours \subseteq Files
    /\ pressed \in Ids \cup {0}

Exists(f) == db[f] \in {"private", "public"}

\* Files.FindByUser
Found == {[id |-> f, private |-> db[f] = "private"] : f \in {g \in Files : Exists(g)}}

Init ==
    /\ \E start \in Starts :
          /\ db = [f \in Files |-> IF f \in start.private THEN "private"
                                   ELSE IF f \in start.public THEN "public" ELSE "none"]
          /\ SettingsInit(start.keys, start.spare)
    /\ items = Found
    /\ stack = <<"browser">>
    /\ copy = NoCopy
    /\ shown = FALSE
    /\ index = 1
    /\ dialog = "none"
    /\ finished = FALSE
    /\ flight = EmptyBag
    /\ ended = "no"
    /\ hasty = 0
    /\ elsewhere = 0
    /\ chosen = NoFile
    /\ crossed = FALSE
    /\ rushed = {}
    /\ asked = {}
    /\ ours = Files
    /\ pressed = 0

\* Without a view the program has panicked.
Top == IF stack = <<>> THEN "none" ELSE Last(stack)

UnderWay(kinds) == \E m \in BagToSet(flight) : m.kind \in kinds

(* What a key may be too early for: a window about to open or to close, a  *)
(* dialog about to be set, and a file about to be loaded.                  *)
Stages(change) == CASE change = "push" -> {"push"}
                    [] change = "pop" -> {"pop", "reload", "reloaded"}
                    [] change = "setkind" -> {"setkind"}
                    [] change = "load" -> {"load", "loaded"}

-----------------------------------------------------------------------------
(* Keys.  A key is handled at once, and starts commands.                   *)

Key(msgs) ==
    /\ ended = "no"
    /\ BagCardinality(flight) + Cardinality(msgs) <= MaxFlight
    /\ hasty' = hasty + (IF flight = EmptyBag THEN 0 ELSE 1)
    /\ hasty' <= MaxHasty
    /\ flight' = flight (+) SetToBag(msgs)
    /\ rushed' = rushed \cup {k \in {"push", "pop", "setkind", "load"} : UnderWay(Stages(k))}
    /\ UNCHANGED <<ended, elsewhere>>

(* A key other than x, which goes to the view on top.                      *)
Plain(msgs) == Key(msgs) /\ pressed' = IF Top = "settings" THEN 0 ELSE pressed

(* ctrl+c and ctrl+p are taken before the views see them, and q but for    *)
(* the deeper pages of the settings, where it disarms as any key does.     *)
PressQuit ==
    /\ Key({Quit})
    /\ \/ UNCHANGED <<settingsVars, pressed>>
       \/ Top = "settings" /\ Disarm /\ pressed' = 0
    /\ UNCHANGED <<browsing, history>>

PressSettings ==
    /\ Top # "prompt"
    /\ Key({IF Top = "settings" THEN Pop ELSE Push("settings")})
    /\ UNCHANGED <<settingsVars, browsing, history, pressed>>

(* Mutant: the last view is left like any other. *)
PressBackAlways ==
    /\ Top = "settings" => page = "root"
    /\ Plain({Pop})
    /\ UNCHANGED <<settingsVars, browsing, history>>

(* esc, and tab in the options window; the prompt, when it captures keys,  *)
(* does the same.                                                          *)
PressBack ==
    /\ Top = "settings" => page = "root"
    /\ Plain({IF Len(stack) = 1 THEN Quit ELSE Pop})
    /\ UNCHANGED <<settingsVars, browsing, history>>

Choose(item, msgs) ==
    /\ Top = "browser"
    /\ Plain({Load(item.id)} \cup msgs)
    /\ chosen' = item.id
    /\ crossed' = (crossed \/ UnderWay({"load", "loaded"}))
    /\ UNCHANGED <<settingsVars, browsing, asked>>

PressTab(item) == Choose(item, {Push("options")})
PressEnter(item) == Choose(item, {Push("code")})
PressDelete(item) == Choose(item, {SetKind("delete"), Push("prompt")})
PressSign(item) == item.private /\ Choose(item, {SetKind("sign"), Push("prompt")})

InOptions == Top = "options" /\ shown

PressMove ==
    /\ InOptions
    /\ index' \in {index - 1, index + 1}
    /\ index' > index => index < Len(Offered(copy))
    /\ index' > 0
    /\ Plain({})
    /\ UNCHANGED <<settingsVars, stored, items, stack, copy, shown, dialog, finished, history>>

(* enter in the options window.                                            *)
PressOption ==
    /\ InOptions
    /\ index <= Len(Offered(copy))
    /\ Plain({SetKind(Offered(copy)[index]), Push("prompt")})
    /\ UNCHANGED <<settingsVars, browsing, history>>

-----------------------------------------------------------------------------
(* enter in a prompt.  The database is called before the handler returns.  *)

Acting == Top = "prompt" /\ dialog # "none" /\ ~finished /\ copy # NoCopy

Done == {Reload, Feedback(TRUE)}

\* Of a row that is not there nothing is changed, and that is no error.
Write(f, new) ==
    IF Exists(f) THEN db' = [db EXCEPT ![f] = new] /\ ours' = ours \cup {f}
                 ELSE UNCHANGED stored

\* An answer that is not valid, or a call that failed.
Refuse(d) ==
    /\ Acting
    /\ dialog = d
    /\ Plain({Feedback(FALSE)})
    /\ UNCHANGED <<settingsVars, browsing, history>>

(* deleteDialog: the identifier has been typed. *)
SubmitDelete ==
    /\ Acting
    /\ dialog = "delete"
    /\ Write(copy.id, "deleted")
    /\ Plain(Done)
    /\ UNCHANGED <<settingsVars, items, windows, history>>

(* Files.Update: every column of the row is written from the copy.         *)
Update(file) == Write(file.id, IF file.private THEN "private" ELSE "public")

(* renameDialog and extensionDialog, of which names and types are left out. *)
SubmitEdit ==
    /\ Acting
    /\ dialog \in {"rename", "extension"}
    /\ Update(copy)
    /\ Plain(Done)
    /\ UNCHANGED <<settingsVars, items, windows, history>>

(* Mutant: the copy is changed before the answer is looked at.             *)
SubmitVisibilityFirst(answer) ==
    LET new == [copy EXCEPT !.private = ~@] IN
    /\ Acting
    /\ dialog = "visibility"
    /\ copy' = new
    /\ IF answer = "yes"
         THEN /\ Update(new)
              /\ asked' = IF copy.private THEN asked \cup {copy.id} ELSE asked \ {copy.id}
              /\ Plain(Done)
         ELSE /\ Plain({IF answer = "no" THEN Pop ELSE Feedback(FALSE)})
              /\ UNCHANGED <<stored, asked>>
    /\ UNCHANGED <<settingsVars, items, stack, shown, index, dialog, finished, chosen, crossed>>

(* visibilityDialog: the copy is changed first, and stays so if the update *)
(* fails.                                                                  *)
SubmitVisibility(answer) ==
    LET new == [copy EXCEPT !.private = ~@] IN
    /\ Acting
    /\ dialog = "visibility"
    /\ CASE answer = "yes" ->
              /\ copy' = new
              /\ asked' = IF copy.private THEN asked \cup {copy.id} ELSE asked \ {copy.id}
              /\ \/ Update(new) /\ Plain(Done)
                 \/ Faults /\ Plain({Feedback(FALSE)}) /\ UNCHANGED stored
         [] answer = "no" -> Plain({Pop}) /\ UNCHANGED <<stored, copy, asked>>
         [] answer = "undecided" -> Plain({Feedback(FALSE)}) /\ UNCHANGED <<stored, copy, asked>>
    /\ UNCHANGED <<settingsVars, items, stack, shown, index, dialog, finished, chosen, crossed>>

(* signedURLDialog: the URL is shown in the feedback. *)
SubmitSign ==
    /\ Acting
    /\ dialog = "sign"
    /\ Plain({Feedback(TRUE)})
    /\ UNCHANGED <<settingsVars, browsing, history>>

-----------------------------------------------------------------------------
(* Keys of the settings window. *)

InSettings == Top = "settings" /\ UNCHANGED history

PressOnPage ==
    /\ InSettings
    /\ \/ Open \/ SaveTheme \/ LeavePage
       \/ Move \/ StartNaming \/ EnterName \/ Create \/ StopCreating \/ Disarm
    /\ Plain({})
    /\ UNCHANGED browsing

\* x: deleteKey
PressX ==
    /\ InSettings
    /\ Arm \/ DeleteKey
    /\ Key({})
    /\ pressed' = Selected
    /\ UNCHANGED browsing

(* The user's identifier has been typed: Files.DeleteByUser.               *)
DeleteEverything ==
    /\ InSettings
    /\ page = "delete"
    /\ Back
    /\ db' = [f \in Files |-> IF Exists(f) THEN "deleted" ELSE db[f]]
    /\ ours' = ours \cup {f \in Files : Exists(f)}
    /\ Plain({Reload})
    /\ UNCHANGED <<items, windows>>

-----------------------------------------------------------------------------
(* Commands that call the database.  The messages they come to take their  *)
(* place; an error's makes the program quit.                               *)

Become(m, new) == flight' = (flight (-) SetToBag({m})) (+) SetToBag(new)

Running == ended = "no" /\ UNCHANGED <<ended, hasty, elsewhere, rushed, pressed, history>>

(* FindWithContent *)
LoadFile(f) ==
    /\ Running
    /\ BagIn(Load(f), flight)
    /\ \/ /\ Exists(f)
          /\ Become(Load(f), {Loaded([id |-> f, private |-> db[f] = "private"])})
       \/ /\ Faults \/ ~Exists(f)
          /\ Become(Load(f), {Quit})
    /\ UNCHANGED <<settingsVars, browsing>>

(* FindByUser *)
ReloadFiles ==
    /\ Running
    /\ BagIn(Reload, flight)
    /\ \/ Become(Reload, {Reloaded(Found)})
       \/ Faults /\ Become(Reload, {Quit})
    /\ UNCHANGED <<settingsVars, browsing>>

-----------------------------------------------------------------------------
(* TUI.Update: messages.  A broadcast reaches every view; what TUI does    *)
(* not know goes to the current view only.                                 *)

HandlePush(v) ==
    /\ Running
    /\ BagIn(Push(v), flight)
    /\ Become(Push(v), {})
    /\ stack' = Append(stack, v)
    /\ IF v = "settings" THEN Reset ELSE UNCHANGED settingsVars
    /\ UNCHANGED <<stored, items, copy, shown, index, dialog, finished>>

(* The file is deselected.                                                 *)
LeavesOptions(popped, rest) ==
    popped = "options" \/ (popped = "prompt" /\ Last(rest) = "browser")

(* PopView.  Without a view left the program panics when it draws.         *)
HandlePop ==
    /\ ended = "no"
    /\ BagIn(Pop, flight)
    /\ stack' = Front(stack)
    /\ IF Len(stack) = 1
         THEN ended' = "underflow" /\ flight' = EmptyBag
         ELSE /\ Become(Pop, IF LeavesOptions(Top, stack') THEN {Deselect} ELSE {})
              /\ UNCHANGED ended
    /\ dialog' = "none"
    /\ finished' = FALSE
    /\ UNCHANGED <<settingsVars, stored, items, copy, shown, index, hasty, elsewhere,
                   rushed, pressed, history>>

HandleDeselect ==
    /\ Running
    /\ BagIn(Deselect, flight)
    /\ Become(Deselect, {})
    /\ shown' = FALSE
    /\ index' = 1
    /\ UNCHANGED <<settingsVars, stored, items, stack, copy, dialog, finished>>

(* Mutant: the message goes to the current view only.                      *)
HandleLoadedByCurrent(item) ==
    /\ Running
    /\ BagIn(Loaded(item), flight)
    /\ Become(Loaded(item), {})
    /\ copy' = IF Top \in {"prompt", "options"} THEN item ELSE copy
    /\ shown' = (shown \/ Top = "options")
    /\ index' = IF Top = "options" THEN 1 ELSE index
    /\ UNCHANGED <<settingsVars, stored, items, stack, dialog, finished>>

HandleLoaded(item) ==
    /\ Running
    /\ BagIn(Loaded(item), flight)
    /\ Become(Loaded(item), {})
    /\ copy' = item
    /\ shown' = TRUE
    /\ index' = 1
    /\ UNCHANGED <<settingsVars, stored, items, stack, dialog, finished>>

(* Mutant: the options window stays where it is.                           *)
HandleReloadedKeeping(files) ==
    /\ Running
    /\ BagIn(Reloaded(files), flight)
    /\ Become(Reloaded(files), {})
    /\ items' = files
    /\ UNCHANGED <<settingsVars, stored, windows>>

(* dropView: kept[n] is what is left of the first n views.                 *)
Drop(view, views) ==
    LET kept[n \in 0..Len(views)] ==
            IF n = 0 THEN <<>>
            ELSE IF views[n] = view THEN kept[n - 1] ELSE Append(kept[n - 1], views[n])
    IN kept[Len(views)]

(* ReloadFiles: the options window is dropped from the stack.              *)
HandleReloaded(files) ==
    /\ Running
    /\ BagIn(Reloaded(files), flight)
    /\ Become(Reloaded(files), {})
    /\ items' = files
    /\ stack' = Drop("options", stack)
    /\ UNCHANGED <<settingsVars, stored, copy, shown, index, dialog, finished>>

\* The prompt, if it is the current view, opens the dialog.
HandleSetKind(d) ==
    /\ Running
    /\ BagIn(SetKind(d), flight)
    /\ Become(SetKind(d), {})
    /\ dialog' = IF Top = "prompt" THEN d ELSE dialog
    /\ UNCHANGED <<settingsVars, stored, items, stack, copy, shown, index, finished>>

HandleFeedback(done) ==
    /\ Running
    /\ BagIn(Feedback(done), flight)
    /\ Become(Feedback(done), {})
    /\ finished' = IF Top = "prompt" THEN done ELSE finished
    /\ UNCHANGED <<settingsVars, stored, items, stack, copy, shown, index, dialog>>

End(how) ==
    /\ ended = "no"
    /\ ended' = how
    /\ flight' = EmptyBag
    /\ UNCHANGED <<settingsVars, browsing, hasty, elsewhere, history, rushed, pressed>>

HandleQuit == BagIn(Quit, flight) /\ End("quit")

(* SessionHandler.Interactive: the session's time is over, or its context. *)
Kill == End("killed")

(* enter in the options window again, on an option the file no longer has: *)
(* the program panics.                                                     *)
PressOptionOverrun ==
    /\ InOptions
    /\ index > Len(Offered(copy))
    /\ End("overrun")

(* Another session, or a request, makes a file public or private, deletes  *)
(* it, or uploads another one.                                             *)
Elsewhere(f, new) ==
    /\ ended = "no"
    /\ elsewhere < MaxElsewhere
    /\ \/ Exists(f) /\ new \in {"private", "public", "gone"} \ {db[f]}
       \/ db[f] = "none" /\ new \in {"private", "public"}
    /\ db' = [db EXCEPT ![f] = new]
    /\ ours' = ours \ {f}
    /\ elsewhere' = elsewhere + 1
    /\ UNCHANGED <<settingsVars, items, windows, flight, ended, hasty, history, rushed, pressed>>

Next ==
    \/ PressQuit \/ PressSettings \/ PressBack
    \/ \E item \in items :
          PressTab(item) \/ PressEnter(item) \/ PressDelete(item) \/ PressSign(item)
    \/ PressMove \/ PressOption \/ PressOptionOverrun
    \/ \E d \in Dialogs : Refuse(d)
    \/ SubmitDelete \/ SubmitEdit \/ SubmitSign
    \/ \E answer \in {"yes", "no", "undecided"} : SubmitVisibility(answer)
    \/ PressOnPage \/ PressX \/ DeleteEverything
    \/ \E f \in Files : LoadFile(f)
    \/ \E f \in Files, new \in {"private", "public", "gone"} : Elsewhere(f, new)
    \/ ReloadFiles
    \/ \E v \in Views : HandlePush(v)
    \/ HandlePop \/ HandleDeselect
    \/ \E item \in Item : HandleLoaded(item)
    \/ \E files \in SUBSET Item : HandleReloaded(files)
    \/ \E d \in Dialogs : HandleSetKind(d)
    \/ \E done \in BOOLEAN : HandleFeedback(done)
    \/ HandleQuit \/ Kill

Spec == Init /\ [][Next]_vars

-----------------------------------------------------------------------------
(* Properties. *)

(* The program panics in two ways, and only when keys did not wait.  The   *)
(* guard of esc, len(t.views) == 1, looks at a stack from which views may  *)
(* be on their way: a pop too many takes a key pressed while a window was  *)
(* about to close, or a list to be reloaded.  And opts[o.index] is beyond  *)
(* the options when the prompt has made the copy public, which takes the   *)
(* cursor to move between the choice of the prompt and its opening.        *)
PanicOnlyWhenRushed ==
    /\ ended = "underflow" => "pop" \in rushed
    /\ ended = "overrun" => rushed \cap {"push", "setkind"} # {}

(* A prompt that takes an answer is about the file last chosen in the      *)
(* browser, or that file is still being loaded: selections, loads, pushes  *)
(* and deselections may come in any order.  Only loads that cross may      *)
(* leave it with another file.                                             *)
ActsOnChosen ==
    ended = "no" /\ Acting /\ copy.id # chosen =>
        crossed \/ UnderWay({"load", "loaded", "quit"})

(* A session makes a private file public only if its user's last yes about *)
(* that file was to make it public: at once or, as the copy stays changed  *)
(* when the update fails, by a later rename.  A no, an undecided answer or *)
(* an answer given for another file never does.  Two copies of one file    *)
(* under way, of keys that did not wait for a load, may swap; and of a     *)
(* file that others have changed the session has a stale copy, with which  *)
(* any edit undoes what they did.                                          *)
PublishedByConsent ==
    [][\A f \in Files : db[f] = "private" /\ db'[f] = "public" /\ f \in ours' =>
          f \in asked' \/ f \notin ours \/ "load" \in rushed']_vars

(* Once nothing is under way, and no key was pressed while windows or the  *)
(* list were about to change, the browser lists what is in the database,   *)
(* file by file and each with its visibility, but for what others have     *)
(* changed and this session not since; and no options window waits below   *)
(* for a file this session has deleted, but that of a file chosen while    *)
(* another was loading, whose loads may have crossed.                      *)
CaughtUp ==
    ended = "no" /\ flight = EmptyBag /\ rushed \cap {"push", "pop"} = {} =>
        /\ \A i \in Item : i.id \in ours => (i \in items <=> i \in Found)
        /\ ~crossed => \A n \in 1..Len(stack) : stack[n] = "options" => db[copy.id] # "deleted"

(* An API key is deleted by an x that follows an x on that very key, with  *)
(* no key between them that the settings have seen: not after the window   *)
(* was left and opened again, nor when the list has moved under the        *)
(* cursor.                                                                 *)
DeletedOnSecondX ==
    [][\A k \in keys \ keys' : pressed = k]_vars
=============================================================================
