------------------------------ MODULE WorkArea ------------------------------
(* The work area: the tabs, the shell behind each, the text in its editor, the *)
(* file it is kept in, and the completions offered while it is typed. What a   *)
(* script does at the server, and its results, are in ScriptEngine and         *)
(* QueryResults; of an execution only its start and its end are seen here.     *)
EXTENDS Integers, Sequences, SequencesExt, FiniteSets

CONSTANTS Text,       \* what an editor may hold
          EmptyText,
          Part,       \* Part[t]: what may be selected of t
          Cut,        \* Cut[t]: what a write of t that fails may leave in the file
          File,
          Found,      \* Found[f]: what f holds at the start
          Js,         \* Js[f]: f with the suffix a file without one is given
          MaxShells,  \* bound on the shells opened
          MaxSteps,   \* bound on what is done in the editors
          MaxAsks     \* bound on the completions a shell waits for

Welcome == 0
Shell == 1 .. MaxShells
NoFile == "noFile"
Absent == "absent"
NoWord == "noWord"

ASSUME WorkAreaAssumption ==
  /\ EmptyText \in Text
  /\ Part \in [Text -> SUBSET (Text \ {EmptyText})]
  /\ Cut \in [Text -> SUBSET Text]
  /\ Js \in [File -> File]
  /\ Found \in [File -> Text \cup {Absent}]
  /\ {MaxShells, MaxSteps, MaxAsks} \subseteq Nat

VARIABLES
  tabs,     \* the tabs from left to right
  current,  \* position of the current one, 0 when there is none
  shells,   \* App's shells
  query,    \* the QueryWidget of each shell that has one
  disk,     \* the files
  opened,   \* shells opened so far
  steps     \* edits, completions, executions, saves and loads so far

vars == <<tabs, current, shells, query, disk, opened, steps>>

Step == steps < MaxSteps /\ steps' = steps + 1 /\ UNCHANGED opened

\* A QueryWidget with its MongoShell and ScriptWidget. The word completions are
\* wanted for is known by the text it was found in.
QueryWidgets ==
  [text : Text,                    \* in the editor
   script : Text,                  \* ScriptInfo::_script
   filePath : File \cup {NoFile},
   textChanged : BOOLEAN,          \* _isTextChanged
   star : BOOLEAN,                 \* the tab is marked as changed
   running : Nat,                  \* executions not answered yet
   word : Text \cup {NoWord},      \* _currentAutoCompletionInfo
   asked : Nat,                    \* completions not answered yet
   popup : BOOLEAN,                \* completions are offered
   kept : Text,                    \* history: as opened, loaded or last written
   cut : BOOLEAN]                  \* history: the last write failed half way

Current == IF current = 0 THEN Welcome ELSE tabs[current]

IsShell(t) == t # Welcome

-----------------------------------------------------------------------------
(* Opening shells.                                                            *)

\* QueryWidget::updateCurrentTab.
updateCurrentTab(q) == [q EXCEPT !.star = q.textChanged]

\* MongoShell::execute: a shell whose script is not to be executed executes an empty
\* one, which replaces it.
FirstScript(script, execute) == IF execute THEN script ELSE EmptyText

\* The editor is filled before that, and before changes of its text are looked for.
NewQueryWidget(script, execute) ==
  [text |-> script, script |-> FirstScript(script, execute), filePath |-> NoFile,
   textChanged |-> FALSE, star |-> FALSE, running |-> 1,
   word |-> NoWord, asked |-> 0, popup |-> FALSE, kept |-> script, cut |-> FALSE]

\* WorkAreaTabWidget::handle(OpeningShellEvent): the new tab is the current one.
addTab(n) == tabs' = Append(tabs, n) /\ current' = Len(tabs) + 1

openShell(script, execute) ==
  LET n == opened + 1 IN
  /\ n \in Shell /\ opened' = n
  /\ shells' = shells \cup {n}
  /\ addTab(n)
  /\ query' = [s \in DOMAIN query \cup {n} |->
                  IF s = n THEN NewQueryWidget(script, execute) ELSE query[s]]
  /\ UNCHANGED <<disk, steps>>

OpenFromExplorer == \E script \in Text, execute \in BOOLEAN : openShell(script, execute)

openNewTab(s) ==
  \E sel \in Part[query[s].text] \cup {EmptyText}, autoExec \in BOOLEAN : openShell(sel, autoExec)

duplicate(s) == \E autoExec \in BOOLEAN : openShell(query[s].text, autoExec)

-----------------------------------------------------------------------------
(* The tabs.                                                                  *)

\* Mutant: the tab is removed and its widget, and so its shell, left behind.
closeTabsLeak(closed) == UNCHANGED <<query, shells>>

\* The widgets of the closed tabs are deleted, and with them their shells.
closeTabs(closed) ==
  /\ query' = [s \in DOMAIN query \ closed |-> query[s]]
  /\ shells' = shells \ closed

\* QTabBar::removeTab: when the current tab goes, the one to its right is next.
AfterRemove(i) ==
  IF i < current THEN current - 1
  ELSE IF i > current THEN current
  ELSE IF current < Len(tabs) THEN current ELSE current - 1

closeTab(i) ==
  /\ tabs' = RemoveAt(tabs, i)
  /\ current' = AfterRemove(i)
  /\ closeTabs({tabs[i]})
  /\ UNCHANGED <<disk, opened, steps>>

ui_closeOtherTabsRequested(i) ==
  /\ IsShell(tabs[i])
  /\ tabs' = <<tabs[i]>>
  /\ current' = 1
  /\ closeTabs({tabs[j] : j \in DOMAIN tabs \ {i}})
  /\ UNCHANGED <<disk, opened, steps>>

ui_closeTabsToTheRightRequested(i) ==
  /\ IsShell(tabs[i])
  /\ tabs' = SubSeq(tabs, 1, i)
  /\ current' = IF current > i THEN i ELSE current
  /\ closeTabs({tabs[j] : j \in (i + 1) .. Len(tabs)})
  /\ UNCHANGED <<disk, opened, steps>>

setCurrentIndex(i) ==
  /\ current # 0
  /\ current' = i
  /\ UNCHANGED <<tabs, shells, query, disk, opened, steps>>

nextTab == setCurrentIndex(IF current = Len(tabs) THEN 1 ELSE current + 1)

previousTab == setCurrentIndex(IF current = 1 THEN Len(tabs) ELSE current - 1)

\* A tab is dragged to another place and stays the current one.
MoveTab(j) ==
  /\ current # 0
  /\ tabs' = InsertAt(RemoveAt(tabs, current), j, tabs[current])
  /\ current' = j
  /\ UNCHANGED <<shells, query, disk, opened, steps>>

openWelcomeTab ==
  /\ tabs' = IF Contains(tabs, Welcome) THEN tabs ELSE <<Welcome>> \o tabs
  /\ current' = CHOOSE i \in DOMAIN tabs' : tabs'[i] = Welcome
  /\ UNCHANGED <<shells, query, disk, opened, steps>>

-----------------------------------------------------------------------------
(* Scripts.                                                                   *)

\* MongoShell::open: a selection is executed instead of the text, and takes the
\* place of the shell's script.
execute(s) ==
  /\ Step
  /\ \E sel \in Part[query[s].text] \cup {query[s].text} :
        query' = [query EXCEPT ![s].script = sel, ![s].running = @ + 1]
  /\ UNCHANGED <<tabs, current, shells, disk>>

ScriptExecuted(s) ==
  /\ query[s].running > 0
  /\ query' = [query EXCEPT ![s] = updateCurrentTab([query[s] EXCEPT !.running = query[s].running - 1])]
  /\ UNCHANGED <<tabs, current, shells, disk, opened, steps>>

-----------------------------------------------------------------------------
(* The text and its completions.                                              *)

\* QueryWidget::textChange.
Changed(q, t) == updateCurrentTab([q EXCEPT !.text = t, !.textChanged = TRUE])

\* The word left of the cursor in the text t, which there may not be.
sanitizeForAutocompletion(t) == {NoWord, t}

\* ScriptWidget::showAutocompletion, in the text t: the word is noted and, in some
\* settings, completions are asked for.
showAutocompletion(q, t) ==
  UNION {IF w = NoWord THEN {[q EXCEPT !.word = w, !.popup = FALSE]}
         ELSE {[q EXCEPT !.word = w, !.asked = @ + n] : n \in IF q.asked < MaxAsks THEN {0, 1} ELSE {0}} :
         w \in sanitizeForAutocompletion(t)}

\* The user types, or deletes to the right of the cursor, which then does not move;
\* completions are looked for when it moves.
Type(s) ==
  /\ Step
  /\ \E t \in Text \ {query[s].text} :
        LET q == Changed(query[s], t) IN
        \E q2 \in {q} \cup showAutocompletion(q, t) : query' = [query EXCEPT ![s] = q2]
  /\ UNCHANGED <<tabs, current, shells, disk>>

\* FindFrame::toggleComments changes the text with completions switched off.
toggleComments(s) ==
  /\ Step
  /\ \E t \in Text \ {query[s].text} : query' = [query EXCEPT ![s] = Changed(@, t)]
  /\ UNCHANGED <<tabs, current, shells, disk>>

\* QueryWidget::handle(AutocompleteResponse): nothing is offered after an error, or
\* when the only completion is what is there already.
AutocompleteReply(s) ==
  /\ query[s].asked > 0
  /\ \E offered \in {TRUE, query[s].popup} :
        query' = [query EXCEPT ![s].asked = @ - 1, ![s].popup = offered]
  /\ UNCHANGED <<tabs, current, shells, disk, opened, steps>>

\* ScriptWidget::onCompletionActivated: the noted word is replaced, with completions
\* switched off.
onCompletionActivated(s) ==
  /\ query[s].popup
  /\ Step
  /\ \E t \in Text \ {EmptyText} :
        query' = [query EXCEPT ![s] = [Changed(@, t) EXCEPT !.popup = FALSE]]
  /\ UNCHANGED <<tabs, current, shells, disk>>

\* Completions are asked for by a key.
Complete(s) ==
  /\ Step
  /\ \E q \in showAutocompletion(query[s], query[s].text) : query' = [query EXCEPT ![s] = q]
  /\ UNCHANGED <<tabs, current, shells, disk>>

hideAutocompletion(s) ==
  /\ query[s].popup
  /\ query' = [query EXCEPT ![s].popup = FALSE]
  /\ UNCHANGED <<tabs, current, shells, disk, opened, steps>>

-----------------------------------------------------------------------------
(* Files.                                                                     *)

\* Mutant: the mark goes whether or not the file could be opened.
SavedAnyway(q, ok) == updateCurrentTab([q EXCEPT !.textChanged = FALSE])

\* The end of QueryWidget::saveToFile and savebToFileAs.
Saved(q, ok) == IF ok THEN updateCurrentTab([q EXCEPT !.textChanged = FALSE]) ELSE q

\* Mutant: what was executed last is written.
ScriptToSaveOld(q) == q.script

\* QueryWidget::saveToFile hands the text of the editor to the shell first.
ScriptToSave(q) == q.text

\* saveToFileText: the suffix is added to the name the file is written under only.
\* Opening the file empties it and nobody asks whether the text could be written,
\* so a write that fails half way is reported as done; a file that cannot be opened
\* is not.
saveToFileText(s, f) ==
  LET q == [query[s] EXCEPT !.script = ScriptToSave(query[s])] IN
  \/ \E t \in {q.script} \cup Cut[q.script] :
        /\ disk' = [disk EXCEPT ![Js[f]] = t]
        /\ query' = [query EXCEPT ![s] =
              Saved([q EXCEPT !.filePath = f, !.kept = t, !.cut = (t # q.script)], TRUE)]
  \/ /\ query' = [query EXCEPT ![s] = Saved(q, FALSE)]
     /\ UNCHANGED disk

\* The dialog of saveToFileAs was cancelled.
SaveCancelled(s) ==
  /\ query' = [query EXCEPT ![s] = Saved([query[s] EXCEPT !.script = ScriptToSave(query[s])], FALSE)]
  /\ UNCHANGED disk

savebToFileAs(s) ==
  /\ Step
  /\ SaveCancelled(s) \/ \E f \in File : saveToFileText(s, f)
  /\ UNCHANGED <<tabs, current, shells>>

saveToFile(s) ==
  \/ query[s].filePath = NoFile /\ savebToFileAs(s)
  \/ /\ query[s].filePath # NoFile
     /\ Step
     /\ saveToFileText(s, query[s].filePath)
     /\ UNCHANGED <<tabs, current, shells>>

\* QueryWidget::openFile. Completions are looked for again if the cursor moves.
openFile(s) ==
  /\ Step
  /\ \E f \in {g \in File : disk[g] # Absent} :
        LET t == disk[f]
            q == updateCurrentTab([query[s] EXCEPT !.text = t, !.script = t, !.filePath = f,
                                                   !.kept = t, !.cut = FALSE, !.textChanged = FALSE])
        IN \E q2 \in {q} \cup showAutocompletion(q, t) : query' = [query EXCEPT ![s] = q2]
  /\ UNCHANGED <<tabs, current, shells, disk>>

-----------------------------------------------------------------------------
Init ==
  /\ tabs = <<Welcome>>
  /\ current = 1
  /\ shells = {}
  /\ query = [s \in {} |-> 0]
  /\ disk = Found
  /\ opened = 0
  /\ steps = 0

\* The entries of a tab's menu that need its shell.
ShellOfTab(i) ==
  IsShell(tabs[i]) /\ (openNewTab(tabs[i]) \/ duplicate(tabs[i]) \/ execute(tabs[i]))

\* WorkAreaTabBar: the menu of a tab that is not the Welcome tab, its button and the
\* middle mouse button, and dragging it.
TabBar(i) ==
  \/ ShellOfTab(i)
  \/ closeTab(i)
  \/ ui_closeOtherTabsRequested(i)
  \/ ui_closeTabsToTheRightRequested(i)
  \/ setCurrentIndex(i)
  \/ MoveTab(i)

\* WorkAreaTabWidget::keyPressEvent.
keyPressEvent ==
  \/ current # 0 /\ closeTab(current)
  \/ previousTab
  \/ nextTab
  \/ /\ IsShell(Current)
     /\ \/ openNewTab(Current) \/ duplicate(Current) \/ execute(Current)
        \/ Complete(Current) \/ hideAutocompletion(Current)

\* MainWindow::open, save and saveAs. Without a query tab save and saveAs do nothing,
\* and open changes nothing here: App::openShell makes no shell without a server.
FileMenu == IsShell(Current) /\ (openFile(Current) \/ saveToFile(Current) \/ savebToFileAs(Current))

\* MainWindow: the actions of its menus and tool bar on the tabs.
TabMenu ==
  \/ nextTab \/ previousTab \/ openWelcomeTab
  \/ IsShell(Current) /\ (execute(Current) \/ duplicate(Current))

Editor == IsShell(Current) /\ (Type(Current) \/ toggleComments(Current) \/ onCompletionActivated(Current))

Next ==
  \/ OpenFromExplorer
  \/ \E i \in DOMAIN tabs : TabBar(i)
  \/ keyPressEvent
  \/ TabMenu \/ FileMenu
  \/ Editor
  \/ \E s \in DOMAIN query : ScriptExecuted(s) \/ AutocompleteReply(s)

Spec == Init /\ [][Next]_vars

-----------------------------------------------------------------------------
\* Type correctness.
TypeOK ==
  /\ tabs \in Seq({Welcome} \cup Shell)
  /\ current \in 0 .. Len(tabs)
  /\ shells \subseteq Shell
  /\ DOMAIN query \subseteq Shell
  /\ \A s \in DOMAIN query : query[s] \in QueryWidgets
  /\ disk \in [File -> Text \cup {Absent}]

\* App owns exactly the shells that have a tab, every tab but one of the Welcome tab
\* is of another shell, and there is a current tab as long as there are tabs:
\* QueryWidget's destructor is the only place that closes a shell.
ShellsAreTabs ==
  /\ shells = {tabs[i] : i \in DOMAIN tabs} \ {Welcome}
  /\ DOMAIN query = shells
  /\ IsInjective(tabs)
  /\ current = 0 <=> tabs = << >>

\* A tab without the mark shows what was last loaded into it or written for it (to
\* the file of its name with the suffix), or the script it was opened with, unless
\* that write failed half way, which the code does not notice: saves that cannot open
\* the file or are cancelled, and executions, never take the mark away.
UnstarredIsSaved ==
  \A s \in DOMAIN query : ~ query[s].star => query[s].text = query[s].kept \/ query[s].cut

\* A file only ever receives the text the user sees in the current tab, or what a
\* write of it that fails leaves, although the shell's script may be a selection
\* executed earlier.
SavedIsShown ==
  [][\A f \in File : disk'[f] # disk[f] =>
        /\ IsShell(Current)
        /\ disk'[f] \in {query[Current].text} \cup Cut[query[Current].text]]_vars
=============================================================================
