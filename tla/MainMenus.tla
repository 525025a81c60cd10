------------------------------ MODULE MainMenus -----------------------------
(* The menus of the main window that stand for settings: the entries of an    *)
(* option, which are checked as the option is set, and the menu of the        *)
(* connections, whose entries keep pointers to the connections and open them  *)
(* by Alt+1 to Alt+9. The window builds them when the program starts; after   *)
(* that each slot must bring up to date what it changes.                      *)
EXTENDS Settings

VARIABLE menu   \* of the main window, NULL when there is none

menuVars == <<settingsVars, menu>>

\* MainWindow::updateConnectionsMenu.
ConnectionEntries(s) ==
  [k \in DOMAIN s.connections |->
     [data |-> s.connections[k].id, shortcut |-> IF k <= 9 /\ ~ s.shortcutsOff THEN k ELSE 0]]

\* The entries a new window checks, and those of the connections.
NewMenu(s) ==
  [option |-> s.option, shortcutsOff |-> s.shortcutsOff, connections |-> ConnectionEntries(s)]

updateConnectionsMenu == menu' = [menu EXCEPT !.connections = ConnectionEntries(settings')]

\* An entry of the option is triggered: one of a group unchecks the others, one by
\* itself is checked or not. The slot sets and saves the option.
ChooseEntry(v) ==
  /\ saveOption(v)
  /\ menu' = [menu EXCEPT !.option = v]

\* "Disable Connection Shortcuts".
ToggleShortcuts ==
  /\ run = "main"
  /\ setDisableConnectionShortcuts(~ menu.shortcutsOff)
  /\ menu' = [NewMenu(settings') EXCEPT !.option = menu.option]

\* Mutant: the menu is brought up to date when the dialog was accepted only.
ManageCancelled == CloseList /\ UNCHANGED menu

\* manageConnections, after a dialog that was closed or in which a connection was
\* chosen.
ManageConnections == CloseList /\ updateConnectionsMenu

ManageAndConnect == (\E id \in Range(listed) : Connect(id)) /\ updateConnectionsMenu

\* connectToServer: the connection of an entry, chosen or called by its shortcut. The
\* code follows the entry's pointer; that it leads to a connection is MenusCurrent.
ConnectFromMenu(k) ==
  /\ run = "main" /\ Room
  /\ LET id == menu.connections[k].data IN
       /\ id \in Ids(settings.connections)
       /\ OpenStored(id)
  /\ UNCHANGED <<file, old, run, listed, items, form, damaged, ops, menu>>

\* The process ends, or an edit ends it.
AcceptEditOrEnd ==
  /\ End \/ \E f \in Form : AcceptEdit(f)
  /\ menu' = IF run' = "off" THEN NULL ELSE menu

MenuInit == SettingsInit /\ menu = NULL

MenuNext ==
  \/ (Start \/ AcceptEula \/ UseOldVersion) /\ UNCHANGED menu
  \/ InitStyle /\ menu' = NewMenu(settings)
  \/ AcceptEditOrEnd
  \/ \E v \in BOOLEAN : run = "main" /\ ChooseEntry(v)
  \/ ToggleShortcuts
  \/ (ListNext \/ FormNext) /\ UNCHANGED menu
  \/ ManageConnections \/ ManageAndConnect
  \/ run = "main" /\ \E k \in DOMAIN menu.connections : ConnectFromMenu(k)
  \/ (\E p \in pending, isError \in BOOLEAN : Answer(p, isError)) /\ UNCHANGED menu

MenuSpec == MenuInit /\ [][MenuNext]_menuVars

\* With the main window in front its entries are checked as the settings are, and
\* the menu of the connections has the connections as they are now, none that was
\* removed (its settings are deleted), each under the shortcut of its place, unless
\* shortcuts are off: connectToServer follows the entry's pointer.
MenusCurrent == run = "main" => menu = NewMenu(settings)
=============================================================================
