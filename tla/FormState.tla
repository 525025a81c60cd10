----------------------------- MODULE FormState ------------------------------
(* What the modal dialogs work on: at most one is open, and an edit is what its *)
(* user does between opening and closing it.                                    *)
EXTENDS Integers, Sequences, SequencesExt, FiniteSets

CONSTANTS MaxEdits,  \* MaxEdits[d]: bound on the edits, made in the dialog d
          IntMax,    \* largest int
          NULL

ASSUME FormStateAssumption == IntMax \in Nat

VARIABLES
  form,        \* the open dialog, NULL when there is none
  connection,  \* the connection as the list of connections has it, NULL where none is looked at
  shown,       \* history: what the dialog of the connection showed, if it was accepted last
  sent,        \* history: what another dialog had sent to the server, if it was accepted last
  edits        \* edits so far

formVars == <<form, connection, shown, sent, edits>>

IsOpen(dialog) == form # NULL /\ form.dialog = dialog

\* The dialog dialog becomes g.
Edit(dialog, g) ==
  /\ IsOpen(dialog)
  /\ form' = g
  /\ edits < MaxEdits[dialog] /\ edits' = edits + 1
  /\ UNCHANGED <<connection, shown, sent>>

\* The dialog is left, its input forgotten.
Close == form' = NULL /\ UNCHANGED edits

SetOff(f, widgets, disabled) ==
  [f EXCEPT !.off = IF disabled THEN @ \cup widgets ELSE @ \ widgets]

SetHidden(f, widgets, hidden) ==
  [f EXCEPT !.hidden = IF hidden THEN @ \cup widgets ELSE @ \ widgets]
=============================================================================
