---------------------------- MODULE RulesEditor ----------------------------
(***************************************************************************)
(* The window that shows the rules and switches them on and off            *)
(* (rulesEditor.c).  A callback of GTK runs to its end before the next     *)
(* one: each is an action here.  The table it changes is the one events    *)
(* are dispatched with, at once and not when the changes are applied.      *)
(***************************************************************************)
EXTENDS RulesTable

VARIABLES
    rulesEditorWindow,  \* "none" before it is built, "hidden" or "shown"
    enableButtons,      \* the check button of each row
    savePending         \* Apply is sensitive, Close is not

editor == <<rulesEditorWindow, enableButtons, savePending>>

WindowStates == {"none", "hidden", "shown"}

EditorTypeOK ==
    /\ rulesEditorWindow \in WindowStates
    /\ enableButtons \in Seq(BOOLEAN)
    /\ savePending \in BOOLEAN

EditorInit ==
    /\ rulesEditorWindow = "none"
    /\ enableButtons = <<>>
    /\ savePending = FALSE

EditorShown == rulesEditorWindow = "shown"

\* buildrulesEditor: a row per rule, filled before its callback is connected.
buildrulesEditor ==
    /\ rulesEditorWindow = "none"
    /\ rulesEditorWindow' = "shown"
    /\ enableButtons' = [r \in DOMAIN table |-> table[r].enabled]
    /\ savePending' = FALSE
    /\ UNCHANGED rules

\* A click on the icon: a window that is not the active one is presented,
\* the active one is hidden whatever is pending.
rulesEditorActivate ==
    \/ buildrulesEditor
    \/ /\ \/ EditorShown /\ rulesEditorWindow' = "hidden"
          \/ rulesEditorWindow = "hidden" /\ rulesEditorWindow' = "shown"
       /\ UNCHANGED <<rules, enableButtons, savePending>>

\* A variant with a bug: the table is changed at Apply only, which the
\* comment in applyChanges speaks of.
enableChange_AtApply(row) ==
    /\ EditorShown
    /\ enableButtons' = [enableButtons EXCEPT ![row] = ~@]
    /\ savePending' = TRUE
    /\ UNCHANGED <<rulesEditorWindow, rules>>

enableChange(row) ==
    /\ EditorShown
    /\ enableButtons' = [enableButtons EXCEPT ![row] = ~@]
    /\ rulesTableEntryEnable(row, enableButtons'[row])
    /\ savePending' = TRUE
    /\ UNCHANGED <<rulesEditorWindow, search>>

\* The folder or the kind of match is chosen: nothing is done with it, but
\* there is something to save.
matchChosen ==
    /\ EditorShown
    /\ savePending' = TRUE
    /\ UNCHANGED <<rulesEditorWindow, enableButtons, rules>>

\* A rule is added to the table and a row to the window; this is not taken
\* for a change that has to be saved.
addTagEntry ==
    /\ EditorShown
    /\ rulesTableAddEntry
    /\ enableButtons' = Append(enableButtons, table'[Len(table')].enabled)
    /\ UNCHANGED <<rulesEditorWindow, savePending, search>>

\* Apply: rulesTableSave is empty.
EditorApply ==
    /\ EditorShown /\ savePending
    /\ savePending' = FALSE
    /\ UNCHANGED <<rulesEditorWindow, enableButtons, rules>>

\* Close, if it is sensitive, and Cancel, which undoes nothing.
EditorHide ==
    /\ EditorShown
    /\ rulesEditorWindow' = "hidden"
    /\ UNCHANGED <<enableButtons, savePending, rules>>

\* A variant with a bug: the window may always be closed.
EditorDelete_Always ==
    /\ EditorShown
    /\ rulesEditorWindow' = "none"
    /\ enableButtons' = <<>>
    /\ UNCHANGED <<savePending, rules>>

\* The X of the window: refused while something is pending, otherwise the
\* window is destroyed and built again the next time.
EditorDelete ==
    /\ EditorShown /\ ~savePending
    /\ rulesEditorWindow' = "none"
    /\ enableButtons' = <<>>
    /\ UNCHANGED <<savePending, rules>>

EditorClick ==
    \/ rulesEditorActivate
    \/ \E row \in DOMAIN enableButtons : enableChange(row)
    \/ matchChosen \/ addTagEntry
    \/ EditorApply \/ EditorHide \/ EditorDelete

-----------------------------------------------------------------------------

\* As long as the window exists, shown or hidden, it has a row for every rule
\* of the table and shows which of them are on, in whatever order rules were
\* added, switched, cancelled and the window closed and built again
\* (rulesEditor.c:240).
EditorMatchesTable ==
    rulesEditorWindow # "none" =>
        enableButtons = [r \in DOMAIN table |-> table[r].enabled]
=============================================================================
