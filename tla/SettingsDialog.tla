-------------------------- MODULE SettingsDialog --------------------------
(***************************************************************************)
(* The dialog for the readers, the poll delay and the verbosity            *)
(* (settingsDialog.c).  What is set in the dialog takes effect at Apply.   *)
(***************************************************************************)
EXTENDS CommandLine

VARIABLES
    settingsDialog,     \* "none" before it is built, "hidden" or "shown"
    toggles,            \* the bits whose toggle is on
    sensitive,          \* the bits whose toggle may be clicked
    pollDelayScale,
    verbosityScale,
    settingsSavePending \* Apply is sensitive, Close is not

widgets == <<toggles, sensitive, pollDelayScale, verbosityScale>>
dialog == <<settingsDialog, widgets, settingsSavePending>>

SettingsTypeOK ==
    /\ settingsDialog \in {"none", "hidden", "shown"}
    /\ toggles \subseteq Bits /\ sensitive \subseteq Bits
    /\ pollDelayScale \in Delays /\ verbosityScale \in Levels
    /\ settingsSavePending \in BOOLEAN

SettingsInit ==
    /\ settingsDialog = "none"
    /\ toggles = {} /\ sensitive = {}
    /\ pollDelayScale = DelayMin /\ verbosityScale = 0
    /\ settingsSavePending = FALSE

DialogShown == settingsDialog = "shown"

\* The toggles of the numbers are made insensitive whether or not AUTO is
\* on: the test looks at the constant bit of the first toggle.
buildSettingsDialog ==
    /\ settingsDialog = "none"
    /\ settingsDialog' = "shown"
    /\ toggles' = readerSetting
    /\ sensitive' = {AUTO}
    /\ pollDelayScale' = appPollDelayms
    /\ verbosityScale' = appVerbosity
    /\ settingsSavePending' = FALSE
    /\ UNCHANGED <<settings, tray>>

settingsDialogActivate ==
    \/ buildSettingsDialog
    \/ /\ settingsDialog = "hidden"
       /\ settingsDialog' = "shown"
       /\ UNCHANGED <<widgets, settingsSavePending, settings, tray>>

\* AUTO decides on the toggles of the readers there are, which are nbReaders.
toggleChange(bit, nbReaders) ==
    /\ DialogShown /\ bit \in sensitive
    /\ toggles' = IF bit \in toggles THEN toggles \ {bit}
                                     ELSE toggles \union {bit}
    /\ sensitive' = IF bit # AUTO THEN sensitive
                    ELSE IF AUTO \in toggles' THEN sensitive \ 0..(nbReaders - 1)
                    ELSE sensitive \union 0..(nbReaders - 1)
    /\ settingsSavePending' = TRUE
    /\ UNCHANGED <<settingsDialog, pollDelayScale, verbosityScale, settings, tray>>

scaleChanged ==
    /\ DialogShown
    /\ \/ \E value \in Delays \ {pollDelayScale} :
              pollDelayScale' = value /\ UNCHANGED verbosityScale
       \/ \E value \in Levels \ {verbosityScale} :
              verbosityScale' = value /\ UNCHANGED pollDelayScale
    /\ settingsSavePending' = TRUE
    /\ UNCHANGED <<settingsDialog, toggles, sensitive, settings, tray>>

\* A variant with a bug: the bits of toggles that are off stay set.
BitsApplied_OnlySet == readerSetting \union toggles

\* Every bit is set or unset as its toggle says.
BitsApplied == (readerSetting \ (Bits \ toggles)) \union toggles

SettingsApply ==
    /\ DialogShown /\ settingsSavePending
    /\ readerSetting' = BitsApplied
    /\ appPollDelaySet(pollDelayScale)
    /\ appVerbosityLevelSet(verbosityScale)
    /\ settingsSavePending' = FALSE
    /\ UNCHANGED <<settingsDialog, widgets, pollFunction, icon, notifications, exited>>

\* Close, if it is sensitive, and Cancel, which undoes nothing.
SettingsHide ==
    /\ DialogShown
    /\ settingsDialog' = "hidden"
    /\ UNCHANGED <<widgets, settingsSavePending, settings, tray>>

\* The X of the window: refused while something is pending, otherwise the
\* window is destroyed and built again the next time.
SettingsDelete ==
    /\ DialogShown /\ ~settingsSavePending
    /\ settingsDialog' = "none"
    /\ toggles' = {} /\ sensitive' = {}
    /\ pollDelayScale' = DelayMin /\ verbosityScale' = 0
    /\ UNCHANGED <<settingsSavePending, settings, tray>>

SettingsClick(nbReaders) ==
    \/ settingsDialogActivate
    \/ \E bit \in Bits : toggleChange(bit, nbReaders)
    \/ scaleChanged \/ SettingsApply \/ SettingsHide \/ SettingsDelete

-----------------------------------------------------------------------------

\* A dialog that has nothing to apply shows what is in force, after any number
\* of changes, of cancelled ones too, and of closing and opening it again
\* (settingsDialog.c:161-185, 278, 300, 318).
SettingsInSync ==
    settingsDialog # "none" /\ ~settingsSavePending =>
        /\ toggles = readerSetting
        /\ pollDelayScale = appPollDelayms
        /\ verbosityScale = appVerbosity

\* While the program is in the tray one timer polls the readers, and it does so
\* with the delay the settings say, whether that was given with -p, before
\* there was a timer, or changed in the dialog afterwards (systemTray.c:49-55,
\* 279).
OneTimer == phase = "tray" => timers = Timer(appPollDelayms)
=============================================================================
