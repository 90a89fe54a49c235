--------------------------- MODULE DesktopProofs ---------------------------
(* Theorems about Desktop, for any number of readers, any options, tags,   *)
(* rules and clicks.                                                       *)
EXTENDS Desktop, SequenceTheorems, TLAPS

-----------------------------------------------------------------------------
(* Lemmas about the timers and the limits.                                 *)

\* A single timer is a bag; taken away from itself it leaves none, and put to
\* none it is what there is.
LEMMA OneTimerBag ==
    ASSUME NEW d, NEW e
    PROVE  /\ IsABag(Timer(d)) /\ IsABag(EmptyBag)
           /\ Timer(d) (-) Timer(d) = EmptyBag
           /\ EmptyBag (+) Timer(e) = Timer(e)
<1>1. Timer(d) = [x \in {d} |-> 1] /\ Timer(e) = [x \in {e} |-> 1]
  BY DEF Timer, SetToBag
<1>2. EmptyBag = [x \in {} |-> 1]
  BY DEF EmptyBag, SetToBag
<1>3. IsABag(Timer(d)) /\ IsABag(EmptyBag)
  BY <1>1, <1>2 DEF IsABag
<1>4. Timer(d) (-) Timer(d) = EmptyBag
  BY <1>1, <1>2 DEF (-)
<1>5. EmptyBag (+) Timer(e) = Timer(e)
  BY <1>1, <1>2 DEF (+)
<1> QED
  BY <1>3, <1>4, <1>5

\* The operations that set a value leave it within its limits, and a value
\* within them as it is.
LEMMA Limits ==
    /\ \A n \in Int : appPollDelay(n) \in Delays
    /\ \A n \in Delays : appPollDelay(n) = n /\ n \in Int /\ n # 0 /\ n \in Nat
    /\ \A n \in Int : Clamp(0, n, VerbosityMax) \in Levels
    /\ \A n \in Levels : Clamp(0, n, VerbosityMax) = n /\ n \in Int
    /\ DelayDefault \in Delays /\ DelayMin \in Delays
    /\ 0 \in Levels
BY LimitsAssumption DEF appPollDelay, Clamp, Delays, Levels

-----------------------------------------------------------------------------
(* The inductive invariants, each behind one or two of the properties.     *)

\* Before the tray starts there is no timer and nothing to call.
TrayInv ==
    /\ phase = "tray" => /\ timers = Timer(appPollDelayms)
                         /\ timeoutID = appPollDelayms /\ pollFunction = TRUE
    /\ phase # "tray" => timers = EmptyBag /\ timeoutID = 0 /\ pollFunction = FALSE

SettingsInv ==
    /\ CommandLineTypeOK /\ SettingsTypeOK
    /\ TrayInv
    /\ icon \in BOOLEAN /\ notifications \in BOOLEAN /\ exited \in BOOLEAN
    /\ clicks \in 0..MaxClicks
    /\ SettingsInSync
    /\ settingsDialog = "none" => ~settingsSavePending
    /\ phase # "tray" => settingsDialog = "none"
    /\ phase = "tray" /\ clicks = 0 => readerSetting # {}

EditorInv ==
    /\ EditorTypeOK
    /\ table \in Seq(Rule) /\ Len(table) <= MaxRules
    /\ EditorMatchesTable
    /\ rulesEditorWindow = "none" => ~savePending

\* During an event the candidates still lie ahead; the rule that was started is
\* the last of them.
SearchInv ==
    /\ missing \subseteq Scripts /\ uid \in Tags \union {NoTag}
    /\ ruleIndex \in 0..Len(table) /\ ran \in 0..Len(table)
    /\ children \in 0..MaxChildren /\ unforked \subseteq 1..Len(table)
    /\ poll \in {"idle", "first", "begin", "connect", "read", "dispatch"}
    /\ uid # NoTag <=> poll = "dispatch"
    /\ uid = NoTag => ran = 0 /\ ruleIndex = 0 /\ unforked = {}
    /\ uid # NoTag /\ ran # 0 =>
          ran \in Candidates /\ \A r \in Candidates : r <= ran
    /\ uid # NoTag /\ ran = 0 => /\ \A r \in Candidates : r <= ruleIndex
                                 /\ \A r \in unforked : r > ruleIndex

Connected(s) == hCard[s] \in {"works", "unsupported"}

Beginning == poll \in {"connect", "read"}

ShownOK(s) ==
    /\ missed = 0 => tagsShown[s] \in IF Beginning THEN {"none", "previous"}
                                                  ELSE {"none", "current"}
    /\ missed = 1 /\ ~Beginning => tagsShown[s] \in {"none", "current", "previous"}

\* A reader without a handle shows no tags; one with a handle shows them in a
\* list as old as the polls since its last reading.
ReadersInv ==
    /\ ExplorerTypeOK
    /\ tagList \in BOOLEAN /\ previousTagList \in BOOLEAN
    /\ lastPoll \in {"none", "failed", "worked"} /\ missed \in 0..2
    /\ poll \in {"idle", "first", "begin", "connect", "read", "dispatch"}
    /\ \A s \in Slots : Connected(s) => s < nbReaders
    /\ ~hContext => nbReaders = 0 /\ poll = "idle"
    /\ explorerWindow => store = "tree" /\ \A s \in Slots : Connected(s) => s \in rows
    /\ \A s \in Slots : hCard[s] = "none" => tagsShown[s] = "none"
    /\ \A s \in Slots : Connected(s) => ShownOK(s)

IconInv == lastPoll = "failed" => ~icon

-----------------------------------------------------------------------------
(* The settings and the timer.                                             *)

settingsVars == <<commandLine, settings, dialog, timers, timeoutID, pollFunction,
                  notifications, exited, clicks>>

LEMMA SettingsInit1 == Init => SettingsInv
<1> SUFFICES ASSUME Init PROVE SettingsInv
  OBVIOUS
<1> USE LimitsAssumption, ClicksAssumption
<1>1. CommandLineTypeOK
  BY Limits DEF Init, CommandLineInit, CommandLineTypeOK, RunOptions
<1>2. SettingsTypeOK
  BY Limits DEF Init, SettingsInit, SettingsTypeOK
<1>3. TrayInv /\ icon \in BOOLEAN /\ notifications \in BOOLEAN /\ exited \in BOOLEAN
  BY DEF Init, TrayInit, CommandLineInit, TrayInv
<1> QED
  BY <1>1, <1>2, <1>3
  DEF Init, CommandLineInit, SettingsInit, SettingsInv, SettingsInSync

\* The options change the settings, and start the tray with its first timer.
LEMMA SettingsStart == SettingsInv /\ Start => SettingsInv'
<1> SUFFICES ASSUME SettingsInv, Start PROVE SettingsInv'
  OBVIOUS
<1> USE LimitsAssumption DEF CommandLineTypeOK, SettingsTypeOK, dialog, widgets,
        settings, tray
<1>1. UNCHANGED <<dialog, clicks>>
  BY DEF Start
<1>2. phase = "options" /\ settingsDialog = "none"
  BY DEF Start, parseCommandLine, OptionRead, OptionsEnd, SettingsInv
<1>3. CASE OptionRead
  <2>1. optionsRead' \in 0..MaxOptions
    BY <1>3 DEF OptionRead, SettingsInv
  <2>2. PICK option \in Options :
           \/ ReaderOption(option) \/ VerbosityOption(option)
           \/ DaemonOption(option) \/ DelayOption(option)
           \/ EndingOption(option)
    BY <1>3 DEF OptionRead
  <2>3. option.number \in Int
    BY OptionsAssumption
  <2>4. phase' # "tray"
    BY <2>2, <1>2 DEF ReaderOption, VerbosityOption, DaemonOption, DelayOption, EndingOption
  <2>5. TrayInv' /\ UNCHANGED <<icon, notifications, exited>>
    BY <2>2, <2>4, <1>2 DEF ReaderOption, VerbosityOption, DaemonOption, DelayOption,
       EndingOption, SettingsInv, TrayInv, appPollDelaySet, systemTraySetPollDelay,
       TimersLeft
  <2>6. CommandLineTypeOK'
    BY <2>1, <2>2, <2>3, <1>2, Limits DEF ReaderOption, VerbosityOption, DaemonOption,
       DelayOption, EndingOption, SettingsInv, appPollDelaySet, appVerbosityLevelSet,
       RunOptions, Bits
  <2> QED
    BY <1>1, <1>2, <2>4, <2>5, <2>6 DEF SettingsInv, SettingsInSync
<1>4. CASE OptionsEnd
  <2>1. readerSetting' \subseteq Bits /\ readerSetting' # {}
    BY <1>4 DEF OptionsEnd, AutoByDefault, Bits, SettingsInv
  <2>2. TrayInv' /\ icon' \in BOOLEAN /\ notifications' \in BOOLEAN /\ exited' \in BOOLEAN
    BY <1>4, <1>2, OneTimerBag DEF OptionsEnd, startSystemTray, TrayInv, SettingsInv
  <2>3. CommandLineTypeOK'
    BY <1>4, <2>1 DEF OptionsEnd, SettingsInv
  <2> QED
    BY <1>1, <1>2, <2>1, <2>2, <2>3 DEF SettingsInv, SettingsInSync
<1> QED
  BY <1>3, <1>4 DEF Start, parseCommandLine

\* A step that leaves all this alone, but for the icon.
LEMMA SettingsFrame ==
    ASSUME SettingsInv, UNCHANGED settingsVars, icon' \in BOOLEAN
    PROVE  SettingsInv'
BY DEF SettingsInv, settingsVars, commandLine, settings, dialog, widgets,
       CommandLineTypeOK, SettingsTypeOK, TrayInv, SettingsInSync

\* What the dialog does.
LEMMA SettingsClicks ==
    ASSUME SettingsInv, phase = "tray", SettingsClick(nbReaders), clicks < MaxClicks,
           clicks' = clicks + 1, UNCHANGED commandLine, nbReaders \in 0..NumSlots
    PROVE  SettingsInv'
<1> USE LimitsAssumption, ClicksAssumption
    DEF CommandLineTypeOK, SettingsTypeOK, dialog, widgets, settings, tray,
        DialogShown, commandLine
<1> DEFINE Types == SettingsTypeOK' /\ CommandLineTypeOK'
           TrayOK == TrayInv' /\ icon' \in BOOLEAN /\ notifications' \in BOOLEAN
                              /\ exited' \in BOOLEAN
           DialogOK == /\ SettingsInSync'
                       /\ settingsDialog' = "none" => ~settingsSavePending'
           Goal == Types /\ TrayOK /\ DialogOK
<1>0. SUFFICES Goal
  BY DEF SettingsInv
<1>1. ASSUME UNCHANGED <<settings, tray>>
      PROVE  TrayOK /\ CommandLineTypeOK'
  BY <1>1 DEF SettingsInv, TrayInv
<1>2. CASE buildSettingsDialog
  BY <1>2, <1>1 DEF buildSettingsDialog, SettingsInv, SettingsInSync, Bits
<1>3. CASE settingsDialogActivate /\ ~buildSettingsDialog
  BY <1>3, <1>1 DEF settingsDialogActivate, SettingsInv, SettingsInSync
<1>4. ASSUME NEW bit \in Bits, toggleChange(bit, nbReaders) PROVE Goal
  BY <1>4, <1>1 DEF toggleChange, SettingsInv, SettingsInSync, Bits, Slots
<1>5. CASE scaleChanged
  BY <1>5, <1>1 DEF scaleChanged, SettingsInv, SettingsInSync
<1>6. CASE SettingsApply
  <2>1. readerSetting' = toggles
    BY <1>6 DEF SettingsApply, BitsApplied, SettingsInv
  <2>2. appPollDelayms' = pollDelayScale /\ appVerbosity' = verbosityScale
    BY <1>6, Limits DEF SettingsApply, SettingsInv, appPollDelaySet, appVerbosityLevelSet
  <2>3. TrayOK
    BY <1>6, <2>2, OneTimerBag, Limits DEF SettingsApply, SettingsInv, TrayInv,
       appPollDelaySet, systemTraySetPollDelay, TimersLeft
  <2>4. Types
    BY <1>6, <2>1, <2>2 DEF SettingsApply, SettingsInv
  <2>5. DialogOK
    BY <1>6, <2>1, <2>2 DEF SettingsApply, SettingsInv, SettingsInSync
  <2> QED
    BY <2>3, <2>4, <2>5
<1>7. CASE SettingsHide
  BY <1>7, <1>1 DEF SettingsHide, SettingsInv, SettingsInSync
<1>8. CASE SettingsDelete
  BY <1>8, <1>1, Limits DEF SettingsDelete, SettingsInv, SettingsInSync
<1> QED
  BY <1>2, <1>3, <1>4, <1>5, <1>6, <1>7, <1>8
  DEF SettingsClick, settingsDialogActivate

-----------------------------------------------------------------------------
(* The rules, the editor and the search.                                   *)

EnabledIn(list) == [r \in DOMAIN list |-> list[r].enabled]

\* The buttons of a table are a list of Booleans as long as the table.
LEMMA ButtonsOfTable ==
    ASSUME NEW list \in Seq(Rule)
    PROVE  /\ Len(list) \in Nat /\ DOMAIN list = 1..Len(list)
           /\ \A r \in 1..Len(list) : list[r] \in Rule /\ list[r].enabled \in BOOLEAN
           /\ EnabledIn(list) \in [1..Len(list) -> BOOLEAN]
           /\ EnabledIn(list) \in Seq(BOOLEAN)
           /\ Len(EnabledIn(list)) = Len(list)
<1>1. Len(list) \in Nat /\ DOMAIN list = 1..Len(list) /\ list \in [1..Len(list) -> Rule]
  BY LenProperties
<1>2. \A r \in 1..Len(list) : list[r] \in Rule /\ list[r].enabled \in BOOLEAN
  BY <1>1 DEF Rule
<1>3. EnabledIn(list) \in [1..Len(list) -> BOOLEAN]
  BY <1>1, <1>2 DEF EnabledIn
<1>4. EnabledIn(list) \in Seq(BOOLEAN) /\ Len(EnabledIn(list)) = Len(list)
  BY <1>1, <1>3
<1> QED
  BY <1>1, <1>2, <1>3, <1>4

\* A rule is switched, and its button with it.
LEMMA RuleSwitched ==
    ASSUME NEW list \in Seq(Rule), NEW row \in 1..Len(list), NEW on \in BOOLEAN
    PROVE  LET new == [list EXCEPT ![row].enabled = on] IN
           /\ new \in Seq(Rule) /\ Len(new) = Len(list)
           /\ EnabledIn(new) = [EnabledIn(list) EXCEPT ![row] = on]
<1> DEFINE new == [list EXCEPT ![row].enabled = on]
<1>1. list \in [1..Len(list) -> Rule] /\ Len(list) \in Nat /\ list[row] \in Rule
  BY ButtonsOfTable, LenProperties
<1>2. [list[row] EXCEPT !.enabled = on] \in Rule
  BY <1>1 DEF Rule
<1>3. new \in [1..Len(list) -> Rule]
  BY <1>1, <1>2
<1>4. new \in Seq(Rule) /\ Len(new) = Len(list) /\ DOMAIN new = 1..Len(list)
  BY <1>1, <1>3
<1>5. \A r \in 1..Len(list) : new[r].enabled = IF r = row THEN on ELSE list[r].enabled
  BY <1>1 DEF Rule
<1>6. EnabledIn(new) = [EnabledIn(list) EXCEPT ![row] = on]
  BY <1>1, <1>4, <1>5 DEF EnabledIn
<1> QED
  BY <1>4, <1>6

\* A rule is added, and its button with it.
LEMMA RuleAdded ==
    ASSUME NEW list \in Seq(Rule), NEW rule \in Rule
    PROVE  LET new == Append(list, rule) IN
           /\ new \in Seq(Rule) /\ Len(new) = Len(list) + 1
           /\ new[Len(new)] = rule
           /\ EnabledIn(new) = Append(EnabledIn(list), rule.enabled)
<1> DEFINE new == Append(list, rule)
           buttons == Append(EnabledIn(list), rule.enabled)
<1>1. /\ new \in Seq(Rule) /\ Len(new) = Len(list) + 1 /\ new[Len(new)] = rule
      /\ \A r \in 1..Len(list) : new[r] = list[r]
  BY AppendProperties
<1>2. rule.enabled \in BOOLEAN
  BY DEF Rule
<1>3. /\ buttons \in Seq(BOOLEAN) /\ Len(buttons) = Len(list) + 1
      /\ buttons[Len(list) + 1] = rule.enabled
      /\ \A r \in 1..Len(list) : buttons[r] = EnabledIn(list)[r]
  BY <1>2, ButtonsOfTable, AppendProperties
<1>4. \A r \in 1..Len(list) : EnabledIn(list)[r] = list[r].enabled
  BY ButtonsOfTable DEF EnabledIn
<1>5. EnabledIn(new) \in Seq(BOOLEAN) /\ Len(EnabledIn(new)) = Len(new)
  BY <1>1, ButtonsOfTable
<1>6. \A r \in 1..Len(new) : EnabledIn(new)[r] = new[r].enabled
  BY <1>1, ButtonsOfTable DEF EnabledIn
<1>7. Len(list) \in Nat
  BY ButtonsOfTable
<1>8. \A r \in 1..Len(new) : EnabledIn(new)[r] = buttons[r]
  BY <1>1, <1>3, <1>4, <1>6, <1>7
<1>9. EnabledIn(new) = buttons
  BY <1>1, <1>3, <1>5, <1>8, SeqEqual
<1> QED
  BY <1>1, <1>9

LEMMA RulesInit == Init => EditorInv /\ SearchInv
<1> SUFFICES ASSUME Init PROVE EditorInv /\ SearchInv
  OBVIOUS
<1> USE RulesAssumption
<1>1. table \in Seq(Rule) /\ Len(table) = 4
  BY DEF Init, rulesTableRead, defaultCommands, Entry, Rule, Folders, Matches
<1>2. EditorTypeOK
  <2>1. <<>> \in Seq(BOOLEAN) /\ FALSE \in BOOLEAN
    BY EmptySeq
  <2> QED
    BY <2>1, Zenon DEF Init, EditorInit, EditorTypeOK, WindowStates
<1>3. EditorMatchesTable /\ ~savePending
  BY DEF Init, EditorInit, EditorMatchesTable
<1>4. EditorInv
  BY <1>1, <1>2, <1>3 DEF EditorInv
<1>5. SearchInv
  BY <1>1 DEF Init, rulesTableRead, SearchInv
<1> QED
  BY <1>4, <1>5

\* No poll changes the table.
LEMMA EditorFrame ==
    ASSUME EditorInv, UNCHANGED <<editor, table>>
    PROVE  EditorInv'
BY DEF EditorInv, EditorTypeOK, EditorMatchesTable, editor

LEMMA EditorClicks ==
    ASSUME EditorInv, EditorClick
    PROVE  EditorInv' /\ UNCHANGED search
<1> USE DEF EditorShown, rules, search, WindowStates, EditorTypeOK
<1>0. /\ table \in Seq(Rule)
      /\ rulesEditorWindow # "none" => enableButtons = EnabledIn(table)
  BY DEF EditorInv, EditorMatchesTable, EnabledIn
<1>1. CASE rulesEditorActivate
  <2>1. CASE buildrulesEditor
    <3>1. enableButtons' \in Seq(BOOLEAN)
      BY <2>1, <1>0, ButtonsOfTable DEF buildrulesEditor, EnabledIn
    <3> QED
      BY <2>1, <3>1 DEF buildrulesEditor, EditorInv, EditorMatchesTable
  <2> QED
    BY <1>1, <2>1 DEF rulesEditorActivate, EditorInv, EditorMatchesTable
<1>2. ASSUME NEW row \in DOMAIN enableButtons, enableChange(row)
      PROVE  EditorInv' /\ UNCHANGED search
  <2> DEFINE on == ~enableButtons[row]
  <2>1. rulesEditorWindow = "shown" /\ enableButtons = EnabledIn(table)
    BY <1>2, <1>0 DEF enableChange
  <2>2. row \in 1..Len(table) /\ on \in BOOLEAN
    BY <2>1, <1>0, ButtonsOfTable
  <2>3. enableButtons' = [EnabledIn(table) EXCEPT ![row] = on]
    BY <1>2, <2>1 DEF enableChange
  <2>4. enableButtons'[row] = on
    BY <2>2, <2>3, <1>0, ButtonsOfTable
  <2>5. table' = [table EXCEPT ![row].enabled = on]
    BY <1>2, <2>4 DEF enableChange, rulesTableEntryEnable
  <2>6. /\ table' \in Seq(Rule) /\ Len(table') = Len(table)
        /\ enableButtons' = EnabledIn(table')
    BY <1>0, <2>2, <2>3, <2>5, RuleSwitched
  <2>7. enableButtons' \in Seq(BOOLEAN)
    BY <2>6, ButtonsOfTable
  <2> QED
    BY <1>2, <2>1, <2>6, <2>7 DEF enableChange, EditorInv, EditorMatchesTable, EnabledIn
<1>3. CASE matchChosen
  BY <1>3 DEF matchChosen, EditorInv, EditorMatchesTable
<1>4. CASE addTagEntry
  <2> DEFINE new == Entry("application", "TAG_ID_MATCH", FALSE)
  <2>1. new \in Rule
    BY DEF Entry, Rule, Folders, Matches
  <2>2. table' = Append(table, new) /\ Len(table) < MaxRules
    BY <1>4 DEF addTagEntry, rulesTableAddEntry
  <2>3. rulesEditorWindow = "shown" /\ enableButtons = EnabledIn(table)
    BY <1>4, <1>0 DEF addTagEntry
  <2>4. /\ table' \in Seq(Rule) /\ Len(table') = Len(table) + 1
        /\ table'[Len(table')] = new
        /\ EnabledIn(table') = Append(EnabledIn(table), new.enabled)
    BY <1>0, <2>1, <2>2, RuleAdded
  <2>5. enableButtons' = EnabledIn(table')
    BY <1>4, <2>3, <2>4 DEF addTagEntry
  <2>6. enableButtons' \in Seq(BOOLEAN) /\ Len(table) \in Nat
    BY <1>0, <2>4, <2>5, ButtonsOfTable
  <2>7. Len(table') <= MaxRules
    BY <2>2, <2>4, <2>6, RulesAssumption
  <2>8. UNCHANGED <<rulesEditorWindow, savePending, search>>
    BY <1>4 DEF addTagEntry
  <2>9. EditorMatchesTable' /\ EditorTypeOK'
    BY <2>5, <2>6, <2>8 DEF EditorMatchesTable, EnabledIn, EditorInv
  <2> QED
    BY <2>3, <2>4, <2>7, <2>8, <2>9 DEF EditorInv
<1>5. CASE EditorApply
  BY <1>5 DEF EditorApply, EditorInv, EditorMatchesTable
<1>6. CASE EditorHide
  BY <1>6 DEF EditorHide, EditorInv, EditorMatchesTable
<1>7. CASE EditorDelete
  BY <1>7 DEF EditorDelete, EditorInv, EditorMatchesTable
<1> QED
  BY <1>1, <1>2, <1>3, <1>4, <1>5, <1>6, <1>7 DEF EditorClick

\* Nothing but the search and, between two events, the table changes.
LEMMA SearchFrame ==
    ASSUME SearchInv, UNCHANGED search,
           poll' \in {"idle", "first", "begin", "connect", "read"},
           table' \in Seq(Rule), poll # "dispatch"
    PROVE  SearchInv'
<1>1. Len(table') \in Nat /\ uid = NoTag /\ unforked = {}
  BY ButtonsOfTable DEF SearchInv
<1> QED
  BY <1>1 DEF SearchInv, search

LEMMA SearchBegins ==
    ASSUME SearchInv, EditorInv, NEW tag \in Tags, BeginDispatch(tag), poll' = "dispatch"
    PROVE  SearchInv'
<1>1. Len(table) \in Nat /\ Candidates' \subseteq 1..Len(table)
  BY ButtonsOfTable DEF BeginDispatch, Candidates, EditorInv
<1>2. /\ uid' = tag /\ uid' # NoTag /\ ruleIndex' = Len(table) /\ ran' = 0
      /\ UNCHANGED <<table, missing, children>> /\ unforked' = {}
  BY RulesAssumption DEF BeginDispatch, SearchInv
<1> QED
  BY <1>1, <1>2, RulesAssumption DEF SearchInv

LEMMA SearchStep ==
    ASSUME SearchInv, EditorInv, Dispatch, poll = "dispatch",
           IF uid' = NoTag THEN poll' = "idle" ELSE UNCHANGED poll
    PROVE  SearchInv' /\ UNCHANGED table
<1> USE RulesAssumption
<1>0. /\ Len(table) \in Nat /\ DOMAIN table = 1..Len(table)
      /\ uid \in Tags /\ uid # NoTag
  BY ButtonsOfTable DEF EditorInv, SearchInv
<1>1. CASE RuleIsOff
  <2>1. /\ ran = 0 /\ ruleIndex \in 1..Len(table) /\ ~table[ruleIndex].enabled
        /\ ruleIndex' = ruleIndex - 1
        /\ UNCHANGED <<table, uid, ran, children, missing, unforked>>
    BY <1>1 DEF RuleIsOff, NextRule, Searching, SearchInv
  <2>2. ruleIndex \notin Candidates /\ Candidates' = Candidates
    BY <2>1 DEF Candidates
  <2>3. \A r \in Candidates : r \in 1..Len(table)
    BY <1>0 DEF Candidates
  <2> QED
    BY <1>0, <2>1, <2>2, <2>3 DEF SearchInv
<1>2. CASE ScriptMissing
  <2>1. /\ ran = 0 /\ ruleIndex \in 1..Len(table)
        /\ ruleIndex' = ruleIndex - 1
        /\ missing' = missing \union {ScriptLookedFor}
        /\ UNCHANGED <<table, uid, ran, children, unforked>>
    BY <1>2 DEF ScriptMissing, NextRule, Searching, SearchInv
  <2>2. ruleIndex \notin Candidates' /\ Candidates' \subseteq Candidates
    BY <2>1 DEF Candidates, ScriptLookedFor
  <2>3. \A r \in Candidates : r \in 1..Len(table)
    BY <1>0 DEF Candidates
  <2>4. ScriptLookedFor \in Scripts
    BY <1>0, <2>1, ButtonsOfTable
    DEF ScriptLookedFor, Script, Scripts, EditorInv, Rule
  <2> QED
    BY <1>0, <2>1, <2>2, <2>3, <2>4 DEF SearchInv
<1>3. CASE ForkFails
  <2>1. /\ ran = 0 /\ ruleIndex \in 1..Len(table)
        /\ ruleIndex' = ruleIndex - 1
        /\ unforked' = unforked \union {ruleIndex}
        /\ UNCHANGED <<table, uid, ran, children, missing>>
    BY <1>3 DEF ForkFails, NextRule, Searching, SearchInv
  <2>2. ruleIndex \notin Candidates' /\ Candidates' \subseteq Candidates
    BY <2>1 DEF Candidates
  <2>3. \A r \in Candidates : r \in 1..Len(table)
    BY <1>0 DEF Candidates
  <2>4. unforked' \subseteq 1..Len(table)
    BY <2>1 DEF SearchInv
  <2> QED
    BY <1>0, <2>1, <2>2, <2>3, <2>4 DEF SearchInv
<1>4. CASE ScriptStarted
  <2>1. /\ ran = 0 /\ ruleIndex \in 1..Len(table) /\ ran' = ruleIndex
        /\ children < MaxChildren /\ children' = children + 1
        /\ table[ruleIndex].enabled /\ ScriptLookedFor \notin missing
        /\ UNCHANGED <<table, uid, missing, ruleIndex, unforked>>
    BY <1>4 DEF ScriptStarted, ScriptFound, Searching, SearchInv
  <2>2. ruleIndex \notin unforked
    BY <2>1 DEF SearchInv
  <2>3. ruleIndex \in Candidates /\ Candidates' = Candidates
    BY <1>0, <2>1, <2>2 DEF Candidates, ScriptLookedFor
  <2>4. \A r \in Candidates : r <= ruleIndex
    BY <1>0, <2>1 DEF SearchInv
  <2> QED
    BY <1>0, <2>1, <2>3, <2>4 DEF SearchInv
<1>5. CASE DispatchReturns
  BY <1>0, <1>5 DEF DispatchReturns, SearchInv
<1> QED
  BY <1>1, <1>2, <1>3, <1>4, <1>5 DEF Dispatch, execScriptInChild

-----------------------------------------------------------------------------
(* The readers and the explorer.                                           *)

LEMMA ReadersInit == Init => ReadersInv
<1> SUFFICES ASSUME Init PROVE ReadersInv
  OBVIOUS
<1>1. /\ FALSE \in BOOLEAN /\ "none" \in Handles /\ "none" \in Arrays
      /\ 0 \in 0..NumSlots /\ 0 \in 0..2
  BY LimitsAssumption DEF Handles, Arrays
<1>2. ExplorerInit /\ tagList = FALSE /\ previousTagList = FALSE
      /\ poll = "idle" /\ lastPoll = "none" /\ missed = 0
  BY Zenon DEF Init
<1>3. hCard \in [Slots -> Handles] /\ tagsShown \in [Slots -> Arrays]
  BY <1>1, <1>2, Zenon DEF ExplorerInit
<1>4. ExplorerTypeOK /\ tagList \in BOOLEAN /\ previousTagList \in BOOLEAN
  BY <1>1, <1>2, <1>3, Zenon DEF ExplorerInit, ExplorerTypeOK
<1>5. \A s \in Slots : hCard[s] = "none" /\ tagsShown[s] = "none" /\ ~Connected(s)
  BY <1>2 DEF ExplorerInit, Connected
<1>6. nbReaders = 0 /\ ~explorerWindow
  BY <1>2, Zenon DEF ExplorerInit
<1> QED
  BY <1>1, <1>2, <1>4, <1>5, <1>6 DEF ReadersInv

LEMMA ReadersFrame ==
    ASSUME ReadersInv, UNCHANGED <<readers, explorer, lists>>
    PROVE  ReadersInv'
BY DEF ReadersInv, readers, explorer, lists, ExplorerTypeOK, Connected, ShownOK,
       Beginning

\* What a call of readersConnect, with any result, does to the table: what it
\* opens shows no tags, and the explorer is told of it.
ConnectStep ==
    /\ nbReaders' \in 0..NumSlots
    /\ hCard' \in [Slots -> Handles] /\ tagsShown' \in [Slots -> Arrays]
    /\ rows' \subseteq Slots /\ crashed' \in BOOLEAN
    /\ UNCHANGED <<explorerWindow, store>>
    /\ \A s \in Slots :
          /\ Connected(s)' => s < nbReaders'
          /\ hCard'[s] = "none" => tagsShown'[s] = "none"
          /\ Connected(s)' => \/ Connected(s) /\ tagsShown'[s] = tagsShown[s]
                             \/ tagsShown'[s] = "none"
          /\ explorerWindow /\ Connected(s)' => s \in rows'

LEMMA OpensStep ==
    ASSUME ReadersInv, NEW n \in 0..NumSlots,
           NEW opened \in SUBSET Slots, NEW givesUpAt \in SUBSET Slots,
           Opens(n, opened, givesUpAt)
    PROVE  ConnectStep
<1> DEFINE kept == Kept(n, hCard, "none")
           shown == Kept(n, tagsShown, "none")
<1>0. /\ n \in Int /\ nbReaders \in Int /\ \A s \in Slots : s \in Int
      /\ hCard \in [Slots -> Handles] /\ tagsShown \in [Slots -> Arrays]
      /\ rows \subseteq Slots /\ crashed \in BOOLEAN
  BY LimitsAssumption DEF ReadersInv, ExplorerTypeOK, Slots
<1>1. \A s \in Slots :
         /\ kept[s] = IF n <= s /\ s <= nbReaders - 1 THEN "none" ELSE hCard[s]
         /\ shown[s] = IF n <= s /\ s <= nbReaders - 1 THEN "none" ELSE tagsShown[s]
  BY <1>0 DEF Kept
<1>2. PICK h \in {"none", "unsupported"} :
         hCard' = [s \in Slots |-> IF s \in opened THEN "works"
                                   ELSE IF s \in givesUpAt THEN h ELSE kept[s]]
  BY DEF Opens
<1>3. /\ nbReaders' = n /\ tagsShown' = shown
      /\ \A s \in opened \union givesUpAt : s < n /\ kept[s] = "none"
  BY <1>0 DEF Opens
<1>4. explorerAddReaders(opened \union givesUpAt)
  BY DEF Opens, Detected
<1>5. \A s \in Slots : kept[s] \in Handles /\ shown[s] \in Arrays
  BY <1>0, <1>1 DEF Handles, Arrays
<1>6. hCard' \in [Slots -> Handles] /\ tagsShown' \in [Slots -> Arrays]
  <2>1. "works" \in Handles /\ h \in Handles
    BY DEF Handles
  <2>2. shown \in [Slots -> Arrays]
    BY <1>5 DEF Kept
  <2> QED
    BY <1>2, <1>3, <1>5, <2>1, <2>2
<1>7. /\ rows' \subseteq Slots /\ crashed' \in BOOLEAN
      /\ UNCHANGED <<explorerWindow, store>>
      /\ store = "tree" => rows' = rows \union (opened \union givesUpAt)
  BY <1>0, <1>4 DEF explorerAddReaders
<1>8. ASSUME NEW s \in Slots
      PROVE  /\ Connected(s)' => s < nbReaders'
             /\ hCard'[s] = "none" => tagsShown'[s] = "none"
             /\ Connected(s)' => \/ Connected(s) /\ tagsShown'[s] = tagsShown[s]
                                \/ tagsShown'[s] = "none"
             /\ explorerWindow /\ Connected(s)' => s \in rows'
  <2>1. /\ Connected(s) => s < nbReaders
        /\ hCard[s] = "none" => tagsShown[s] = "none"
        /\ explorerWindow => store = "tree"
        /\ explorerWindow /\ Connected(s) => s \in rows
    BY DEF ReadersInv
  <2>2. kept[s] = "none" => shown[s] = "none"
    BY <1>1, <2>1
  <2>3. CASE s \in opened \union givesUpAt
    BY <1>3, <1>7, <2>1, <2>2, <2>3
  <2>4. CASE s \notin opened \union givesUpAt
    <3>1. hCard'[s] = kept[s]
      BY <1>2, <2>4
    <3>2. Connected(s)' => /\ kept[s] = hCard[s] /\ shown[s] = tagsShown[s]
                           /\ Connected(s) /\ s < n
      BY <1>0, <1>1, <2>1, <3>1 DEF Connected
    <3> QED
      BY <1>3, <1>7, <2>1, <2>2, <3>1, <3>2
  <2> QED
    BY <2>3, <2>4
<1> QED
  BY <1>3, <1>6, <1>7, <1>8 DEF ConnectStep

LEMMA ConnectResult ==
    ASSUME ReadersInv, ConnectWorks \/ ConnectFails
    PROVE  ConnectStep
<1>1. /\ nbReaders \in 0..NumSlots /\ NumSlots \in Nat
      /\ hCard \in [Slots -> Handles] /\ tagsShown \in [Slots -> Arrays]
      /\ rows \subseteq Slots /\ crashed \in BOOLEAN
  BY LimitsAssumption DEF ReadersInv, ExplorerTypeOK
<1>2. \A n \in Listed : n \in 0..NumSlots
  BY <1>1 DEF Listed
<1>3. \A s \in Slots :
         /\ Connected(s) => s < nbReaders
         /\ hCard[s] = "none" => tagsShown[s] = "none"
         /\ explorerWindow /\ Connected(s) => s \in rows
  BY DEF ReadersInv
<1>4. ASSUME UNCHANGED <<nbReaders, hCard, tagsShown, explorer>> PROVE ConnectStep
  BY <1>1, <1>3, <1>4 DEF ConnectStep, Connected, explorer
<1>5. ASSUME NoReaders, UNCHANGED explorer PROVE ConnectStep
  <2>1. /\ nbReaders' = 0 /\ UNCHANGED <<tagsShown, explorerWindow, store, rows, crashed>>
        /\ \A s \in Slots : hCard'[s] = CASE hCard[s] = "works" -> "gone"
                                        [] hCard[s] = "unsupported" -> "lost"
                                        [] OTHER -> hCard[s]
    BY <1>5 DEF NoReaders, explorer
  <2>2. hCard' \in [Slots -> Handles]
    BY <1>1, <1>5 DEF NoReaders, Handles
  <2>3. \A s \in Slots : ~Connected(s)' /\ (hCard'[s] = "none" => hCard[s] = "none")
    BY <2>1 DEF Connected
  <2> QED
    BY <1>1, <1>3, <2>1, <2>2, <2>3 DEF ConnectStep
<1>6. CASE ConnectWorks
  <2>1. PICK n \in Listed, opened \in SUBSET Slots : Opens(n, opened, {})
    BY <1>6 DEF ConnectWorks
  <2> QED
    BY <1>2, <2>1, OpensStep
<1>7. ASSUME NEW n \in Listed, NEW opened \in SUBSET Slots, NEW f \in Slots,
             Opens(n, opened, {f})
      PROVE  ConnectStep
  BY <1>2, <1>7, OpensStep
<1> QED
  BY <1>4, <1>5, <1>6, <1>7 DEF ConnectFails, EnumerateFails, explorer

\* After such a call the invariant holds, if lists as old as they were are
\* not too old for where the poll is then.
LEMMA ConnectedReaders ==
    ASSUME ReadersInv, ConnectStep, hContext, UNCHANGED <<hContext, tagList, previousTagList>>,
           lastPoll' \in {"none", "failed", "worked"}, missed' \in 0..2,
           poll' \in {"idle", "first", "begin", "connect", "read", "dispatch"},
           \A s \in Slots : ShownOK(s) /\ tagsShown'[s] = tagsShown[s] => ShownOK(s)'
    PROVE  ReadersInv'
<1>1. ExplorerTypeOK'
  BY DEF ReadersInv, ExplorerTypeOK, ConnectStep
<1>2. \A s \in Slots : tagsShown'[s] = "none" => ShownOK(s)'
  BY DEF ShownOK
<1>3. \A s \in Slots : Connected(s)' => ShownOK(s)'
  BY <1>2 DEF ConnectStep, ReadersInv
<1> QED
  BY <1>1, <1>3 DEF ReadersInv, ConnectStep

\* Reading the readers: those that have no handle any more show nothing, the
\* others nothing or a tag of the new list.
LEMMA ReadReaders ==
    ASSUME ReadersInv, hContext,
           NEW failing \in SUBSET ReadChosen, NEW withTags \in SUBSET ReadChosen,
           ReadersRead(ReadChosen, failing, withTags), missed' = 0,
           lastPoll' \in {"none", "failed", "worked"}, poll' \in {"idle", "dispatch"}
    PROVE  ReadersInv'
<1>0. /\ nbReaders \in Int /\ (\A s \in Slots : s \in Int) /\ hContext'
      /\ hCard \in [Slots -> Handles] /\ tagsShown \in [Slots -> Arrays]
      /\ tagList' \in BOOLEAN
      /\ \A s \in Slots :
            /\ Connected(s) => s < nbReaders
            /\ hCard[s] = "none" => tagsShown[s] = "none"
            /\ explorerWindow /\ Connected(s) => s \in rows
  BY LimitsAssumption DEF ReadersInv, ExplorerTypeOK, Slots, ReadersRead
<1>1. /\ hCard' = [s \in Slots |-> IF s \in failing THEN "none" ELSE hCard[s]]
      /\ tagsShown' = [s \in Slots |->
            IF s >= nbReaders THEN tagsShown[s]
            ELSE IF s \in withTags THEN "current" ELSE "none"]
      /\ withTags \subseteq ReadChosen \ failing
      /\ UNCHANGED <<hContext, nbReaders, explorerWindow, store, rows, crashed,
                     previousTagList>>
  BY DEF ReadersRead, explorer
<1>2. \A s \in ReadChosen : s < nbReaders /\ hCard[s] # "none"
  BY <1>0 DEF ReadChosen
<1>3. hCard' \in [Slots -> Handles] /\ tagsShown' \in [Slots -> Arrays]
  BY <1>0, <1>1 DEF Handles, Arrays
<1>4. ASSUME NEW s \in Slots
      PROVE  /\ Connected(s)' => Connected(s) /\ tagsShown'[s] \in {"none", "current"}
             /\ hCard'[s] = "none" => tagsShown'[s] = "none"
  <2>1. Connected(s)' => Connected(s)
    BY <1>1 DEF Connected
  <2>2. Connected(s) => tagsShown'[s] \in {"none", "current"}
    BY <1>0, <1>1
  <2>3. hCard'[s] = "none" => tagsShown'[s] = "none"
    BY <1>0, <1>1, <1>2
  <2> QED
    BY <2>1, <2>2, <2>3
<1>5. ~Beginning'
  BY DEF Beginning
<1>6. \A s \in Slots : Connected(s)' => ShownOK(s)'
  BY <1>4, <1>5 DEF ShownOK
<1>7. ExplorerTypeOK'
  BY <1>1, <1>3 DEF ReadersInv, ExplorerTypeOK
<1> QED
  BY <1>0, <1>1, <1>4, <1>6, <1>7 DEF ReadersInv

LEMMA ReadersStep ==
    ASSUME ReadersInv, Next
    PROVE  ReadersInv'
<1> USE DEF Connecting
<1>0. \A s \in Slots :
         /\ Connected(s) => s < nbReaders /\ ShownOK(s)
         /\ hCard[s] = "none" => tagsShown[s] = "none"
  BY DEF ReadersInv
<1>1. CASE Start
  BY <1>1, ReadersFrame DEF Start
<1>2. CASE Click
  <2>1. UNCHANGED lists
    BY <1>2 DEF Click
  <2>2. CASE UNCHANGED <<readers, explorer>>
    BY <2>1, <2>2, ReadersFrame
  <2>3. CASE buildExplorer
    <3>1. /\ explorerWindow' = TRUE /\ store' = "tree" /\ rows' = 0..(nbReaders - 1)
          /\ UNCHANGED <<crashed, hContext, nbReaders, hCard, tagsShown>>
      BY <2>3 DEF buildExplorer, readers
    <3>2. nbReaders \in 0..NumSlots /\ NumSlots \in Nat /\ \A s \in Slots : s \in Int /\ 0 <= s
      BY LimitsAssumption DEF ReadersInv, ExplorerTypeOK, Slots
    <3>3. rows' \subseteq Slots /\ \A s \in Slots : s < nbReaders => s \in rows'
      BY <3>1, <3>2 DEF Slots
    <3>4. ExplorerTypeOK'
      BY <3>1, <3>3 DEF ReadersInv, ExplorerTypeOK
    <3> QED
      BY <1>0, <2>1, <3>1, <3>3, <3>4
      DEF ReadersInv, Connected, ShownOK, Beginning, lists
  <2>4. CASE explorerWindowDestroy
    <3>1. /\ explorerWindow' = FALSE /\ store' = "freed" /\ rows' = {}
          /\ UNCHANGED <<crashed, hContext, nbReaders, hCard, tagsShown>>
      BY <2>4 DEF explorerWindowDestroy, readers
    <3>2. ExplorerTypeOK'
      BY <3>1 DEF ReadersInv, ExplorerTypeOK
    <3> QED
      BY <1>0, <2>1, <3>1, <3>2
      DEF ReadersInv, Connected, ShownOK, Beginning, lists
  <2> QED
    BY <1>2, <2>2, <2>3, <2>4 DEF Click, ExplorerClick
<1>3. CASE PollWithoutPcscd
  <2>1. /\ poll = "idle" /\ poll' = "idle" /\ lastPoll' = "failed"
        /\ UNCHANGED <<readers, explorer, tagList, previousTagList, missed>>
    BY <1>3 DEF PollWithoutPcscd, PollIdle, PollFails
  <2> QED
    BY <2>1 DEF ReadersInv, readers, explorer, ExplorerTypeOK, Connected, ShownOK, Beginning
<1>4. CASE readersManagerConnect
  <2>1. /\ ~hContext /\ hContext' = TRUE /\ nbReaders = 0 /\ poll = "idle"
        /\ UNCHANGED <<explorer, tagList, previousTagList, missed>>
    BY <1>4 DEF readersManagerConnect, ReadersInv
  <2>2. \A s \in Slots : ~Connected(s)
    BY <1>0, <2>1, LimitsAssumption DEF Slots
  <2>3. /\ nbReaders' \in 0..NumSlots /\ UNCHANGED tagsShown
        /\ lastPoll' \in {"none", "failed", "worked"} /\ poll' \in {"idle", "first"}
        /\ hCard' \in [Slots -> Handles]
        /\ \A s \in Slots : ~Connected(s)' /\ (hCard'[s] = "none" => hCard[s] = "none")
    <3>1. CASE UNCHANGED <<nbReaders, hCard, tagsShown>> /\ PollFails
      BY <2>2, <3>1 DEF PollFails, ReadersInv, ExplorerTypeOK, Connected
    <3>2. CASE NoReaders /\ PollFails
      <4>1. hCard' \in [Slots -> Handles]
        BY <3>2 DEF NoReaders, ReadersInv, ExplorerTypeOK, Handles
      <4> QED
        BY <3>2, <4>1, LimitsAssumption DEF PollFails, NoReaders, Connected
    <3>3. CASE /\ nbReaders' \in 1..NumSlots /\ poll' = "first"
               /\ UNCHANGED <<hCard, tagsShown, lastPoll>>
      BY <2>2, <3>3 DEF ReadersInv, ExplorerTypeOK, Connected
    <3> QED
      BY <1>4, <3>1, <3>2, <3>3 DEF readersManagerConnect, EnumerateFails
  <2>4. ExplorerTypeOK'
    BY <2>1, <2>3 DEF ReadersInv, ExplorerTypeOK, explorer
  <2> QED
    BY <1>0, <2>1, <2>3, <2>4 DEF ReadersInv, explorer
<1>5. CASE FirstConnect
  <2>1. /\ poll = "first" /\ poll' = "begin" /\ ConnectStep /\ hContext
        /\ UNCHANGED <<hContext, tagList, previousTagList, lastPoll, missed>>
    BY <1>5, ConnectResult DEF FirstConnect, ReadersInv
  <2>2. \A s \in Slots : ShownOK(s) /\ tagsShown'[s] = tagsShown[s] => ShownOK(s)'
    BY <2>1 DEF ShownOK, Beginning
  <2>3. lastPoll' \in {"none", "failed", "worked"} /\ missed' \in 0..2
    BY <2>1 DEF ReadersInv
  <2> QED
    BY <2>1, <2>2, <2>3, ConnectedReaders
<1>6. CASE ListsRotate
  <2>1. /\ poll \in {"begin", "idle"} /\ hContext /\ poll' = "connect"
        /\ previousTagList' = tagList /\ tagList' = FALSE
        /\ tagsShown' = [s \in Slots |-> Older(tagsShown[s])]
        /\ UNCHANGED <<hContext, nbReaders, hCard, explorer, lastPoll, missed>>
    BY <1>6 DEF ListsRotate, ReadersInv
  <2>2. tagsShown \in [Slots -> Arrays]
    BY DEF ReadersInv, ExplorerTypeOK
  <2>3. \A s \in Slots :
           /\ tagsShown'[s] = Older(tagsShown[s])
           /\ tagsShown'[s] \in Arrays
           /\ tagsShown[s] = "none" => tagsShown'[s] = "none"
           /\ tagsShown[s] = "current" => tagsShown'[s] = "previous"
    BY <2>1, <2>2 DEF Older, Arrays
  <2>4. tagsShown' \in [Slots -> Arrays]
    BY <2>1, <2>3
  <2>5. ExplorerTypeOK'
    BY <2>1, <2>4 DEF ReadersInv, ExplorerTypeOK, explorer
  <2>6. \A s \in Slots : ShownOK(s) => ShownOK(s)'
    BY <2>1, <2>3 DEF ShownOK, Beginning
  <2> QED
    BY <1>0, <2>1, <2>3, <2>5, <2>6 DEF ReadersInv, Connected, explorer
<1>7. CASE Reconnect
  <2>1. /\ poll = "connect" /\ hContext /\ missed \in 0..2
        /\ UNCHANGED <<hContext, tagList, previousTagList>>
    BY <1>7 DEF Reconnect, ReadersInv
  <2>2. CASE ConnectWorks /\ poll' = "read" /\ UNCHANGED <<lastPoll, missed>>
    <3>1. \A s \in Slots : ShownOK(s) /\ tagsShown'[s] = tagsShown[s] => ShownOK(s)'
      BY <2>1, <2>2 DEF ShownOK, Beginning
    <3>2. lastPoll' \in {"none", "failed", "worked"} /\ missed' \in 0..2
      BY <2>1, <2>2 DEF ReadersInv
    <3> QED
      BY <2>1, <2>2, <3>1, <3>2, ConnectResult, ConnectedReaders
  <2>3. CASE /\ UNCHANGED <<nbReaders, hCard, tagsShown, explorer, lastPoll, missed>>
             /\ poll' = "read"
    BY <2>1, <2>3 DEF ReadersInv, ExplorerTypeOK, Connected, ShownOK, Beginning, explorer
  <2>4. CASE /\ ConnectFails /\ poll' = "idle" /\ lastPoll' = "failed"
             /\ missed' = IF missed = 2 THEN 2 ELSE missed + 1
    <3>1. missed' \in 0..2 /\ (missed' = 1 => missed = 0) /\ missed' # 0
      BY <2>1, <2>4
    <3>2. \A s \in Slots : ShownOK(s) /\ tagsShown'[s] = tagsShown[s] => ShownOK(s)'
      BY <2>1, <2>4, <3>1 DEF ShownOK, Beginning
    <3> QED
      BY <2>1, <2>4, <3>1, <3>2, ConnectResult, ConnectedReaders
  <2> QED
    BY <1>7, <2>2, <2>3, <2>4 DEF Reconnect, PollFails
<1>8. CASE ReadFails
  <2>1. PICK failing, withTags \in SUBSET ReadChosen :
           ReadersRead(ReadChosen, failing, withTags)
    BY <1>8 DEF ReadFails
  <2>2. hContext /\ missed' = 0 /\ poll' = "idle" /\ lastPoll' = "failed"
    BY <1>8 DEF ReadFails, PollFails, ReadersInv
  <2> QED
    BY <2>1, <2>2, ReadReaders
<1>9. CASE ReadUnchanged \/ ReadChanged
  <2>1. PICK failing, withTags \in SUBSET ReadChosen :
           ReadersRead(ReadChosen, failing, withTags)
    BY <1>9 DEF ReadWorks, ReadUnchanged, ReadChanged
  <2>2. /\ hContext /\ missed' = 0 /\ poll' \in {"idle", "dispatch"}
        /\ lastPoll' \in {"none", "failed", "worked"}
    BY <1>9 DEF ReadWorks, ReadUnchanged, ReadChanged, ReadersInv
  <2> QED
    BY <2>1, <2>2, ReadReaders
<1>10. CASE DispatchStep
  <2>1. /\ poll = "dispatch" /\ hContext /\ poll' \in {"idle", "dispatch"}
        /\ lastPoll' \in {"none", "failed", "worked"}
        /\ UNCHANGED <<readers, explorer, tagList, previousTagList, missed>>
    BY <1>10 DEF DispatchStep, ReadersInv
  <2> QED
    BY <2>1 DEF ReadersInv, readers, explorer, ExplorerTypeOK, Connected, ShownOK, Beginning
<1> QED
  BY <1>1, <1>2, <1>3, <1>4, <1>5, <1>6, <1>7, <1>8, <1>9, <1>10 DEF Next, Poll

-----------------------------------------------------------------------------
(* All of it together.                                                     *)

DesktopInv == SettingsInv /\ EditorInv /\ SearchInv /\ ReadersInv /\ IconInv

\* A poll leaves the settings and the windows alone, and the icon is all it
\* changes of the tray.
LEMMA PollFrame ==
    ASSUME Poll, icon \in BOOLEAN
    PROVE  UNCHANGED <<settingsVars, editor>> /\ icon' \in BOOLEAN
<1>1. UNCHANGED <<commandLine, dialog, settings, editor, clicks>>
  BY DEF Poll
<1>2. UNCHANGED tray \/ systemTraySetStatus(FALSE) \/ systemTraySetStatus(TRUE)
  BY DEF Poll, Connecting, PollWithoutPcscd, readersManagerConnect, FirstConnect,
     ListsRotate, Reconnect, ReadFails, ReadUnchanged, ReadChanged, DispatchStep, PollFails
<1>3. UNCHANGED <<timers, timeoutID, pollFunction, notifications, exited>>
      /\ icon' \in BOOLEAN
  BY <1>2 DEF tray, systemTraySetStatus
<1> QED
  BY <1>1, <1>3 DEF settingsVars

\* The icon is set with the result of the poll, and by nothing else.
LEMMA IconStep ==
    ASSUME IconInv, Next
    PROVE  IconInv'
<1>1. ASSUME UNCHANGED <<icon, lastPoll>> PROVE IconInv'
  BY <1>1 DEF IconInv
<1>2. CASE Start
  BY <1>1, <1>2 DEF Start, lists, parseCommandLine, OptionRead, OptionsEnd, ReaderOption,
     VerbosityOption, DaemonOption, DelayOption, EndingOption, startSystemTray, tray
<1>3. CASE Click
  <2>1. UNCHANGED lastPoll
    BY <1>3 DEF Click, lists
  <2>2. CASE UNCHANGED tray
    BY <1>1, <2>1, <2>2 DEF tray
  <2>3. CASE SettingsClick(nbReaders)
    BY <1>1, <2>1, <2>3 DEF SettingsClick, settingsDialogActivate, buildSettingsDialog,
       toggleChange, scaleChanged, SettingsApply, SettingsHide, SettingsDelete, tray
  <2>4. CASE EditorClick /\ UNCHANGED <<dialog, settings, tray, readers, explorer>>
    BY <2>2, <2>4
  <2>5. CASE iconQuit(~savePending /\ ~settingsSavePending)
    BY <1>1, <2>1, <2>5 DEF iconQuit
  <2> QED
    BY <1>3, <2>2, <2>3, <2>5, Zenon DEF Click, ExplorerClick, buildExplorer, explorerWindowDestroy
<1>4. CASE Poll
  <2>1. CASE systemTraySetStatus(FALSE)
    BY <2>1 DEF systemTraySetStatus, IconInv
  <2>2. CASE UNCHANGED <<tray, lastPoll>>
    BY <1>1, <2>2 DEF tray
  <2>3. CASE lastPoll' = "worked"
    BY <2>3 DEF IconInv
  <2> QED
    BY <1>4, <2>1, <2>2, <2>3 DEF Poll, Connecting, PollWithoutPcscd, readersManagerConnect,
       FirstConnect, ListsRotate, Reconnect, ReadFails, ReadUnchanged, ReadChanged,
       DispatchStep, PollFails
<1> QED
  BY <1>2, <1>3, <1>4 DEF Next

LEMMA SettingsStep ==
    ASSUME DesktopInv, Next
    PROVE  SettingsInv'
<1>1. /\ SettingsInv /\ icon \in BOOLEAN /\ notifications \in BOOLEAN
      /\ nbReaders \in 0..NumSlots
  BY DEF DesktopInv, SettingsInv, ReadersInv, ExplorerTypeOK
<1>2. CASE Start
  BY <1>1, <1>2, SettingsStart
<1>3. CASE Poll
  BY <1>1, <1>3, PollFrame, SettingsFrame
<1>4. CASE Click
  <2>1. /\ phase = "tray" /\ clicks < MaxClicks /\ clicks' = clicks + 1
        /\ UNCHANGED commandLine
    BY <1>4 DEF Click, PollIdle, Running
  <2>2. CASE SettingsClick(nbReaders)
    BY <1>1, <2>1, <2>2, SettingsClicks
  <2>3. CASE UNCHANGED <<dialog, settings, tray>>
    BY <1>1, <2>1, <2>3, ClicksAssumption
    DEF SettingsInv, commandLine, settings, dialog, widgets, tray, CommandLineTypeOK,
        SettingsTypeOK, TrayInv, SettingsInSync
  <2>4. CASE /\ iconQuit(~savePending /\ ~settingsSavePending)
             /\ UNCHANGED <<dialog, settings>>
    <3>1. notifications' \in BOOLEAN /\ exited' \in BOOLEAN
      BY <2>4, Zenon DEF iconQuit
    <3>2. UNCHANGED <<timers, timeoutID, pollFunction, icon>>
      BY <2>4 DEF iconQuit
    <3> QED
      BY <1>1, <2>1, <2>4, <3>1, <3>2, ClicksAssumption
      DEF SettingsInv, commandLine, settings, dialog, widgets, CommandLineTypeOK,
          SettingsTypeOK, TrayInv, SettingsInSync
  <2> QED
    BY <1>4, <2>2, <2>3, <2>4, Zenon DEF Click
<1> QED
  BY <1>2, <1>3, <1>4 DEF Next

LEMMA RulesStep ==
    ASSUME DesktopInv, Next
    PROVE  EditorInv' /\ SearchInv'
<1>1. /\ EditorInv /\ SearchInv /\ icon \in BOOLEAN
      /\ poll \in {"idle", "first", "begin", "connect", "read", "dispatch"}
  BY DEF DesktopInv, SettingsInv, ReadersInv
<1>2. ASSUME UNCHANGED <<editor, rules, poll>> PROVE EditorInv' /\ SearchInv'
  BY <1>1, <1>2, EditorFrame DEF rules, search, SearchInv, Candidates
<1>3. CASE Start
  BY <1>2, <1>3 DEF Start, lists
<1>4. CASE Click
  <2>1. poll = "idle" /\ UNCHANGED poll
    BY <1>4 DEF Click, PollIdle, lists
  <2>2. CASE EditorClick
    <3>1. EditorInv' /\ UNCHANGED search
      BY <1>1, <2>2, EditorClicks
    <3>2. table' \in Seq(Rule)
      BY <3>1 DEF EditorInv
    <3> QED
      BY <1>1, <2>1, <3>1, <3>2, SearchFrame
  <2>3. CASE UNCHANGED <<editor, rules>>
    BY <1>2, <2>1, <2>3
  <2> QED
    BY <1>4, <2>2, <2>3, Zenon DEF Click
<1>5. CASE Poll
  <2>1. UNCHANGED editor
    BY <1>5 DEF Poll
  <2>2. CASE /\ UNCHANGED rules /\ poll # "dispatch"
             /\ poll' \in {"idle", "first", "begin", "connect", "read"}
    <3>1. UNCHANGED <<search, table>> /\ table' \in Seq(Rule)
      BY <1>1, <2>2 DEF rules, EditorInv
    <3> QED
      BY <1>1, <2>1, <2>2, <3>1, EditorFrame, SearchFrame
  <2>3. CASE ReadChanged
    <3>1. PICK tag \in Tags : BeginDispatch(tag)
      BY <2>3 DEF ReadChanged
    <3>2. poll' = "dispatch" /\ UNCHANGED table
      BY <2>3, <3>1 DEF ReadChanged, BeginDispatch
    <3> QED
      BY <1>1, <2>1, <3>1, <3>2, EditorFrame, SearchBegins
  <2>4. CASE DispatchStep
    <3>1. /\ Dispatch /\ poll = "dispatch"
          /\ IF uid' = NoTag THEN poll' = "idle" ELSE UNCHANGED poll
      BY <2>4 DEF DispatchStep
    <3> QED
      BY <1>1, <2>1, <3>1, EditorFrame, SearchStep
  <2> QED
    BY <1>5, <2>2, <2>3, <2>4
    DEF Poll, Connecting, PollWithoutPcscd, readersManagerConnect, FirstConnect, PollIdle,
        ListsRotate, Reconnect, ReadFails, ReadUnchanged, ReadWorks, PollFails
<1> QED
  BY <1>3, <1>4, <1>5 DEF Next

THEOREM DesktopInvariant == Spec => []DesktopInv
<1>1. Init => DesktopInv
  <2>1. Init => IconInv
    BY DEF Init, IconInv
  <2> QED
    BY <2>1, SettingsInit1, RulesInit, ReadersInit DEF DesktopInv
<1>2. DesktopInv /\ [Next]_vars => DesktopInv'
  <2>1. CASE UNCHANGED vars
    <3>1. UNCHANGED <<settingsVars, icon, editor, rules, poll, readers, explorer, lists>>
      BY <2>1 DEF vars, settingsVars, tray, lists
    <3>2. DesktopInv => /\ SettingsInv /\ EditorInv /\ SearchInv /\ ReadersInv /\ IconInv
                        /\ icon \in BOOLEAN
      BY DEF DesktopInv, SettingsInv
    <3>3. DesktopInv => SettingsInv' /\ EditorInv' /\ ReadersInv'
      BY <3>1, <3>2, SettingsFrame, EditorFrame, ReadersFrame DEF rules
    <3>4. DesktopInv => SearchInv' /\ IconInv'
      BY <3>1, <3>2 DEF SearchInv, IconInv, rules, search, Candidates, lists
    <3> QED
      BY <3>3, <3>4 DEF DesktopInv
  <2>2. CASE Next
    <3>1. DesktopInv => ReadersInv /\ IconInv
      BY DEF DesktopInv
    <3> QED
      BY <2>2, <3>1, SettingsStep, RulesStep, ReadersStep, IconStep DEF DesktopInv
  <2> QED
    BY <2>1, <2>2
<1> QED
  BY <1>1, <1>2, PTL DEF Spec

-----------------------------------------------------------------------------
(* What the invariant implies.                                             *)

\* Every variable of the windows, of the tray, of the rules and of the readers
\* always has a value of its type: the delay and the level are within their
\* limits whatever was asked for, and no index leaves the table
\* (tagEventor.c:84-89, 240-241; rulesTable.c:267).
THEOREM DesktopTypeCorrect == Spec => []DesktopTypeOK
<1>1. DesktopInv => TrayTypeOK
  <2>1. DesktopInv => TrayInv /\ CommandLineTypeOK /\ icon \in BOOLEAN
                      /\ notifications \in BOOLEAN /\ exited \in BOOLEAN
    BY DEF DesktopInv, SettingsInv
  <2>2. TrayInv /\ CommandLineTypeOK => IsABag(timers) /\ timeoutID \in Nat
    BY OneTimerBag, Limits DEF TrayInv, CommandLineTypeOK
  <2>3. TrayInv => pollFunction \in BOOLEAN
    BY DEF TrayInv
  <2> QED
    BY <2>1, <2>2, <2>3, Zenon DEF TrayTypeOK
<1>2. DesktopInv => /\ CommandLineTypeOK /\ SettingsTypeOK /\ clicks \in 0..MaxClicks
                    /\ EditorTypeOK /\ ExplorerTypeOK
  BY DEF DesktopInv, SettingsInv, EditorInv, ReadersInv
<1>3. DesktopInv => RulesTypeOK
  BY DEF DesktopInv, EditorInv, SearchInv, RulesTypeOK
<1>4. DesktopInv => /\ poll \in {"idle", "first", "begin", "connect", "read", "dispatch"}
                    /\ tagList \in BOOLEAN /\ previousTagList \in BOOLEAN
                    /\ lastPoll \in {"none", "failed", "worked"} /\ missed \in 0..2
  BY DEF DesktopInv, ReadersInv
<1>5. DesktopInv => DesktopTypeOK
  BY <1>1, <1>2, <1>3, <1>4, Zenon DEF DesktopTypeOK
<1> QED
  BY <1>5, DesktopInvariant, PTL

\* A dialog with nothing to apply shows what is in force (settingsDialog.c:161-185).
THEOREM DialogInSync == Spec => []SettingsInSync
<1>1. DesktopInv => SettingsInSync
  BY DEF DesktopInv, SettingsInv
<1> QED
  BY <1>1, DesktopInvariant, PTL

\* In the tray there is exactly one timer, with the delay of the settings
\* (systemTray.c:49-55, 279).
THEOREM ExactlyOneTimer == Spec => []OneTimer
<1>1. DesktopInv => OneTimer
  BY DEF DesktopInv, SettingsInv, TrayInv, OneTimer
<1> QED
  BY <1>1, DesktopInvariant, PTL

\* A change that waits for Apply has a window where it can be applied
\* (settingsDialog.c:94-104, systemTray.c:121).
THEOREM PendingChangesReachable == Spec => []PendingHasWindow
<1>1. DesktopInv => PendingHasWindow
  BY DEF DesktopInv, SettingsInv, EditorInv, PendingHasWindow, SettingsTypeOK, EditorTypeOK
<1> QED
  BY <1>1, DesktopInvariant, PTL

\* Whatever the options, the program starts with readers to look for and stays
\* within its limits (tagEventor.c:84-89, 240-241).
THEOREM AlwaysUsable == Spec => []StartIsUsable
<1>1. DesktopInv => StartIsUsable
  BY LimitsAssumption
  DEF DesktopInv, SettingsInv, StartIsUsable, CommandLineTypeOK, Delays, Levels
<1> QED
  BY <1>1, DesktopInvariant, PTL

\* The rows of the editor are those of the table (rulesEditor.c:240).
THEOREM EditorShowsTable == Spec => []EditorMatchesTable
<1>1. DesktopInv => EditorMatchesTable
  BY DEF DesktopInv, EditorInv
<1> QED
  BY <1>1, DesktopInvariant, PTL

\* The script started for an event is that of the last rule that is on, whose
\* script exists and for which fork worked; an event that starts none had no
\* such rule (rulesTable.c:226-241, 267-271).
THEOREM LastCandidateRuns == Spec => []RightScript
<1>1. ASSUME DesktopInv
      PROVE  Candidates \subseteq 1..Len(table) /\ Len(table) \in Nat
  BY <1>1, ButtonsOfTable DEF DesktopInv, EditorInv, Candidates
<1>2. ASSUME DesktopInv, uid # NoTag, ran # 0
      PROVE  ran = Max(Candidates)
  <2>1. ran \in Candidates /\ \A r \in Candidates : ran >= r
    <3>1. ran \in Candidates /\ \A r \in Candidates : r <= ran
      BY <1>2 DEF DesktopInv, SearchInv
    <3> QED
      BY <1>1, <1>2, <3>1
  <2>2. \A m \in Candidates : (\A r \in Candidates : m >= r) => m = ran
    BY <1>1, <1>2, <2>1
  <2> QED
    BY <2>1, <2>2 DEF Max
<1>3. ASSUME DesktopInv, uid # NoTag, ran = 0, ruleIndex = 0
      PROVE  Candidates = {}
  <2>1. \A r \in Candidates : r <= 0
    BY <1>3 DEF DesktopInv, SearchInv
  <2> QED
    BY <1>1, <1>3, <2>1
<1>4. DesktopInv => RightScript
  BY <1>2, <1>3 DEF RightScript, AtReturn
<1> QED
  BY <1>4, DesktopInvariant, PTL

\* An open explorer shows every reader there is a handle of
\* (tagEventor.c:367-374, explorer.c:266).
THEOREM ConnectedAlwaysShown == Spec => []ConnectedIsShown
<1>1. DesktopInv => ConnectedIsShown
  BY DEF DesktopInv, ReadersInv, ConnectedIsShown, Connected
<1> QED
  BY <1>1, DesktopInvariant, PTL

\* After a poll that failed the icon does not say connected
\* (tagEventor.c:526-575).
THEOREM IconShowsFailure == Spec => []IconTellsFailure
<1>1. DesktopInv => IconTellsFailure
  BY DEF DesktopInv, IconInv, IconTellsFailure
<1> QED
  BY <1>1, DesktopInvariant, PTL

\* What a connected reader shows between two polls is not from a freed list,
\* unless two polls in a row gave up before they read the readers
\* (tagEventor.c:552-561, tagReader.c:666-707).
THEOREM ShownTagsLive == Spec => []ExplorerReadsLive
<1>1. ASSUME DesktopInv, poll = "idle", missed < 2, NEW s \in 0..(nbReaders - 1),
             hCard[s] \in {"works", "unsupported"}
      PROVE  tagsShown[s] # "freed"
  <2>1. s \in Slots /\ missed \in {0, 1}
    BY <1>1, LimitsAssumption DEF DesktopInv, ReadersInv, ExplorerTypeOK, Slots
  <2>2. ShownOK(s) /\ ~Beginning
    BY <1>1, <2>1 DEF DesktopInv, ReadersInv, Connected, Beginning
  <2> QED
    BY <2>1, <2>2 DEF ShownOK
<1>2. DesktopInv => ExplorerReadsLive
  BY <1>1 DEF ExplorerReadsLive
<1> QED
  BY <1>2, DesktopInvariant, PTL
=============================================================================
