------------------------------ MODULE Desktop ------------------------------
(***************************************************************************)
(* tagEventor as it runs in the system tray: the windows of its user and   *)
(* the poll of the readers take turns on the one thread of GTK.  A click   *)
(* is handled between two polls and before the next click; a poll is taken *)
(* in steps, because the rules table has steps of its own, but no click    *)
(* comes between them.                                                     *)
(*                                                                         *)
(* Of the readers there is what the windows show; TagPoll, ReaderManager   *)
(* and AcrDriver say in detail what the results of the calls depend on,    *)
(* and what SIGHUP and SIGTERM do.                                         *)
(***************************************************************************)
EXTENDS SettingsDialog, RulesEditor, Explorer

CONSTANTS
    MaxClicks       \* bound on what the user does

ASSUME ClicksAssumption == MaxClicks \in Nat

VARIABLES
    poll,           \* where tagListCheck is; "idle" between two polls
    tagList,        \* readerManager.tagList has tags
    previousTagList,\* previousTagList has tags
    clicks,         \* what the user has done so far (bound: MaxClicks)
    lastPoll,       \* history: how the last poll ended
    missed          \* history: the polls in a row, up to 2, that did not
                    \* get to read the readers

lists == <<poll, tagList, previousTagList, lastPoll, missed>>
vars == <<commandLine, dialog, settings, tray, editor, rules, readers, explorer, lists, clicks>>

DesktopTypeOK ==
    /\ TrayTypeOK /\ CommandLineTypeOK /\ SettingsTypeOK /\ RulesTypeOK /\ EditorTypeOK
    /\ ExplorerTypeOK
    /\ poll \in {"idle", "first", "begin", "connect", "read", "dispatch"}
    /\ tagList \in BOOLEAN /\ previousTagList \in BOOLEAN
    /\ clicks \in 0..MaxClicks
    /\ lastPoll \in {"none", "failed", "worked"}
    /\ missed \in 0..2

\* main: the rules are read behind the options and have nothing to do with
\* them.
Init ==
    /\ CommandLineInit
    /\ TrayInit
    /\ SettingsInit
    /\ rulesTableRead
    /\ EditorInit
    /\ ExplorerInit
    /\ poll = "idle"
    /\ tagList = FALSE /\ previousTagList = FALSE
    /\ clicks = 0 /\ lastPoll = "none" /\ missed = 0

Running == phase = "tray" /\ ~exited /\ ~crashed

-----------------------------------------------------------------------------
(* The poll.                                                               *)

Automatic == AUTO \in readerSetting
Chosen(slot) == Automatic \/ slot \in readerSetting

\* A variant with a bug: the tray is not told.
PollFails_Silently ==
    /\ poll' = "idle" /\ lastPoll' = "failed"
    /\ UNCHANGED tray

\* tagListCheck returns after telling the tray that something failed.
PollFails ==
    /\ poll' = "idle" /\ lastPoll' = "failed"
    /\ systemTraySetStatus(FALSE)

PollIdle == Running /\ poll = "idle"

\* The slots once pcscd has listed n readers: those behind them that were in
\* use before are reset.
Kept(n, old, none) ==
    [s \in Slots |-> IF s \in n..(nbReaders - 1) THEN none ELSE old[s]]

\* pcscd has no readers: the slots keep what they have.
NoReaders ==
    /\ nbReaders' = 0
    /\ hCard' = [s \in Slots |-> CASE hCard[s] = "works" -> "gone"
                                   [] hCard[s] = "unsupported" -> "lost"
                                   [] OTHER -> hCard[s]]
    /\ UNCHANGED tagsShown

EnumerateFails == NoReaders \/ UNCHANGED <<nbReaders, hCard, tagsShown>>

\* A variant with a bug: the event is dispatched once, when the driver is known.
Detected_Supported(opened, givesUpAt) == opened

\* READER_DETECTED is dispatched as soon as there is a handle.
Detected(opened, givesUpAt) == opened \union givesUpAt

\* readersConnect after n readers were listed: what it opens, and the reader
\* it gives up at, if there is one, because its check fails or no driver knows
\* it.
Opens(n, opened, givesUpAt) ==
    LET kept == Kept(n, hCard, "none")
        tried == {s \in 0..(n - 1) : Chosen(s) /\ kept[s] = "none"}
    IN  /\ opened \subseteq tried /\ givesUpAt \subseteq tried
        /\ \A f \in givesUpAt : \A s \in opened : s < f
        /\ nbReaders' = n
        /\ \E h \in {"none", "unsupported"} :
              hCard' = [s \in Slots |-> IF s \in opened THEN "works"
                                        ELSE IF s \in givesUpAt THEN h
                                        ELSE kept[s]]
        /\ tagsShown' = Kept(n, tagsShown, "none")
        /\ explorerAddReaders(Detected(opened, givesUpAt))

Listed == IF Automatic THEN 1..NumSlots ELSE {nbReaders} \ {0}

ConnectWorks ==
    \E n \in Listed, opened \in SUBSET Slots : Opens(n, opened, {})

ConnectFails ==
    \/ \E n \in Listed, opened \in SUBSET Slots, f \in Slots : Opens(n, opened, {f})
    \/ Automatic /\ EnumerateFails /\ UNCHANGED explorer
    \/ ~Automatic /\ nbReaders = 0 /\ UNCHANGED <<nbReaders, hCard, tagsShown, explorer>>

\* SCardEstablishContext fails.
PollWithoutPcscd ==
    /\ PollIdle /\ ~hContext
    /\ PollFails
    /\ UNCHANGED <<readers, explorer, tagList, previousTagList, missed>>

\* readersManagerConnect: the context stays even if the readers cannot be
\* listed, which is taken for a failure to connect to pcscd.
readersManagerConnect ==
    /\ PollIdle /\ ~hContext
    /\ hContext' = TRUE
    /\ \/ /\ EnumerateFails
          /\ PollFails
       \/ /\ nbReaders' \in 1..NumSlots
          /\ poll' = "first"
          /\ UNCHANGED <<hCard, tagsShown, lastPoll, tray>>
    /\ UNCHANGED <<explorer, tagList, previousTagList, missed>>

\* The result of this readersConnect makes no difference.
FirstConnect ==
    /\ Running /\ poll = "first"
    /\ ConnectWorks \/ ConnectFails
    /\ poll' = "begin"
    /\ UNCHANGED <<hContext, tray, tagList, previousTagList, lastPoll, missed>>

\* A variant with a bug: the list of the last poll is freed, not the one of
\* the poll before.
Older_TooEarly(array) ==
    CASE array \in {"current", "previous"} -> "freed" [] OTHER -> array

Older(array) ==
    CASE array = "current" -> "previous"
      [] array = "previous" -> "freed"
      [] OTHER -> array

\* The previous list is freed and the current one becomes the previous.
ListsRotate ==
    /\ Running
    /\ poll = "begin" \/ (poll = "idle" /\ hContext)
    /\ previousTagList' = tagList
    /\ tagList' = FALSE
    /\ tagsShown' = [s \in Slots |-> Older(tagsShown[s])]
    /\ poll' = "connect"
    /\ UNCHANGED <<hContext, nbReaders, hCard, explorer, tray, lastPoll, missed>>

\* readersGetTagList connects again if the setting is AUTO.
Reconnect ==
    /\ Running /\ poll = "connect"
    /\ \/ /\ IF Automatic THEN ConnectWorks
             ELSE UNCHANGED <<nbReaders, hCard, tagsShown, explorer>>
          /\ poll' = "read"
          /\ UNCHANGED <<tray, lastPoll, missed>>
       \/ /\ Automatic /\ ConnectFails
          /\ PollFails
          /\ missed' = IF missed = 2 THEN 2 ELSE missed + 1
    /\ UNCHANGED <<hContext, tagList, previousTagList>>

\* The readers that are read, those of them that fail, as one that is gone
\* does, and those with tags.
\* The result of the last one is the result of all.
ReadersRead(read, failing, withTags) ==
    /\ {s \in read : hCard[s] = "gone"} \subseteq failing
    /\ failing \subseteq read /\ withTags \subseteq read \ failing
    /\ hCard' = [s \in Slots |-> IF s \in failing THEN "none" ELSE hCard[s]]
    /\ tagList' = (withTags # {})
    /\ tagsShown' = [s \in Slots |->
            IF s >= nbReaders THEN tagsShown[s]
            ELSE IF s \in withTags THEN "current" ELSE "none"]
    /\ UNCHANGED <<hContext, nbReaders, explorer, previousTagList>>

ReadChosen ==
    {s \in 0..(nbReaders - 1) : Chosen(s) /\ hCard[s] \in {"works", "gone"}}

\* readersGetTagList returns an error.
ReadFails ==
    /\ Running /\ poll = "read" /\ ReadChosen # {}
    /\ \E failing, withTags \in SUBSET ReadChosen :
          /\ Max(ReadChosen) \in failing
          /\ ReadersRead(ReadChosen, failing, withTags)
    /\ PollFails
    /\ missed' = 0
    /\ UNCHANGED <<rules>>

ReadWorks ==
    /\ Running /\ poll = "read"
    /\ \E failing, withTags \in SUBSET ReadChosen :
          /\ ReadChosen # {} => Max(ReadChosen) \notin failing
          /\ ReadersRead(ReadChosen, failing, withTags)
    /\ missed' = 0

\* processTagLists finds no difference, and tells nobody.
ReadUnchanged ==
    /\ ReadWorks
    /\ tagList' = previousTagList
    /\ poll' = "idle" /\ lastPoll' = "worked"
    /\ UNCHANGED <<tray, rules>>

\* processTagLists finds one; an event stands for all of them.
ReadChanged ==
    /\ ReadWorks
    /\ tagList' \/ previousTagList
    /\ \E tag \in Tags : BeginDispatch(tag)
    /\ poll' = "dispatch"
    /\ UNCHANGED <<tray, lastPoll>>

\* The tray is told when the event has been dealt with.
DispatchStep ==
    /\ Running /\ poll = "dispatch"
    /\ Dispatch
    /\ IF uid' = NoTag
       THEN /\ systemTraySetStatus(TRUE)
            /\ poll' = "idle" /\ lastPoll' = "worked"
       ELSE UNCHANGED <<tray, poll, lastPoll>>
    /\ UNCHANGED <<readers, explorer, tagList, previousTagList, missed>>

Connecting ==
    /\ PollWithoutPcscd \/ readersManagerConnect \/ FirstConnect
          \/ ListsRotate \/ Reconnect
    /\ UNCHANGED rules

Poll ==
    /\ Connecting \/ ReadFails \/ ReadUnchanged \/ ReadChanged \/ DispatchStep
    /\ UNCHANGED <<commandLine, dialog, settings, editor, clicks>>

-----------------------------------------------------------------------------
(* The user.                                                               *)

Click ==
    /\ PollIdle
    /\ clicks < MaxClicks /\ clicks' = clicks + 1
    /\ \/ /\ SettingsClick(nbReaders)
          /\ UNCHANGED <<editor, rules, readers, explorer>>
       \/ /\ EditorClick
          /\ UNCHANGED <<dialog, settings, tray, readers, explorer>>
       \/ /\ ExplorerClick
          /\ UNCHANGED <<dialog, settings, tray, editor, rules>>
       \/ /\ iconQuit(~savePending /\ ~settingsSavePending)
          /\ UNCHANGED <<dialog, settings, editor, rules, readers, explorer>>
    /\ UNCHANGED <<commandLine, lists>>

Start ==
    /\ parseCommandLine
    /\ UNCHANGED <<dialog, editor, rules, readers, explorer, lists, clicks>>

Next == Start \/ Poll \/ Click

Spec == Init /\ [][Next]_vars

-----------------------------------------------------------------------------

\* A change that waits for Apply has a window with an Apply button, hidden
\* perhaps: as Quit is refused while there is one, the program could not be
\* left from its icon otherwise (settingsDialog.c:94-104, systemTray.c:121).
PendingHasWindow ==
    /\ savePending => rulesEditorWindow # "none"
    /\ settingsSavePending => settingsDialog # "none"

\* The program starts with readers to look for, and with a delay and a level
\* within their limits, whatever the options said; the dialog may leave it
\* without any reader, but never outside the limits (tagEventor.c:84-89,
\* 240-241).
StartIsUsable ==
    phase = "tray" =>
        /\ clicks = 0 => readerSetting # {}
        /\ DelayMin <= appPollDelayms /\ appPollDelayms <= DelayMax
        /\ appVerbosity <= VerbosityMax

\* The icon does not say that a reader is connected after a poll that failed:
\* of pcscd, of a connection, or of the last reader read (tagEventor.c:526-575).
IconTellsFailure == poll = "idle" /\ icon => lastPoll # "failed"

\* The explorer, if it were opened now, would not read the tags of a reader
\* from a list that was freed, unless the last two polls gave up before they
\* read the readers or the reader had vanished with all others
\* (tagEventor.c:552-561, tagReader.c:666, 685, 707; explorer.c:105).
ExplorerReadsLive ==
    poll = "idle" /\ missed < 2 =>
        \A s \in 0..(nbReaders - 1) :
            hCard[s] \in {"works", "unsupported"} => tagsShown[s] # "freed"
=============================================================================
