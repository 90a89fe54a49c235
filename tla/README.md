# Verification of tagEventor in TLA+

tagEventor watches contactless card readers through PC/SC (`pcscd`) and runs a
script when a tag is placed on a reader (`IN`) or taken away (`OUT`).  It runs
in a terminal, as a daemon, or behind an icon in the system tray.  This
directory holds TLA+ models of its parts, the TLC configurations that check
them on small instances, and theorems proved with TLAPS for every value of the
constants.

Paths below are relative to the repository, which the mapping file
`PROJECT.json` calls `src/`.  `tagEventor.c` is `tagEventor/src/tagEventor.c`,
`tagReader.c` is `tagReader/src/tagReader.c`, and so on.

1. Inventory of the system
2. The modules and how they correspond to the code
3. What the runs check
4. What is proved
5. Disagreements with the documentation and other observations
6. What is not modelled
7. Plan

## 1. Inventory of the system

The C program has one thread of its own.  Everything happens in one of three
ways: the main loop (or the GTK timer) calls `tagListCheck`, a GTK callback
runs between two polls, or a signal handler runs on top of either.  `pcscd`,
the readers, the scripts and the other processes started with `-d` run beside
it.

### Tag poll (`tagEventor.c`)

* State: `readerManager.tagList` and `previousTagList`, each a count and an
  array from the heap; the `contents` hung on every tag (`pData`,
  `extensionHook`).
* Operations: `tagListCheck` (connect to pcscd if there is no context, hand the
  list over to `previousTagList`, free the one before, read all readers),
  `processTagLists` (compare, dispatch `TAG_OUT` and `TAG_IN`, carry the
  contents over), `eventDispatch`, `tagAttachData`, `tagDetachData`.
* Interacts with: the reader manager (calls), the rules table (calls with each
  event), the tray (a callback with the state of the connection).
* Hard: a poll can fail at every call, and each failure leaves the two lists in
  a different relation; an array changes hands twice before it is freed; the
  contents of a tag are attached in one poll and freed many polls later.
* Correct when: no array leaks or is freed twice; between two polls the scripts
  have been told of exactly the tags that are there; IN and OUT of a tag
  alternate; a poll always returns.

### Reader manager (`tagReader/src/tagReader.c`)

* State: `hContext`; `nbReaders` and `mszReaders` (the names, one string); for
  each slot of `readers[]` a name, a handle, a driver and a tag list; the bitmap
  of the setting (AUTO, or slots by number).
* Operations: `readersInit`, `readersManagerConnect`/`Disconnect`,
  `readersEnumerate`, `readersConnect`/`Disconnect`, `readersGetTagList`, and
  the operations on the bitmap.
* Interacts with: pcscd (calls that may fail), the drivers, the tag poll, the
  settings dialog (which writes the bitmap), SIGHUP and SIGTERM (whose handlers
  run `readersDisconnect` and `readersConnect`).
* Hard: pcscd's list shifts under slots that are numbered by position; names
  point into a string that is freed; SIGHUP may arrive while the readers are read
  or while their tags are copied, and change the number of readers under both
  loops; pcscd may die.
* Correct when: no freed name or array is used; the copy of all tags fits; a
  handle belongs to the reader the slot is named after; a reader that is there
  is eventually read.

### ACR122U driver (`tagReader/src/acr122UDriver.c`)

* State: the driver pointer, the handle and the SAM flag of a `tReader`; the
  settings it makes in the chip of the reader (retry, RATS); the array it fills.
* Operations: `acr122UReaderCheck`, `acr122UGetTagList`, `apduSend`.
* Interacts with: the reader, which it shares with every other application of
  pcscd; an APDU for the contactless side is two transmits.
* Hard: the reader is polled twice, either tag may answer either time, and each
  must be listed once; another application may take or replace an answer
  between the two transmits; the reader may be exchanged between two calls.
* Correct when: the list has each tag that answered, once, none that was not
  there, and never more than the array holds; a poll returns.

### Rules table (`tagEventor/src/rulesTable.c`)

* State: the array of rules, each with its match type, folder, script and
  enabled flag; the children it forked.
* Operations: `rulesTableRead`, `rulesTableAddEntry`, `rulesTableEntryEnable`,
  `rulesTableEventDispatch` (from the last rule to the first, until a script is
  found and a child forked), `execScriptInChild` (fork and exec, no wait).
* Interacts with: `eventDispatch` (calls with each event), the rules editor
  (which changes the live table).
* Hard: scripts come and go, fork may fail at any time and does so for good once
  the children nobody waits for have used up the processes, and each failure
  sends the search on to an earlier rule.
* Correct when: exactly one script runs for an event, that of the last rule that
  is on, whose script exists and for which fork worked; if none runs there was no
  such rule.

### Daemon control (`tagEventor/src/daemonControl.c`, `tagEventor/tagEventord`)

* State: the lock file and its text, `lockFile`, `lockFilename`.
* Operations: `daemonize`, `getLockOrDie`, `stopDaemon`, `daemonTerminate`.
* Hard: several processes act on one file by its name; crashes leave it behind;
  pids are used again; the handler of SIGTERM may run at any moment, and takes
  its time, while `-d stop` waits for one second.
* Correct when: one daemon at a time, the lock file is that of the daemon that
  runs, and a daemon runs until it is stopped.

### Command line and signals (`tagEventor.c`)

* State: the options, verbosity, poll delay.
* Operations: `parseCommandLine`, `appVerbosityLevelSet`, `appPollDelaySet`,
  `handleSignal`, `main`.
* Interacts with: the reader setting, and the tray, whose timer `-p` already
  sets before there is one.
* Hard: the handlers call library functions that are not safe in a handler.
* Correct when: the values stay in their ranges, and the program starts with
  something to do.

### System tray (`systemTray.c`)

* State: the poll timer, the function it calls, the icon, libnotify.
* Operations: `startSystemTray`, `systemTraySetPollDelay`,
  `systemTraySetStatus`, `iconQuit`.
* Interacts with: the command line and the settings dialog (the delay), the poll
  (the status), both dialogs (may we quit?).
* Correct when: one timer polls, with the delay of the settings; the icon does
  not claim a connection after a poll that failed; a refused quit can be
  overcome.

### Settings dialog and rules editor (`settingsDialog.c`, `rulesEditor.c`)

* State: the window (none, hidden, shown), its widgets, and whether a change is
  pending.
* Operations: activate, one callback per widget, Apply, Cancel, Close, the X of
  the window, and the question before quitting.
* Interacts with: the setting of the readers, the delay, the verbosity (at
  Apply); the live rules table (at once).
* Hard: a window is hidden with its pending change, or destroyed and built
  again; Cancel undoes nothing; three places decide whether the program quits.
* Correct when: a window with nothing pending shows what is in force, and what
  is pending has a window.

### Explorer (`explorer.c`)

* State: the window, the tree with a row per reader, a pointer to the tree.
* Operations: `buildExplorer` (fills the tree from the readers and their tags),
  `explorerAddReader` on `READER_DETECTED`, destroy.
* Interacts with: the readers' tag lists, which point into an array the poll
  frees two polls later.
* Correct when: an open explorer shows every connected reader, and what it reads
  has not been freed.

### The rest

The about box and the help window have no state of their own.
`scripts/generic` is run by the rules table; the init script `tagEventord`
calls `-d start` and `-d stop`.  `jpcsc/` is a third-party Java binding that the
C program does not use.

## 2. The modules and how they correspond to the code

| Module | Models | Kind |
|---|---|---|
| `TagEvents` | what the scripts are promised | abstract specification |
| `TagPoll` | `tagListCheck`, `processTagLists`, the tag cases of `eventDispatch` | component, implements `TagEvents` |
| `ReaderManager` | the reader library, driven by `tagListCheck`, signals and the settings dialog | component |
| `TagScan` | what a driver promises to the poll | abstract specification |
| `AcrDriver` | the ACR122U driver on one reader | component, implements `TagScan` |
| `DaemonControl` | the processes around the lock file | component |
| `Tray` | the timer, the icon, Quit | part |
| `CommandLine` | the settings and the options that set them; extends `Tray` | part |
| `SettingsDialog` | the dialog; extends `CommandLine` | part |
| `RulesTable` | the rules and the search through them | part |
| `RulesEditor` | the editor; extends `RulesTable` | part |
| `Explorer` | the tree, and what it shows of the readers; extends `CommandLine` | part |
| `Desktop` | the program in the tray: extends the five above, adds the poll and the user | composition |
| `TagPollProofs`, `ReaderManagerProofs`, `AcrDriverProofs`, `DaemonControlProofs`, `DesktopProofs` | | theorems |
| `TagPollMC`, `ReaderManagerMC`, `AcrDriverMC`, `DaemonControlMC`, `DesktopMC` | | model values and symmetry for TLC |

### TagEvents

`seen` is the set of tags of the last successful poll, `reported` the tags
whose last event was an IN.  `Observe` takes a new set once all events of the
last one were delivered; `Out` and `In` deliver one event, departures first.
`Lapse` is the end of the promise: once a read has failed anything may follow.
The module says nothing of arrays, readers or loops.

### TagPoll

One action per step of a poll, in the order of the code; `pc` says where
`tagListCheck` is, and `idle` is the sleep (or the GTK loop) between two polls.

* `ConnectFails`, `ConnectSucceeds`: lines 523-545 of `tagEventor.c`.  The
  context outlives an enumeration that failed.
* `StartRead`, `ReconnectFails`: `RotateLists` (lines 549-561) and the start of
  `readersGetTagList`, which with AUTO reconnects and may give up.
* `SkipReader`, `ReadTags`, `ReadFails`: one turn of its loop; `MergeLists`: the
  allocation of the common array, and the return value, which is that of the
  last reader read.
* `CarryOver`, `TagOut`, `EndOuts`: the first loop of `processTagLists`;
  `KnownTag`, `TagIn`, `EndPoll`: the second one and the callback.
* `Hangup`, `Terminate`: the signals.

`cur` and `prev` are the lists as sequences, `curPtr` and `prevPtr` the arrays,
`heap` the arrays that are allocated.  The text of UIDs is a model value; the
library appears through what it returns (which readers are connected, what a
driver reports, which call fails).  `free()` of something that `malloc` did not
return is undefined: in `TagOut` the process goes on or ends.

### ReaderManager

`ports` is pcscd's own table of readers, `lib` the table of the program.  A
library call is a function from a table to the set of its results, one for each
combination of failing `SCard` calls: `Enumerate`, `Connect`, `Disconnect`.  The
actions compose them the way the callers do: `ManagerConnect`, `FirstConnect`
and `BeginList` are `tagListCheck` up to the loop of `readersGetTagList`,
`SkipSlot`, `ReadSlot` and `ReadSlotFails` a turn of it, `EndRead` its end and
the allocation of the common list; `CopyTag`, `CopiedSlot` and `EndCopy` are the
second loop, which copies the tags and frees the temporary arrays, and
`CopyUnread` is that loop at a reader the first one has not read.
`Hangup` and `Terminate` are the signal handlers, `ChangeSetting` is
`applyChanges` of the settings dialog, `Quit` the end of `main`.  A handle is
the reader it leads to, or `Stale`; a name is the reader it denotes, or `Freed`
when it points into a list that was freed.  `temp` are the temporary arrays.

A library call is one step, except where a SIGHUP inside it matters:

* `readersGetTagList` is taken apart: a SIGHUP may come between any two readers,
  between the test of a driver (`TestSlot`, line 669) and its use (`ReadSlot`, 678,
  681), between the two loops, and between any two tags that are copied.  Both
  loops go by `nbReaders`, which the handler may have raised in between; the second
  then takes a reader whose `pTags[i]` has no value, and the process dies of it or
  goes on (`CopyUnread`).
* `HangupWhileFreed` is a SIGHUP while `readersEnumerate` has freed the old list of
  names and has no new one (line 309).

`pc = "crashed"` is the end in each case.  The outcome of a call is chosen for
each slot that fails now and then by itself.

### AcrDriver and TagScan

`TagScan` is one call of a driver: while it is busy tags move, and it returns a
failure or a list without repetition of tags that were there during the call.
This is what `TagPoll!Reports` takes a driver to be.

`AcrDriver` goes transmit by transmit.  `pc` is the call at work: `SCardConnect`,
`Firmware`, `Status`, `Retry`, `SamSerial`, `SamId`, `RatsOff` and `CheckFails`
are `acr122UReaderCheck`; `GetTagList`, `PollRound` and `PollFails` are
`acr122UGetTagList`; `DirectTransmit` is the first transmit of a contactless
APDU, and the action of the call itself the second.  `chip`, `field` and
`pending` are the reader (external): its settings, the tags on it, and the
answer it keeps between the two transmits, which `OtherApplication` may take or
replace.  `Replug` exchanges the reader.  The UIDs are values; `Unknown` stands
for the tags whose type the driver does not know.  `PollAnswers` keeps the
indices of the code: the answer is written at `numTags`, compared at `i`.

### DaemonControl

A process is a pid with a place in `daemonize` / `getLockOrDie`; every `-d stop`
is a process of its own.  A file and its name are apart, as for the kernel:
`remove()` acts on the name, `read()` and `write()` on the file opened before.
Pids of processes that ended are used again, also by other programs.  The init
script calls these commands; the file it removes has another name
(`tagEventor.lock`, not `tagEventord.lock`), so it does not enter the model.

No process waits for another: `StopRemoves` removes the name of the lock file
whether the process that was told to stop has handled its SIGTERM or not, since
its handler disconnects every reader first.  `lapses` is a history variable that
no action reads.  It names what went on beside one command after the other:

* `"overlap"`: a command was given while an earlier one was at work;
* `"slow"`: a `-d start` came after a `-d stop` had returned, but before what it
  told to stop had gone;
* `"unread"`: a `-d stop` found no pid in the lock file and took what was in its
  buffer for one;
* `"outside"`: somebody else sent a SIGTERM to a process without the lock.

Each of them alone is enough to leave two daemons.  The properties name the ones
they exclude.

### Desktop and its parts

One state machine: `Start` reads the options one at a time and starts the tray;
then the steps of a poll (`Poll`) and what the user does (`Click`) take turns,
as they do on the thread of GTK: a click comes between two polls only
(`PollIdle`).

* `CommandLine`: an action per kind of option, `OptionsEnd` for the end of
  `parseCommandLine` and the switch in `main`.  `appPollDelaySet` and
  `appVerbosityLevelSet` are the operations the dialog uses too.
* `Tray`: GTK's timers are a bag of delays, so that a second timer with the same
  delay counts.
* `SettingsDialog`, `RulesEditor`: one operator per callback.  A window is
  `"none"`, `"hidden"` or `"shown"`; `toggles`, the scales and `enableButtons`
  are the widgets.
* `RulesTable`: `BeginDispatch`, one step per rule (`RuleIsOff`,
  `ScriptMissing`, `ForkFails`, `ScriptStarted`), `DispatchReturns`.  Whether a
  file exists is known when `stat` is asked; one that is missing stays so for one
  event.  Any fork may fail, and the next one work; with `MaxChildren` children
  none works any more.  `unforked` records the rules of the event whose fork
  failed.
* `Explorer`: `hCard` and `tagsShown` are what it reads of the readers: whether
  a slot has a handle, and in which of the poll's arrays its tags lie.
* `Desktop`: the poll in the order of `tagListCheck`, reduced to what the
  windows can see: `PollWithoutPcscd`, `readersManagerConnect`, `FirstConnect`,
  `ListsRotate`, `Reconnect`, `ReadFails`, `ReadUnchanged`, `ReadChanged`,
  `DispatchStep`.  What the results of the calls depend on, and the signals, are
  in `TagPoll`, `ReaderManager` and `AcrDriver`.

## 3. What the runs check

| Run | Instance | Shows |
|---|---|---|
| `poll_one_reader` | 1 reader (AUTO), 3 tags, 2 per read, 2 failures | arrays are owned (`ArraysOwned`), scripts and list agree (`PresentMatchesList`, `CurrentIsReported`), events alternate (`OutFollowsIn`, `InFollowsOut`), polls return and report (`PollReturns`, `SeenTagIsReported`) |
| `poll_two_readers` | 2 readers chosen with `-n`, 2 tags, 2 failures | the invariants for several readers, and that `TagPoll` implements `TagEvents` |
| `poll_lost_out` | 1 reader, 1 failure | **violated**: a tag that leaves around a failed read never gets its OUT |
| `poll_detach` | 1 reader, no failure | **violated**: `TAG_OUT` frees what was not allocated and drops the hook |
| `reader_hotplug` | 1 reader, plugged and unplugged twice, 2 failing calls, late pcscd, 1 SIGHUP, 1 change of the setting | with AUTO the reader is always read again (`HotplugWorks`); a chosen reader is read as long as nothing disturbs it (`ChosenReadersWork`); no entry is left unfilled (`ListIsFilled`) |
| `reader_hangup` | 2 slots, 2 supported readers and an unsupported one, both modes, one each of plug, unplug, restart of pcscd, failing call, SIGHUP (between any two steps of a poll, and within readersEnumerate), change of the setting | no freed name is opened (`NoDanglingConnect`), handles match names while readers are only added (`HandleMatchesName`), the copy of the tags fits and reads live arrays as long as it stays with the readers that were read (`CopiesFit`, `CopiesAreBacked`), and nothing but a SIGHUP makes the loops use a driver, a name or an array that is not there (`OnlyHangupCrashes`) |
| `reader_reordered` | 2 readers, 1 plugged in later | **violated**: a reader that takes the first place is never read |
| `reader_uninitialised` | as `reader_hangup` | **violated**: after a SIGHUP between the two loops, the copy uses and frees an array of a reader that was not read (`FreesOnlyInitialised`) |
| `daemon_lock` | 3 pids, 3 starts, 2 stops, crashes, SIGTERM, a stale lock file | without a lapse one daemon holds the lock (`OnlyCopy`), and the file is its own unless it was told to stop (`LockIsOfHolder`), through starts that race, crashes, stale files and pids used again |
| `daemon_slow` | 2 pids, 3 starts, 2 stops, no crashes | **violated**: one `-d stop`, then one `-d start`, leave two daemons if the first needs more than a second to end (`OnlyCopyThoughSlow`) |
| `acr_driver` | 3 tags (plain, needing RATS off, of unknown type), 4 makes of reader, one each of exchange, failing transmit, other application | `AcrDriver` implements `TagScan` (`ImplementsTagScan`), a list holds what was fetched (`ListedAnswers`), the SAM flag is that of the reader (`SamIsReaders`), a call returns (`ReadReturns`) |
| `desktop` | 1 slot, 1 tag, up to 5 rules, 1 child, 1 option out of 8, 5 clicks | the timer, the windows, the icon, the rules and the explorer agree with each other (`OneTimer`, `SettingsInSync`, `EditorMatchesTable`, `PendingHasWindow`, `StartIsUsable`, `IconTellsFailure`, `ConnectedIsShown`, `ExplorerReadsLive`), the right script runs whenever fork fails (`RightScript`) |

### Bounds

* Two tags per reader is `maxTags` of the only driver.  Three tags let a poll
  replace one tag and keep another.  A comparison of two lists needs no more
  than the list before and the list now, and a poll starts from any pair of
  lists, so the number of polls is not bounded.
* Two failures (`MaxFailures`, `MaxFaults`) let a failure meet the consequences
  of an earlier one.  Two slots are enough for a list to shift and for one
  reader to be in the way of another; `NumSlots` stands for `MAX_NUM_READERS`,
  and pcscd has no more places than the table.
* `MaxPlugs`, `MaxUnplugs`, `MaxRestarts`, `MaxHangups` and `MaxSettings` bound
  how often the surroundings act; `MaxStarts` bounds `-d start`.  `MaxHooks`
  only saturates a counter.
* `ACR122U_MAX_NUM_TAGS = 2` is the value of the code; one exchanged reader, one
  failing transmit and one answer taken or replaced (`MaxReplugs`, `MaxGlitches`,
  `MaxOthers`) each may meet the two others.  Tags move without bound.
* `desktop` has five clicks (`MaxClicks`): open a window, change something,
  cancel, open it again, and a close or Quit that is refused.  One option
  (`MaxOptions`) per command line: each is below, in or above its range, and only
  `-n` depends on earlier ones, by a union.  One slot suffices for what a window
  shows of a reader: all slots are treated alike there, and the order of slots is
  what `ReaderManager` is about; the theorems of `DesktopProofs` hold for any
  number.  `MaxRules` leaves room for one rule besides the four that are built in,
  `MaxChildren = 1` lets fork work once and then never again, and before that it
  may fail for any rule; polls are not bounded.
* Three pids allow a daemon, one that races it, and a stranger; for `daemon_slow`
  the daemon that is told to stop and the next one are enough.  A `-d stop`
  may be repeated without bound.

`CHECK_DEADLOCK FALSE`: in `TagPoll` and `ReaderManager` the process ends with a
signal, in `DaemonControl` the bound on starts may be used up with nothing left
running, and in `Desktop` the program ends with an option or with Quit.

`reader_hangup` starts from a table of pcscd without gaps (`GapFreeSpec`), so
that "readers are only added" implies "their places do not change".
Symmetry is only used in runs without liveness.

### Fairness

`TagPoll!FairSpec` has weak fairness of `Step`, `ReaderManager!FairSpec` of
`Poll`.  The loop of `main` calls `tagListCheck` for ever, the GTK timer repeats
as long as the poll returns TRUE, and nothing inside a poll waits for another
part of the program.  No call is assumed to succeed: a failed read is also a
step of `Poll`, the failures are limited by the bounds, not by fairness.  For
the same reason no fairness is given to the machine: the liveness properties
say what follows *if* a reader stays plugged in and pcscd keeps running.
`AcrDriver!FairSpec` has weak fairness of `Driver`, the program's own steps: a
transmit returns, with or without an answer, except a poll of the reader without
SET_RETRY, which waits for a tag.  `DaemonControl` and `Desktop` have safety
properties only, and no fairness: nothing is assumed of the commands, the user or
the polls.
`TagPoll!FairSpec` asks nothing of the first connection, so its properties speak
of polls that have begun.

### Mutants

For each property of a passing run `PROJECT.json` names a plausible bug in a
modelled definition; the variants stand in the modules, each before the
definition it changes, marked "A variant with a bug".

## 4. What is proved

`TagPollProofs` proves for every number of readers and tags, every list and
every number of failures, from `CountsAssumption` (the counts are positive) and
`PointersAssumption` (NULL, the address of the literal and the heap blocks
differ):

* `TypeCorrect`: `Spec => []TypeOK`.
* `ArraysAreOwned`: no array leaks, none is freed twice.
* `PresentIsList`: until a read fails, scripts and list agree between polls.
* `ListIsReported`: with one reader, or until a read fails, what is listed has
  had its IN and carries its contents.
* `OutsFollowIns`: with one reader (an assumption of the theorem), an OUT
  follows an IN even when reads fail.
* `InsFollowOuts`: with one reader and until a read fails, an IN follows an OUT.
* `PollsImplementFeed`: `Spec => Feed!Spec`, so `TagPoll` implements
  `TagEvents`.
* `TwoArraysSuffice`: with two blocks in `Blocks` the merge always finds a free
  one, after any number of polls, so that the bound on `Blocks` hides nothing.
* `PollsMoveOn`: while a poll is under way every step makes the pair (`Phase`,
  `Left`) of natural numbers smaller.  This is the part of `PollReturns` that does
  not need fairness.
* `ReportsAreScans`: `Reports` is the set of lists that `TagScan` lets a call
  return.  With `DriverImplementsScan` below this joins the driver to the poll:
  what `AcrDriver` returns is what `TagPoll` takes its drivers to report.

None of the properties is inductive.  The strengthened invariants are:

* `ArraysInv`: ownership must also be known in the middle of a poll.  While the
  readers are read, `curPtr` is NULL although tags have been collected; from the
  merge on the list and its array go together.
* `PresentInv`: until a read fails, the scripts have been told of `Uids(cur)`
  between polls and of `Uids(prev)` while the readers are read.  In the first
  loop of `processTagLists` the tags of both lists are reported, and whatever is
  reported but no longer in `cur` still lies ahead in `prev`.  In the second
  everything reported is in `cur`, and the part already passed is reported.
* `ContentsInv`: in the first loop the entries of `prev` still ahead carry their
  contents, and the entries of `cur` that match a passed one have received them;
  in the second, so have all known or passed entries of `cur`.  With one reader
  it must also say that a failed poll leaves `cur` empty.
* `AlternationInv`: with one reader no list names a tag twice, and what is still
  ahead in `prev` has had its IN and no OUT since, failures or not.
* `KnownInv`: until a read fails, what is reported is in `prev`, or is an entry
  that the second loop has passed.  `PresentInv` only says that all of these are
  reported; that nothing else is makes the IN of the next entry a new one.

Each is shown to hold initially and to be preserved by every action, one proof
step per action; the theorem then combines the steps with `PTL`.  The lemmas on
lists (`SetData` keeps length and UIDs, a fresh list has the UIDs of the report)
are stated once and cited.

`ReaderManagerProofs` proves every invariant of the runs `reader_hangup` and
`reader_hotplug`, for any readers, slots, tags per reader and bounds, from
`ReadersAssumption` (NULL, `Freed` and `Stale` are different and no readers),
`SettingAssumption` and `BoundsAssumption` (the counts are counts):
`ManagerTypeCorrect`, `OnlySighupCrashes`, `NoFreedNameOpened`,
`HandlesMatchNames`, `CopiesAlwaysFit`, `CopiesAlwaysBacked` and
`ListAlwaysFilled`.  `HandlesMatchNames` starts, like its run, from a table of
pcscd without gaps (`NoGap`).

A library call has a set of results, one for each combination of calls that
fail.  What the invariants need of them is one relation between the table before
and after, `Leads(l, t)`: of the tags a call only forgets some; names only change
to others if the readers are enumerated; and a table whose slots are named after
the places of pcscd still is.  It is shown for each call (`ConnectLeads`,
`DisconnectLeads`, `HangupLeads`, `LeavingLeads`), and `MachineFrame` and
`PollFrame` say what pcscd and a poll leave alone.  The inductive invariants:

* `TypeInv`: the tags counted so far are at most `MaxTags` for each slot that is
  behind.  The type of `total` alone does not give that, because a SIGHUP may
  change the table under the loop.
* `CrashInv`: the driver that was tested is there when it is used, and the table is
  no longer than what was read when the tags are copied, unless there was a SIGHUP.
* `NamesInv`: before the first connection the table is empty; after it, no list of
  names is freed without AUTO while the setting stays.
* `PlaceInv`: while nothing is unplugged, the occupied places of pcscd have no
  gap, slot i is named after place i, and a handle that works is that of place i.
  It must also hold of handles that no longer work, and of slots beyond the number
  of readers, or the next enumeration would not find it.  That the i-th reader
  listed is that of place i (`ListingByPlace`) is shown by counting the occupied
  places before it.
* `CountInv`: the tags held by the slots that are behind are at most the tags
  counted, and each such slot has its array.  In the copy the same is said of
  what is copied already and of the tags that are left (`ToCopy`), as long as the
  copy is at a slot that was read.  It is no equality, since a SIGHUP forgets tags
  that were counted; `Held` is the set of them, and `HeldGrows` and `HeldShrinks`
  are the two steps of the count.
* `FilledInv`: if a SIGHUP only comes between two polls (`HangupInPoll` is FALSE),
  the count is exact and neither loop has passed the number of readers.

`CopiesAlwaysFit` and `CopiesAlwaysBacked` hold for every SIGHUP between, before
or during the copies, but only for the readers that were read: that the copy may
go on to others is what `reader_uninitialised` shows.

`DesktopProofs` proves every invariant of the run `desktop`, for any number of
readers, options, tags, rules, children and clicks, from `LimitsAssumption` (the
limits are ordered, the least delay is not 0), `OptionsAssumption` (atoi gives an
integer), `RulesAssumption` (no tag is called "generic", there is room for the
four rules built in) and `ClicksAssumption`: `DesktopTypeCorrect`,
`DialogInSync`, `ExactlyOneTimer`, `PendingChangesReachable`, `AlwaysUsable`,
`EditorShowsTable`, `LastCandidateRuns`,
`ConnectedAlwaysShown`, `IconShowsFailure` and `ShownTagsLive`.  They follow from
one inductive invariant, `DesktopInv` (theorem `DesktopInvariant`), in five parts:

* `SettingsInv`: in the tray the tray's own record of its timer (`timeoutID`,
  `pollFunction`) agrees with the one timer there is, and before it there is
  none; without that record, Apply could not be shown to remove the right timer.
  A dialog that does not exist has nothing pending.
* `EditorInv`: the buttons are the `enabled` fields of the table, as sequences;
  three lemmas on sequences say that switching or adding a rule does the same to
  both.
* `SearchInv`: while an event is dispatched every candidate (on, its script not
  missing, its fork not failed) lies at or below the rule that is looked at, and
  the rules whose fork failed lie above it; the rule that was started is the last
  candidate.
* `ReadersInv`: a slot with a handle is below `nbReaders` and, with an open
  explorer, in the tree; a slot without a handle shows no tags; a slot with one
  shows them in a list whose age is bounded by `missed`, the polls that gave up
  (`ShownOK`).  While the readers are read the lists have been rotated, so that
  "current" is not possible then.  A program without context has no readers and
  is between two polls.
* `IconInv`: after a poll that failed the icon is off, also while the next poll
  is under way.

A poll leaves the windows alone and a click leaves the lists alone (`PollFrame`,
`ReadersFrame`, `EditorFrame`, `SearchFrame`, `SettingsFrame`), so each part is
preserved by the steps that touch it and framed for the others.

`AcrDriverProofs` proves every safety property of the run of the driver, for any
tags, failures and steps of the environment, from `DriverAssumption` (the answers
that are not tags are no tags, there is at least one round and the counts are
natural): `DriverTypeCorrect`, `SamIsKnown`, and, with at most the two rounds the
code has (an assumption of the theorems), `ListHoldsAnswers` and
`DriverImplementsScan`, that is `Spec => ImplementsTagScan`.  Two theorems are the
reasons why a call returns, without the fairness: `RoundsAreAnswered` (a reader
that is polled always has an answer, a tag or "no tag") and `CallsMoveOn` (every
step of the driver leaves fewer transmits of the call, no other step adds any).
Two rounds matter:
a round compares a tag with the list from the place of the round, so a third one
could list the first tag again (section 5).  The inductive invariants:

* `RoundInv`: in a call, no more is listed than rounds are over, and what is
  listed are tags; hence the list never outgrows its array.
* `CallsInv` and `SamInv`: the flag is off until the questions to the SAM are
  over, and only the end of a check gives the reader a driver.  From the reading
  of the status on, what the ATR said is true of the reader for as long as the
  handle is good, which is why a reader that takes the place of another does
  not inherit its SAM.
* `ListInv`: in a call, what is listed is what was answered, what was answered or
  waits in the reader was there during the call, and no place of the list repeats
  another.
* `RetryInv`: once a check has got through SET_RETRY, the chip has it for as long
  as the handle is good.  A reader gets its driver only then, and an exchanged
  reader, whose chip starts afresh, makes the handle stale.

`DaemonControlProofs` proves, for any pids, starts and stops, from
`PidsAssumption` (EMPTY is no pid) and `StartsAssumption`: `DaemonTypeCorrect`,
`OnlyOneCopy` and `HolderHasLock`.  Both speak of use without a lapse: each
`-d stop` is alone and finds a pid, the next `-d start` comes when what was told to
stop is gone, and SIGTERMs from outside go to the daemon with the lock.  Starts may
race, daemons may crash anywhere and leave their files, and their pids may be used
again.  `daemon_slow` shows that the second condition is needed.  Neither property
is inductive:

* `FilesInv`: each process that got the lock has an open file of its own, which
  says what that process wrote and nothing else; a `-d stop` has a file to read,
  and later a pid.
* `ExclusionInv`: the file of the one holder has the name, until a `-d stop` has
  removed it, and then the holder has its SIGTERM.  One `-d stop` is at work at a
  time and no start beside it, so the pid it reads is that of the holder, if there
  is one.  While a process is `Leaving` (its SIGTERM is on its way, and the name is
  not that of its own file) nobody else has the lock or is on the way to it, so
  that its handler can remove nobody else's file.

With these, every invariant, every action property and both refinements that the
passing runs check are theorems.  Only model-checked are the liveness properties
(`PollReturns`, `SeenTagIsReported`, `HotplugWorks`, `ChosenReadersWork`,
`ReadReturns`): liveness under fairness, `ENABLED`, induction
over data and `RECURSIVE` operators are outside of what the installed provers do.
The runs that end with a violation have nothing to prove.  The modules have no
recursive operator; loops are actions or folds, and what counts tags is the
cardinality of a set rather than a sum, so that it can be reasoned about.

## 5. Disagreements with the documentation and other observations

Each has a run that ends with a violation, and an entry under `findings`:

* `tagEventor.c:557`: `previousTagList` is replaced before it is known whether
  the read succeeds; an OUT is lost, or an IN is repeated
  (`scripts/generic:12` promises both).
* `tagEventor.c:284`: `tagDetachData` frees a string literal and loses the
  `extensionHook` (`tagEventor.c:363` says the data "was allocated").
* `tagReader.c:344`: hotplugging does not survive a change of pcscd's order
  (`tagEventor.c:514-518` promises it).
* `tagReader.c:704`: both loops of `readersGetTagList` go by `nbReaders`, which a
  SIGHUP may raise in between; the copy then reads from and frees a pointer that
  was never set (`tagReader.c:663-664` says that it is).
* `daemonControl.c:86`: `-d stop` removes the lock file after a second, whether the
  daemon has gone or not; the next `-d start` runs beside it
  (`daemonControl.c:93` wants one running copy).

Seen while modelling and not given a run of their own:

* `tagEventor.c:624`: a started daemon never polls.  `daemonize` returns to the
  switch of `main`, which disconnects and returns, and the lock file stays
  (`DaemonControl!Returns`).
* `tagEventor.c:523`: `hContext` is never released after pcscd has died, so no poll
  connects again, although lines 517-518 promise it; with `MaxRestarts = 1` in
  `ReaderManagerHotplug.cfg`, `HotplugWorks` is violated.
* `daemonControl.c:60`: a `read()` of nothing is no error there, so a `-d stop` that
  finds the lock file without a pid parses a buffer nobody filled, signals what
  it makes of it, and removes the lock file of the daemon (the lapse `"unread"`).
* A tag seen by two readers at once gets one IN and one OUT from each.
  `TagEvents` speaks of the set that is reported, where the second event of a
  pair is no change.
* With two readers, when the last one fails, tags of the other get an OUT later
  without ever having had an IN.
* Without AUTO, a reader plugged in late is never connected, and one that was
  reset after a failure cannot be opened again, its name being gone.
* A broken or unsupported reader keeps those in later slots from being
  connected, because `readersConnect` returns at once.
* The temporary arrays are not freed by a poll that finds no tag at all.
* When the last reader goes, the slots keep their handles and names.
* AUTO, a half failed enumeration, then a setting without AUTO and a SIGHUP:
  `readersConnect` opens a freed name (the reason for the first conjuncts of
  `NoDanglingConnect`).
* A SIGHUP within a poll leaves entries of the tag list unfilled (the reason for
  the condition of `ListIsFilled`).
* `-n AUTO` sets slot 0: `tagEventor.c:169` compares the result of `strcmp` with
  a length.
* `-d stop` may remove the lock file of a daemon that started in the meantime
  (`"overlap"`), and a process refused the lock removes it on SIGTERM
  (`"outside"`, or `"slow"` when it has the pid of a stale lock file).
* The tray icon stays "not connected" after connecting to an empty reader.
* Quit uninitialises libnotify before it asks the dialogs; after a refused quit
  the program goes on without notifications (`systemTray.c:117`).
* Apply with all toggles off leaves the program without any reader to look for.
* The number toggles are insensitive whenever the dialog is opened: line 286 of
  `settingsDialog.c` tests the constant bit instead of the setting.
* Cancelling the settings dialog or the rules editor leaves its change pending,
  and quitting from the tray is refused until the change is applied.
* `rulesEditor.c:463` says rules are tried from top to bottom, and shows the
  table from its start; the table is searched from its end.
* A rule that is added is in the table at once and is not a pending change; a
  chosen folder or match is a pending change and changes nothing.
* No child is waited for: a zombie per event.
* The explorer's pointer to the tree outlives the window; a reader that connects
  after it was closed is written into freed memory (`Explorer!crashed`).  A
  reader gets a row for its detection and one for its driver, and a row
  "Connected" even if its check fails afterwards.  Tags are read from a freed
  array after two polls in a row that gave up before reading, or for a reader
  that vanished with all others (the conditions of `ExplorerReadsLive`).
* The driver ignores the results of `SCardStatus` and of RATS off, and takes an
  SW2 of 0 for "no tag".  A reader that no driver supports keeps its
  handle and is never looked at again.  A reader that is exchanged under its
  handle is not checked until a transmit fails.
* With `ACR122U_MAX_NUM_TAGS = 3` a tag could be listed twice, since the
  comparison starts at the place of the round; with the 2 of the code it cannot.
* The buffer for the hex text of a tag is one byte short (`tagEventor.c:305`).

## 6. What is not modelled

* The order of statements inside a library call other than `readersGetTagList`, but
  for the list of names that is freed before there is a new one
  (`HangupWhileFreed`).  A signal within `malloc`, `free` or an `SCard` call, whose
  handler calls the same functions, may do anything; no model says what.
* How many handles pcscd keeps for this process, and memory leaked after the
  copy: the program has no record of them.
* What lies behind `readers[]` when pcscd lists more readers than
  `MAX_NUM_READERS`, behind `tagMessage`, and behind the buffer of the firmware
  answer (`acr122UDriver.c:469`).
* Another application that turns SET_RETRY off again in a shared reader: nothing
  in the code could notice.
* Text: messages, their buffers and their lengths; UIDs are values.
* `fcntl` locking: it is reached only on a file just created, where it cannot
  fail.
* The bubbles, menus, pictures and columns of the windows; the about box and the
  help window, which have no state of their own.
* `readerGetContactlessStatus` and `acr122UGetContactlessStatus`, which nobody
  calls; the event `READER_LOST`, which nobody dispatches.
* The scripts, the init script (it calls `-d start` and `-d stop`), and `jpcsc/`,
  a third-party Java binding the C program does not use.

## 7. Plan

Done, in this order: `TagEvents`, `TagPoll` with its proofs, `ReaderManager`,
`DaemonControl`, `TagScan` and `AcrDriver`, the parts of `Desktop` with their
proofs, SIGHUP inside two library calls, the proofs about `AcrDriver`,
`DaemonControl` and `ReaderManager`, that polls and calls of the driver take
finitely many steps, the copy loop of `readersGetTagList` step by step (so that a
SIGHUP may come anywhere in it), what a daemon slower than its stop does to the
lock, and forks that fail for any reason.

What is left is to prove more of what stands behind the liveness properties, as
`PollsMoveOn` and `CallsMoveOn` do: that a poll of `ReaderManager` takes finitely
many steps, whatever a SIGHUP makes of the table (`HotplugWorks`), and that a
reader chosen by number keeps its name as long as nothing disturbs it (the safety
behind `ChosenReadersWork`).
