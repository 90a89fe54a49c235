--------------------------- MODULE ReaderManager ---------------------------
(***************************************************************************)
(* The reader library as tagListCheck drives it: the context with pcscd,   *)
(* the table readers[] that readersEnumerate fills by position, the        *)
(* handles and drivers readersConnect puts in it, and the reading of every *)
(* reader by readersGetTagList.                                            *)
(*                                                                         *)
(* pcscd, its daemon process and the readers plugged into the machine are  *)
(* external: ports below is pcscd's own table, in which a reader takes the *)
(* first free place, and SCardListReaders lists it in order.               *)
(*                                                                         *)
(* A library call is one step, with any outcome of each SCard call it      *)
(* makes; readersGetTagList is two steps per reader it reads and one per   *)
(* tag it copies, between which a SIGHUP may run its handler.              *)
(***************************************************************************)
EXTENDS Integers, FiniteSets

CONSTANTS
    Readers,        \* the physical readers
    Supported,      \* those the driver accepts
    Broken,         \* those whose readerCheck fails every time
    NumSlots,       \* MAX_NUM_READERS
    Modes,          \* the values READER_BIT_AUTO may take
    MaxTags,        \* maxTags of the driver
    HangupInPoll,   \* SIGHUP may also arrive while the readers are read
    NULL,
    Stale,          \* a handle pcscd no longer knows
    Freed,          \* a name that points into a freed mszReaders
    MaxPlugs, MaxUnplugs, MaxRestarts,  \* bounds on what the machine does
    MaxFaults,      \* bound on calls that fail for a plugged reader
    MaxHangups,     \* bound on SIGHUP
    MaxSettings     \* bound on changes of the setting while it runs

Slots == 0..(NumSlots - 1)

ASSUME ReadersAssumption ==
    /\ Supported \subseteq Readers /\ Broken \subseteq Supported
    /\ {NULL, Stale, Freed} \intersect Readers = {}
    /\ Cardinality({NULL, Stale, Freed}) = 3

ASSUME SettingAssumption ==
    /\ NumSlots \in Nat \ {0} /\ MaxTags \in Nat \ {0}
    /\ Modes \subseteq BOOLEAN /\ HangupInPoll \in BOOLEAN

ASSUME BoundsAssumption ==
    /\ MaxPlugs \in Nat /\ MaxUnplugs \in Nat /\ MaxRestarts \in Nat
    /\ MaxFaults \in Nat /\ MaxHangups \in Nat /\ MaxSettings \in Nat

VARIABLES
    up,         \* pcscd is running
    ports,      \* pcscd's table of readers
    ctx,        \* hContext: "none", "live" or "stale"
    setting,    \* readerSetting: AUTO, and the slots chosen by number
    lib,        \* nbReaders and readers[]: name, card, driver, tags per slot
    pc,         \* where tagListCheck is; "idle" is the sleep between polls
    slot,       \* the reader the first loop of readersGetTagList is at: pTags[i]
                \* has been given a value for every i below
    rv,         \* its return value so far
    total,      \* pManager->tagList.numTags
    temp,       \* the slots whose temporary array pTags[i] is allocated
    copySlot,   \* the reader i the second loop is at, and
    copyTag,    \* its tag j
    copied,     \* uniqueListIndex: the tags copied to the list so far
    used        \* how much of each bound has been used

machine == <<up, ports, ctx>>
world == <<machine, setting>>
copying == <<copySlot, copyTag, copied>>
poll == <<pc, slot, rv, total, temp, copying>>
vars == <<world, lib, poll, used>>

Kinds == {"plug", "unplug", "restart", "fault", "hangup", "setting"}
Bound ==
    [plug |-> MaxPlugs, unplug |-> MaxUnplugs, restart |-> MaxRestarts,
     fault |-> MaxFaults, hangup |-> MaxHangups,
     setting |-> MaxSettings]

Spend(kind, n) ==
    /\ used[kind] + n <= Bound[kind]
    /\ used' = [used EXCEPT ![kind] = @ + n]

Settings == [auto : Modes, nums : SUBSET Slots]

\* What the command line leaves: the readers given with -n, or AUTO.
StartSettings ==
    {s \in Settings : s.auto <=> s.nums = {}}

Lib ==
    [nb : 0..NumSlots,
     name : [Slots -> Readers \union {NULL, Freed}],
     card : [Slots -> Readers \union {NULL, Stale}],
     driver : [Slots -> BOOLEAN],
     tags : [Slots -> 0..MaxTags]]

TypeOK ==
    /\ up \in BOOLEAN
    /\ ports \in [Slots -> Readers \union {NULL}]
    /\ ctx \in {"none", "live", "stale"}
    /\ setting \in Settings
    /\ lib \in Lib
    /\ pc \in {"idle", "connect", "list", "read", "driver", "copy", "done",
              "crashed"}
    /\ slot \in 0..NumSlots
    /\ rv \in {"ok", "fail"}
    /\ total \in 0..(NumSlots * MaxTags)
    /\ temp \subseteq Slots
    /\ copySlot \in 0..NumSlots /\ copyTag \in 0..MaxTags
    /\ copied \in 0..(NumSlots * MaxTags)
    /\ used \in [Kinds -> Nat]
    /\ \A k \in Kinds : used[k] <= Bound[k]

-----------------------------------------------------------------------------
(* pcscd.                                                                  *)

Plugged(r) == \E p \in Slots : ports[p] = r

\* What SCardListReaders returns: the readers in the order of their places,
\* the first of them at 0.
Occupied == {p \in Slots : ports[p] # NULL}
Before(p) == {q \in Occupied : q < p}
Listing ==
    [i \in 0..(Cardinality(Occupied) - 1) |->
        ports[CHOOSE p \in Occupied : Cardinality(Before(p)) = i]]

\* A reader pcscd can reach through the context of this process.
Reachable(r) == up /\ ctx = "live" /\ r \in Readers /\ Plugged(r)

\* Handles to the readers in R no longer work.
Invalidate(l, R) ==
    [l EXCEPT !.card =
        [i \in Slots |-> IF l.card[i] \in R THEN Stale ELSE l.card[i]]]

PlugIn(r) ==
    /\ ~Plugged(r)
    /\ Spend("plug", 1)
    /\ \E p \in Slots :
          /\ ports[p] = NULL
          /\ \A q \in Slots : q < p => ports[q] # NULL
          /\ ports' = [ports EXCEPT ![p] = r]
    /\ UNCHANGED <<up, ctx, setting, lib, poll>>

Unplug(r) ==
    /\ Plugged(r)
    /\ Spend("unplug", 1)
    /\ ports' = [p \in Slots |-> IF ports[p] = r THEN NULL ELSE ports[p]]
    /\ lib' = Invalidate(lib, {r})
    /\ UNCHANGED <<up, ctx, setting, poll>>

StartDaemon ==
    /\ ~up
    /\ up' = TRUE
    /\ UNCHANGED <<ports, ctx, setting, lib, poll, used>>

\* The daemon dies: the context and every handle die with it.
KillDaemon ==
    /\ up
    /\ Spend("restart", 1)
    /\ up' = FALSE
    /\ ctx' = IF ctx = "live" THEN "stale" ELSE ctx
    /\ lib' = Invalidate(lib, Readers)
    /\ UNCHANGED <<ports, setting, poll>>

Machine ==
    \/ \E r \in Readers : PlugIn(r) \/ Unplug(r)
    \/ StartDaemon
    \/ KillDaemon

-----------------------------------------------------------------------------
(* The library, as functions of the table.  A result is a return value, a  *)
(* table and how many of the calls failed without the machine's fault.     *)

Result(r, l, f) == [rv |-> r, lib |-> l, faults |-> f]

\* RESET_READER on the slots in I: the handle is forgotten, not closed.
Reset(l, I) ==
    [l EXCEPT !.name = [i \in Slots |-> IF i \in I THEN NULL ELSE @[i]],
              !.card = [i \in Slots |-> IF i \in I THEN NULL ELSE @[i]],
              !.driver = [i \in Slots |-> IF i \in I THEN FALSE ELSE @[i]],
              !.tags = [i \in Slots |-> IF i \in I THEN 0 ELSE @[i]]]

\* mszReaders has been freed under the names that still point into it.
FreeNames(l) ==
    [l EXCEPT !.name =
        [i \in Slots |-> IF @[i] = NULL THEN NULL ELSE Freed]]

\* A variant with a bug: the names are given out from the end of the list.
Fill_Reversed(l) ==
    LET n == Cardinality(Occupied)
        kept == Reset(FreeNames(l), {i \in Slots : n <= i /\ i < l.nb})
    IN  [kept EXCEPT !.nb = n,
                     !.name = [i \in Slots |-> IF i < n THEN Listing[n - 1 - i]
                                               ELSE @[i]]]

\* The names are given out by position; the slots past the end of a list
\* that got shorter are reset, all others keep their handle.
Fill(l) ==
    LET n == Cardinality(Occupied)
        kept == Reset(FreeNames(l), {i \in Slots : n <= i /\ i < l.nb})
    IN  [kept EXCEPT !.nb = n,
                     !.name = [i \in Slots |-> IF i < n THEN Listing[i]
                                               ELSE @[i]]]

\* readersEnumerate.  Without readers the count is zeroed and the table is
\* left as it was; a failure of the second SCardListReaders comes after the
\* old mszReaders was freed.
Enumerate(l) ==
    IF ~up \/ ctx # "live" THEN {Result("fail", l, 0)}
    ELSE IF Occupied = {}
         THEN {Result("fail", [FreeNames(l) EXCEPT !.nb = 0], 0)}
         ELSE {Result("ok", Fill(l), 0),
               Result("fail", l, 1), Result("fail", FreeNames(l), 1)}

Wanted(i) == setting.auto \/ i \in setting.nums

\* The slots readersConnect tries, and what comes of each: a flaky slot is
\* refused by pcscd or fails in readerCheck although its reader is there.
Candidates(l) == {i \in Slots : i < l.nb /\ l.card[i] = NULL /\ Wanted(i)}

Outcome(l, i, flaky) ==
    IF ~Reachable(l.name[i]) THEN "refused"
    ELSE IF i \in DOMAIN flaky THEN flaky[i]
    ELSE IF l.name[i] \in Broken THEN "checkFails"
    ELSE IF l.name[i] \notin Supported THEN "unsupported"
    ELSE "ok"

\* The loop of readersConnect.  It returns at the first reader whose check
\* fails or that no driver supports; the handle of the latter is kept.
ConnectSlots(l, flaky) ==
    LET out(i) == Outcome(l, i, flaky)
        stop(i) == i \in Candidates(l) /\ out(i) \in {"checkFails", "unsupported"}
        tried == {i \in Candidates(l) : \A j \in Slots : j < i => ~stop(j)}
        opened == {i \in tried : out(i) \in {"ok", "unsupported"}}
        closed == Reset(l, tried \ opened)
    IN  Result(IF l.nb = 0 \/ \E i \in tried : stop(i) THEN "fail" ELSE "ok",
               [closed EXCEPT
                  !.card = [i \in Slots |-> IF i \in opened THEN l.name[i]
                                            ELSE @[i]],
                  !.driver = [i \in Slots |-> IF i \in opened THEN out(i) = "ok"
                                              ELSE @[i]]],
               Cardinality(DOMAIN flaky))

ConnectTable(l) ==
    {ConnectSlots(l, flaky) :
        flaky \in UNION {[F -> {"refused", "checkFails"}] :
            F \in SUBSET {i \in Candidates(l) : Reachable(l.name[i])}}}

\* A variant with a bug: the result of the enumeration is not looked at.
TablesTried_Unchecked(l) ==
    IF setting.auto THEN {e.lib : e \in Enumerate(l)} ELSE {l}

\* A variant with a bug: the readers are not enumerated again.
TablesTried_Once(l) == {l}

\* readersConnect: with AUTO it enumerates first and gives up if that fails,
\* otherwise it tries the table as it is.
TablesTried(l) ==
    IF setting.auto THEN {e.lib : e \in {e \in Enumerate(l) : e.rv = "ok"}} ELSE {l}

Connect(l) ==
    (UNION {ConnectTable(t) : t \in TablesTried(l)})
    \union (IF setting.auto THEN {e \in Enumerate(l) : e.rv = "fail"} ELSE {})

\* readersDisconnect: with AUTO it enumerates first, and if that fails it
\* leaves every reader connected.
Disconnect(l) ==
    LET CloseAll(t) == Reset(t, {i \in Slots : i < t.nb /\ t.card[i] # NULL})
    IN  IF ctx = "none" THEN {Result("fail", l, 0)}
        ELSE IF ~setting.auto THEN {Result("ok", CloseAll(l), 0)}
        ELSE {IF e.rv = "fail" THEN e ELSE Result("ok", CloseAll(e.lib), 0)
                : e \in Enumerate(l)}

-----------------------------------------------------------------------------
(* tagListCheck.                                                           *)

Init ==
    /\ up \in BOOLEAN
    /\ ports \in {p \in [Slots -> Readers \union {NULL}] :
                    \A i, j \in Slots : p[i] = p[j] /\ p[i] # NULL => i = j}
    /\ ctx = "none"
    /\ setting \in StartSettings
    /\ lib = [nb |-> 0,
              name |-> [i \in Slots |-> NULL],
              card |-> [i \in Slots |-> NULL],
              driver |-> [i \in Slots |-> FALSE],
              tags |-> [i \in Slots |-> 0]]
    /\ pc = "idle" /\ slot = 0 /\ rv = "ok" /\ total = 0 /\ temp = {}
    /\ copySlot = 0 /\ copyTag = 0 /\ copied = 0
    /\ used = [k \in Kinds |-> 0]

\* readersManagerConnect: the context is kept even if no reader is found.
ManagerConnect ==
    /\ pc = "idle" /\ ctx = "none"
    /\ up
    /\ ctx' = "live"
    /\ \E e \in IF Occupied = {}
                THEN {Result("fail", lib, 0)}
                ELSE {Result("ok", Fill(lib), 0), Result("fail", lib, 1)} :
          /\ lib' = e.lib
          /\ Spend("fault", e.faults)
          /\ pc' = IF e.rv = "ok" THEN "connect" ELSE "idle"
    /\ UNCHANGED <<up, ports, setting, slot, rv, total, temp, copying>>

\* A variant with a bug: the readers are looked for but not connected.
FirstConnect_Skipped ==
    /\ pc = "connect"
    /\ pc' = "list"
    /\ UNCHANGED <<world, lib, slot, rv, total, temp, copying, used>>

\* The readersConnect of the first poll, whose result is not used.
FirstConnect ==
    /\ pc = "connect"
    /\ \E c \in Connect(lib) : lib' = c.lib /\ Spend("fault", c.faults)
    /\ pc' = "list"
    /\ UNCHANGED <<world, slot, rv, total, temp, copying>>

\* A variant with a bug: the total is not reset before the readers are read.
BeginList_KeepsTotal ==
    /\ pc = "list" \/ (pc = "idle" /\ ctx # "none")
    /\ \E c \in IF setting.auto THEN Connect(lib) ELSE {Result("ok", lib, 0)} :
          /\ lib' = c.lib
          /\ Spend("fault", c.faults)
          /\ rv' = c.rv
          /\ pc' = IF c.rv = "ok" THEN "read" ELSE "idle"
    /\ slot' = 0 /\ temp' = {}
    /\ UNCHANGED <<world, total, copying>>

\* readersGetTagList up to its loop; with AUTO a failed readersConnect ends
\* the poll here.
BeginList ==
    /\ pc = "list" \/ (pc = "idle" /\ ctx # "none")
    /\ \E c \in IF setting.auto THEN Connect(lib) ELSE {Result("ok", lib, 0)} :
          /\ lib' = c.lib
          /\ Spend("fault", c.faults)
          /\ rv' = c.rv
          /\ pc' = IF c.rv = "ok" THEN "read" ELSE "idle"
    /\ slot' = 0 /\ total' = 0 /\ temp' = {}
    /\ UNCHANGED <<world, copying>>

AtSlot == pc = "read" /\ slot < lib.nb

\* A variant with a bug: the driver is not looked at.
ToBeRead_AnyDriver(i) == lib.card[i] # NULL /\ Wanted(i)

ToBeRead(i) == lib.card[i] # NULL /\ lib.driver[i] /\ Wanted(i)

\* A variant with a bug: a reader that is not read keeps its old count.
SkipSlot_KeepsCount ==
    /\ AtSlot /\ ~ToBeRead(slot)
    /\ slot' = slot + 1
    /\ UNCHANGED <<world, lib, pc, rv, total, temp, copying, used>>

SkipSlot ==
    /\ AtSlot /\ ~ToBeRead(slot)
    /\ lib' = [lib EXCEPT !.tags[slot] = 0]
    /\ slot' = slot + 1
    /\ UNCHANGED <<world, pc, rv, total, temp, copying, used>>

\* The test has found a driver; what it found may change before it is used.
TestSlot ==
    /\ AtSlot /\ ToBeRead(slot)
    /\ lib' = [lib EXCEPT !.tags[slot] = 0]
    /\ pc' = "driver"
    /\ UNCHANGED <<world, slot, rv, total, temp, copying, used>>

AtDriver == pc = "driver" /\ lib.driver[slot]

\* A SIGHUP has reset the reader since: maxTags or getTagList of a driver that
\* is NULL.
NoDriver ==
    /\ pc = "driver" /\ ~lib.driver[slot]
    /\ pc' = "crashed"
    /\ UNCHANGED <<world, lib, slot, rv, total, temp, copying, used>>

\* A variant with a bug: the tags are counted once, not per reader.
ReadSlot_Overwrites ==
    /\ AtDriver
    /\ Reachable(lib.card[slot])
    /\ \E n \in 0..MaxTags : lib' = [lib EXCEPT !.tags[slot] = n] /\ total' = n
    /\ rv' = "ok"
    /\ temp' = temp \union {slot}
    /\ slot' = slot + 1 /\ pc' = "read"
    /\ UNCHANGED <<world, copying, used>>

ReadSlot ==
    /\ AtDriver
    /\ Reachable(lib.card[slot])
    /\ \E n \in 0..MaxTags :
          lib' = [lib EXCEPT !.tags[slot] = n] /\ total' = total + n
    /\ rv' = "ok"
    /\ temp' = temp \union {slot}
    /\ slot' = slot + 1 /\ pc' = "read"
    /\ UNCHANGED <<world, copying, used>>

\* The driver fails: the array is freed and the reader reset.
ReadSlotFails ==
    /\ AtDriver
    /\ Spend("fault", IF Reachable(lib.card[slot]) THEN 1 ELSE 0)
    /\ lib' = Reset(lib, {slot})
    /\ rv' = "fail"
    /\ slot' = slot + 1 /\ pc' = "read"
    /\ UNCHANGED <<world, total, temp, copying>>

\* The end of the first loop and, if any tag was counted, the allocation of the
\* list.  Without tags the temporary arrays are forgotten.
EndRead ==
    /\ pc = "read" /\ slot >= lib.nb
    /\ pc' = IF total > 0 THEN "copy" ELSE "idle"
    /\ UNCHANGED <<world, lib, slot, rv, total, temp, copying, used>>

\* The second loop goes by the number of readers there are by now.
AtCopy == pc = "copy" /\ copySlot < lib.nb

CopyTag ==
    /\ AtCopy /\ copySlot < slot
    /\ copyTag < lib.tags[copySlot]
    /\ copyTag' = copyTag + 1
    /\ copied' = copied + 1
    /\ UNCHANGED <<world, lib, pc, slot, rv, total, temp, copySlot, used>>

\* The temporary array is freed, if there is one.
CopiedSlot ==
    /\ AtCopy /\ copySlot < slot
    /\ copyTag >= lib.tags[copySlot]
    /\ temp' = temp \ {copySlot}
    /\ copySlot' = copySlot + 1 /\ copyTag' = 0
    /\ UNCHANGED <<world, lib, pc, slot, rv, total, copied, used>>

\* A SIGHUP has made the table longer since the first loop ended: pTags[i] has
\* no value, is read from if the reader has tags, and is freed.  The process
\* dies of it, or is lucky and goes on.
CopyUnread ==
    /\ AtCopy /\ copySlot >= slot
    /\ \/ pc' = "crashed" /\ UNCHANGED copying
       \/ /\ copied' = copied + lib.tags[copySlot]
          /\ copySlot' = copySlot + 1 /\ copyTag' = 0
          /\ UNCHANGED pc
    /\ UNCHANGED <<world, lib, slot, rv, total, temp, used>>

EndCopy ==
    /\ pc = "copy" /\ copySlot >= lib.nb
    /\ pc' = "idle"
    /\ copySlot' = 0 /\ copyTag' = 0 /\ copied' = 0
    /\ UNCHANGED <<world, lib, slot, rv, total, temp, used>>

Copy == CopyTag \/ CopiedSlot \/ CopyUnread \/ EndCopy

Poll ==
    \/ ManagerConnect \/ FirstConnect \/ BeginList
    \/ SkipSlot \/ TestSlot \/ NoDriver \/ ReadSlot \/ ReadSlotFails \/ EndRead
    \/ Copy

Alive == pc \notin {"done", "crashed"}

\* SIGHUP: readersDisconnect, then readersConnect, in the handler.
Hangup ==
    /\ pc = "idle" \/ (HangupInPoll /\ Alive)
    /\ \E d \in Disconnect(lib) : \E c \in Connect(d.lib) :
          /\ lib' = c.lib
          /\ used' = [used EXCEPT !["hangup"] = @ + 1,
                                  !["fault"] = @ + d.faults + c.faults]
    /\ \A k \in Kinds : used'[k] <= Bound[k]
    /\ UNCHANGED <<world, poll>>

\* A SIGHUP while readersEnumerate has freed mszReaders and not yet allocated
\* it again: the handler frees it a second time, and malloc aborts.  (If it
\* does not, the outcome is that of Hangup.)
HangupWhileFreed ==
    /\ HangupInPoll /\ setting.auto
    /\ pc \in {"connect", "list"} \/ (pc = "idle" /\ ctx = "live")
    /\ up /\ Occupied # {} /\ lib.nb > 0
    /\ Spend("hangup", 1)
    /\ pc' = "crashed"
    /\ UNCHANGED <<world, lib, slot, rv, total, temp, copying>>

\* applyChanges of the settings dialog, while the GTK loop waits for the next
\* poll: only the bitmap changes.
ChangeSetting ==
    /\ pc = "idle"
    /\ Spend("setting", 1)
    /\ setting' \in Settings \ {setting}
    /\ UNCHANGED <<machine, lib, poll>>

\* SIGTERM or SIGINT: readersDisconnect in the handler, then exit.
Terminate ==
    /\ Alive
    /\ \E d \in Disconnect(lib) : lib' = d.lib /\ Spend("fault", d.faults)
    /\ pc' = "done"
    /\ UNCHANGED <<world, slot, rv, total, temp, copying>>

\* The end of main: readersDisconnect and readersManagerDisconnect.
Quit ==
    /\ pc = "idle"
    /\ \E d \in Disconnect(lib) : lib' = d.lib /\ Spend("fault", d.faults)
    /\ ctx' = "none"
    /\ pc' = "done"
    /\ UNCHANGED <<up, ports, setting, slot, rv, total, temp, copying>>

Signal == Hangup \/ HangupWhileFreed \/ Terminate

Next == Machine \/ Poll \/ ChangeSetting \/ Signal \/ Quit

Spec == Init /\ [][Next]_vars

\* tagListCheck is called again and again; a failed read is also progress.
FairSpec == Spec /\ WF_vars(Poll)

-----------------------------------------------------------------------------
(* Safety.                                                                 *)

\* The places of the slots below n that hold a tag.
Held(n) == {place \in Slots \X (1..MaxTags) :
               place[1] < n /\ place[2] <= lib.tags[place[1]]}

\* As long as the setting stays as it was given on the command line,
\* readersConnect never hands SCardConnect a name in a list that
\* readersEnumerate has freed (tagReader.c:474), although a failed enumeration
\* leaves such names in the table.
NoDanglingConnect ==
    Alive /\ ctx # "none" /\ used["setting"] = 0 =>
        \A t \in TablesTried(lib) : \A i \in Candidates(t) : t.name[i] # Freed

\* The readers fill pcscd's table without a gap, as they do when they are
\* plugged in one after the other: with nothing unplugged later, the place of
\* a reader in the list never changes.
NoGap == \A p, q \in Slots : p < q /\ ports[q] # NULL => ports[p] # NULL

\* As long as readers are only added behind the others, a handle that works
\* belongs to the reader its slot is named after: readersEnumerate renames
\* the slots by position and never looks at the handles they hold
\* (tagReader.c:336-347).
HandleMatchesName ==
    used["unplug"] = 0 =>
        \A i \in Slots : i < lib.nb /\ lib.card[i] \in Readers =>
                             lib.name[i] \in {lib.card[i], Freed}

\* In the copy of the tags of all readers, no tag is written past the end of
\* the list that was allocated for those that were counted, even if a SIGHUP
\* changes the table between the readers, before or during the copy
\* (tagReader.c:700-725): as long as the copy stays with the readers that were
\* read.
CopiesFit == pc = "copy" /\ copySlot <= slot => copied <= total

\* Nor, as long as that is so, is any tag copied from an array that was not
\* allocated in this poll or is freed (tagReader.c:709-722).
CopiesAreBacked ==
    AtCopy /\ copySlot < slot /\ copyTag < lib.tags[copySlot] => copySlot \in temp

\* Without a SIGHUP while the readers are read and copied, all entries of the
\* list are filled when the copy ends: none stays as malloc returned it.
ListIsFilled ==
    pc = "copy" /\ copySlot >= lib.nb /\ ~HangupInPoll => copied = total

\* tagReader.c:663-664 "make sure it's initialized, as depending on reader
\* settings we may skip over one of these pointers in the array and later try
\* to free an invalid pointer": the copy only frees pointers that were given a
\* value.
FreesOnlyInitialised == AtCopy => copySlot < slot

\* Polls alone never use a driver or an array that is not there: it takes a
\* SIGHUP, whose handler takes the reader away under the loop that has just
\* tested it, frees the list of names it was about to replace, or adds readers
\* to the copy that were not read (tagReader.c:669-681, 308-311, 704-726).
OnlyHangupCrashes == pc = "crashed" => used["hangup"] > 0

-----------------------------------------------------------------------------
(* Liveness.                                                               *)

\* A reader that tagListCheck reads at every poll.
Works(r) ==
    \E i \in Slots : i < lib.nb /\ lib.card[i] = r /\ lib.driver[i] /\ Wanted(i)

\* With AUTO, a reader that a driver handles, and that stays plugged in while
\* pcscd runs, ends up being read at every poll, whatever happened before: the
\* promise of the comment at tagEventor.c:514-518.
HotplugWorks ==
    \A r \in Supported \ Broken :
        <>[](setting.auto /\ up /\ Plugged(r) /\ pc # "done") => <>[]Works(r)

\* Readers chosen by number are connected by the first poll that finds pcscd
\* and read from then on, if they were there from the start and nothing went
\* wrong.
Undisturbed == \A k \in Kinds : used[k] = 0

ChosenReadersWork ==
    \A r \in Supported \ Broken :
        [](Undisturbed /\ pc # "done" /\ Plugged(r) /\ setting.nums = Slots)
        /\ <>[]up => <>[]Works(r)
=============================================================================
