------------------------------ MODULE TagPoll ------------------------------
(***************************************************************************)
(* One pass of tagListCheck() after another: the connection to pcscd, the  *)
(* hand-over of the tag list to previousTagList, the reading of every      *)
(* reader (readersGetTagList), and processTagLists, which compares the two *)
(* lists and dispatches TAG_OUT and TAG_IN.                                *)
(*                                                                         *)
(* The reader library is seen through its results here: which readers can  *)
(* be read (ready), what each driver reports, which call fails.  How a     *)
(* reader gets and loses its handle is ReaderManager's subject.            *)
(***************************************************************************)
EXTENDS Naturals, Sequences, FiniteSets

CONSTANTS
    Tags,           \* the UIDs
    NumReaders,     \* readers 1..NumReaders (readers[0] .. in the code)
    MaxTags,        \* maxTags of the driver: tags reported by one reader
    Automatic,      \* READER_BIT_AUTO is set
    Blocks,         \* heap blocks for arrays of tags
    TestData,       \* the address of the string literal in testTag
    NULL,
    MaxFailures,    \* bound on the reads that fail in a behaviour
    MaxHooks        \* the count of live extensionHooks saturates here

ASSUME CountsAssumption ==
    /\ NumReaders \in Nat \ {0}
    /\ MaxTags \in Nat \ {0}
    /\ MaxFailures \in Nat
    /\ MaxHooks \in Nat \ {0}
    /\ Automatic \in BOOLEAN

ASSUME PointersAssumption ==
    /\ NULL \notin Blocks
    /\ TestData \notin Blocks
    /\ TestData # NULL

VARIABLES
    pc,         \* where tagListCheck is; "idle" is the sleep between polls
    ctx,        \* readerManager.hContext # NULL
    ready,      \* readers with a handle and a driver that are to be read
    cur,        \* readerManager.tagList, as a sequence
    curPtr,     \* readerManager.tagList.pTags
    prev,       \* previousTagList, as a sequence
    prevPtr,    \* previousTagList.pTags
    heap,       \* the live blocks among Blocks
    hooks,      \* extensionHook buffers allocated and never freed
    rdr,        \* the reader the loop of readersGetTagList is at
    rv,         \* its return value so far
    idx,        \* the index i of the loops of processTagLists
    changed,    \* listChanged
    status,     \* the last "connected" flag given to the callback
    fails,      \* reads failed so far (bound: MaxFailures)
    event,      \* the event dispatched by the step just taken, if any
    present     \* history: the tags whose last dispatched event was an IN

lists == <<cur, curPtr, prev, prevPtr, heap>>
reading == <<ready, rdr, rv, fails>>
vars == <<pc, ctx, lists, reading, hooks, idx, changed, status, event, present>>

Readers == 1..NumReaders
Pointers == Blocks \union {NULL}
Entry == [uid : Tags, data : {NULL, TestData}]
NoEvent == [type |-> "none"]
Event == {NoEvent} \union [type : {"IN", "OUT"}, uid : Tags]

Uids(list) == {list[i].uid : i \in 1..Len(list)}

\* What a driver reports: at most MaxTags tags, no UID twice.
Reports ==
    UNION {{s \in [1..n -> Tags] : \A i, j \in 1..n : s[i] = s[j] => i = j}
             : n \in 0..MaxTags}

\* The driver leaves the contents of a tag it reports NULL.
FreshEntries(report) ==
    [i \in 1..Len(report) |-> [uid |-> report[i], data |-> NULL]]

\* The list with the contents of the entries in I set to d.
SetData(list, I, d) ==
    [j \in 1..Len(list) |->
        IF j \in I THEN [uid |-> list[j].uid, data |-> d] ELSE list[j]]

WithUid(list, uid) == {j \in 1..Len(list) : list[j].uid = uid}

TypeOK ==
    /\ pc \in {"idle", "rotate", "read", "outs", "ins", "done"}
    /\ ctx \in BOOLEAN
    /\ ready \subseteq Readers
    /\ cur \in Seq(Entry) /\ prev \in Seq(Entry)
    /\ curPtr \in Pointers /\ prevPtr \in Pointers
    /\ heap \subseteq Blocks
    /\ hooks \in 0..MaxHooks
    /\ rdr \in 1..(NumReaders + 1)
    /\ rv \in {"ok", "fail"}
    /\ idx \in Nat \ {0}
    /\ changed \in BOOLEAN
    /\ status \in BOOLEAN
    /\ fails \in 0..MaxFailures
    /\ event \in Event
    /\ present \subseteq Tags

Init ==
    /\ pc = "idle"
    /\ ctx = FALSE
    /\ ready = {}
    /\ cur = <<>> /\ prev = <<>>
    /\ curPtr = NULL /\ prevPtr = NULL
    /\ heap = {}
    /\ hooks = 0
    /\ rdr = 1
    /\ rv = "ok"
    /\ idx = 1
    /\ changed = FALSE
    /\ status = FALSE
    /\ fails = 0
    /\ event = NoEvent
    /\ present = {}

-----------------------------------------------------------------------------
(* Connecting: the first poll that finds pcscd keeps the context for good. *)

\* SCardEstablishContext fails, or it succeeds and readersEnumerate fails:
\* the callback is told and the poll ends.  The context survives the second.
ConnectFails ==
    /\ pc = "idle" /\ ~ctx
    /\ ctx' \in BOOLEAN
    /\ status' = FALSE
    /\ event' = NoEvent
    /\ UNCHANGED <<pc, lists, reading, hooks, idx, changed, present>>

\* The result of the readersConnect that follows only words a message.
ConnectSucceeds ==
    /\ pc = "idle" /\ ~ctx
    /\ ctx' = TRUE
    /\ ready' \in SUBSET Readers
    /\ pc' = "rotate"
    /\ event' = NoEvent
    /\ UNCHANGED <<lists, rdr, rv, fails, hooks, idx, changed, status, present>>

-----------------------------------------------------------------------------
(* Handing the list over and reading the readers.                          *)

AtPollStart == pc = "rotate" \/ (pc = "idle" /\ ctx)

\* A variant with a bug: the array of two polls ago is not freed.
RotateLists_NoFree ==
    /\ heap' = heap
    /\ prev' = cur /\ prevPtr' = curPtr
    /\ cur' = <<>> /\ curPtr' = NULL

RotateLists ==
    /\ heap' = heap \ {prevPtr}
    /\ prev' = cur /\ prevPtr' = curPtr
    /\ cur' = <<>> /\ curPtr' = NULL

\* With AUTO, readersGetTagList reconnects first and any reader may have come
\* or gone; without it the same readers are read again.
StartRead ==
    /\ AtPollStart
    /\ RotateLists
    /\ IF Automatic THEN ready' \in SUBSET Readers ELSE ready' = ready
    /\ pc' = "read" /\ rdr' = 1 /\ rv' = "ok"
    /\ event' = NoEvent
    /\ UNCHANGED <<ctx, fails, hooks, idx, changed, status, present>>

\* With AUTO, readersConnect fails: the list stays empty, processTagLists is
\* not reached.
ReconnectFails ==
    /\ AtPollStart
    /\ Automatic
    /\ fails < MaxFailures
    /\ RotateLists
    /\ ready' \in SUBSET Readers
    /\ fails' = fails + 1
    /\ rv' = "fail"
    /\ pc' = "idle"
    /\ status' = FALSE
    /\ event' = NoEvent
    /\ UNCHANGED <<ctx, rdr, hooks, idx, changed, present>>

AtReader == pc = "read" /\ rdr \in Readers

\* A variant with a bug: a reader that is not connected is never passed.
SkipReader_Stuck ==
    /\ AtReader
    /\ rdr \notin ready
    /\ event' = NoEvent
    /\ UNCHANGED <<pc, ctx, lists, reading, hooks, idx, changed, status, present>>

SkipReader ==
    /\ AtReader
    /\ rdr \notin ready
    /\ rdr' = rdr + 1
    /\ event' = NoEvent
    /\ UNCHANGED <<pc, ctx, lists, ready, rv, fails, hooks, idx, changed, status,
                   present>>

ReadTags(report) ==
    /\ AtReader
    /\ rdr \in ready
    /\ cur' = cur \o FreshEntries(report)
    /\ rv' = "ok"
    /\ rdr' = rdr + 1
    /\ event' = NoEvent
    /\ UNCHANGED <<pc, ctx, curPtr, prev, prevPtr, heap, ready, fails, hooks, idx,
                   changed, status, present>>

\* The driver fails: RESET_READER forgets the reader and what it had reported.
ReadFails ==
    /\ AtReader
    /\ rdr \in ready
    /\ fails < MaxFailures
    /\ fails' = fails + 1
    /\ ready' = ready \ {rdr}
    /\ rv' = "fail"
    /\ rdr' = rdr + 1
    /\ event' = NoEvent
    /\ UNCHANGED <<pc, ctx, lists, hooks, idx, changed, status, present>>

\* The array of all tags is allocated, if there are any.  The value returned
\* is that of the last reader read: tagListCheck gives up on a failure.
MergeLists ==
    /\ pc = "read" /\ rdr > NumReaders
    /\ IF cur = <<>>
       THEN UNCHANGED <<curPtr, heap>>
       ELSE \E b \in Blocks \ heap : curPtr' = b /\ heap' = heap \union {b}
    /\ pc' = IF rv = "ok" THEN "outs" ELSE "idle"
    /\ status' = IF rv = "ok" THEN status ELSE FALSE
    /\ idx' = 1
    /\ changed' = FALSE
    /\ event' = NoEvent
    /\ UNCHANGED <<ctx, cur, prev, prevPtr, reading, hooks, present>>

-----------------------------------------------------------------------------
(* processTagLists.                                                        *)

\* A variant with a bug: the contents are not copied.
CarryOver_NoCopy ==
    /\ pc = "outs" /\ idx <= Len(prev)
    /\ prev[idx].uid \in Uids(cur)
    /\ idx' = idx + 1
    /\ event' = NoEvent
    /\ UNCHANGED <<pc, ctx, lists, reading, hooks, changed, status, present>>

\* The tag is still there: its contents go to every entry with its UID.
CarryOver ==
    /\ pc = "outs" /\ idx <= Len(prev)
    /\ prev[idx].uid \in Uids(cur)
    /\ cur' = SetData(cur, WithUid(cur, prev[idx].uid), prev[idx].data)
    /\ idx' = idx + 1
    /\ event' = NoEvent
    /\ UNCHANGED <<pc, ctx, curPtr, prev, prevPtr, heap, reading, hooks, changed,
                   status, present>>

\* TAG_OUT.  tagDetachData hands contents.pData to free(): for a tag that had
\* its IN that is the address of a literal, after which the C library may
\* abort the process or carry on.  The extensionHook is dropped, not freed.
TagOut ==
    /\ pc = "outs" /\ idx <= Len(prev)
    /\ prev[idx].uid \notin Uids(cur)
    /\ event' = [type |-> "OUT", uid |-> prev[idx].uid]
    /\ present' = present \ {prev[idx].uid}
    /\ prev' = SetData(prev, {idx}, NULL)
    /\ changed' = TRUE
    /\ idx' = idx + 1
    /\ \/ pc' = pc
       \/ pc' = "done" /\ prev[idx].data \notin heap \union {NULL}
    /\ UNCHANGED <<ctx, cur, curPtr, prevPtr, heap, reading, hooks, status>>

\* A variant with a bug: the last of the previous tags is not looked at.
EndOuts_OffByOne ==
    /\ pc = "outs" /\ idx >= Len(prev)
    /\ pc' = "ins"
    /\ idx' = 1
    /\ event' = NoEvent
    /\ UNCHANGED <<ctx, lists, reading, hooks, changed, status, present>>

\* A variant with a bug: the second loop starts before the first element.
EndOuts_FromZero ==
    /\ pc = "outs" /\ idx > Len(prev)
    /\ pc' = "ins"
    /\ idx' = 0
    /\ event' = NoEvent
    /\ UNCHANGED <<ctx, lists, reading, hooks, changed, status, present>>

EndOuts ==
    /\ pc = "outs" /\ idx > Len(prev)
    /\ pc' = "ins"
    /\ idx' = 1
    /\ event' = NoEvent
    /\ UNCHANGED <<ctx, lists, reading, hooks, changed, status, present>>

KnownTag ==
    /\ pc = "ins" /\ idx <= Len(cur)
    /\ cur[idx].uid \in Uids(prev)
    /\ idx' = idx + 1
    /\ event' = NoEvent
    /\ UNCHANGED <<pc, ctx, lists, reading, hooks, changed, status, present>>

\* TAG_IN: tagAttachData fills the contents and allocates an extensionHook.
TagIn ==
    /\ pc = "ins" /\ idx <= Len(cur)
    /\ cur[idx].uid \notin Uids(prev)
    /\ event' = [type |-> "IN", uid |-> cur[idx].uid]
    /\ present' = present \union {cur[idx].uid}
    /\ cur' = SetData(cur, {idx}, TestData)
    /\ hooks' = IF hooks < MaxHooks THEN hooks + 1 ELSE hooks
    /\ changed' = TRUE
    /\ idx' = idx + 1
    /\ UNCHANGED <<pc, ctx, curPtr, prev, prevPtr, heap, reading, status>>

\* A variant with a bug: the last of the current tags is not looked at.
EndPoll_OffByOne ==
    /\ pc = "ins" /\ idx >= Len(cur)
    /\ pc' = "idle"
    /\ status' = IF changed THEN TRUE ELSE status
    /\ event' = NoEvent
    /\ UNCHANGED <<ctx, lists, reading, hooks, idx, changed, present>>

\* The callback is only told of a list that changed.
EndPoll ==
    /\ pc = "ins" /\ idx > Len(cur)
    /\ pc' = "idle"
    /\ status' = IF changed THEN TRUE ELSE status
    /\ event' = NoEvent
    /\ UNCHANGED <<ctx, lists, reading, hooks, idx, changed, present>>

-----------------------------------------------------------------------------
(* Signals.                                                                *)

\* SIGHUP during the sleep: readersDisconnect, then readersConnect.  One that
\* comes while the readers are read is the subject of ReaderManager.
Hangup ==
    /\ pc = "idle" /\ ctx
    /\ ready' \in SUBSET Readers
    /\ event' = NoEvent
    /\ UNCHANGED <<pc, ctx, lists, rdr, rv, fails, hooks, idx, changed, status,
                   present>>

\* SIGTERM or SIGINT at any moment: the process exits.
Terminate ==
    /\ pc # "done"
    /\ pc' = "done"
    /\ event' = NoEvent
    /\ UNCHANGED <<ctx, lists, reading, hooks, idx, changed, status, present>>

Step ==
    \/ StartRead
    \/ SkipReader \/ MergeLists \/ \E report \in Reports : ReadTags(report)
    \/ CarryOver \/ TagOut \/ EndOuts
    \/ KnownTag \/ TagIn \/ EndPoll

Connect == ConnectSucceeds \/ ConnectFails

ReadFaults == ReconnectFails \/ ReadFails

Next == Connect \/ Step \/ ReadFaults \/ Hangup \/ Terminate

Spec == Init /\ [][Next]_vars

\* Once connected, the loop in main or the GTK timer calls tagListCheck for
\* ever, and nothing inside it waits: no call to pcscd is assumed to succeed.
FairSpec == Spec /\ WF_vars(Step)

-----------------------------------------------------------------------------
(* Properties.                                                             *)

\* Every array of tags on the heap is owned by exactly one of the two lists,
\* and a list owns one exactly when it has tags: the free() at the start of a
\* poll neither leaks the array of two polls ago nor frees one still in use.
ArraysOwned ==
    /\ heap = {prevPtr, curPtr} \ {NULL}
    /\ curPtr # NULL => curPtr # prevPtr
    /\ prevPtr = NULL <=> prev = <<>>
    /\ pc \notin {"read", "done"} => (curPtr = NULL <=> cur = <<>>)

\* As long as no read has failed, between two polls the scripts have been
\* told of exactly the tags in the list: nothing of a difference is dropped,
\* even for a tag seen by two readers at once.
PresentMatchesList ==
    pc = "idle" /\ fails = 0 => present = Uids(cur)

\* With one reader, or before any failure, a tag in the list between two
\* polls has had its IN and carries the contents attached to it then, however
\* many polls ago that was.
CurrentIsReported ==
    pc = "idle" /\ (NumReaders = 1 \/ fails = 0) =>
        \A i \in 1..Len(cur) : cur[i].uid \in present /\ cur[i].data = TestData

\* No script is told OUT of a tag it was not told IN of: the two events of a
\* tag alternate on the side of OUT.
OutFollowsIn ==
    [][event'.type = "OUT" => event'.uid \in present]_vars

\* With one reader and as long as no read has failed, no script is told IN
\* twice of a tag that did not leave in between.  (A tag that two readers see
\* is twice in the list, and the code dispatches an IN for each.)
InFollowsOut ==
    [][event'.type = "IN" /\ fails = 0 => event'.uid \notin present]_vars

\* The observation of the abstract specification: while the readers are being
\* read, the last one is in the previous list.
Seen == IF pc = "read" THEN Uids(prev) ELSE Uids(cur)

Feed == INSTANCE TagEvents
            WITH seen <- Seen, reported <- present, lapsed <- (fails > 0)

\* Until a read fails, the polls deliver what TagEvents promises: exactly the
\* differences between one poll and the next, departures first.
ImplementsTagEvents == Feed!Spec

\* A poll that has begun ends: tagListCheck returns to its caller.
PollReturns == pc # "idle" ~> pc \in {"idle", "done"}

\* A tag in the list of a successful poll is reported before the process
\* exits or is known to have been (one reader).
SeenTagIsReported ==
    \A t \in Tags :
        pc = "outs" /\ t \in Uids(cur) ~> t \in present \/ pc = "done"

\* scripts/generic:12 "OUT for tag removed from reader": after a successful
\* poll, every tag that was reported and is no longer on a reader had its OUT.
RemovedTagsGetOut == pc = "idle" /\ rv = "ok" => present \subseteq Uids(cur)

\* tagEventor.c:363 "we can now free the data that was allocated and attached
\* to this tag": TAG_OUT of a tag that had its IN frees a pointer that came
\* from the allocator, and the extensionHook.
DetachFreesContents ==
    [][event'.type = "OUT" /\ prev[idx].data # NULL =>
          prev[idx].data \in heap /\ hooks' < hooks]_vars
=============================================================================
