------------------------------ MODULE Explorer ------------------------------
(***************************************************************************)
(* The window that shows the readers and their tags as a tree (explorer.c) *)
(* and the part of the readers' state that it shows.                       *)
(*                                                                         *)
(* The tree is filled when the window is built; a reader that is detected  *)
(* later is added, and added again when its driver is found, which rows    *)
(* does not count.  Nothing is taken out again: READER_LOST is never       *)
(* dispatched.  The window holds the only reference to the tree, but the   *)
(* pointer to it stays when the window is closed.                          *)
(*                                                                         *)
(* What a reader shows of its tags lies in an array that belongs to the    *)
(* list of all tags: that of the last poll ("current"), that of the one    *)
(* before ("previous"), or one that has been freed.                        *)
(***************************************************************************)
EXTENDS CommandLine

VARIABLES
    hContext,       \* the program is connected to pcscd
    nbReaders,
    hCard,          \* each slot: no handle, one that works, one of a reader
                    \* no driver supports; "gone" and "lost" are what these
                    \* two become when pcscd has no readers any more
    tagsShown,      \* each slot: the array its tags are in, if numTags > 0
    explorerWindow, \* the window is open
    store,          \* the pointer to the tree: NULL, of a tree, of a freed one
    rows,           \* the readers in the tree
    crashed         \* the tree was written after it had been freed

readers == <<hContext, nbReaders, hCard, tagsShown>>
explorer == <<explorerWindow, store, rows, crashed>>

Handles == {"none", "works", "unsupported", "gone", "lost"}
Arrays == {"none", "current", "previous", "freed"}

ExplorerTypeOK ==
    /\ hContext \in BOOLEAN
    /\ nbReaders \in 0..NumSlots
    /\ hCard \in [Slots -> Handles]
    /\ tagsShown \in [Slots -> Arrays]
    /\ explorerWindow \in BOOLEAN
    /\ store \in {"null", "tree", "freed"}
    /\ rows \subseteq Slots
    /\ crashed \in BOOLEAN

ExplorerInit ==
    /\ hContext = FALSE /\ nbReaders = 0
    /\ hCard = [s \in Slots |-> "none"]
    /\ tagsShown = [s \in Slots |-> "none"]
    /\ explorerWindow = FALSE /\ store = "null" /\ rows = {}
    /\ crashed = FALSE

-----------------------------------------------------------------------------

\* READER_DETECTED for each of these readers.  Without a tree GTK only warns;
\* what it does with a freed one is anybody's guess.
explorerAddReaders(detected) ==
    /\ IF store = "tree" THEN rows' = rows \union detected ELSE UNCHANGED rows
    /\ IF store = "freed" /\ detected # {} THEN crashed' \in BOOLEAN
                                           ELSE UNCHANGED crashed
    /\ UNCHANGED <<explorerWindow, store>>

\* explorerFillTreeModel: the readers there are, connected or not, and the
\* tags of those that are connected.
buildExplorer ==
    /\ ~explorerWindow
    /\ explorerWindow' = TRUE
    /\ store' = "tree"
    /\ rows' = 0..(nbReaders - 1)
    /\ UNCHANGED <<crashed, readers>>

\* Close, and the X of the window: the view goes, and the tree with it.
explorerWindowDestroy ==
    /\ explorerWindow
    /\ explorerWindow' = FALSE
    /\ store' = "freed"
    /\ rows' = {}
    /\ UNCHANGED <<crashed, readers>>

ExplorerClick == buildExplorer \/ explorerWindowDestroy

-----------------------------------------------------------------------------

\* An open explorer shows every reader the program has a handle of, whether
\* it was opened before the reader was found or after, and however often
\* readers came and went in between (tagEventor.c:367-374, explorer.c:266).
ConnectedIsShown ==
    explorerWindow => {s \in Slots : hCard[s] \in {"works", "unsupported"}} \subseteq rows
=============================================================================
