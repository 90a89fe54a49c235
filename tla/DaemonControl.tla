--------------------------- MODULE DaemonControl ---------------------------
(***************************************************************************)
(* The processes that share the lock file: the daemons that -d start forks *)
(* (daemonize, getLockOrDie), the -d stop commands (stopDaemon), and the   *)
(* handler of SIGTERM (daemonTerminate).                                   *)
(*                                                                         *)
(* remove() acts on the path, read() and write() on the file that was      *)
(* opened, so files and the path that leads to one of them are apart:      *)
(* files[i] is the text of the i-th lock file ever created, lock the one   *)
(* that has the name now.  fcntl(F_SETLK) is not modelled: it is only      *)
(* reached on a file that O_EXCL has just created, where it cannot fail.   *)
(***************************************************************************)
EXTENDS Naturals, Sequences, FiniteSets

CONSTANTS
    Pids,           \* process ids, used again when a process has ended
    Stops,          \* the processes of -d stop
    EMPTY,          \* what a lock file says before the pid is written
    MaxStarts,      \* bound on -d start
    MayCrash        \* daemons may be killed or crash

ASSUME PidsAssumption == EMPTY \notin Pids
ASSUME StartsAssumption == MaxStarts \in Nat /\ MayCrash \in BOOLEAN

VARIABLES
    proc,       \* what each process is and where it is
    lock,       \* the file that has the name of the lock file, 0 if none
    files,      \* the texts of the lock files, the removed ones too
    fd,         \* lockFile of each daemon
    term,       \* processes with a SIGTERM on its way
    stop,       \* each -d stop: where it is, the file it opened, its target
    starts,     \* daemons forked so far (bound: MaxStarts)
    lapses      \* history: how the commands were used otherwise than one at a
                \* time, and what else went wrong; read by properties only

vars == <<proc, lock, files, fd, term, stop, starts, lapses>>

Daemon == {"forked", "named", "refused", "created", "running"}

\* overlap: a command was given while an earlier one was at work, which is a
\*    -d start until its child has tried to get the lock, and a -d stop until
\*    it has returned;
\* slow: a -d start was given when -d stop had returned, and the process that it
\*    told to stop was still there;
\* unread: a -d stop took what was in its buffer for a pid;
\* outside: a process without the lock was sent a SIGTERM by someone else.
Lapses == {"overlap", "slow", "unread", "outside"}

TypeOK ==
    /\ proc \in [Pids -> Daemon \union {"none", "other"}]
    /\ files \in Seq(Pids \union {EMPTY})
    /\ lock \in 0..Len(files)
    /\ fd \in [Pids -> 0..Len(files)]
    /\ term \subseteq {p \in Pids : proc[p] # "none"}
    /\ stop \in [Stops -> [pc : {"idle", "opened", "kill", "sleep"},
                           file : 0..Len(files),
                           target : Pids \union {EMPTY}]]
    /\ starts \in 0..MaxStarts
    /\ lapses \subseteq Lapses

Stopping(pc, file, target) == [pc |-> pc, file |-> file, target |-> target]
NoStop == Stopping("idle", 0, EMPTY)

\* The lock file of an earlier daemon may be there from the start.
Init ==
    /\ proc = [p \in Pids |-> "none"]
    /\ \/ files = <<>> /\ lock = 0
       \/ \E p \in Pids : files = <<p>> /\ lock = 1
    /\ fd = [p \in Pids |-> 0]
    /\ term = {}
    /\ stop = [s \in Stops |-> NoStop]
    /\ starts = 0
    /\ lapses = {}

Idle(s) == stop[s].pc = "idle"

\* The daemons that got the lock.
Holds(p) == proc[p] \in {"created", "running"}

\* A process that has yet to handle its SIGTERM, though the lock file is no
\* longer its own: -d stop has removed it.
Leaving(p) ==
    /\ p \in term /\ proc[p] \in Daemon
    /\ Holds(p) => lock # fd[p]

-----------------------------------------------------------------------------
(* -d start.                                                               *)

\* The parent exits at once, while the child is still on its way.
Start(p) ==
    /\ proc[p] = "none" /\ starts < MaxStarts
    /\ proc' = [proc EXCEPT ![p] = "forked"]
    /\ starts' = starts + 1
    /\ lapses' = lapses \union {l \in {"overlap"} : \E s \in Stops : ~Idle(s)}
                         \union {l \in {"slow"} : \E q \in Pids : Leaving(q)}
    /\ UNCHANGED <<lock, files, fd, term, stop>>

\* From here on the handler of SIGTERM removes whatever has the name.
NameLock(p) ==
    /\ proc[p] = "forked"
    /\ proc' = [proc EXCEPT ![p] = "named"]
    /\ UNCHANGED <<lock, files, fd, term, stop, starts, lapses>>

\* A variant with a bug: an old lock file is removed first, to be sure.
CreateLock_RemovesOld(p) ==
    /\ proc[p] = "named"
    /\ files' = Append(files, EMPTY)
    /\ lock' = Len(files) + 1
    /\ fd' = [fd EXCEPT ![p] = Len(files) + 1]
    /\ proc' = [proc EXCEPT ![p] = "created"]
    /\ UNCHANGED <<term, stop, starts, lapses>>

\* O_CREAT | O_EXCL: the test and the creation are one step.
CreateLock(p) ==
    /\ proc[p] = "named"
    /\ lock = 0
    /\ files' = Append(files, EMPTY)
    /\ lock' = Len(files) + 1
    /\ fd' = [fd EXCEPT ![p] = Len(files) + 1]
    /\ proc' = [proc EXCEPT ![p] = "created"]
    /\ UNCHANGED <<term, stop, starts, lapses>>

\* A variant with a bug: the process that is refused removes the lock file.
LockExists_Removes(p) ==
    /\ proc[p] = "named"
    /\ lock # 0
    /\ lock' = 0
    /\ proc' = [proc EXCEPT ![p] = "refused"]
    /\ UNCHANGED <<files, fd, term, stop, starts, lapses>>

LockExists(p) ==
    /\ proc[p] = "named"
    /\ lock # 0
    /\ proc' = [proc EXCEPT ![p] = "refused"]
    /\ UNCHANGED <<lock, files, fd, term, stop, starts, lapses>>

WritePid(p) ==
    /\ proc[p] = "created"
    /\ files' = [files EXCEPT ![fd[p]] = p]
    /\ proc' = [proc EXCEPT ![p] = "running"]
    /\ UNCHANGED <<lock, fd, term, stop, starts, lapses>>

\* A process ends, and the lock file stays as it is.
Ends(p) ==
    /\ proc' = [proc EXCEPT ![p] = "none"]
    /\ fd' = [fd EXCEPT ![p] = 0]
    /\ term' = term \ {p}
    /\ UNCHANGED <<lock, files, stop, starts, lapses>>

\* The exits of getLockOrDie: no lock, or the pid could not be written.
Dies(p) == proc[p] \in {"refused", "created"} /\ Ends(p)

\* daemonize returns to main, which leaves its switch and returns.
Returns(p) == proc[p] = "running" /\ Ends(p)

Crashes(p) == MayCrash /\ proc[p] \in Daemon /\ Ends(p)

\* The pid of a process that has ended goes to another program.
StrangerStarts(p) ==
    /\ proc[p] = "none"
    /\ proc' = [proc EXCEPT ![p] = "other"]
    /\ UNCHANGED <<lock, files, fd, term, stop, starts, lapses>>

-----------------------------------------------------------------------------
(* SIGTERM.                                                                *)

\* handleSignal, daemonTerminate: the lock file is removed by its name, and
\* before the name is known, remove() is given an empty one.
HandleTerm(p) ==
    /\ p \in term /\ proc[p] \in Daemon
    /\ lock' = IF proc[p] = "forked" THEN lock ELSE 0
    /\ proc' = [proc EXCEPT ![p] = "none"]
    /\ fd' = [fd EXCEPT ![p] = 0]
    /\ term' = term \ {p}
    /\ UNCHANGED <<files, stop, starts, lapses>>

StrangerKilled(p) == p \in term /\ proc[p] = "other" /\ Ends(p)

\* kill or a shutdown of the machine.
TermFromOutside(p) ==
    /\ proc[p] \in Daemon
    /\ term' = term \union {p}
    /\ lapses' = lapses \union {l \in {"outside"} : ~Holds(p)}
    /\ UNCHANGED <<proc, lock, files, fd, stop, starts>>

-----------------------------------------------------------------------------
(* -d stop.                                                                *)

StopOpens(s) ==
    /\ Idle(s) /\ lock # 0
    /\ stop' = [stop EXCEPT ![s] = Stopping("opened", lock, EMPTY)]
    /\ lapses' = lapses \union {l \in {"overlap"} :
                     \/ \E r \in Stops : ~Idle(r)
                     \/ \E p \in Pids : proc[p] \in {"forked", "named"}}
    /\ UNCHANGED <<proc, lock, files, fd, term, starts>>

StopReads(s) ==
    /\ stop[s].pc = "opened" /\ files[stop[s].file] # EMPTY
    /\ stop' = [stop EXCEPT ![s] = Stopping("kill", 0, files[stop[s].file])]
    /\ UNCHANGED <<proc, lock, files, fd, term, starts, lapses>>

\* read() returns 0 bytes: what sscanf makes of the buffer is anybody's guess.
StopReadsNothing(s) ==
    /\ stop[s].pc = "opened" /\ files[stop[s].file] = EMPTY
    /\ \/ /\ stop' = [stop EXCEPT ![s] = NoStop]
          /\ UNCHANGED lapses
       \/ /\ \E p \in Pids :
                stop' = [stop EXCEPT ![s] = Stopping("kill", 0, p)]
          /\ lapses' = lapses \union {"unread"}
    /\ UNCHANGED <<proc, lock, files, fd, term, starts>>

StopKills(s) ==
    /\ stop[s].pc = "kill"
    /\ term' = IF proc[stop[s].target] = "none" THEN term
               ELSE term \union {stop[s].target}
    /\ stop' = [stop EXCEPT ![s].pc = "sleep"]
    /\ UNCHANGED <<proc, lock, files, fd, starts, lapses>>

\* After a second the lock file goes, whether the daemon has gone or not: its
\* handler has readers to disconnect before it ends.
StopRemoves(s) ==
    /\ stop[s].pc = "sleep"
    /\ lock' = 0
    /\ stop' = [stop EXCEPT ![s] = NoStop]
    /\ UNCHANGED <<proc, files, fd, term, starts, lapses>>

-----------------------------------------------------------------------------

Process(p) ==
    \/ Start(p) \/ NameLock(p) \/ CreateLock(p) \/ LockExists(p) \/ WritePid(p)
    \/ Dies(p) \/ Returns(p) \/ Crashes(p) \/ StrangerStarts(p)
    \/ HandleTerm(p) \/ StrangerKilled(p) \/ TermFromOutside(p)

StopCommand(s) ==
    \/ StopOpens(s) \/ StopReads(s) \/ StopReadsNothing(s) \/ StopKills(s)
    \/ StopRemoves(s)

Next == (\E p \in Pids : Process(p)) \/ (\E s \in Stops : StopCommand(s))

Spec == Init /\ [][Next]_vars

-----------------------------------------------------------------------------
(* Properties.                                                             *)

AtMostOneHolds == \A p, q \in Pids : Holds(p) /\ Holds(q) => p = q

\* daemonControl.c:93 "make sure we are the only running copy", when the
\* commands are used one at a time and no daemon that is told to stop is still
\* there at the next -d start: starts that race each other, crashes, stale lock
\* files, pids used again and SIGTERMs to the daemon do not break it.
OnlyCopy == lapses = {} => AtMostOneHolds

\* Under the same conditions, a daemon that was not told to stop is the owner
\* of the lock file, so that the next -d stop finds it.
LockIsOfHolder ==
    lapses = {} =>
        \A p \in Pids : Holds(p) /\ p \notin term =>
            /\ lock = fd[p]
            /\ proc[p] = "running" => files[lock] = p

\* daemonControl.c:93 again, for commands used one at a time, however long a
\* daemon needs to handle its SIGTERM: a restart (tagEventord:93-96) is one
\* -d stop, which returns after a second, and then one -d start.
OnlyCopyThoughSlow == lapses \subseteq {"slow"} => AtMostOneHolds
=============================================================================
