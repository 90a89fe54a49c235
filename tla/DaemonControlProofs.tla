------------------------ MODULE DaemonControlProofs ------------------------
(* Theorems about DaemonControl, for any number of pids, starts and stops. *)
EXTENDS DaemonControl, SequenceTheorems, TLAPS

-----------------------------------------------------------------------------
(* Whose file is whose, however the commands are used.                     *)

\* A process that got the lock has a file of its own, open, and the file says
\* what the process has written; a -d stop has the file it opened, and later a
\* pid.
FilesInv ==
    /\ TypeOK
    /\ \A p \in Pids : Holds(p) => fd[p] \in 1..Len(files)
    /\ \A p, q \in Pids : Holds(p) /\ Holds(q) /\ fd[p] = fd[q] => p = q
    /\ \A p \in Pids : /\ proc[p] = "created" => files[fd[p]] = EMPTY
                       /\ proc[p] = "running" => files[fd[p]] = p
    /\ \A s \in Stops : /\ stop[s].pc = "opened" => stop[s].file \in 1..Len(files)
                        /\ stop[s].pc \in {"kill", "sleep"} => stop[s].target \in Pids

States == Daemon \union {"none", "other"}
StopStates == {"idle", "opened", "kill", "sleep"}

LEMMA FilesInit == Init => FilesInv
<1> SUFFICES ASSUME Init PROVE FilesInv
  OBVIOUS
<1> USE StartsAssumption
<1>1. files \in Seq(Pids \union {EMPTY}) /\ Len(files) \in Nat /\ lock \in 0..Len(files)
  <2>1. CASE files = <<>> /\ lock = 0
    BY <2>1
  <2>2. ASSUME NEW p \in Pids, files = <<p>>, lock = 1
        PROVE  files \in Seq(Pids \union {EMPTY}) /\ Len(files) \in Nat /\ lock \in 0..Len(files)
    <3>1. Len(files) = 1 /\ files \in Seq(Pids)
      BY <2>2
    <3> QED
      BY <2>2, <3>1
  <2>3. (files = <<>> /\ lock = 0) \/ \E p \in Pids : files = <<p>> /\ lock = 1
    BY Zenon DEF Init
  <2> QED
    BY <2>1, <2>2, <2>3, Zenon
<1>2. \A s \in Stops : stop[s] = [pc |-> "idle", file |-> 0, target |-> EMPTY]
  BY DEF Init, NoStop, Stopping
<1>3. /\ proc = [p \in Pids |-> "none"] /\ fd = [p \in Pids |-> 0] /\ term = {}
      /\ starts = 0 /\ lapses = {} /\ stop = [s \in Stops |-> NoStop]
  BY DEF Init
<1>4. NoStop \in [pc : StopStates, file : 0..Len(files), target : Pids \union {EMPTY}]
  BY <1>1 DEF NoStop, Stopping, StopStates
<1>5. TypeOK
  BY <1>1, <1>3, <1>4 DEF TypeOK, StopStates
<1> QED
  BY <1>2, <1>3, <1>5 DEF FilesInv, Holds

\* A process changes its place without getting a lock, and perhaps closes its
\* file; or nothing happens to the processes but signals.
LEMMA FilesKept ==
    ASSUME FilesInv, NEW p \in Pids,
           NEW place \in States, place \notin {"created", "running"},
           proc' = [proc EXCEPT ![p] = place],
           UNCHANGED fd \/ fd' = [fd EXCEPT ![p] = 0],
           lock' \in {0, lock}, UNCHANGED <<files, stop>>,
           starts' \in 0..MaxStarts, lapses' \subseteq Lapses,
           term' \subseteq {q \in Pids : proc'[q] # "none"}
    PROVE  FilesInv'
<1> USE DEF States, Daemon
<1>1. /\ proc \in [Pids -> States] /\ files \in Seq(Pids \union {EMPTY})
      /\ Len(files) \in Nat /\ fd \in [Pids -> 0..Len(files)] /\ lock \in 0..Len(files)
  BY DEF FilesInv, TypeOK
<1>2. proc' \in [Pids -> States] /\ fd' \in [Pids -> 0..Len(files)] /\ lock' \in 0..Len(files)
  BY <1>1
<1>3. TypeOK'
  BY <1>1, <1>2 DEF FilesInv, TypeOK
<1>4. \A q \in Pids : /\ q # p => proc'[q] = proc[q] /\ fd'[q] = fd[q]
                      /\ proc'[p] = place
  BY <1>1
<1>5. \A q \in Pids : Holds(q)' => q # p /\ Holds(q) /\ proc'[q] = proc[q] /\ fd'[q] = fd[q]
  BY <1>4 DEF Holds
<1> QED
  BY <1>3, <1>4, <1>5 DEF FilesInv, Holds

LEMMA FilesProcess ==
    ASSUME FilesInv, NEW p \in Pids, Process(p)
    PROVE  FilesInv'
<1> USE DEF States, Daemon
<1>1. /\ proc \in [Pids -> States] /\ files \in Seq(Pids \union {EMPTY})
      /\ Len(files) \in Nat /\ fd \in [Pids -> 0..Len(files)] /\ lock \in 0..Len(files)
      /\ term \subseteq {q \in Pids : proc[q] # "none"}
      /\ starts \in 0..MaxStarts /\ lapses \subseteq Lapses
  BY DEF FilesInv, TypeOK
<1>2. ASSUME Ends(p) PROVE FilesInv'
  BY <1>1, <1>2, FilesKept DEF Ends
<1>3. CASE Start(p)
  <2>1. lapses' \subseteq Lapses
    BY <1>1, <1>3, Zenon DEF Start, Lapses
  <2>2. starts' \in 0..MaxStarts
    <3>1. starts < MaxStarts /\ starts' = starts + 1
      BY <1>3 DEF Start
    <3> QED
      BY <1>1, <3>1, StartsAssumption
  <2> QED
    BY <1>1, <1>3, <2>1, <2>2, FilesKept DEF Start
<1>4. CASE NameLock(p) \/ LockExists(p)
  BY <1>1, <1>4, FilesKept DEF NameLock, LockExists
<1>5. CASE StrangerStarts(p)
  BY <1>1, <1>5, FilesKept DEF StrangerStarts
<1>6. CASE HandleTerm(p)
  BY <1>1, <1>6, FilesKept DEF HandleTerm
<1>7. CASE TermFromOutside(p)
  <2>1. lapses' \subseteq Lapses
    BY <1>1, <1>7 DEF TermFromOutside, Lapses
  <2>2. term' \subseteq {q \in Pids : proc'[q] # "none"}
    BY <1>1, <1>7 DEF TermFromOutside
  <2>3. TypeOK'
    BY <1>7, <2>1, <2>2 DEF TermFromOutside, FilesInv, TypeOK
  <2> QED
    BY <1>7, <2>3 DEF TermFromOutside, FilesInv, Holds
<1>8. CASE CreateLock(p)
  <2> DEFINE n == Len(files) + 1
  <2>1. /\ files' \in Seq(Pids \union {EMPTY}) /\ Len(files') = n /\ n \in Nat
        /\ files'[n] = EMPTY /\ \A k \in 1..Len(files) : files'[k] = files[k]
    BY <1>1, <1>8, AppendProperties DEF CreateLock
  <2>2. /\ lock' = n /\ fd' = [fd EXCEPT ![p] = n] /\ proc' = [proc EXCEPT ![p] = "created"]
        /\ UNCHANGED <<term, stop, starts, lapses>> /\ proc[p] = "named"
    BY <1>8 DEF CreateLock
  <2>3. \A k \in 0..Len(files) : k \in 0..n /\ k # n
    BY <1>1
  <2>4. fd' \in [Pids -> 0..Len(files')] /\ proc' \in [Pids -> States] /\ lock' \in 0..Len(files')
    BY <1>1, <2>1, <2>2, <2>3
  <2>5. stop \in [Stops -> [pc : StopStates, file : 0..Len(files), target : Pids \union {EMPTY}]]
    BY DEF FilesInv, TypeOK, StopStates
  <2>6. \A s \in Stops : stop[s] \in [pc : StopStates, file : 0..Len(files'),
                                      target : Pids \union {EMPTY}]
    <3>1. \A s \in Stops : stop[s] \in [pc : StopStates, file : 0..Len(files),
                                        target : Pids \union {EMPTY}]
      BY <2>5
    <3>2. 0..Len(files) \subseteq 0..Len(files')
      BY <1>1, <2>1
    <3> QED
      BY <3>1, <3>2
  <2>7. stop' \in [Stops -> [pc : StopStates, file : 0..Len(files'), target : Pids \union {EMPTY}]]
    BY <2>2, <2>5, <2>6
  <2>8. TypeOK'
    BY <1>1, <2>1, <2>2, <2>4, <2>7 DEF TypeOK, StopStates
  <2>9. \A q \in Pids : /\ q # p => proc'[q] = proc[q] /\ fd'[q] = fd[q]
                        /\ proc'[p] = "created" /\ fd'[p] = n
    BY <1>1, <2>2
  <2>10. \A q \in Pids : q # p /\ Holds(q)' =>
            Holds(q) /\ fd[q] \in 1..Len(files) /\ files'[fd'[q]] = files[fd[q]]
    BY <2>1, <2>9 DEF FilesInv, Holds
  <2>11. \A q \in Pids : Holds(q)' => fd'[q] \in 1..Len(files') /\ (q # p => fd'[q] # fd'[p])
    BY <1>1, <2>1, <2>3, <2>9, <2>10
  <2>12. \A k \in 1..Len(files) : k \in 1..Len(files')
    BY <1>1, <2>1
  <2>13. \A q, r \in Pids : Holds(q)' /\ Holds(r)' /\ fd'[q] = fd'[r] => q = r
    BY <2>9, <2>10, <2>11 DEF FilesInv
  <2>14. \A q \in Pids : /\ proc'[q] = "created" => files'[fd'[q]] = EMPTY
                         /\ proc'[q] = "running" => files'[fd'[q]] = q
    BY <2>1, <2>9, <2>10 DEF FilesInv, Holds
  <2> QED
    BY <2>2, <2>8, <2>11, <2>12, <2>13, <2>14 DEF FilesInv
<1>9. CASE WritePid(p)
  <2>1. /\ proc[p] = "created" /\ Holds(p) /\ fd[p] \in 1..Len(files)
        /\ files' = [files EXCEPT ![fd[p]] = p] /\ proc' = [proc EXCEPT ![p] = "running"]
        /\ UNCHANGED <<lock, fd, term, stop, starts, lapses>>
    BY <1>9 DEF WritePid, FilesInv, Holds
  <2>2. /\ files' \in Seq(Pids \union {EMPTY}) /\ Len(files') = Len(files)
        /\ files'[fd[p]] = p
        /\ \A k \in 1..Len(files) : k # fd[p] => files'[k] = files[k]
    BY <1>1, <2>1, ExceptSeq
  <2>3. TypeOK'
    BY <1>1, <2>1, <2>2 DEF FilesInv, TypeOK
  <2>4. \A q \in Pids : /\ q # p => proc'[q] = proc[q]
                        /\ proc'[p] = "running" /\ fd'[q] = fd[q]
    BY <1>1, <2>1
  <2>5. \A q \in Pids : Holds(q)' => /\ Holds(q) /\ fd[q] \in 1..Len(files)
                                     /\ q # p => fd[q] # fd[p]
    BY <2>1, <2>4 DEF FilesInv, Holds
  <2>6. \A q \in Pids : /\ proc'[q] = "created" => files'[fd'[q]] = EMPTY
                        /\ proc'[q] = "running" => files'[fd'[q]] = q
    BY <2>2, <2>4, <2>5 DEF FilesInv, Holds
  <2> QED
    BY <2>1, <2>2, <2>3, <2>4, <2>5, <2>6 DEF FilesInv
<1> QED
  BY <1>2, <1>3, <1>4, <1>5, <1>6, <1>7, <1>8, <1>9
  DEF Process, Dies, Returns, Crashes, StrangerKilled

LEMMA FilesStop ==
    ASSUME FilesInv, NEW s \in Stops, StopCommand(s)
    PROVE  FilesInv'
<1> DEFINE Command == [pc : StopStates, file : 0..Len(files), target : Pids \union {EMPTY}]
<1>1. /\ stop \in [Stops -> Command] /\ files \in Seq(Pids \union {EMPTY})
      /\ Len(files) \in Nat /\ lock \in 0..Len(files) /\ lapses \subseteq Lapses
      /\ term \subseteq {q \in Pids : proc[q] # "none"}
  BY DEF FilesInv, TypeOK, StopStates
<1>2. UNCHANGED <<proc, files, fd, starts>> /\ lapses' \subseteq Lapses
  BY <1>1
  DEF StopCommand, StopOpens, StopReads, StopReadsNothing, StopKills, StopRemoves, Lapses
<1>3. lock' \in 0..Len(files)
  BY <1>1 DEF StopCommand, StopOpens, StopReads, StopReadsNothing, StopKills, StopRemoves
<1>4. term' \subseteq {q \in Pids : proc[q] # "none"}
  BY <1>1 DEF StopCommand, StopOpens, StopReads, StopReadsNothing, StopKills, StopRemoves,
     FilesInv
<1>5. PICK command \in Command :
         /\ stop' = [stop EXCEPT ![s] = command]
         /\ command.pc = "opened" => command.file \in 1..Len(files)
         /\ command.pc \in {"kill", "sleep"} => command.target \in Pids
  <2> USE DEF Stopping, StopStates, NoStop
  <2>1. CASE StopOpens(s)
    <3>1. Stopping("opened", lock, EMPTY) \in Command /\ lock \in 1..Len(files)
      BY <1>1, <2>1 DEF StopOpens
    <3> QED
      BY <2>1, <3>1 DEF StopOpens
  <2>2. CASE StopReads(s)
    <3>1. files[stop[s].file] \in Pids
      BY <1>1, <2>2, ElementOfSeq DEF StopReads, FilesInv
    <3>2. Stopping("kill", 0, files[stop[s].file]) \in Command
      BY <1>1, <3>1
    <3> QED
      BY <2>2, <3>1, <3>2 DEF StopReads
  <2>3. NoStop \in Command /\ \A p \in Pids : Stopping("kill", 0, p) \in Command
    BY <1>1
  <2>4. CASE StopReadsNothing(s)
    BY <2>3, <2>4 DEF StopReadsNothing
  <2>5. CASE StopKills(s)
    <3>1. [stop[s] EXCEPT !.pc = "sleep"] \in Command /\ stop[s].target \in Pids
      BY <1>1, <2>5 DEF StopKills, FilesInv
    <3> QED
      BY <1>1, <2>5, <3>1 DEF StopKills
  <2>6. CASE StopRemoves(s)
    BY <2>3, <2>6 DEF StopRemoves
  <2> QED
    BY <2>1, <2>2, <2>4, <2>5, <2>6 DEF StopCommand
<1>6. stop' \in [Stops -> Command] /\ \A r \in Stops : stop'[r] = IF r = s THEN command ELSE stop[r]
  BY <1>1, <1>5
<1>7. TypeOK'
  BY <1>2, <1>3, <1>4, <1>6 DEF FilesInv, TypeOK, StopStates
<1> QED
  BY <1>2, <1>5, <1>6, <1>7 DEF FilesInv, Holds

LEMMA FilesStep == FilesInv /\ [Next]_vars => FilesInv'
<1>1. FilesInv /\ UNCHANGED vars => FilesInv'
  BY DEF vars, FilesInv, TypeOK, Holds
<1> QED
  BY <1>1, FilesProcess, FilesStop DEF Next

\* Every variable always has a value of its type; a -d stop never sends its
\* signal to what is not a pid (daemonControl.c:60-81).
THEOREM DaemonTypeCorrect == Spec => []TypeOK
<1>1. FilesInv => TypeOK
  BY DEF FilesInv
<1> QED
  BY <1>1, FilesInit, FilesStep, PTL DEF Spec

-----------------------------------------------------------------------------
(* The commands are used one at a time, and nothing else goes wrong.       *)

Starting(p) == proc[p] \in {"forked", "named"}

\* The file of the one holder has the name until -d stop has removed it, and
\* then the holder has its SIGTERM.  One -d stop is at work at a time, and no
\* -d start beside it, so that the pid it reads is that of the holder if there
\* is one.  While a process is there whose SIGTERM would remove the lock file of
\* another, nobody else has the lock or is on the way to it.
ExclusionInv == lapses = {} =>
    /\ \A p \in Pids : Holds(p) => lock = fd[p] \/ (lock = 0 /\ p \in term)
    /\ AtMostOneHolds
    /\ \A r, s \in Stops : ~Idle(r) /\ ~Idle(s) => r = s
    /\ \A s \in Stops, p \in Pids : ~Idle(s) => ~Starting(p)
    /\ \A s \in Stops, p \in Pids : Holds(p) =>
          /\ stop[s].pc = "opened" => stop[s].file = fd[p]
          /\ stop[s].pc = "kill" => stop[s].target = p
          /\ stop[s].pc = "sleep" => p \in term
    /\ \A p, q \in Pids : Leaving(p) => ~Starting(q) /\ (Holds(q) => q = p)

LEMMA LapsesGrow == [Next]_vars => lapses \subseteq lapses'
<1>1. ASSUME NEW p \in Pids, Process(p) PROVE lapses \subseteq lapses'
  BY <1>1
  DEF Process, Start, NameLock, CreateLock, LockExists, WritePid, Dies, Returns, Crashes,
      StrangerStarts, HandleTerm, StrangerKilled, TermFromOutside, Ends
<1>2. ASSUME NEW s \in Stops, StopCommand(s) PROVE lapses \subseteq lapses'
  BY <1>2
  DEF StopCommand, StopOpens, StopReads, StopReadsNothing, StopKills, StopRemoves
<1> QED
  BY <1>1, <1>2 DEF Next, vars

LEMMA ExclusionProcess ==
    ASSUME FilesInv, ExclusionInv, NEW p \in Pids, Process(p)
    PROVE  ExclusionInv'
<1> SUFFICES ASSUME lapses' = {} PROVE ExclusionInv'
  BY DEF ExclusionInv
<1>1. /\ proc \in [Pids -> States] /\ Len(files) \in Nat /\ fd \in [Pids -> 0..Len(files)]
      /\ term \subseteq {q \in Pids : proc[q] # "none"}
  BY DEF FilesInv, TypeOK, States
<1>2. lapses = {}
  BY LapsesGrow DEF Next
<1>3. UNCHANGED stop
  BY DEF Process, Start, NameLock, CreateLock, LockExists, WritePid, Dies, Returns, Crashes,
     StrangerStarts, HandleTerm, StrangerKilled, TermFromOutside, Ends
<1>4. ASSUME UNCHANGED <<lock, fd, term>>,
             NEW place \in States, proc' = [proc EXCEPT ![p] = place],
             Holds(p) <=> place \in {"created", "running"},
             place \in Daemon => proc[p] \in Daemon,
             place \in {"forked", "named"} => Starting(p)
      PROVE  ExclusionInv'
  <2>1. \A q \in Pids : /\ Holds(q)' <=> Holds(q)
                        /\ Starting(q)' => Starting(q)
                        /\ Leaving(q)' => Leaving(q)
    BY <1>1, <1>4 DEF Holds, Starting, Leaving
  <2> QED
    BY <1>2, <1>3, <1>4, <2>1 DEF ExclusionInv, Idle, AtMostOneHolds
<1>5. ASSUME Ends(p) PROVE ExclusionInv'
  <2>1. /\ UNCHANGED lock /\ term' = term \ {p}
        /\ \A q \in Pids : /\ Holds(q)' => q # p /\ Holds(q)
                           /\ q # p => fd'[q] = fd[q] /\ proc'[q] = proc[q]
                           /\ Starting(q)' => Starting(q)
                           /\ Leaving(q)' => Leaving(q)
    BY <1>1, <1>5 DEF Ends, Holds, Starting, Leaving
  <2> QED
    BY <1>2, <1>3, <2>1 DEF ExclusionInv, Idle, AtMostOneHolds
<1>6. CASE Start(p)
  <2>1. /\ UNCHANGED <<lock, fd, term>> /\ proc[p] = "none" /\ p \notin term
        /\ proc' = [proc EXCEPT ![p] = "forked"]
        /\ \A s \in Stops : Idle(s)
        /\ \A q \in Pids : ~Leaving(q)
    BY <1>1, <1>6 DEF Start
  <2>2. \A q \in Pids : (Holds(q)' => Holds(q)) /\ ~Leaving(q)'
    BY <1>1, <2>1 DEF Holds, Leaving
  <2> QED
    BY <1>2, <1>3, <2>1, <2>2 DEF ExclusionInv, Idle, AtMostOneHolds
<1>7. CASE NameLock(p)
  BY <1>4, <1>7 DEF NameLock, Holds, Starting, States, Daemon
<1>8. CASE LockExists(p)
  BY <1>4, <1>8 DEF LockExists, Holds, Starting, States, Daemon
<1>9. CASE WritePid(p)
  BY <1>4, <1>9 DEF WritePid, Holds, Starting, States, Daemon
<1>10. CASE StrangerStarts(p)
  BY <1>4, <1>10 DEF StrangerStarts, Holds, Starting, States, Daemon
<1>11. CASE CreateLock(p)
  <2>1. /\ proc[p] = "named" /\ Starting(p) /\ ~Holds(p) /\ lock = 0 /\ lock' = fd'[p]
        /\ UNCHANGED term
        /\ \A q \in Pids : q # p => fd'[q] = fd[q] /\ proc'[q] = proc[q]
        /\ proc'[p] = "created"
    BY <1>1, <1>11 DEF CreateLock, Starting, Holds
  <2>2. \A s \in Stops : Idle(s)
    BY <1>2, <2>1 DEF ExclusionInv
  <2>3. \A q \in Pids : ~Leaving(q)
    BY <1>2, <2>1 DEF ExclusionInv
  <2>4. \A q \in Pids : ~Holds(q)
    <3> SUFFICES ASSUME NEW q \in Pids, Holds(q) PROVE FALSE
      OBVIOUS
    <3>1. fd[q] # 0
      BY <1>1 DEF FilesInv
    <3>2. q \in term
      BY <1>2, <2>1, <3>1 DEF ExclusionInv
    <3> QED
      BY <2>1, <2>3, <3>1, <3>2 DEF Leaving, Holds, Daemon
  <2>5. \A q \in Pids : (Holds(q)' => q = p) /\ ~Leaving(q)'
    BY <2>1, <2>3, <2>4 DEF Holds, Leaving
  <2> QED
    BY <1>2, <1>3, <2>1, <2>2, <2>5 DEF ExclusionInv, Idle, AtMostOneHolds
<1>12. CASE HandleTerm(p)
  <2>1. /\ p \in term /\ proc[p] \in Daemon /\ proc'[p] = "none" /\ term' = term \ {p}
        /\ \A q \in Pids : q # p => fd'[q] = fd[q] /\ proc'[q] = proc[q]
    BY <1>1, <1>12 DEF HandleTerm
  <2>2. \A q \in Pids : Holds(q) => q = p
    <3>1. CASE Holds(p)
      BY <1>2, <3>1 DEF ExclusionInv, AtMostOneHolds
    <3>2. CASE ~Holds(p)
      BY <1>2, <2>1, <3>2 DEF ExclusionInv, Leaving
    <3> QED
      BY <3>1, <3>2
  <2>3. \A q \in Pids : /\ ~Holds(q)'
                        /\ Starting(q)' => Starting(q)
                        /\ Leaving(q)' => Leaving(q)
    BY <2>1, <2>2 DEF Holds, Starting, Leaving, Daemon
  <2> QED
    BY <1>2, <1>3, <2>3 DEF ExclusionInv, Idle, AtMostOneHolds
<1>13. CASE TermFromOutside(p)
  <2>1. /\ UNCHANGED <<proc, lock, fd>> /\ term' = term \union {p} /\ Holds(p)
    BY <1>13 DEF TermFromOutside
  <2>2. \A q \in Pids : /\ Holds(q)' <=> Holds(q)
                        /\ Starting(q)' <=> Starting(q)
                        /\ Leaving(q)' => Leaving(q)
    BY <1>2, <2>1 DEF ExclusionInv, Holds, Starting, Leaving
  <2> QED
    BY <1>2, <1>3, <2>1, <2>2 DEF ExclusionInv, Idle, AtMostOneHolds
<1> QED
  BY <1>5, <1>6, <1>7, <1>8, <1>9, <1>10, <1>11, <1>12, <1>13
  DEF Process, Dies, Returns, Crashes, StrangerKilled

LEMMA ExclusionStop ==
    ASSUME FilesInv, ExclusionInv, NEW s \in Stops, StopCommand(s)
    PROVE  ExclusionInv'
<1> SUFFICES ASSUME lapses' = {} PROVE ExclusionInv'
  BY DEF ExclusionInv
<1>1. /\ \A c : [stop EXCEPT ![s] = c][s] = c
      /\ \A c : \A r \in Stops : r # s => [stop EXCEPT ![s] = c][r] = stop[r]
  BY DEF FilesInv, TypeOK
<1>2. lapses = {}
  BY LapsesGrow DEF Next
<1>3. UNCHANGED <<proc, fd>> /\ \A p \in Pids : (Holds(p)' <=> Holds(p)) /\ (Starting(p)' <=> Starting(p))
  BY DEF StopCommand, StopOpens, StopReads, StopReadsNothing, StopKills, StopRemoves,
     Holds, Starting
<1>4. CASE StopOpens(s)
  <2>1. /\ stop' = [stop EXCEPT ![s] = Stopping("opened", lock, EMPTY)] /\ lock # 0
        /\ UNCHANGED <<lock, term>>
        /\ \A r \in Stops : Idle(r)
        /\ \A p \in Pids : ~Starting(p)
    BY <1>4 DEF StopOpens, Starting
  <2>2. /\ stop'[s].pc = "opened" /\ stop'[s].file = lock
        /\ \A r \in Stops : r # s => stop'[r] = stop[r]
    BY <1>1, <2>1 DEF Stopping
  <2>3. \A p \in Pids : Leaving(p)' => Leaving(p)
    BY <1>3, <2>1 DEF Leaving, Holds
  <2> QED
    BY <1>2, <1>3, <2>1, <2>2, <2>3 DEF ExclusionInv, Idle, AtMostOneHolds
<1>5. CASE StopReads(s)
  <2>1. /\ stop[s].pc = "opened" /\ files[stop[s].file] # EMPTY
        /\ stop' = [stop EXCEPT ![s] = Stopping("kill", 0, files[stop[s].file])]
        /\ UNCHANGED <<lock, term>>
    BY <1>5 DEF StopReads
  <2>2. /\ stop'[s].pc = "kill" /\ stop'[s].target = files[stop[s].file]
        /\ \A r \in Stops : r # s => stop'[r] = stop[r]
    BY <1>1, <2>1 DEF Stopping
  <2>3. \A p \in Pids : Holds(p) => stop'[s].target = p
    BY <1>2, <2>1, <2>2 DEF ExclusionInv, FilesInv, Holds
  <2>4. \A p \in Pids : Leaving(p)' => Leaving(p)
    BY <1>3, <2>1 DEF Leaving, Holds
  <2> QED
    BY <1>2, <1>3, <2>1, <2>2, <2>3, <2>4 DEF ExclusionInv, Idle, AtMostOneHolds
<1>6. CASE StopReadsNothing(s)
  <2>1. /\ stop' = [stop EXCEPT ![s] = NoStop] /\ stop[s].pc = "opened"
        /\ UNCHANGED <<lock, term>>
    BY <1>6 DEF StopReadsNothing
  <2>2. stop'[s].pc = "idle" /\ \A r \in Stops : r # s => stop'[r] = stop[r]
    BY <1>1, <2>1 DEF NoStop, Stopping
  <2>3. \A p \in Pids : Leaving(p)' => Leaving(p)
    BY <1>3, <2>1 DEF Leaving, Holds
  <2> QED
    BY <1>2, <1>3, <2>1, <2>2, <2>3 DEF ExclusionInv, Idle, AtMostOneHolds
<1>7. CASE StopKills(s)
  <2>1. /\ stop[s].pc = "kill" /\ stop' = [stop EXCEPT ![s].pc = "sleep"]
        /\ term' = IF proc[stop[s].target] = "none" THEN term
                   ELSE term \union {stop[s].target}
        /\ UNCHANGED lock
    BY <1>7 DEF StopKills
  <2>2. stop'[s].pc = "sleep" /\ \A r \in Stops : r # s => stop'[r] = stop[r]
    BY <2>1 DEF FilesInv, TypeOK
  <2>3. \A p \in Pids : ~Starting(p)
    BY <1>2, <2>1 DEF ExclusionInv, Idle
  <2>4. \A p \in Pids : Holds(p) => stop[s].target = p /\ p \in term'
    BY <1>2, <2>1 DEF ExclusionInv, Holds
  <2>5. \A p \in Pids : p \in term => p \in term'
    BY <2>1
  <2>6. \A p \in Pids : Leaving(p)' => Leaving(p) \/ p = stop[s].target
    BY <1>3, <2>1 DEF Leaving, Holds
  <2> QED
    BY <1>2, <1>3, <2>1, <2>2, <2>3, <2>4, <2>5, <2>6 DEF ExclusionInv, Idle, AtMostOneHolds
<1>8. CASE StopRemoves(s)
  <2>1. /\ stop[s].pc = "sleep" /\ lock' = 0 /\ stop' = [stop EXCEPT ![s] = NoStop]
        /\ UNCHANGED term
    BY <1>8 DEF StopRemoves
  <2>2. stop'[s].pc = "idle" /\ \A r \in Stops : r # s => stop'[r] = stop[r]
    BY <1>1, <2>1 DEF NoStop, Stopping
  <2>3. \A p \in Pids : ~Starting(p) /\ (Holds(p) => p \in term)
    BY <1>2, <2>1 DEF ExclusionInv, Idle
  <2>4. \A p \in Pids : Leaving(p)' => Leaving(p) \/ Holds(p)
    BY <1>3, <2>1 DEF Leaving, Holds
  <2> QED
    BY <1>2, <1>3, <2>1, <2>2, <2>3, <2>4 DEF ExclusionInv, Idle, AtMostOneHolds
<1> QED
  BY <1>4, <1>5, <1>6, <1>7, <1>8 DEF StopCommand

LEMMA ExclusionInvariant == Spec => []FilesInv /\ []ExclusionInv
<1>1. Init => ExclusionInv
  BY DEF Init, ExclusionInv, AtMostOneHolds, Holds, Leaving, Idle, NoStop, Stopping, Starting
<1>2. FilesInv /\ ExclusionInv /\ [Next]_vars => ExclusionInv'
  <2>1. ExclusionInv /\ UNCHANGED vars => ExclusionInv'
    BY DEF vars, ExclusionInv, AtMostOneHolds, Holds, Leaving, Idle, Starting
  <2> QED
    BY <2>1, ExclusionProcess, ExclusionStop DEF Next
<1> QED
  BY <1>1, <1>2, FilesInit, FilesStep, PTL DEF Spec

\* At most one daemon has the lock (daemonControl.c:93), however many starts
\* race, daemons crash and pids are used again, if each -d stop is alone, no
\* -d start follows it while what it told to stop is still there, it finds a
\* pid in the lock file, and SIGTERMs of others go to the daemon with the lock.
THEOREM OnlyOneCopy == Spec => []OnlyCopy
<1>1. ExclusionInv => OnlyCopy
  BY DEF ExclusionInv, OnlyCopy
<1> QED
  BY <1>1, ExclusionInvariant, PTL

\* Under the same conditions, the lock file is that of the daemon that has the
\* lock and was not told to stop, and says its pid (daemonControl.c:102-135).
THEOREM HolderHasLock == Spec => []LockIsOfHolder
<1>1. FilesInv /\ ExclusionInv => LockIsOfHolder
  BY DEF FilesInv, ExclusionInv, LockIsOfHolder
<1> QED
  BY <1>1, ExclusionInvariant, PTL
=============================================================================
