---------------------------- MODULE RulesTable ----------------------------
(***************************************************************************)
(* The rules that choose the script for a tag event (rulesTable.c): the    *)
(* table, and the search rulesTableEventDispatch makes through it from the *)
(* last rule to the first, until a script is found and a child forked.     *)
(*                                                                         *)
(* The search runs on the only thread: nothing else happens to the table   *)
(* before it is over.  Whether a script exists is known when stat is asked *)
(* for it; a file that was missing stays so for the time of the event.     *)
(* fork may fail at any time, for what other programs use; and as no child *)
(* is ever waited for, each stays a process of the system, and fork does   *)
(* not work any more when there are MaxChildren of them.                   *)
(***************************************************************************)
EXTENDS Naturals, Sequences, FiniteSets, FiniteSetsExt

CONSTANTS
    Tags,           \* the UIDs, which are also names of scripts
    NoTag,
    MaxRules,       \* bound on the rules: those built in and those added
    MaxChildren     \* the processes the system lets the user have

ASSUME RulesAssumption ==
    /\ "generic" \notin Tags /\ NoTag \notin Tags
    /\ MaxRules \in Nat /\ MaxRules >= 4 /\ MaxChildren \in Nat

VARIABLES
    table,      \* tagEntryArray
    missing,    \* the scripts that stat did not find during this event
    uid,        \* the tag of the event that is dispatched; NoTag: none is
    ruleIndex,  \* the rule looked at, counted from 1; 0 behind the last
    ran,        \* the rule whose script was started; 0: none
    children,   \* the processes forked for scripts so far
    unforked    \* history: the rules of this event whose fork failed

search == <<missing, uid, ruleIndex, ran, children, unforked>>
rules == <<table, search>>

\* DEFAULT_COMMAND_DIR and the directory of the sources.
Folders == {"application", "./scripts"}
Matches == {"GENERIC_MATCH", "TAG_ID_MATCH"}
Rule == [folder : Folders, match : Matches, enabled : BOOLEAN]
Scripts == Folders \X (Tags \union {"generic"})

Entry(folder, match, enabled) ==
    [folder |-> folder, match |-> match, enabled |-> enabled]

defaultCommands ==
    <<Entry("application", "GENERIC_MATCH", TRUE),
      Entry("application", "TAG_ID_MATCH", TRUE),
      Entry("./scripts", "GENERIC_MATCH", TRUE),
      Entry("./scripts", "TAG_ID_MATCH", TRUE)>>

RulesTypeOK ==
    /\ table \in Seq(Rule) /\ Len(table) <= MaxRules
    /\ missing \subseteq Scripts
    /\ uid \in Tags \union {NoTag}
    /\ ruleIndex \in 0..Len(table) /\ ran \in 0..Len(table)
    /\ children \in 0..MaxChildren
    /\ unforked \subseteq DOMAIN table

rulesTableRead ==
    /\ table = defaultCommands
    /\ missing = {} /\ uid = NoTag /\ ruleIndex = 0 /\ ran = 0
    /\ children = 0 /\ unforked = {}

-----------------------------------------------------------------------------
(* What the rules editor does to the table.                                *)

rulesTableAddEntry ==
    /\ Len(table) < MaxRules
    /\ table' = Append(table, Entry("application", "TAG_ID_MATCH", FALSE))

rulesTableEntryEnable(index, enable) ==
    table' = [table EXCEPT ![index].enabled = enable]

-----------------------------------------------------------------------------
(* The search.                                                             *)

Script(rule, tag) ==
    <<rule.folder, IF rule.match = "TAG_ID_MATCH" THEN tag ELSE "generic">>

\* A variant with a bug: the last rule is not looked at.
BeginDispatch_OffByOne(tag) ==
    /\ uid = NoTag
    /\ uid' = tag
    /\ ruleIndex' = Len(table) - 1
    /\ UNCHANGED <<table, missing, ran, children, unforked>>

\* A tag event is given to the table.
BeginDispatch(tag) ==
    /\ uid = NoTag
    /\ uid' = tag
    /\ ruleIndex' = Len(table)
    /\ UNCHANGED <<table, missing, ran, children, unforked>>

Searching == uid # NoTag /\ ran = 0 /\ ruleIndex > 0

ScriptLookedFor == Script(table[ruleIndex], uid)

NextRule == Searching /\ ruleIndex' = ruleIndex - 1
                      /\ UNCHANGED <<table, uid, ran, children>>

RuleIsOff ==
    /\ NextRule /\ ~table[ruleIndex].enabled
    /\ UNCHANGED <<missing, unforked>>

ScriptMissing ==
    /\ NextRule /\ table[ruleIndex].enabled
    /\ missing' = missing \union {ScriptLookedFor}
    /\ UNCHANGED unforked

ScriptFound == table[ruleIndex].enabled /\ ScriptLookedFor \notin missing

\* The search goes on, and the next fork may work.
ForkFails ==
    /\ NextRule /\ ScriptFound
    /\ unforked' = unforked \union {ruleIndex}
    /\ UNCHANGED missing

\* The child runs the script, or fails to, without the parent knowing.
ScriptStarted ==
    /\ Searching /\ ScriptFound
    /\ children < MaxChildren
    /\ ran' = ruleIndex
    /\ children' = children + 1
    /\ UNCHANGED <<table, missing, uid, ruleIndex, unforked>>

execScriptInChild == ScriptMissing \/ ForkFails \/ ScriptStarted

\* TRUE is returned if a child was forked, and eventDispatch tells the user
\* if none was.
AtReturn == uid # NoTag /\ (ran # 0 \/ ruleIndex = 0)

DispatchReturns ==
    /\ AtReturn
    /\ uid' = NoTag /\ ran' = 0 /\ ruleIndex' = 0 /\ missing' = {} /\ unforked' = {}
    /\ UNCHANGED <<table, children>>

Dispatch == RuleIsOff \/ execScriptInChild \/ DispatchReturns

-----------------------------------------------------------------------------
(* What the search promises.                                               *)

\* The rules that are on, whose script may exist, and for which fork did not
\* fail.
Candidates ==
    {r \in DOMAIN table \ unforked :
        table[r].enabled /\ Script(table[r], uid) \notin missing}

\* The script that runs for an event is that of the last rule of the table
\* that is switched on, whose script exists and for which fork worked, and only
\* that one; if none runs, there was no such rule (rulesTable.c:226-241,
\* 267-271).  The editor shows the table from its start, and tells its user that
\* it is tested in that order (rulesEditor.c:463).
RightScript ==
    AtReturn => IF ran # 0 THEN ran = Max(Candidates) ELSE Candidates = {}
=============================================================================
