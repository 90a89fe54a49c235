---------------------------- MODULE CommandLine ----------------------------
(***************************************************************************)
(* The settings of the program, and what the command line makes of them    *)
(* before main decides how to run (parseCommandLine, main in               *)
(* tagEventor.c).  The options are read one at a time, and -p already uses *)
(* the operation that changes the timer of a tray that is not there yet.   *)
(*                                                                         *)
(* The setting of the readers is a bitmap; here it is the set of its bits, *)
(* AUTO and the numbers of readers.                                        *)
(***************************************************************************)
EXTENDS Integers, Tray

CONSTANTS
    NumSlots,           \* MAX_NUM_READERS
    DelayMin, DelayDefault, DelayMax,   \* POLL_DELAY_MILLI_SECONDS_...
    VerbosityMax,       \* VERBOSITY_MAX; VERBOSITY_MIN and _DEFAULT are 0
    Options,            \* options of the command line
    MaxOptions          \* bound on those of one command line

ASSUME LimitsAssumption ==
    /\ NumSlots \in Nat \ {0}
    /\ DelayMin \in Nat \ {0} /\ DelayDefault \in Nat /\ DelayMax \in Nat
    /\ DelayMin <= DelayDefault /\ DelayDefault <= DelayMax
    /\ VerbosityMax \in Nat /\ MaxOptions \in Nat

ASSUME OptionsAssumption == \A option \in Options : option.number \in Int

VARIABLES
    readerSetting,      \* the bits of readerManager.readerSetting
    appPollDelayms,
    appVerbosity,       \* appVerbosityLevel
    runOptions,
    phase,              \* "options", then in the tray or at its end
    optionsRead         \* the options so far (bound: MaxOptions)

settings == <<readerSetting, appPollDelayms, appVerbosity>>
commandLine == <<runOptions, phase, optionsRead>>

Slots == 0..(NumSlots - 1)
AUTO == NumSlots
Bits == Slots \union {AUTO}
Delays == DelayMin..DelayMax
Levels == 0..VerbosityMax
RunOptions == {"SYSTEM_TRAY", "START_DAEMON", "STOP_DAEMON"}

CommandLineTypeOK ==
    /\ readerSetting \subseteq Bits
    /\ appPollDelayms \in Delays
    /\ appVerbosity \in Levels
    /\ runOptions \in RunOptions
    /\ phase \in {"options", "tray", "ended"}
    /\ optionsRead \in 0..MaxOptions

\* readersInit and the default values.
CommandLineInit ==
    /\ readerSetting = {}
    /\ appPollDelayms = DelayDefault
    /\ appVerbosity = 0
    /\ runOptions = "SYSTEM_TRAY" /\ phase = "options" /\ optionsRead = 0

-----------------------------------------------------------------------------
(* The two operations that keep a value within its limits.                 *)

Clamp(low, value, high) ==
    IF value > high THEN high ELSE IF value < low THEN low ELSE value

\* A variant with a bug: the upper limit is not looked at.
appPollDelay_NoMax(newPollDelay) ==
    IF newPollDelay < DelayMin THEN DelayMin ELSE newPollDelay

appPollDelay(newPollDelay) == Clamp(DelayMin, newPollDelay, DelayMax)

appPollDelaySet(newPollDelay) ==
    /\ appPollDelayms' = appPollDelay(newPollDelay)
    /\ systemTraySetPollDelay(appPollDelay(newPollDelay))

appVerbosityLevelSet(newLevel) ==
    appVerbosity' = Clamp(0, newLevel, VerbosityMax)

-----------------------------------------------------------------------------
(* The options.  An option has a letter, the word that follows it, and the *)
(* number atoi makes of that word, which is 0 for "AUTO".                  *)

Option(letter, word, number) ==
    [letter |-> letter, word |-> word, number |-> number]

\* strcmp gives 0 for equal strings and is compared with 4: "AUTO" is never
\* recognised, and goes the way of the numbers.
ReaderOption(option) ==
    /\ option.letter = "n"
    /\ readerSetting' = readerSetting \union ({option.number} \intersect Slots)
    /\ UNCHANGED <<appPollDelayms, appVerbosity, runOptions, phase, tray>>

VerbosityOption(option) ==
    /\ option.letter = "v"
    /\ appVerbosityLevelSet(option.number)
    /\ UNCHANGED <<readerSetting, appPollDelayms, runOptions, phase, tray>>

DaemonOption(option) ==
    /\ option.letter = "d"
    /\ \/ option.word = "start" /\ runOptions' = "START_DAEMON"
       \/ option.word = "stop" /\ runOptions' = "STOP_DAEMON"
    /\ UNCHANGED <<settings, phase, tray>>

DelayOption(option) ==
    /\ option.letter = "p"
    /\ appPollDelaySet(option.number)
    /\ UNCHANGED <<readerSetting, appVerbosity, runOptions, phase,
                   icon, notifications, pollFunction, exited>>

\* Help and errors end the program.
EndingOption(option) ==
    /\ \/ option.letter \notin {"n", "v", "d", "p"}
       \/ option.letter = "d" /\ option.word \notin {"start", "stop"}
    /\ phase' = "ended"
    /\ UNCHANGED <<settings, runOptions, tray>>

OptionRead ==
    /\ phase = "options" /\ optionsRead < MaxOptions
    /\ optionsRead' = optionsRead + 1
    /\ \E option \in Options :
          \/ ReaderOption(option) \/ VerbosityOption(option)
          \/ DaemonOption(option) \/ DelayOption(option)
          \/ EndingOption(option)

\* A variant with a bug: nothing is done if no reader was named.
AutoByDefault_Not(setting) == setting

AutoByDefault(setting) == IF setting = {} THEN {AUTO} ELSE setting

\* There are no more options.  What -d start and -d stop do is DaemonControl.
OptionsEnd ==
    /\ phase = "options"
    /\ readerSetting' = AutoByDefault(readerSetting)
    /\ \/ /\ runOptions = "SYSTEM_TRAY"
          /\ phase' = "tray"
          /\ startSystemTray(appPollDelayms)
       \/ /\ runOptions # "SYSTEM_TRAY"
          /\ phase' = "ended"
          /\ UNCHANGED tray
    /\ optionsRead' = 0
    /\ UNCHANGED <<appPollDelayms, appVerbosity, runOptions>>

parseCommandLine == OptionRead \/ OptionsEnd
=============================================================================
