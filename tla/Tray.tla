------------------------------- MODULE Tray -------------------------------
(***************************************************************************)
(* The icon in the system tray (systemTray.c): it owns the timer that      *)
(* polls the readers, shows whether a reader is connected, and ends the    *)
(* program.  GTK keeps the timers it was given until they are removed:     *)
(* timers is the bag of their delays.                                      *)
(***************************************************************************)
EXTENDS Naturals, Bags

VARIABLES
    timers,         \* the timers GTK has, by their delay
    timeoutID,      \* the delay of the timer the tray knows of; 0: none
    pollFunction,   \* readerPollFunction is set
    icon,           \* the icon says that a reader is connected
    notifications,  \* libnotify is initialised
    exited

tray == <<timers, timeoutID, pollFunction, icon, notifications, exited>>

TrayTypeOK ==
    /\ IsABag(timers) /\ timeoutID \in Nat /\ pollFunction \in BOOLEAN
    /\ icon \in BOOLEAN /\ notifications \in BOOLEAN /\ exited \in BOOLEAN

Timer(delay) == SetToBag({delay})

TrayInit ==
    /\ timers = EmptyBag /\ timeoutID = 0 /\ pollFunction = FALSE
    /\ icon = FALSE /\ notifications = FALSE /\ exited = FALSE

\* startSystemTray, with the delay the command line left.
startSystemTray(pollDelay) ==
    /\ notifications' = TRUE
    /\ pollFunction' = TRUE
    /\ timers' = timers (+) Timer(pollDelay)
    /\ timeoutID' = pollDelay
    /\ UNCHANGED <<icon, exited>>

TimersLeft == IF timeoutID # 0 THEN timers (-) Timer(timeoutID) ELSE timers

\* A variant with a bug: a timer is made before there is anything to call.
systemTraySetPollDelay_TooEarly(validPollDelay) ==
    /\ timers' = TimersLeft (+) Timer(validPollDelay)
    /\ timeoutID' = validPollDelay

\* The old timer is removed; there is a new one if the tray has started.
systemTraySetPollDelay(validPollDelay) ==
    IF pollFunction
    THEN timers' = TimersLeft (+) Timer(validPollDelay) /\ timeoutID' = validPollDelay
    ELSE timers' = TimersLeft /\ UNCHANGED timeoutID

\* The callback of the poll.
systemTraySetStatus(connected) ==
    /\ icon' = connected
    /\ UNCHANGED <<timers, timeoutID, pollFunction, notifications, exited>>

\* Quit: libnotify is told first, then the rules editor and the settings
\* dialog are asked, and either may refuse.
iconQuit(mayQuit) ==
    /\ notifications' = FALSE
    /\ exited' = mayQuit
    /\ UNCHANGED <<timers, timeoutID, pollFunction, icon>>
=============================================================================
