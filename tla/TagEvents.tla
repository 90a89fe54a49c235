----------------------------- MODULE TagEvents -----------------------------
(***************************************************************************)
(* What tagEventor promises to the scripts it runs.                        *)
(*                                                                         *)
(* Each successful poll is an observation: the set of tags the readers saw *)
(* together.  Between two observations exactly the difference is delivered,*)
(* one event at a time: an OUT for every tag that was reported and is no   *)
(* longer seen, then an IN for every tag that is seen and not yet reported.*)
(* scripts/generic:12 words it as "IN for new tag placed on reader, OUT    *)
(* for tag removed from reader".                                           *)
(*                                                                         *)
(* The promise ends with the first observation that fails: the code drops  *)
(* differences then.  TagPoll is shown to implement this.                  *)
(***************************************************************************)

CONSTANT Tags

VARIABLES
    seen,       \* the tags of the last observation
    reported,   \* the tags whose last delivered event was an IN
    lapsed      \* an observation has failed

vars == <<seen, reported, lapsed>>

TypeOK ==
    /\ seen \in SUBSET Tags /\ reported \in SUBSET Tags
    /\ lapsed \in BOOLEAN

Init == seen = {} /\ reported = {} /\ lapsed = FALSE

\* A poll: only once everything about the last one has been delivered.
Observe(S) ==
    /\ reported = seen
    /\ seen' = S
    /\ UNCHANGED <<reported, lapsed>>

Out(t) ==
    /\ t \in reported \ seen
    /\ reported' = reported \ {t}
    /\ UNCHANGED <<seen, lapsed>>

\* Departures are delivered before arrivals.
In(t) ==
    /\ reported \subseteq seen
    /\ t \in seen \ reported
    /\ reported' = reported \union {t}
    /\ UNCHANGED <<seen, lapsed>>

\* An observation fails, or one has failed before: anything may follow.
Lapse ==
    /\ lapsed' = TRUE
    /\ seen' \in SUBSET Tags /\ reported' \in SUBSET Tags

Next ==
    \/ \E S \in SUBSET Tags : Observe(S)
    \/ \E t \in Tags : Out(t) \/ In(t)
    \/ Lapse

Spec == Init /\ [][Next]_vars
=============================================================================
