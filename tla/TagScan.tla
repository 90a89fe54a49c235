------------------------------ MODULE TagScan ------------------------------
(***************************************************************************)
(* What readersGetTagList and TagPoll expect of getTagList, the function   *)
(* of a tReaderDriver: while it runs the tags come and go, and it returns  *)
(* a failure or a list of at most MaxTags tags, none twice, each of which  *)
(* was on the reader at some moment of the call.                           *)
(***************************************************************************)
EXTENDS Naturals, Sequences, SequencesExt

CONSTANTS
    Tags,       \* the UIDs
    MaxTags,    \* tReaderDriver.maxTags
    Failed      \* the result of a call that failed

VARIABLES
    field,      \* the tags on the reader
    seen,       \* those that were there since the call began
    busy,       \* a call is running
    result      \* what the last call returned

scan == <<field, seen, busy, result>>

Lists(S) ==
    UNION {{s \in [1..n -> S] : IsInjective(s)} : n \in 0..MaxTags}

Init ==
    /\ field \in SUBSET Tags
    /\ seen = {}
    /\ busy = FALSE
    /\ result = <<>>

TagsMove ==
    /\ field' \in SUBSET Tags
    /\ seen' = IF busy THEN seen \union field' ELSE seen
    /\ UNCHANGED <<busy, result>>

Begin ==
    /\ ~busy
    /\ busy' = TRUE
    /\ seen' = field
    /\ UNCHANGED <<field, result>>

Return ==
    /\ busy
    /\ busy' = FALSE
    /\ result' \in Lists(seen) \union {Failed}
    /\ UNCHANGED <<field, seen>>

Next == TagsMove \/ Begin \/ Return

Spec == Init /\ [][Next]_scan
=============================================================================
