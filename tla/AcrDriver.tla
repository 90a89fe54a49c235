----------------------------- MODULE AcrDriver -----------------------------
(***************************************************************************)
(* The driver of the ACR122U (acr122UDriver.c) on one reader: readerCheck, *)
(* which readersConnect calls once a reader is opened, and getTagList,     *)
(* which polls the reader twice and lists the tags that answered.          *)
(*                                                                         *)
(* An APDU for the contactless side is two transmits: DIRECT_TRANSMIT      *)
(* leaves an answer in the reader, GET_RESPONSE fetches it.  The reader is *)
(* opened shared and without a transaction, so that another application    *)
(* may take or replace the answer in between.  The tags, the chip of the   *)
(* reader and the other application are external.                          *)
(***************************************************************************)
EXTENDS Naturals, Sequences, SequencesExt

CONSTANTS
    Tags,           \* the UIDs
    Jcop,           \* tags shown with a usable UID only if RATS is off
    Opaque,         \* tags of a type whose UID the driver does not know
    ACR122U_MAX_NUM_TAGS,
    Failed,
    Unknown,        \* "UID Unknown"
    NoTag,          \* an answer that names no tag, or no answer
    Garbage,        \* what malloc left in the array
    MaxReplugs, MaxGlitches, MaxOthers   \* bounds, see Kinds

ASSUME DriverAssumption ==
    /\ Jcop \subseteq Tags /\ Opaque \subseteq Tags
    /\ {Unknown, NoTag, Garbage} \intersect Tags = {}
    /\ Unknown # NoTag
    /\ ACR122U_MAX_NUM_TAGS \in Nat \ {0}

\* What may be plugged in: another make, a reader of the right name with
\* another firmware, the ACR122U without and with a SAM.
Makes == {"foreign", "other", "acr", "acr_sam"}

VARIABLES
    field,      \* the tags on the reader
    make,       \* what is plugged in
    chip,       \* its settings: retry (SET_RETRY was sent), rats (RATS on)
    pending,    \* the answer it keeps for GET_RESPONSE
    hCard,      \* "none", "live", or "stale" after it was plugged again
    pDriver,    \* the reader has this driver
    SAM,        \* tReader.SAM
    pc,         \* the call at work; "idle" between the calls
    sent,       \* its DIRECT_TRANSMIT is done, its GET_RESPONSE is not
    atr,        \* pbAtr: "zero" if SCardStatus failed
    i,          \* the round of getTagList
    array,      \* pTags[].uid
    numTags,    \* pReader->tagList.numTags
    result,     \* what the last getTagList returned
    seen,       \* history: the tags on the reader since it was called
    answered,   \* history: the UIDs it fetched
    used        \* how much of each bound has been used

device == <<make, chip>>
reader == <<hCard, pDriver, SAM>>
list == <<i, array, numTags, result, answered>>
vars == <<field, device, pending, reader, pc, sent, atr, list, seen, used>>

Kinds == {"replug", "glitch", "other"}
Bound == [replug |-> MaxReplugs, glitch |-> MaxGlitches, other |-> MaxOthers]

Spend(kind) ==
    /\ used[kind] < Bound[kind]
    /\ used' = [used EXCEPT ![kind] = @ + 1]

Rounds == 0..(ACR122U_MAX_NUM_TAGS - 1)
Answers == Tags \union {Unknown, NoTag}
Calls == {"firmware", "status", "retry", "serial", "id", "rats", "poll"}

TypeOK ==
    /\ field \subseteq Tags /\ seen \subseteq Tags /\ answered \subseteq Tags
    /\ make \in Makes
    /\ chip \in [retry : BOOLEAN, rats : BOOLEAN]
    /\ pending \in Answers
    /\ hCard \in {"none", "live", "stale"}
    /\ pDriver \in BOOLEAN /\ SAM \in BOOLEAN /\ sent \in BOOLEAN
    /\ pc \in Calls \union {"idle"}
    /\ atr \in {"zero", "sam", "nosam"}
    /\ i \in 0..ACR122U_MAX_NUM_TAGS
    /\ array \in [Rounds -> Tags \union {Unknown, Garbage}]
    /\ numTags \in 0..ACR122U_MAX_NUM_TAGS
    /\ result \in Seq(Tags) \union {Failed}
    /\ used \in [Kinds -> Nat]

Fresh == [retry |-> FALSE, rats |-> TRUE]

Init ==
    /\ field \in SUBSET Tags
    /\ make \in Makes /\ chip = Fresh /\ pending = NoTag
    /\ hCard = "none" /\ pDriver = FALSE /\ SAM = FALSE
    /\ pc = "idle" /\ sent = FALSE /\ atr = "zero"
    /\ i = 0 /\ array = [r \in Rounds |-> Garbage] /\ numTags = 0
    /\ result = <<>> /\ seen = {} /\ answered = {}
    /\ used = [k \in Kinds |-> 0]

-----------------------------------------------------------------------------
(* The tags, the reader and the other application.                         *)

TagsMove ==
    /\ field' \in SUBSET Tags \ {field}
    /\ seen' = IF pc = "poll" THEN seen \union field' ELSE seen
    /\ UNCHANGED <<device, pending, reader, pc, sent, atr, list, used>>

\* A reader is pulled out and the same or another one plugged in: its chip
\* starts with its defaults, and the handle is of no more use.
Replug ==
    /\ Spend("replug")
    /\ make' \in Makes
    /\ chip' = Fresh
    /\ pending' = NoTag
    /\ hCard' = IF hCard = "live" THEN "stale" ELSE hCard
    /\ UNCHANGED <<field, pDriver, SAM, pc, sent, atr, list, seen>>

\* How the reader shows a tag.
Shown(t) ==
    IF t \in Opaque \/ (t \in Jcop /\ chip.rats) THEN Unknown ELSE t

\* What a poll of the reader may find: it names one tag, and the only tag is
\* sometimes missed.  Without SET_RETRY it waits until there is a tag.
Found == {Shown(t) : t \in field} \union (IF chip.retry THEN {NoTag} ELSE {})

\* Another application that shares the reader takes the answer that waits to be
\* fetched, or polls the reader itself, whose answer then replaces it.  It sends
\* no command that changes the parameters of the chip, and none between two
\* exchanges of this program, where the next DIRECT_TRANSMIT replaces the
\* answer again.
OtherApplication ==
    /\ sent
    /\ Spend("other")
    /\ pending' \in {NoTag} \union Found
    /\ UNCHANGED <<field, device, reader, pc, sent, atr, list, seen>>

Environment == TagsMove \/ Replug \/ OtherApplication

-----------------------------------------------------------------------------
(* apduSend.                                                               *)

Pseudo == {"retry", "rats", "poll"}

\* A transmit of the call fails, or DIRECT_TRANSMIT is answered with an SW1
\* other than 61.
TransmitFails(call) ==
    /\ pc = call
    /\ sent' = FALSE
    /\ IF hCard = "live" THEN Spend("glitch") ELSE UNCHANGED used

\* Only a contactless APDU is sent in two transmits.
TransmitWorks(call) ==
    /\ pc = call /\ hCard = "live"
    /\ call \in Pseudo => sent
    /\ sent' = FALSE
    /\ UNCHANGED used

\* DIRECT_TRANSMIT: the chip carries out the command and keeps its answer.
DirectTransmit ==
    /\ pc \in Pseudo /\ ~sent /\ hCard = "live"
    /\ chip' = CASE pc = "retry" -> [chip EXCEPT !.retry = TRUE]
                 [] pc = "rats" -> [chip EXCEPT !.rats = FALSE]
                 [] OTHER -> chip
    /\ pending' \in IF pc = "poll" THEN Found ELSE {NoTag}
    /\ sent' = TRUE
    /\ UNCHANGED <<field, make, reader, pc, atr, list, seen, used>>

-----------------------------------------------------------------------------
(* readerCheck, between the SCardConnect of readersConnect and what it     *)
(* makes of the result.                                                    *)

\* A variant with a bug: what was read of the SAM is kept.
RESET_READER_KeepsSAM ==
    /\ hCard' = "none" /\ pDriver' = FALSE /\ UNCHANGED SAM

RESET_READER == hCard' = "none" /\ pDriver' = FALSE /\ SAM' = FALSE

\* SCardConnect works, and the driver looks at the name of the reader.  A
\* reader no driver supports keeps its handle and is not tried again.
SCardConnect ==
    /\ pc = "idle" /\ hCard = "none"
    /\ hCard' = "live"
    /\ pDriver' = FALSE
    /\ pc' = IF make = "foreign" THEN "idle" ELSE "firmware"
    /\ UNCHANGED <<field, device, pending, SAM, sent, atr, list, seen, used>>

Firmware ==
    /\ TransmitWorks("firmware")
    /\ pc' = IF make = "other" THEN "idle" ELSE "status"
    /\ UNCHANGED <<field, device, pending, reader, atr, list, seen>>

\* The result of SCardStatus is not looked at; pbAtr stays zero if it fails.
Status ==
    /\ pc = "status"
    /\ \/ /\ hCard = "live"
          /\ atr' = IF make = "acr_sam" THEN "sam" ELSE "nosam"
          /\ UNCHANGED used
       \/ /\ atr' = "zero"
          /\ IF hCard = "live" THEN Spend("glitch") ELSE UNCHANGED used
    /\ pc' = "retry"
    /\ UNCHANGED <<field, device, pending, reader, sent, list, seen>>

Retry ==
    /\ TransmitWorks("retry")
    /\ pending' = NoTag
    /\ pc' = IF atr = "nosam" THEN "rats" ELSE "serial"
    /\ UNCHANGED <<field, device, reader, atr, list, seen>>

SamSerial ==
    /\ TransmitWorks("serial")
    /\ pc' = "id"
    /\ UNCHANGED <<field, device, pending, reader, atr, list, seen>>

SamId ==
    /\ TransmitWorks("id")
    /\ SAM' = TRUE
    /\ pc' = "rats"
    /\ UNCHANGED <<field, device, pending, hCard, pDriver, atr, list, seen>>

\* A variant with a bug: a refused SET_RETRY is passed over like RATS off.
CheckFails_ButRetry ==
    /\ \/ \E call \in {"firmware", "serial", "id"} :
             TransmitFails(call) /\ RESET_READER /\ pc' = "idle"
       \/ /\ TransmitFails("retry")
          /\ pc' = IF atr = "nosam" THEN "rats" ELSE "serial"
          /\ UNCHANGED reader
    /\ UNCHANGED <<field, device, pending, atr, list, seen>>

\* Any of these calls that fails ends the check; the reader is reset.
CheckFails ==
    /\ \E call \in {"firmware", "retry", "serial", "id"} : TransmitFails(call)
    /\ RESET_READER
    /\ pc' = "idle"
    /\ UNCHANGED <<field, device, pending, atr, list, seen>>

\* RATS off may fail: the driver is taken all the same.
RatsOff ==
    /\ \/ TransmitWorks("rats") /\ pending' = NoTag
       \/ TransmitFails("rats") /\ UNCHANGED pending
    /\ pDriver' = TRUE
    /\ pc' = "idle"
    /\ UNCHANGED <<field, device, hCard, SAM, atr, list, seen>>

ReaderCheck ==
    \/ SCardConnect \/ Firmware \/ Status \/ Retry \/ SamSerial \/ SamId
    \/ CheckFails \/ RatsOff

-----------------------------------------------------------------------------
(* getTagList, on an array that malloc has just returned.                  *)

GetTagList ==
    /\ pc = "idle" /\ hCard # "none" /\ pDriver
    /\ pc' = "poll"
    /\ i' = 0 /\ numTags' = 0
    /\ array' = [r \in Rounds |-> Garbage]
    /\ seen' = field /\ answered' = {}
    /\ UNCHANGED <<field, device, pending, reader, sent, atr, result, used>>

\* A variant with a bug: the second round only counts after a first tag.
PollAnswers_OnlyFirst(uid) ==
    LET written == [array EXCEPT ![numTags] = uid]
        known == \E other \in 0..(numTags - 1) : written[i] = written[other]
    IN  /\ array' = written
        /\ numTags' = IF i = 0 \/ (numTags > 0 /\ ~known) THEN numTags + 1
                      ELSE numTags

\* A variant with a bug: known tags are counted again.
PollAnswers_Twice(uid) ==
    /\ array' = [array EXCEPT ![numTags] = uid]
    /\ numTags' = numTags + 1

\* A variant with a bug: the number of tags is not looked at.
PollAnswers_Unchecked(uid) ==
    LET written == [array EXCEPT ![numTags] = uid]
        known == \E other \in 0..(numTags - 1) : written[i] = written[other]
    IN  /\ array' = written
        /\ numTags' = IF i = 0 \/ ~known THEN numTags + 2 ELSE numTags

\* The answer is written behind the tags listed so far, but compared with
\* them from the place of the round.
PollAnswers(uid) ==
    LET written == [array EXCEPT ![numTags] = uid]
        known == \E other \in 0..(numTags - 1) : written[i] = written[other]
    IN  /\ array' = written
        /\ numTags' = IF i = 0 \/ ~known THEN numTags + 1 ELSE numTags

\* A tag whose UID the driver does not know is written, but not counted.
Answer ==
    IF pending = NoTag THEN UNCHANGED <<array, numTags>>
    ELSE IF pending = Unknown
         THEN array' = [array EXCEPT ![numTags] = Unknown] /\ UNCHANGED numTags
         ELSE PollAnswers(pending)

PollRound ==
    /\ TransmitWorks("poll")
    /\ Answer
    /\ pending' = NoTag
    /\ answered' = answered \union ({pending} \intersect Tags)
    /\ i' = i + 1
    /\ LET last == i + 1 = ACR122U_MAX_NUM_TAGS
       IN  /\ pc' = IF last THEN "idle" ELSE "poll"
           /\ result' = IF last THEN [k \in 1..numTags' |-> array'[k - 1]]
                        ELSE result
    /\ UNCHANGED <<field, device, reader, atr, seen>>

\* readersGetTagList resets a reader that could not be read.
PollFails ==
    /\ TransmitFails("poll")
    /\ RESET_READER
    /\ result' = Failed
    /\ pc' = "idle"
    /\ UNCHANGED <<field, device, pending, atr, i, array, numTags, seen, answered>>

Driver == DirectTransmit \/ ReaderCheck \/ GetTagList \/ PollRound \/ PollFails

\* readersDisconnect, on SIGHUP or when the program ends.
Disconnect ==
    /\ pc = "idle" /\ hCard # "none"
    /\ RESET_READER
    /\ UNCHANGED <<field, device, pending, pc, sent, atr, list, seen, used>>

Next == Driver \/ Disconnect \/ Environment

Spec == Init /\ [][Next]_vars

\* The process goes on; nothing is assumed of the tags and the other program.
FairSpec == Spec /\ WF_vars(Driver)

-----------------------------------------------------------------------------
(* What the driver promises.                                               *)

Abstract == INSTANCE TagScan
    WITH MaxTags <- ACR122U_MAX_NUM_TAGS, busy <- pc = "poll"

\* getTagList is what TagPoll takes a driver to be: however the tags move,
\* whatever the other application does to the answers, it lists no tag twice
\* and none that was not there during the call (acr122UDriver.c:394-411).
ImplementsTagScan == Abstract!Spec

\* A list that was returned without an error holds exactly the tags whose UID
\* was fetched in one of the rounds: a tag that answers only in the second
\* round is not lost (acr122UDriver.c:335-337).
ListedAnswers ==
    pc = "idle" /\ result # Failed => Range(result) = answered

\* A reader in use that is still the one that was checked, and whose status
\* could be read, is said to have a SAM just when it has one, whatever was
\* plugged in before (acr122UDriver.c:500-533, tagReader.c:53-64).
SamIsReaders ==
    pDriver /\ hCard = "live" /\ atr # "zero" /\ pc \in {"idle", "poll"} =>
        (SAM <=> make = "acr_sam")

\* getTagList comes back although no tag may ever come: SET_RETRY was sent to
\* every reader that has the driver (acr122UDriver.c:81-82, 494-498).
ReadReturns == pc = "poll" ~> pc = "idle"
=============================================================================
