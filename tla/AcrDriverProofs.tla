-------------------------- MODULE AcrDriverProofs --------------------------
(* Theorems about AcrDriver, for any tags of any kinds and any number of   *)
(* exchanged readers, failing transmits and other applications.            *)
EXTENDS AcrDriver, TLAPS

-----------------------------------------------------------------------------
(* The types.                                                              *)

LEMMA TypeInit == Init => TypeOK
<1> SUFFICES ASSUME Init PROVE TypeOK
  OBVIOUS
<1> USE DriverAssumption
<1>1. array \in [Rounds -> Tags \union {Unknown, Garbage}]
  BY DEF Init
<1>2. used \in [Kinds -> Nat] /\ 0 \in 0..ACR122U_MAX_NUM_TAGS
  BY DEF Init
<1>3. chip \in [retry : BOOLEAN, rats : BOOLEAN]
  BY DEF Init, Fresh
<1>4. result \in Seq(Tags)
  BY DEF Init
<1>5. FALSE \in BOOLEAN /\ NoTag \in Answers
  BY DEF Answers
<1> QED
  BY <1>1, <1>2, <1>3, <1>4, <1>5 DEF Init, TypeOK

\* A transmit that works or fails leaves the counts of the bounds counts.
LEMMA Transmits ==
    ASSUME TypeOK, NEW call \in Calls, TransmitWorks(call) \/ TransmitFails(call)
    PROVE  pc = call /\ sent' = FALSE /\ used' \in [Kinds -> Nat]
BY DEF TransmitWorks, TransmitFails, Spend, TypeOK, Kinds

\* Where the rounds stand; what is listed so far are tags.
RoundInv ==
    pc = "poll" => /\ i \in Rounds /\ numTags <= i
                   /\ \A k \in 0..(numTags - 1) : array[k] \in Tags

\* A list grows by nothing or by its next place.
LEMMA Places ==
    ASSUME NEW n \in Nat, NEW m, m = n \/ m = n + 1
    PROVE  /\ m \in Nat /\ n <= m /\ m <= n + 1
           /\ \A k \in 0..(m - 1) : k = n \/ k \in 0..(n - 1)
           /\ \A k \in 1..m : k - 1 \in 0..(m - 1)
OBVIOUS

\* A round writes one answer at the end of what is listed.
LEMMA AnswerTyped ==
    ASSUME TypeOK, RoundInv, pc = "poll", Answer
    PROVE  /\ array' \in [Rounds -> Tags \union {Unknown, Garbage}]
           /\ (numTags' = numTags \/ numTags' = numTags + 1) /\ numTags \in Nat
           /\ \A k \in 0..(numTags' - 1) : k \in Rounds /\ array'[k] \in Tags
<1>1. numTags \in Rounds /\ numTags \in Nat /\ \A k \in 0..(numTags - 1) : k \in Rounds
  BY DriverAssumption DEF TypeOK, Rounds, RoundInv
<1>2. CASE pending = NoTag
  BY <1>1, <1>2 DEF Answer, TypeOK, RoundInv
<1>3. CASE pending # NoTag /\ pending = Unknown
  BY <1>1, <1>3 DEF Answer, TypeOK, RoundInv
<1>4. CASE pending # NoTag /\ pending # Unknown
  <2>1. /\ pending \in Tags /\ array' = [array EXCEPT ![numTags] = pending]
        /\ (numTags' = numTags \/ numTags' = numTags + 1)
    BY <1>4 DEF Answer, PollAnswers, TypeOK, Answers
  <2>2. array' \in [Rounds -> Tags \union {Unknown, Garbage}]
    BY <1>1, <2>1 DEF TypeOK
  <2>3. \A k \in Rounds : array'[k] = IF k = numTags THEN pending ELSE array[k]
    BY <2>1 DEF TypeOK
  <2>4. ASSUME NEW k \in 0..(numTags' - 1) PROVE k \in Rounds /\ array'[k] \in Tags
    <3>1. k = numTags \/ k \in 0..(numTags - 1)
      BY <1>1, <2>1, Places, Zenon
    <3> QED
      BY <1>1, <2>1, <2>3, <3>1 DEF RoundInv
  <2> QED
    BY <1>1, <2>1, <2>2, <2>4
<1> QED
  BY <1>2, <1>3, <1>4

LEMMA TypeStep == TypeOK /\ RoundInv /\ [Next]_vars => TypeOK' /\ RoundInv'
<1> SUFFICES ASSUME TypeOK, RoundInv, [Next]_vars PROVE TypeOK' /\ RoundInv'
  OBVIOUS
<1> USE DriverAssumption DEF device, reader, list
<1>1. CASE TagsMove
  BY <1>1 DEF TagsMove, TypeOK, RoundInv
<1>2. CASE Replug
  <2>1. /\ used' \in [Kinds -> Nat] /\ chip' \in [retry : BOOLEAN, rats : BOOLEAN]
        /\ make' \in Makes /\ pending' \in Answers /\ hCard' \in {"none", "live", "stale"}
    BY <1>2 DEF Replug, Spend, TypeOK, Kinds, Fresh, Answers
  <2> QED
    BY <1>2, <2>1 DEF Replug, TypeOK, RoundInv
<1>3. Found \subseteq Answers
  BY DEF Found, Shown, Answers, TypeOK
<1>4. CASE OtherApplication
  <2>1. used' \in [Kinds -> Nat] /\ pending' \in Answers
    BY <1>3, <1>4 DEF OtherApplication, Spend, TypeOK, Kinds, Answers
  <2> QED
    BY <1>4, <2>1 DEF OtherApplication, TypeOK, RoundInv
<1>5. CASE DirectTransmit
  <2>1. pending' \in Answers
    BY <1>3, <1>5 DEF DirectTransmit, Answers
  <2>2. chip' \in [retry : BOOLEAN, rats : BOOLEAN]
    BY <1>5 DEF DirectTransmit, TypeOK
  <2> QED
    BY <1>5, <2>1, <2>2 DEF DirectTransmit, TypeOK, RoundInv
<1>6. CASE ReaderCheck
  <2>0. sent' \in BOOLEAN /\ used' \in [Kinds -> Nat]
    <3>1. ASSUME UNCHANGED <<sent, used>> PROVE sent' \in BOOLEAN /\ used' \in [Kinds -> Nat]
      BY <3>1 DEF TypeOK
    <3>2. CASE Status
      BY <3>2 DEF Status, Spend, TypeOK, Kinds
    <3> QED
      BY <1>6, <3>1, <3>2, Transmits DEF ReaderCheck, SCardConnect, Firmware, Retry,
         SamSerial, SamId, CheckFails, RatsOff, Calls
  <2>1. /\ pc' \in Calls \union {"idle"} /\ pc' # "poll"
        /\ UNCHANGED <<field, device, list, seen>>
    BY <1>6 DEF ReaderCheck, SCardConnect, Firmware, Status, Retry, SamSerial, SamId,
       CheckFails, RatsOff, Calls
  <2>2. /\ pending' \in Answers /\ atr' \in {"zero", "sam", "nosam"}
        /\ hCard' \in {"none", "live", "stale"} /\ pDriver' \in BOOLEAN /\ SAM' \in BOOLEAN
    BY <1>6 DEF ReaderCheck, SCardConnect, Firmware, Status, Retry, SamSerial, SamId,
       CheckFails, RatsOff, RESET_READER, TypeOK, Answers
  <2> QED
    BY <2>0, <2>1, <2>2 DEF TypeOK, RoundInv
<1>7. CASE GetTagList
  <2>1. array' \in [Rounds -> Tags \union {Unknown, Garbage}] /\ 0 \in Rounds
    BY <1>7 DEF GetTagList, Rounds
  <2> QED
    BY <1>7, <2>1 DEF GetTagList, TypeOK, Calls, RoundInv
<1>8. CASE PollRound
  <2>1. /\ pc = "poll" /\ sent' = FALSE /\ used' \in [Kinds -> Nat]
    BY <1>8, Transmits DEF PollRound, Calls
  <2>2. /\ array' \in [Rounds -> Tags \union {Unknown, Garbage}]
        /\ (numTags' = numTags \/ numTags' = numTags + 1)
        /\ i \in Rounds /\ numTags <= i /\ numTags \in Nat
        /\ \A k \in 0..(numTags' - 1) : array'[k] \in Tags
    BY <1>8, <2>1, AnswerTyped DEF PollRound, RoundInv, TypeOK
  <2>3. numTags' <= i' /\ i' \in 0..ACR122U_MAX_NUM_TAGS
        /\ numTags' \in 0..ACR122U_MAX_NUM_TAGS
    BY <1>8, <2>2 DEF PollRound, Rounds
  <2>4. CASE i + 1 # ACR122U_MAX_NUM_TAGS
    <3>1. pc' = "poll" /\ result' = result /\ i' \in Rounds
      BY <1>8, <2>2, <2>4 DEF PollRound, Rounds
    <3> QED
      BY <1>8, <2>1, <2>2, <2>3, <3>1 DEF PollRound, TypeOK, RoundInv, Answers, Calls
  <2>5. CASE i + 1 = ACR122U_MAX_NUM_TAGS
    <3>1. pc' = "idle" /\ result' = [k \in 1..numTags' |-> array'[k - 1]]
      BY <1>8, <2>5 DEF PollRound
    <3>2. result' \in Seq(Tags)
      <4>1. numTags' \in Nat /\ \A k \in 1..numTags' : array'[k - 1] \in Tags
        <5>1. numTags' \in Nat /\ \A k \in 1..numTags' : k - 1 \in 0..(numTags' - 1)
          BY <2>2, Places, Zenon
        <5> QED
          BY <2>2, <5>1, Zenon
      <4> QED
        BY <3>1, <4>1
    <3> QED
      BY <1>8, <2>1, <2>2, <2>3, <3>1, <3>2 DEF PollRound, TypeOK, RoundInv, Answers, Calls
  <2> QED
    BY <2>4, <2>5
<1>9. CASE PollFails
  <2>1. /\ pc = "poll" /\ sent' = FALSE /\ used' \in [Kinds -> Nat]
    BY <1>9, Transmits DEF PollFails, Calls
  <2> QED
    BY <1>9, <2>1 DEF PollFails, RESET_READER, TypeOK, RoundInv
<1>10. CASE Disconnect
  BY <1>10 DEF Disconnect, RESET_READER, TypeOK, RoundInv
<1>11. CASE UNCHANGED vars
  BY <1>11 DEF vars, TypeOK, RoundInv
<1> QED
  BY <1>1, <1>2, <1>4, <1>5, <1>6, <1>7, <1>8, <1>9, <1>10, <1>11
  DEF Next, Driver, Environment

\* Every variable of the driver always has a value of its type; in particular
\* the list never outgrows the array of maxTags entries and its entries are
\* tags (acr122UDriver.c:335-437).
THEOREM DriverTypeCorrect == Spec => []TypeOK
<1>1. Init => RoundInv
  BY DEF Init, RoundInv
<1> QED
  BY <1>1, TypeInit, TypeStep, PTL DEF Spec

-----------------------------------------------------------------------------
(* The SAM.                                                                *)

\* Only a contactless call is between two transmits; the driver is given to a
\* reader at the end of its check, and a slot without a handle has neither.
CallsInv ==
    /\ sent => pc \in Pseudo
    /\ hCard = "none" => ~SAM /\ ~pDriver /\ pc = "idle"
    /\ pc \in Calls \ {"poll"} => ~pDriver
    /\ pc \in {"firmware", "status", "retry", "serial", "id"} => ~SAM

\* From the reading of the status on, what it said is true of the reader for
\* as long as the handle is good, and from the end of the questions to the SAM
\* on the flag says the same.
SamInv ==
    /\ CallsInv
    /\ pc \in {"serial", "id"} => atr # "nosam"
    /\ hCard = "live" /\ atr # "zero" /\ (pDriver \/ pc \in {"retry", "serial", "id", "rats"})
          => (atr = "sam" <=> make = "acr_sam")
    /\ (pDriver \/ pc = "rats") /\ atr # "zero" => (SAM <=> atr = "sam")

LEMMA SamStep == TypeOK /\ SamInv /\ [Next]_vars => SamInv'
<1> SUFFICES ASSUME TypeOK, SamInv, [Next]_vars PROVE SamInv'
  OBVIOUS
<1> USE DEF device, reader, list, SamInv, CallsInv, Calls, Pseudo, RESET_READER,
        TransmitWorks, TransmitFails
<1>1. CASE TagsMove \/ OtherApplication
  BY <1>1 DEF TagsMove, OtherApplication
<1>2. CASE Replug
  BY <1>2 DEF Replug
<1>3. CASE DirectTransmit
  BY <1>3 DEF DirectTransmit
<1>4. CASE SCardConnect
  BY <1>4 DEF SCardConnect
<1>5. CASE Firmware
  BY <1>5 DEF Firmware
<1>6. CASE Status
  BY <1>6 DEF Status
<1>7. CASE Retry
  BY <1>7 DEF Retry, TypeOK
<1>8. CASE SamSerial
  BY <1>8 DEF SamSerial
<1>9. CASE SamId
  BY <1>9 DEF SamId, TypeOK
<1>10. CASE CheckFails
  BY <1>10 DEF CheckFails
<1>11. CASE RatsOff
  BY <1>11 DEF RatsOff
<1>12. CASE GetTagList
  BY <1>12 DEF GetTagList
<1>13. CASE PollRound
  BY <1>13 DEF PollRound
<1>14. CASE PollFails
  BY <1>14 DEF PollFails
<1>15. CASE Disconnect
  BY <1>15 DEF Disconnect
<1>16. CASE UNCHANGED vars
  BY <1>16 DEF vars
<1> HIDE DEF SamInv
<1> QED
  BY <1>1, <1>2, <1>3, <1>4, <1>5, <1>6, <1>7, <1>8, <1>9, <1>10, <1>11, <1>12,
     <1>13, <1>14, <1>15, <1>16, Zenon
  DEF Next, Driver, Environment, ReaderCheck

\* A reader in use has a SAM just when it is said to have one, whatever was
\* plugged in before (acr122UDriver.c:500-533, tagReader.c:53-64).
THEOREM SamIsKnown == Spec => []SamIsReaders
<1>1. Init => SamInv
  BY DEF Init, SamInv, CallsInv, Calls
<1>2. SamInv => SamIsReaders
  BY DEF SamInv, SamIsReaders
<1> QED
  BY <1>1, <1>2, SamStep, DriverTypeCorrect, PTL DEF Spec

-----------------------------------------------------------------------------
(* What is listed.                                                         *)

Listed == {array[k] : k \in 0..(numTags - 1)}

\* During a call all that is listed was fetched and there during the call, and
\* no place of the list repeats another.  An answer in the reader names nothing
\* that was not there.
ListInv ==
    /\ pc = "poll" =>
          /\ field \subseteq seen
          /\ sent => pending \in seen \union {NoTag, Unknown}
          /\ answered = Listed /\ answered \subseteq seen
          /\ \A j, k \in 0..(numTags - 1) : array[j] = array[k] => j = k
    /\ pc # "poll" /\ result # Failed => Range(result) = answered

\* A round lists the answer, if it is a tag that is not listed.  With three
\* rounds this would not hold, as the tag is compared from the place of the
\* round.
LEMMA AnswerListed ==
    ASSUME ACR122U_MAX_NUM_TAGS <= 2, TypeOK, RoundInv, ListInv, pc = "poll", Answer
    PROVE  /\ Listed' = answered \union ({pending} \intersect Tags)
           /\ \A j, k \in 0..(numTags' - 1) : array'[j] = array'[k] => j = k
<1> USE DriverAssumption
<1>1. /\ i \in {0, 1} /\ numTags \in {0, 1} /\ numTags <= i
      /\ numTags \in Rounds /\ answered = Listed
      /\ \A k \in 0..(numTags - 1) : k \in Rounds /\ k # numTags
  BY DEF RoundInv, Rounds, TypeOK, ListInv
<1>2. CASE pending = NoTag
  BY <1>1, <1>2 DEF Answer, ListInv, Listed
<1>3. CASE pending # NoTag /\ pending = Unknown
  <2>1. numTags' = numTags /\ \A k \in 0..(numTags - 1) : array'[k] = array[k]
    BY <1>1, <1>3 DEF Answer, TypeOK
  <2>2. Listed' = Listed
    BY <2>1 DEF Listed
  <2> QED
    BY <1>1, <1>3, <2>1, <2>2 DEF ListInv
<1>4. CASE pending \in Tags
  <2> DEFINE known == \E other \in 0..(numTags - 1) : array'[i] = array'[other]
  <2>1. /\ array' = [array EXCEPT ![numTags] = pending]
        /\ numTags' = IF i = 0 \/ ~known THEN numTags + 1 ELSE numTags
    BY <1>4 DEF Answer, PollAnswers
  <2>2. /\ array'[numTags] = pending
        /\ \A k \in 0..(numTags - 1) : array'[k] = array[k]
    BY <1>1, <2>1 DEF TypeOK
  <2>3. CASE numTags = 0
    <3>1. numTags' = 1 /\ array'[0] = pending /\ Listed = {}
      BY <2>1, <2>2, <2>3 DEF Listed
    <3>2. Listed' = {pending}
      <4>1. 0..(numTags' - 1) = {0}
        BY <3>1
      <4> QED
        BY <3>1, <4>1 DEF Listed
    <3> QED
      BY <1>1, <1>4, <3>1, <3>2
  <2>4. CASE numTags = 1
    <3>1. i = 1 /\ array'[0] = array[0] /\ array'[1] = pending /\ 0..(numTags - 1) = {0}
      BY <1>1, <2>2, <2>4
    <3>2. Listed = {array[0]}
      BY <3>1 DEF Listed
    <3>3. CASE pending = array[0]
      <4>1. numTags' = 1
        BY <2>1, <2>4, <3>1, <3>3
      <4>2. 0..(numTags' - 1) = {0}
        BY <4>1
      <4>3. Listed' = {array[0]}
        BY <3>1, <4>2 DEF Listed
      <4> QED
        BY <1>1, <1>4, <3>2, <3>3, <4>2, <4>3
    <3>4. CASE pending # array[0]
      <4>1. numTags' = 2
        BY <2>1, <2>4, <3>1, <3>4
      <4>2. 0..(numTags' - 1) = {0, 1}
        BY <4>1
      <4>3. Listed' = {array[0], pending}
        BY <3>1, <4>2 DEF Listed
      <4> QED
        BY <1>1, <1>4, <3>1, <3>2, <3>4, <4>2, <4>3
    <3> QED
      BY <3>3, <3>4
  <2> QED
    BY <1>1, <2>3, <2>4
<1> QED
  BY <1>2, <1>3, <1>4 DEF TypeOK, Answers

\* A list and the places it was taken from.
LEMMA ListOfPlaces ==
    ASSUME NEW n \in Nat, NEW f
    PROVE  {f[k - 1] : k \in 1..n} = {f[k] : k \in 0..(n - 1)}
<1>1. \A k \in 1..n : k - 1 \in 0..(n - 1)
  OBVIOUS
<1>2. \A k \in 0..(n - 1) : k + 1 \in 1..n /\ k = (k + 1) - 1
  OBVIOUS
<1> QED
  BY <1>1, <1>2

LEMMA RoundTyped ==
    ASSUME TypeOK, RoundInv, PollRound
    PROVE  numTags' \in Nat
<1>1. pc = "poll" /\ Answer
  BY DEF PollRound, TransmitWorks
<1> QED
  BY <1>1, AnswerTyped

LEMMA ListStep ==
    ASSUME ACR122U_MAX_NUM_TAGS <= 2
    PROVE  TypeOK /\ RoundInv /\ CallsInv /\ ListInv /\ [Next]_vars => ListInv'
<1> SUFFICES ASSUME TypeOK, RoundInv, CallsInv, ListInv, [Next]_vars PROVE ListInv'
  OBVIOUS
<1> USE DEF list
<1>1. Found \subseteq field \union {NoTag, Unknown}
  BY DEF Found, Shown
<1>2. CASE TagsMove
  BY <1>2 DEF TagsMove, ListInv, Listed
<1>3. CASE Replug
  BY <1>3 DEF Replug, ListInv, Listed
<1>4. CASE OtherApplication
  <2>1. pc = "poll" => pending' \in seen \union {NoTag, Unknown}
    BY <1>1, <1>4 DEF OtherApplication, ListInv
  <2> QED
    BY <1>4, <2>1 DEF OtherApplication, ListInv, Listed
<1>5. CASE DirectTransmit
  <2>1. pc = "poll" => pending' \in seen \union {NoTag, Unknown}
    BY <1>1, <1>5 DEF DirectTransmit, ListInv
  <2> QED
    BY <1>5, <2>1 DEF DirectTransmit, ListInv, Listed
<1>6. CASE ReaderCheck
  <2>1. pc # "poll" /\ pc' # "poll" /\ UNCHANGED <<result, answered>>
    BY <1>6 DEF ReaderCheck, SCardConnect, Firmware, Status, Retry, SamSerial, SamId,
       CheckFails, RatsOff, TransmitWorks, TransmitFails
  <2> QED
    BY <2>1 DEF ListInv
<1>7. CASE GetTagList
  <2>1. /\ pc = "idle" /\ pc' = "poll" /\ ~sent' /\ numTags' = 0
        /\ seen' = field /\ answered' = {} /\ UNCHANGED field
    BY <1>7 DEF GetTagList, CallsInv, Pseudo
  <2>2. 0..(numTags' - 1) = {}
    BY <2>1
  <2>3. Listed' = {}
    BY <2>2 DEF Listed
  <2> QED
    BY <2>1, <2>2, <2>3 DEF ListInv
<1>8. CASE PollRound
  <2>1. /\ pc = "poll" /\ ~sent' /\ sent /\ Answer
        /\ answered' = answered \union ({pending} \intersect Tags)
        /\ UNCHANGED <<field, seen>>
    BY <1>8 DEF PollRound, TransmitWorks, Pseudo
  <2>2. /\ Listed' = answered'
        /\ \A j, k \in 0..(numTags' - 1) : array'[j] = array'[k] => j = k
    BY <2>1, AnswerListed
  <2>3. answered' \subseteq seen'
    BY <2>1, DriverAssumption DEF ListInv
  <2>4. CASE i + 1 # ACR122U_MAX_NUM_TAGS
    <3>1. pc' = "poll"
      BY <1>8, <2>4 DEF PollRound
    <3> QED
      BY <2>1, <2>2, <2>3, <3>1 DEF ListInv
  <2>5. CASE i + 1 = ACR122U_MAX_NUM_TAGS
    <3>1. pc' = "idle" /\ result' = [k \in 1..numTags' |-> array'[k - 1]]
      BY <1>8, <2>5 DEF PollRound
    <3>2. Range(result') = {array'[k - 1] : k \in 1..numTags'}
      BY <3>1 DEF Range
    <3>3. Range(result') = Listed'
      BY <3>2, ListOfPlaces, RoundTyped, <1>8 DEF Listed
    <3> QED
      BY <2>2, <3>1, <3>3 DEF ListInv
  <2> QED
    BY <2>4, <2>5
<1>9. CASE PollFails
  BY <1>9 DEF PollFails, ListInv
<1>10. CASE Disconnect
  BY <1>10 DEF Disconnect, ListInv
<1>11. CASE UNCHANGED vars
  BY <1>11 DEF vars, ListInv, Listed
<1> QED
  BY <1>2, <1>3, <1>4, <1>5, <1>6, <1>7, <1>8, <1>9, <1>10, <1>11
  DEF Next, Driver, Environment

\* What is listed was there and is a list of what was fetched, at every moment.
LEMMA ListInvariant ==
    ASSUME ACR122U_MAX_NUM_TAGS <= 2
    PROVE  Spec => []ListInv /\ []TypeOK /\ []RoundInv /\ []CallsInv
<1>1. Init => RoundInv /\ SamInv /\ ListInv
  <2>1. Init => /\ pc = "idle" /\ result = <<>> /\ answered = {}
    BY Zenon DEF Init
  <2>2. Range(<<>>) = {}
    BY DEF Range
  <2>3. Init => RoundInv /\ SamInv
    BY DEF Init, RoundInv, SamInv, CallsInv, Calls
  <2> QED
    BY <2>1, <2>2, <2>3 DEF ListInv
<1>2. SamInv => CallsInv
  BY DEF SamInv
<1>3. TypeOK /\ RoundInv /\ CallsInv /\ ListInv /\ [Next]_vars => ListInv'
  BY ListStep
<1> QED
  BY <1>1, <1>2, <1>3, TypeInit, TypeStep, SamStep, PTL DEF Spec

\* With the two rounds of the code, a list that was returned holds exactly the
\* tags that were fetched (acr122UDriver.c:335-337).
THEOREM ListHoldsAnswers ==
    ASSUME ACR122U_MAX_NUM_TAGS <= 2
    PROVE  Spec => []ListedAnswers
<1>1. ListInv => ListedAnswers
  BY DEF ListInv, ListedAnswers
<1> QED
  BY <1>1, ListInvariant, PTL

LEMMA IsAList ==
    ASSUME NEW S, NEW n \in 0..ACR122U_MAX_NUM_TAGS, NEW s \in [1..n -> S],
           \A j, k \in 1..n : s[j] = s[k] => j = k
    PROVE  s \in Abstract!Lists(S)
<1>1. Abstract!IsInjective(s)
  BY DEF Abstract!IsInjective
<1>2. s \in {t \in [1..n -> S] : Abstract!IsInjective(t)}
  BY <1>1
<1> QED
  BY <1>2, Zenon DEF Abstract!Lists

LEMMA ScanStep ==
    ASSUME ACR122U_MAX_NUM_TAGS <= 2, TypeOK, RoundInv, CallsInv, ListInv, [Next]_vars
    PROVE  [Abstract!Next]_(Abstract!scan)
<1> DEFINE Goal == [Abstract!Next]_(Abstract!scan)
<1> USE DEF list
<1>0. ASSUME UNCHANGED <<field, seen, result>>, (pc' = "poll") = (pc = "poll")
      PROVE  Goal
  BY <1>0 DEF Abstract!scan
<1>1. CASE TagsMove
  <2>1. Abstract!TagsMove
    BY <1>1 DEF TagsMove, Abstract!TagsMove
  <2> QED
    BY <2>1 DEF Abstract!Next
<1>2. CASE Replug \/ OtherApplication
  BY <1>0, <1>2 DEF Replug, OtherApplication
<1>3. CASE DirectTransmit
  BY <1>0, <1>3 DEF DirectTransmit
<1>4. CASE ReaderCheck
  <2>1. pc # "poll" /\ pc' # "poll" /\ UNCHANGED <<field, seen, result>>
    BY <1>4 DEF ReaderCheck, SCardConnect, Firmware, Status, Retry, SamSerial, SamId,
       CheckFails, RatsOff, TransmitWorks, TransmitFails
  <2> QED
    BY <1>0, <2>1
<1>5. CASE GetTagList
  <2>1. Abstract!Begin
    BY <1>5 DEF GetTagList, Abstract!Begin
  <2> QED
    BY <2>1 DEF Abstract!Next
<1>6. CASE PollRound
  <2>1. pc = "poll" /\ Answer /\ UNCHANGED <<field, seen>>
    BY <1>6 DEF PollRound, TransmitWorks
  <2>2. CASE i + 1 # ACR122U_MAX_NUM_TAGS
    <3>1. pc' = "poll" /\ result' = result
      BY <1>6, <2>2 DEF PollRound
    <3> QED
      BY <1>0, <2>1, <3>1
  <2>3. CASE i + 1 = ACR122U_MAX_NUM_TAGS
    <3>1. pc' = "idle" /\ result' = [k \in 1..numTags' |-> array'[k - 1]]
      BY <1>6, <2>3 DEF PollRound
    <3>2. /\ numTags' \in 0..ACR122U_MAX_NUM_TAGS
          /\ \A k \in 1..numTags' : k - 1 \in 0..(numTags' - 1)
      <4>1. i \in Rounds /\ numTags <= i
        BY <2>1 DEF RoundInv
      <4> QED
        BY <2>1, <2>3, <4>1, AnswerTyped, DriverAssumption DEF Rounds
    <3>3. \A k \in 1..numTags' : array'[k - 1] \in seen
      <4>1. \A k \in 0..(numTags' - 1) : array'[k] \in Listed'
        BY DEF Listed
      <4>2. Listed' = answered \union ({pending} \intersect Tags)
        BY <2>1, AnswerListed
      <4>3. sent
        BY <1>6 DEF PollRound, TransmitWorks, Pseudo
      <4>4. answered \union ({pending} \intersect Tags) \subseteq seen
        BY <2>1, <4>3, DriverAssumption DEF ListInv
      <4> QED
        BY <3>2, <4>1, <4>2, <4>4
    <3>4. \A j, k \in 1..numTags' : array'[j - 1] = array'[k - 1] => j = k
      <4>1. \A j, k \in 0..(numTags' - 1) : array'[j] = array'[k] => j = k
        BY <2>1, AnswerListed
      <4>2. \A j, k \in 1..numTags' : array'[j - 1] = array'[k - 1] => j - 1 = k - 1
        BY <3>2, <4>1, Zenon
      <4>3. \A j, k \in 1..numTags' : j - 1 = k - 1 => j = k
        BY <3>2
      <4> QED
        BY <4>2, <4>3, Zenon
    <3>5. /\ result' \in [1..numTags' -> seen]
          /\ \A j, k \in 1..numTags' : result'[j] = result'[k] => j = k
      BY <3>1, <3>3, <3>4
    <3>6. result' \in Abstract!Lists(seen)
      BY <3>2, <3>5, IsAList, Zenon
    <3>7. Abstract!Return
      BY <2>1, <3>1, <3>6 DEF Abstract!Return
    <3> QED
      BY <3>7 DEF Abstract!Next
  <2> QED
    BY <2>2, <2>3
<1>7. CASE PollFails
  <2>1. Abstract!Return
    BY <1>7 DEF PollFails, TransmitFails, Abstract!Return
  <2> QED
    BY <2>1 DEF Abstract!Next
<1>8. CASE Disconnect
  BY <1>0, <1>8 DEF Disconnect
<1>9. CASE UNCHANGED vars
  BY <1>0, <1>9 DEF vars
<1> QED
  BY <1>1, <1>2, <1>3, <1>4, <1>5, <1>6, <1>7, <1>8, <1>9
  DEF Next, Driver, Environment

\* With the two rounds of the code, the driver is what the poll takes it to be:
\* it lists no tag twice and none that was not there during the call, whatever
\* tags, readers and other applications do (acr122UDriver.c:394-411).
THEOREM DriverImplementsScan ==
    ASSUME ACR122U_MAX_NUM_TAGS <= 2
    PROVE  Spec => ImplementsTagScan
<1>1. Init => Abstract!Init
  BY DEF Init, Abstract!Init
<1>2. TypeOK /\ RoundInv /\ CallsInv /\ ListInv /\ [Next]_vars
         => [Abstract!Next]_(Abstract!scan)
  BY ScanStep
<1> QED
  BY <1>1, <1>2, ListInvariant, PTL DEF Spec, ImplementsTagScan, Abstract!Spec

-----------------------------------------------------------------------------
(* That a call comes back.                                                 *)

\* A reader whose SET_RETRY went through does not wait for a tag for as long
\* as its handle is good; a reader is only given the driver, and only polled,
\* after that.
RetryInv ==
    /\ pc = "poll" => pDriver
    /\ hCard = "live" /\ (pDriver \/ pc \in {"serial", "id", "rats"}
                             \/ (pc = "retry" /\ sent)) => chip.retry

LEMMA RetryStep ==
    ASSUME TypeOK, CallsInv, RetryInv, [Next]_vars
    PROVE  RetryInv'
<1> USE DEF device, reader, list, RetryInv, CallsInv, Calls, Pseudo, RESET_READER,
        TransmitWorks, TransmitFails
<1>1. CASE TagsMove \/ OtherApplication
  BY <1>1 DEF TagsMove, OtherApplication
<1>2. CASE Replug
  BY <1>2 DEF Replug
<1>3. CASE DirectTransmit
  BY <1>3 DEF DirectTransmit, TypeOK
<1>4. CASE SCardConnect
  BY <1>4 DEF SCardConnect
<1>5. CASE Firmware \/ Status
  BY <1>5 DEF Firmware, Status
<1>6. CASE Retry
  BY <1>6 DEF Retry
<1>7. CASE SamSerial \/ SamId
  BY <1>7 DEF SamSerial, SamId
<1>8. CASE CheckFails
  BY <1>8 DEF CheckFails
<1>9. CASE RatsOff
  BY <1>9 DEF RatsOff
<1>10. CASE GetTagList
  BY <1>10 DEF GetTagList
<1>11. CASE PollRound
  BY <1>11 DEF PollRound
<1>12. CASE PollFails
  BY <1>12 DEF PollFails
<1>13. CASE Disconnect
  BY <1>13 DEF Disconnect
<1>14. CASE UNCHANGED vars
  BY <1>14 DEF vars
<1> HIDE DEF RetryInv
<1> QED
  BY <1>1, <1>2, <1>3, <1>4, <1>5, <1>6, <1>7, <1>8, <1>9, <1>10, <1>11, <1>12,
     <1>13, <1>14, Zenon
  DEF Next, Driver, Environment, ReaderCheck

\* A reader that is polled has an answer to give, a tag or "no tag": however
\* long there is no tag, no round waits for one (acr122UDriver.c:494-498).
THEOREM RoundsAreAnswered ==
    Spec => [](pc = "poll" /\ hCard = "live" => Found # {})
<1>1. Init => SamInv /\ RetryInv
  BY DEF Init, SamInv, CallsInv, Calls, RetryInv
<1>2. SamInv => CallsInv
  BY DEF SamInv
<1>3. TypeOK /\ CallsInv /\ RetryInv /\ [Next]_vars => RetryInv'
  BY RetryStep
<1>4. RetryInv => (pc = "poll" /\ hCard = "live" => Found # {})
  BY DEF RetryInv, Found
<1> QED
  BY <1>1, <1>2, <1>3, <1>4, SamStep, DriverTypeCorrect, PTL DEF Spec

\* How many transmits are left of a call of getTagList.
TransmitsLeft ==
    IF pc = "poll" THEN 2 * (ACR122U_MAX_NUM_TAGS - i) - (IF sent THEN 1 ELSE 0)
                   ELSE 0

\* A call takes finitely many transmits: each makes fewer of them left, and
\* neither the tags, an exchanged reader nor another application adds any.
THEOREM CallsMoveOn ==
    Spec => /\ [](TransmitsLeft \in Nat)
            /\ [][pc = "poll" =>
                     \/ TransmitsLeft' < TransmitsLeft
                     \/ Environment /\ TransmitsLeft' = TransmitsLeft]_vars
<1> DEFINE MovesOn == \/ TransmitsLeft' < TransmitsLeft
                      \/ Environment /\ TransmitsLeft' = TransmitsLeft
<1>1. ASSUME TypeOK, RoundInv
      PROVE  TransmitsLeft \in Nat /\ (pc = "poll" => TransmitsLeft > 0)
  BY <1>1, DriverAssumption DEF TransmitsLeft, RoundInv, Rounds, TypeOK
<1>2. ASSUME TypeOK, RoundInv, CallsInv, Next, pc = "poll"
      PROVE  MovesOn
  <2>1. /\ i \in Nat /\ ACR122U_MAX_NUM_TAGS \in Nat /\ sent \in BOOLEAN
        /\ i < ACR122U_MAX_NUM_TAGS /\ TransmitsLeft > 0
    BY <1>1, <1>2, DriverAssumption DEF RoundInv, Rounds, TypeOK
  <2>2. CASE Environment
    <3>1. UNCHANGED <<pc, i, sent>>
      BY <2>2, Zenon DEF Environment, TagsMove, Replug, OtherApplication, list
    <3> QED
      BY <2>2, <3>1 DEF TransmitsLeft
  <2>3. CASE DirectTransmit
    <3>1. UNCHANGED <<pc, i>> /\ ~sent /\ sent'
      BY <2>3, Zenon DEF DirectTransmit, list
    <3> QED
      BY <1>2, <2>1, <3>1 DEF TransmitsLeft
  <2>4. CASE PollRound
    <3>1. i' = i + 1 /\ sent /\ ~sent' /\ pc' \in {"idle", "poll"}
      BY <2>4, Zenon DEF PollRound, TransmitWorks, Pseudo
    <3> QED
      BY <1>2, <2>1, <3>1 DEF TransmitsLeft
  <2>5. CASE PollFails
    <3>1. pc' = "idle"
      BY <2>5, Zenon DEF PollFails
    <3> QED
      BY <2>1, <3>1 DEF TransmitsLeft
  <2>6. CASE ReaderCheck \/ GetTagList \/ Disconnect
    BY <1>2, <2>6, Zenon DEF ReaderCheck, SCardConnect, Firmware, Status, Retry,
       SamSerial, SamId, CheckFails, RatsOff, TransmitWorks, TransmitFails,
       GetTagList, Disconnect
  <2> QED
    BY <1>2, <2>2, <2>3, <2>4, <2>5, <2>6, Zenon DEF Next, Driver
<1>3. TypeOK /\ RoundInv => TransmitsLeft \in Nat
  BY <1>1
<1>4. TypeOK /\ RoundInv /\ CallsInv /\ [Next]_vars
         => [pc = "poll" => MovesOn]_vars
  BY <1>2, Zenon
<1>5. Init => RoundInv /\ SamInv
  BY DEF Init, RoundInv, SamInv, CallsInv, Calls
<1>6. SamInv => CallsInv
  BY DEF SamInv
<1> QED
  BY <1>3, <1>4, <1>5, <1>6, TypeInit, TypeStep, SamStep, PTL DEF Spec
=============================================================================
