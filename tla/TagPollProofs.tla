--------------------------- MODULE TagPollProofs ---------------------------
(* Theorems about TagPoll, for any tags, readers and bounds.               *)
EXTENDS TagPoll, SequenceTheorems, TLAPS

USE CountsAssumption

-----------------------------------------------------------------------------
(* The inductive invariants.  Each says at every pc what the invariant it  *)
(* stands behind says between two polls.                                   *)

ArraysInv ==
    /\ ArraysOwned
    /\ pc = "read" => curPtr = NULL

\* How far the scripts have been told of the difference, at each pc: in the
\* first loop every departed tag that is still present lies ahead of idx, in
\* the second every tag behind idx is present.
PresentInv ==
    fails = 0 =>
        /\ rv = "ok"
        /\ pc \in {"idle", "rotate"} => present = Uids(cur)
        /\ pc = "read" => present = Uids(prev)
        /\ pc = "outs" =>
              /\ Uids(prev) \intersect Uids(cur) \subseteq present
              /\ \A t \in present \ Uids(cur) :
                    \E i \in 1..Len(prev) : i >= idx /\ prev[i].uid = t
        /\ pc = "ins" =>
              /\ Uids(prev) \intersect Uids(cur) \subseteq present
              /\ present \subseteq Uids(cur)
              /\ \A i \in 1..Len(cur) : i < idx => cur[i].uid \in present

Reported(e) == e.uid \in present /\ e.data = TestData

\* Which entries have had their IN and carry its contents, at each pc.
ContentsInv ==
    NumReaders = 1 \/ fails = 0 =>
        /\ pc \in {"idle", "rotate"} =>
              \A i \in 1..Len(cur) : Reported(cur[i])
        /\ pc = "read" =>
              /\ \A i \in 1..Len(prev) : Reported(prev[i])
              /\ rv = "fail" \/ (rdr = 1 /\ NumReaders = 1) => cur = <<>>
        /\ pc = "outs" =>
              /\ \A i \in 1..Len(prev) : i >= idx =>
                    /\ prev[i].data = TestData
                    /\ prev[i].uid \in Uids(cur) => prev[i].uid \in present
              /\ \A i \in 1..Len(prev) : \A j \in 1..Len(cur) :
                    i < idx /\ prev[i].uid = cur[j].uid => Reported(cur[j])
        /\ pc = "ins" =>
              \A j \in 1..Len(cur) :
                 j < idx \/ cur[j].uid \in Uids(prev) => Reported(cur[j])

\* One reader: no list names a tag twice, and what is left to compare of the
\* previous list has had its IN and no OUT since.
NoUidTwice(list) ==
    \A i, j \in 1..Len(list) : list[i].uid = list[j].uid => i = j

AlternationInv ==
    NumReaders = 1 =>
        /\ NoUidTwice(cur) /\ NoUidTwice(prev)
        /\ pc = "outs" =>
              \A i \in 1..Len(prev) : i >= idx => prev[i].uid \in present

\* Nothing is present but what the comparison knows of: the previous list
\* and, in the second loop, the entries it has passed.
KnownInv ==
    fails = 0 =>
        /\ pc = "outs" => present \subseteq Uids(prev)
        /\ pc = "ins" =>
              \A t \in present \ Uids(prev) :
                 \E i \in 1..Len(cur) : i < idx /\ cur[i].uid = t

-----------------------------------------------------------------------------
(* Lemmas about the lists of tags.                                         *)

\* A fresh list is a list of entries with the reported UIDs.
LEMMA FreshList ==
    ASSUME NEW report \in Reports
    PROVE  /\ FreshEntries(report) \in Seq(Entry)
           /\ Len(FreshEntries(report)) = Len(report)
           /\ \A i \in 1..Len(report) :
                 FreshEntries(report)[i].uid = report[i]
           /\ NoUidTwice(FreshEntries(report))
<1>1. PICK n \in Nat : report \in [1..n -> Tags]
  BY DEF Reports
<1>2. report \in Seq(Tags) /\ Len(report) = n
  BY <1>1
<1>3. \A i \in 1..n : [uid |-> report[i], data |-> NULL] \in Entry
  BY <1>1 DEF Entry
<1>4. FreshEntries(report) \in [1..n -> Entry]
  BY <1>2, <1>3 DEF FreshEntries
<1>5. FreshEntries(report) \in Seq(Entry) /\ Len(FreshEntries(report)) = n
  BY <1>4
<1>6. \A i \in 1..n : FreshEntries(report)[i].uid = report[i]
  BY <1>2 DEF FreshEntries
<1>7. \A i, j \in 1..n : report[i] = report[j] => i = j
  <2>1. PICK m \in Nat : /\ report \in [1..m -> Tags]
                         /\ \A i, j \in 1..m : report[i] = report[j] => i = j
    BY DEF Reports
  <2>2. Len(report) = m
    BY <2>1
  <2> QED
    BY <1>2, <2>1, <2>2
<1>8. NoUidTwice(FreshEntries(report))
  BY <1>5, <1>6, <1>7 DEF NoUidTwice
<1> QED
  BY <1>2, <1>5, <1>6, <1>8

\* Setting the contents of some entries keeps a list, its length, its UIDs.
LEMMA SetDataList ==
    ASSUME NEW list \in Seq(Entry), NEW I, NEW d \in {NULL, TestData}
    PROVE  /\ SetData(list, I, d) \in Seq(Entry)
           /\ Len(SetData(list, I, d)) = Len(list)
           /\ \A j \in 1..Len(list) :
                 /\ SetData(list, I, d)[j].uid = list[j].uid
                 /\ SetData(list, I, d)[j].data =
                       IF j \in I THEN d ELSE list[j].data
           /\ Uids(SetData(list, I, d)) = Uids(list)
           /\ SetData(list, I, d) = <<>> <=> list = <<>>
<1> DEFINE new == SetData(list, I, d)
<1>1. Len(list) \in Nat /\ \A j \in 1..Len(list) : list[j] \in Entry
  BY ElementOfSeq, LenProperties
<1>2. \A j \in 1..Len(list) : [uid |-> list[j].uid, data |-> d] \in Entry
  BY <1>1 DEF Entry
<1>3. new \in [1..Len(list) -> Entry]
  BY <1>1, <1>2 DEF SetData
<1>4. new \in Seq(Entry) /\ Len(new) = Len(list)
  BY <1>1, <1>3
<1>5. \A j \in 1..Len(list) :
         /\ new[j].uid = list[j].uid
         /\ new[j].data = IF j \in I THEN d ELSE list[j].data
  BY <1>1 DEF SetData
<1>6. Uids(new) = Uids(list)
  BY <1>4, <1>5 DEF Uids
<1>7. new = <<>> <=> list = <<>>
  BY <1>4, EmptySeq
<1> QED
  BY <1>4, <1>5, <1>6, <1>7

\* Type correctness.
THEOREM TypeCorrect == Spec => []TypeOK
<1>1. Init => TypeOK
  <2> SUFFICES ASSUME Init PROVE TypeOK
    OBVIOUS
  <2>1. cur \in Seq(Entry) /\ prev \in Seq(Entry)
    BY EmptySeq, Zenon DEF Init
  <2>2. /\ hooks \in 0..MaxHooks /\ fails \in 0..MaxFailures
        /\ rdr \in 1..(NumReaders + 1) /\ idx \in Nat \ {0}
    BY DEF Init
  <2> QED
    BY <2>1, <2>2, Zenon DEF Init, TypeOK, Pointers, Event
<1>2. TypeOK /\ [Next]_vars => TypeOK'
  <2> SUFFICES ASSUME TypeOK, [Next]_vars
               PROVE  TypeOK'
    OBVIOUS
  <2> USE DEF TypeOK, lists, reading, Readers, Pointers
  <2>0. NoEvent \in Event
    BY DEF Event
  <2>1. CASE ConnectFails
    BY <2>0, <2>1 DEF ConnectFails
  <2>2. CASE ConnectSucceeds
    BY <2>0, <2>2 DEF ConnectSucceeds
  <2>3. CASE StartRead
    <3>1. cur' \in Seq(Entry) /\ prev' \in Seq(Entry)
      BY <2>3, EmptySeq, Zenon DEF StartRead, RotateLists
    <3>2. ready' \subseteq Readers
      BY <2>3 DEF StartRead
    <3> QED
      BY <2>0, <2>3, <3>1, <3>2 DEF StartRead, RotateLists
  <2>4. CASE ReconnectFails
    <3>1. cur' \in Seq(Entry) /\ prev' \in Seq(Entry)
      BY <2>4, EmptySeq, Zenon DEF ReconnectFails, RotateLists
    <3>2. fails' \in 0..MaxFailures
      BY <2>4 DEF ReconnectFails
    <3> QED
      BY <2>0, <2>4, <3>1, <3>2 DEF ReconnectFails, RotateLists
  <2>5. CASE SkipReader
    BY <2>0, <2>5 DEF SkipReader, AtReader
  <2>6. ASSUME NEW report \in Reports, ReadTags(report)
        PROVE  TypeOK'
    <3>1. cur' \in Seq(Entry)
      BY <2>6, FreshList, ConcatProperties DEF ReadTags
    <3> QED
      BY <2>0, <2>6, <3>1 DEF ReadTags, AtReader
  <2>7. CASE ReadFails
    BY <2>0, <2>7 DEF ReadFails, AtReader
  <2>8. CASE MergeLists
    <3>1. curPtr' \in Pointers /\ heap' \subseteq Blocks
      BY <2>8 DEF MergeLists
    <3>2. pc' \in {"outs", "idle"} /\ status' \in BOOLEAN
      BY <2>8 DEF MergeLists
    <3>3. /\ idx' = 1 /\ changed' \in BOOLEAN /\ event' = NoEvent
          /\ UNCHANGED <<ctx, cur, prev, prevPtr, reading, hooks, present>>
      BY <2>8, Zenon DEF MergeLists
    <3> QED
      BY <2>0, <3>1, <3>2, <3>3
  <2>9. CASE CarryOver
    <3>1. prev[idx] \in Entry
      BY <2>9, ElementOfSeq DEF CarryOver
    <3>2. cur' \in Seq(Entry)
      <4>1. prev[idx].data \in {NULL, TestData}
        BY <3>1 DEF Entry
      <4> QED
        BY <2>9, <4>1, SetDataList DEF CarryOver
    <3> QED
      BY <2>0, <2>9, <3>2 DEF CarryOver
  <2>10. CASE TagOut
    <3>1. prev[idx] \in Entry
      BY <2>10, ElementOfSeq DEF TagOut
    <3>2. prev' \in Seq(Entry)
      BY <2>10, SetDataList DEF TagOut
    <3>3. event' \in Event
      BY <2>10, <3>1 DEF TagOut, Event, Entry
    <3> QED
      BY <2>10, <3>2, <3>3 DEF TagOut
  <2>11. CASE EndOuts
    BY <2>0, <2>11 DEF EndOuts
  <2>12. CASE KnownTag
    BY <2>0, <2>12 DEF KnownTag
  <2>13. CASE TagIn
    <3>1. cur[idx] \in Entry
      BY <2>13, ElementOfSeq DEF TagIn
    <3>2. cur' \in Seq(Entry)
      BY <2>13, SetDataList DEF TagIn
    <3>3. event' \in Event /\ present' \subseteq Tags
      BY <2>13, <3>1 DEF TagIn, Event, Entry
    <3> QED
      BY <2>13, <3>2, <3>3 DEF TagIn
  <2>14. CASE EndPoll
    BY <2>0, <2>14 DEF EndPoll
  <2>15. CASE Hangup
    BY <2>0, <2>15 DEF Hangup
  <2>16. CASE Terminate
    BY <2>0, <2>16 DEF Terminate
  <2>17. CASE UNCHANGED vars
    BY <2>17 DEF vars
  <2> QED
    BY <2>1, <2>2, <2>3, <2>4, <2>5, <2>6, <2>7, <2>8, <2>9, <2>10, <2>11,
       <2>12, <2>13, <2>14, <2>15, <2>16, <2>17
       DEF Next, Connect, Step, ReadFaults
<1> QED
  BY <1>1, <1>2, PTL DEF Spec

\* At every step of a poll the live arrays are those of the two lists.
LEMMA ArraysInvariant == Spec => []ArraysInv
<1>1. Init => ArraysInv
  BY DEF Init, ArraysInv, ArraysOwned
<1>2. TypeOK /\ ArraysInv /\ [Next]_vars => ArraysInv'
  <2> SUFFICES ASSUME TypeOK, ArraysInv, [Next]_vars
               PROVE  ArraysInv'
    OBVIOUS
  <2> USE PointersAssumption DEF ArraysInv, ArraysOwned, lists
  <2>1. CASE ConnectFails
    BY <2>1 DEF ConnectFails
  <2>2. CASE ConnectSucceeds
    BY <2>2 DEF ConnectSucceeds
  <2>3. CASE StartRead \/ ReconnectFails
    <3>1. /\ heap' = heap \ {prevPtr} /\ prevPtr' = curPtr /\ curPtr' = NULL
          /\ prev' = cur /\ cur' = <<>>
      BY <2>3, Zenon DEF StartRead, ReconnectFails, RotateLists
    <3>2. curPtr = NULL <=> cur = <<>>
      BY <2>3, Zenon DEF StartRead, ReconnectFails, AtPollStart
    <3>3. heap' = {prevPtr', curPtr'} \ {NULL}
      BY <3>1
    <3> QED
      BY <3>1, <3>2, <3>3, Zenon
  <2>4. CASE SkipReader \/ ReadFails
    BY <2>4 DEF SkipReader, ReadFails, AtReader
  <2>5. ASSUME NEW report \in Reports, ReadTags(report)
        PROVE  ArraysInv'
    BY <2>5 DEF ReadTags, AtReader
  <2>6. CASE MergeLists
    <3>1. pc = "read" /\ pc' \in {"outs", "idle"} /\ curPtr = NULL
      BY <2>6, Zenon DEF MergeLists
    <3>2. UNCHANGED <<cur, prev, prevPtr>>
      BY <2>6, Zenon DEF MergeLists
    <3>3. CASE cur = <<>>
      <4>1. UNCHANGED <<curPtr, heap>>
        BY <2>6, <3>3, Zenon DEF MergeLists
      <4> QED
        BY <3>1, <3>2, <3>3, <4>1, Zenon
    <3>4. CASE cur # <<>>
      <4>1. PICK b \in Blocks \ heap : curPtr' = b /\ heap' = heap \union {b}
        BY <2>6, <3>4, Zenon DEF MergeLists
      <4>2. curPtr' # NULL /\ curPtr' # prevPtr
        BY <3>1, <4>1
      <4>3. heap' = {prevPtr, curPtr'} \ {NULL}
        BY <3>1, <4>1, <4>2
      <4> QED
        BY <3>1, <3>2, <3>4, <4>2, <4>3, Zenon
    <3> QED
      BY <3>3, <3>4
  <2>7. CASE CarryOver
    <3>1. prev[idx].data \in {NULL, TestData}
      <4>1. prev[idx] \in Entry
        BY <2>7, ElementOfSeq DEF CarryOver, TypeOK
      <4> QED
        BY <4>1 DEF Entry
    <3>2. cur' = <<>> <=> cur = <<>>
      BY <2>7, <3>1, SetDataList DEF CarryOver, TypeOK
    <3>3. pc = "outs" /\ UNCHANGED <<pc, curPtr, prev, prevPtr, heap>>
      BY <2>7, Zenon DEF CarryOver
    <3> QED
      BY <3>2, <3>3, Zenon
  <2>8. CASE TagOut
    <3>1. prev' = <<>> <=> prev = <<>>
      BY <2>8, SetDataList DEF TagOut, TypeOK
    <3>2. /\ pc = "outs" /\ pc' \in {"outs", "done"}
          /\ UNCHANGED <<cur, curPtr, prevPtr, heap>>
      BY <2>8, Zenon DEF TagOut
    <3> QED
      BY <3>1, <3>2, Zenon
  <2>9. CASE EndOuts \/ KnownTag \/ EndPoll
    <3>1. /\ pc \in {"outs", "ins"} /\ pc' \in {"ins", "idle"}
          /\ UNCHANGED <<cur, curPtr, prev, prevPtr, heap>>
      BY <2>9, Zenon DEF EndOuts, KnownTag, EndPoll
    <3> QED
      BY <3>1, Zenon
  <2>10. CASE TagIn
    <3>1. cur' = <<>> <=> cur = <<>>
      BY <2>10, SetDataList DEF TagIn, TypeOK
    <3>2. pc = "ins" /\ UNCHANGED <<pc, curPtr, prev, prevPtr, heap>>
      BY <2>10, Zenon DEF TagIn
    <3> QED
      BY <3>1, <3>2, Zenon
  <2>11. CASE Hangup
    BY <2>11 DEF Hangup
  <2>12. CASE Terminate
    BY <2>12 DEF Terminate
  <2>13. CASE UNCHANGED vars
    BY <2>13 DEF vars
  <2> QED
    BY <2>1, <2>2, <2>3, <2>4, <2>5, <2>6, <2>7, <2>8, <2>9, <2>10, <2>11,
       <2>12, <2>13 DEF Next, Connect, Step, ReadFaults
<1> QED
  BY <1>1, <1>2, TypeCorrect, PTL DEF Spec

\* The arrays of tags are neither leaked nor freed twice.
THEOREM ArraysAreOwned == Spec => []ArraysOwned
<1>1. ArraysInv => ArraysOwned
  BY DEF ArraysInv
<1> QED
  BY <1>1, ArraysInvariant, PTL

-----------------------------------------------------------------------------
(* What the scripts have been told, as long as no read has failed.         *)

LEMMA PresentInit == Init => PresentInv
<1> SUFFICES ASSUME Init PROVE PresentInv
  OBVIOUS
<1>1. pc = "idle" /\ rv = "ok" /\ present = {} /\ cur = <<>>
  BY Zenon DEF Init
<1>2. Uids(<<>>) = {}
  BY DEF Uids
<1> QED
  BY <1>1, <1>2, Zenon DEF PresentInv

LEMMA PresentStep == TypeOK /\ PresentInv /\ [Next]_vars => PresentInv'
<1> DEFINE Goal ==
                /\ rv' = "ok"
                /\ pc' \in {"idle", "rotate"} => present' = Uids(cur')
                /\ pc' = "read" => present' = Uids(prev')
                /\ pc' = "outs" =>
                      /\ Uids(prev') \intersect Uids(cur') \subseteq present'
                      /\ \A t \in present' \ Uids(cur') :
                            \E i \in 1..Len(prev') :
                               i >= idx' /\ prev'[i].uid = t
                /\ pc' = "ins" =>
                      /\ Uids(prev') \intersect Uids(cur') \subseteq present'
                      /\ present' \subseteq Uids(cur')
                      /\ \A i \in 1..Len(cur') :
                            i < idx' => cur'[i].uid \in present'
<1> SUFFICES ASSUME TypeOK, PresentInv, [Next]_vars, fails' = 0
             PROVE  Goal
  BY Zenon DEF PresentInv
<1>0. /\ fails \in Nat /\ idx \in Nat \ {0}
      /\ Len(cur) \in Nat /\ Len(prev) \in Nat
  BY LenProperties DEF TypeOK
<1>1. CASE ConnectFails \/ ConnectSucceeds \/ Hangup
  <2>1. /\ pc = "idle" /\ pc' \in {"idle", "rotate"}
        /\ UNCHANGED <<cur, prev, rv, fails, present>>
    BY <1>1, Zenon DEF ConnectFails, ConnectSucceeds, Hangup, lists, reading
  <2> QED
    BY <2>1, Zenon DEF PresentInv
<1>2. CASE StartRead
  <2>1. /\ pc \in {"idle", "rotate"} /\ pc' = "read" /\ rv' = "ok"
        /\ prev' = cur /\ UNCHANGED <<fails, present>>
    BY <1>2, Zenon DEF StartRead, RotateLists, AtPollStart
  <2> QED
    BY <2>1, Zenon DEF PresentInv
<1>3. CASE ReconnectFails \/ ReadFails
  <2>1. fails' = fails + 1
    BY <1>3, Zenon DEF ReconnectFails, ReadFails
  <2> QED
    BY <1>0, <2>1
<1>4. ASSUME NEW report \in Reports, ReadTags(report)
      PROVE  Goal
  <2>1. /\ pc = "read" /\ pc' = "read" /\ rv' = "ok"
        /\ UNCHANGED <<prev, fails, present>>
    BY <1>4, Zenon DEF ReadTags, AtReader
  <2> QED
    BY <2>1, Zenon DEF PresentInv
<1>5. CASE SkipReader
  <2>1. pc = "read" /\ pc' = "read" /\ UNCHANGED <<prev, rv, fails, present>>
    BY <1>5, Zenon DEF SkipReader, AtReader, lists
  <2> QED
    BY <2>1, Zenon DEF PresentInv
<1>6. CASE MergeLists
  <2>1. /\ pc = "read" /\ UNCHANGED <<cur, prev, rv, fails, present>>
        /\ pc' = IF rv = "ok" THEN "outs" ELSE "idle"
        /\ idx' = 1
    BY <1>6, Zenon DEF MergeLists, reading
  <2>2. rv = "ok" /\ pc' = "outs" /\ present = Uids(prev)
    BY <2>1, Zenon DEF PresentInv
  <2>3. \A t \in Uids(prev) : \E i \in 1..Len(prev) : i >= 1 /\ prev[i].uid = t
    BY <1>0 DEF Uids
  <2> QED
    BY <2>1, <2>2, <2>3, Zenon
<1>7. CASE CarryOver
  <2>1. /\ pc = "outs" /\ pc' = "outs" /\ idx' = idx + 1
        /\ idx <= Len(prev) /\ prev[idx].uid \in Uids(cur)
        /\ UNCHANGED <<prev, rv, fails, present>>
    BY <1>7, Zenon DEF CarryOver, reading
  <2>2. prev[idx].data \in {NULL, TestData}
    <3>1. prev[idx] \in Entry
      BY <1>0, <2>1, ElementOfSeq DEF TypeOK
    <3> QED
      BY <3>1 DEF Entry
  <2>3. Uids(cur') = Uids(cur)
    BY <1>7, <2>2, SetDataList DEF CarryOver, TypeOK
  <2>4. ASSUME NEW t \in present \ Uids(cur)
        PROVE  \E i \in 1..Len(prev) : i >= idx + 1 /\ prev[i].uid = t
    <3>1. PICK i \in 1..Len(prev) : i >= idx /\ prev[i].uid = t
      BY <2>1, Zenon DEF PresentInv
    <3>2. i # idx
      BY <2>1, <3>1
    <3> QED
      BY <1>0, <3>1, <3>2
  <2> QED
    BY <2>1, <2>3, <2>4, Zenon DEF PresentInv
<1>8. CASE TagOut
  <2> DEFINE u == prev[idx].uid
  <2>1. /\ pc = "outs" /\ pc' \in {"outs", "done"} /\ idx' = idx + 1
        /\ idx <= Len(prev) /\ u \notin Uids(cur)
        /\ present' = present \ {u}
        /\ prev' = SetData(prev, {idx}, NULL)
        /\ UNCHANGED <<cur, rv, fails>>
    BY <1>8, Zenon DEF TagOut, reading
  <2>2. /\ Uids(prev') = Uids(prev) /\ Len(prev') = Len(prev)
        /\ \A j \in 1..Len(prev) : prev'[j].uid = prev[j].uid
    BY <2>1, SetDataList DEF TypeOK
  <2>3. ASSUME NEW t \in present' \ Uids(cur)
        PROVE  \E i \in 1..Len(prev') : i >= idx + 1 /\ prev'[i].uid = t
    <3>1. PICK i \in 1..Len(prev) : i >= idx /\ prev[i].uid = t
      BY <2>1, Zenon DEF PresentInv
    <3>2. i # idx
      BY <2>1, <3>1
    <3> QED
      BY <1>0, <2>2, <3>1, <3>2
  <2>4. Uids(prev') \intersect Uids(cur) \subseteq present'
    BY <2>1, <2>2 DEF PresentInv
  <2> QED
    BY <2>1, <2>3, <2>4, Zenon DEF PresentInv
<1>9. CASE EndOuts
  <2>1. /\ pc = "outs" /\ pc' = "ins" /\ idx' = 1 /\ idx > Len(prev)
        /\ UNCHANGED <<cur, prev, rv, fails, present>>
    BY <1>9, Zenon DEF EndOuts, lists, reading
  <2>2. present \subseteq Uids(cur)
    BY <1>0, <2>1 DEF PresentInv
  <2>3. \A i \in 1..Len(cur) : ~(i < 1)
    BY <1>0
  <2> QED
    BY <2>1, <2>2, <2>3, Zenon DEF PresentInv
<1>10. CASE KnownTag
  <2>1. /\ pc = "ins" /\ pc' = "ins" /\ idx' = idx + 1 /\ idx <= Len(cur)
        /\ cur[idx].uid \in Uids(prev)
        /\ UNCHANGED <<cur, prev, rv, fails, present>>
    BY <1>10, Zenon DEF KnownTag, lists, reading
  <2>2. cur[idx].uid \in Uids(cur)
    BY <1>0, <2>1 DEF Uids
  <2>3. cur[idx].uid \in present
    BY <2>1, <2>2 DEF PresentInv
  <2>4. \A i \in 1..Len(cur) : i < idx + 1 => i < idx \/ i = idx
    BY <1>0
  <2> QED
    BY <2>1, <2>3, <2>4, Zenon DEF PresentInv
<1>11. CASE TagIn
  <2> DEFINE u == cur[idx].uid
  <2>1. /\ pc = "ins" /\ pc' = "ins" /\ idx' = idx + 1 /\ idx <= Len(cur)
        /\ present' = present \union {u}
        /\ cur' = SetData(cur, {idx}, TestData)
        /\ UNCHANGED <<prev, rv, fails>>
    BY <1>11, Zenon DEF TagIn, reading
  <2>2. /\ Uids(cur') = Uids(cur) /\ Len(cur') = Len(cur)
        /\ \A j \in 1..Len(cur) : cur'[j].uid = cur[j].uid
    BY <2>1, SetDataList DEF TypeOK
  <2>3. u \in Uids(cur)
    BY <1>0, <2>1 DEF Uids
  <2>4. \A i \in 1..Len(cur) : i < idx + 1 => i < idx \/ i = idx
    BY <1>0
  <2>5. \A i \in 1..Len(cur') : i < idx' => cur'[i].uid \in present'
    BY <2>1, <2>2, <2>4, Zenon DEF PresentInv
  <2>6. present' \subseteq Uids(cur')
    BY <2>1, <2>2, <2>3 DEF PresentInv
  <2>7. Uids(prev') \intersect Uids(cur') \subseteq present'
    BY <2>1, <2>2 DEF PresentInv
  <2> QED
    BY <2>1, <2>5, <2>6, <2>7, Zenon DEF PresentInv
<1>12. CASE EndPoll
  <2>1. /\ pc = "ins" /\ pc' = "idle" /\ idx > Len(cur)
        /\ UNCHANGED <<cur, prev, rv, fails, present>>
    BY <1>12, Zenon DEF EndPoll, lists, reading
  <2>2. Uids(cur) \subseteq present
    BY <1>0, <2>1 DEF PresentInv, Uids
  <2>3. present \subseteq Uids(cur)
    BY <2>1, Zenon DEF PresentInv
  <2>4. present = Uids(cur) /\ rv = "ok"
    BY <2>1, <2>2, <2>3 DEF PresentInv
  <2> QED
    BY <2>1, <2>4, Zenon
<1>13. CASE Terminate
  <2>1. pc' = "done" /\ UNCHANGED <<rv, fails>>
    BY <1>13, Zenon DEF Terminate, reading
  <2> QED
    BY <2>1, Zenon DEF PresentInv
<1>14. CASE UNCHANGED vars
  <2>1. UNCHANGED <<pc, cur, prev, rv, fails, idx, present>>
    BY <1>14, Zenon DEF vars, lists, reading
  <2> QED
    BY <2>1, Zenon DEF PresentInv
<1> HIDE DEF Goal
<1> QED
  BY <1>1, <1>2, <1>3, <1>4, <1>5, <1>6, <1>7, <1>8, <1>9, <1>10, <1>11,
     <1>12, <1>13, <1>14, Zenon DEF Next, Connect, Step, ReadFaults

\* As long as no read has failed, the scripts have been told, between two
\* polls, of exactly the tags in the list.
THEOREM PresentIsList == Spec => []PresentMatchesList
<1>1. PresentInv => PresentMatchesList
  BY Zenon DEF PresentInv, PresentMatchesList
<1> QED
  BY <1>1, PresentInit, PresentStep, TypeCorrect, PTL DEF Spec

\* Failures are counted one at a time and never forgotten.
LEMMA FailsGrow ==
    ASSUME [Next]_vars
    PROVE  fails' = fails \/ fails' = fails + 1
<1>1. CASE ReconnectFails \/ ReadFails
  BY <1>1, Zenon DEF ReconnectFails, ReadFails
<1>2. CASE StartRead \/ SkipReader \/ \E report \in Reports : ReadTags(report)
  BY <1>2, Zenon DEF StartRead, SkipReader, ReadTags
<1>3. CASE ConnectSucceeds \/ ConnectFails \/ MergeLists \/ CarryOver \/ TagOut
           \/ EndOuts \/ KnownTag \/ TagIn \/ EndPoll \/ Hangup \/ Terminate
           \/ UNCHANGED vars
  BY <1>3, Zenon DEF ConnectSucceeds, ConnectFails, MergeLists, CarryOver,
                     TagOut, EndOuts, KnownTag, TagIn, EndPoll, Hangup,
                     Terminate, vars, reading
<1> QED
  BY <1>1, <1>2, <1>3, Zenon DEF Next, Connect, Step, ReadFaults

\* A step by which, or after which, a read has failed is a Lapse.
LEMMA LapseStep ==
    ASSUME TypeOK', fails' # 0
    PROVE  Feed!Lapse
<1>1. (fails > 0)' = TRUE
  BY DEF TypeOK
<1>2. \A i \in 1..Len(cur') : cur'[i] \in Entry
  BY ElementOfSeq DEF TypeOK
<1>3. \A i \in 1..Len(prev') : prev'[i] \in Entry
  BY ElementOfSeq DEF TypeOK
<1>4. Uids(cur') \in SUBSET Tags /\ Uids(prev') \in SUBSET Tags
  BY <1>2, <1>3 DEF Uids, Entry
<1>5. Seen' \in SUBSET Tags /\ present' \in SUBSET Tags
  BY <1>4 DEF Seen, TypeOK
<1> QED
  BY <1>1, <1>5, Zenon DEF Feed!Lapse

\* Every step of the polls is a step of TagEvents or leaves what it speaks of
\* unchanged.
LEMMA FeedStep ==
    ASSUME TypeOK, TypeOK', PresentInv, [Next]_vars
    PROVE  [Feed!Next]_(Feed!vars)
<1> DEFINE Goal == [Feed!Next]_(Feed!vars)
<1> SUFFICES ASSUME fails' = 0 PROVE Goal
  BY LapseStep, Zenon DEF Feed!Next
<1>0. /\ fails = 0 /\ idx \in Nat \ {0} /\ UNCHANGED (fails > 0)
      /\ Len(cur) \in Nat /\ Len(prev) \in Nat
      /\ Uids(cur) \in SUBSET Tags
  <2>1. \A i \in 1..Len(cur) : cur[i] \in Entry
    BY ElementOfSeq DEF TypeOK
  <2>2. Uids(cur) \in SUBSET Tags
    BY <2>1 DEF Uids, Entry
  <2>3. fails = 0 /\ UNCHANGED (fails > 0)
    BY FailsGrow DEF TypeOK
  <2> QED
    BY <2>2, <2>3, LenProperties DEF TypeOK
<1>1. ASSUME UNCHANGED <<Seen, present>> PROVE Goal
  BY <1>0, <1>1, Zenon DEF Feed!vars
<1>2. ASSUME Seen = present, Seen' = Uids(cur), UNCHANGED present PROVE Goal
  <2>1. Feed!Observe(Uids(cur))
    BY <1>0, <1>2, Zenon DEF Feed!Observe
  <2> QED
    BY <1>0, <2>1, Zenon DEF Feed!Next
<1>3. CASE ConnectFails \/ ConnectSucceeds \/ EndOuts \/ KnownTag \/ EndPoll
           \/ Hangup
  <2>1. pc # "read" /\ pc' # "read" /\ UNCHANGED <<cur, present>>
    BY <1>3, Zenon DEF ConnectFails, ConnectSucceeds, EndOuts, KnownTag,
                       EndPoll, Hangup, lists
  <2> QED
    BY <1>1, <2>1, Zenon DEF Seen
<1>4. CASE StartRead
  <2>1. /\ pc # "read" /\ pc' = "read" /\ prev' = cur /\ UNCHANGED present
    BY <1>4, Zenon DEF StartRead, AtPollStart, RotateLists
  <2> QED
    BY <1>1, <2>1, Zenon DEF Seen
<1>5. CASE ReconnectFails \/ ReadFails
  <2>1. fails' = fails + 1
    BY <1>5, Zenon DEF ReconnectFails, ReadFails
  <2> QED
    BY <1>0, <2>1
<1>6. CASE SkipReader
  <2>1. pc = "read" /\ pc' = "read" /\ UNCHANGED <<prev, present>>
    BY <1>6, Zenon DEF SkipReader, AtReader, lists
  <2> QED
    BY <1>1, <2>1, Zenon DEF Seen
<1>7. ASSUME NEW report \in Reports, ReadTags(report) PROVE Goal
  <2>1. pc = "read" /\ pc' = "read" /\ UNCHANGED <<prev, present>>
    BY <1>7, Zenon DEF ReadTags, AtReader
  <2> QED
    BY <1>1, <2>1, Zenon DEF Seen
<1>8. CASE MergeLists
  <2>1. pc = "read" /\ pc' \in {"outs", "idle"} /\ UNCHANGED <<cur, present>>
    BY <1>8, Zenon DEF MergeLists
  <2>2. Seen = present
    BY <1>0, <2>1, Zenon DEF Seen, PresentInv
  <2>3. Seen' = Uids(cur)
    BY <2>1, Zenon DEF Seen
  <2> QED
    BY <1>2, <2>1, <2>2, <2>3, Zenon
<1>9. CASE CarryOver
  <2>1. pc = "outs" /\ pc' = "outs" /\ UNCHANGED present
    BY <1>9, Zenon DEF CarryOver
  <2>2. prev[idx].data \in {NULL, TestData}
    <3>1. prev[idx] \in Entry
      BY <1>0, <1>9, ElementOfSeq DEF CarryOver, TypeOK
    <3> QED
      BY <3>1 DEF Entry
  <2>3. Uids(cur') = Uids(cur)
    BY <1>9, <2>2, SetDataList DEF CarryOver, TypeOK
  <2> QED
    BY <1>1, <2>1, <2>3, Zenon DEF Seen
<1>10. CASE TagOut
  <2> DEFINE u == prev[idx].uid
  <2>1. /\ pc = "outs" /\ pc' \in {"outs", "done"}
        /\ u \notin Uids(cur) /\ present' = present \ {u} /\ UNCHANGED cur
    BY <1>10, Zenon DEF TagOut
  <2>2. Seen = Uids(cur) /\ UNCHANGED Seen
    BY <2>1, Zenon DEF Seen
  <2>3. CASE u \in present
    <3>1. Feed!Out(u) /\ u \in Tags
      BY <1>0, <2>1, <2>2, <2>3 DEF Feed!Out, TypeOK
    <3> QED
      BY <3>1, Zenon DEF Feed!Next
  <2>4. CASE u \notin present
    <3>1. UNCHANGED present
      BY <2>1, <2>4
    <3> QED
      BY <1>1, <2>2, <3>1
  <2> QED
    BY <2>3, <2>4
<1>11. CASE TagIn
  <2> DEFINE u == cur[idx].uid
  <2>1. /\ pc = "ins" /\ pc' = "ins" /\ idx <= Len(cur)
        /\ present' = present \union {u}
        /\ cur' = SetData(cur, {idx}, TestData)
    BY <1>11, Zenon DEF TagIn
  <2>2. Uids(cur') = Uids(cur)
    BY <2>1, SetDataList DEF TypeOK
  <2>3. Seen = Uids(cur) /\ UNCHANGED Seen
    BY <2>1, <2>2, Zenon DEF Seen
  <2>4. present \subseteq Uids(cur)
    BY <1>0, <2>1, Zenon DEF PresentInv
  <2>5. u \in Uids(cur) /\ u \in Tags
    BY <1>0, <2>1 DEF Uids
  <2>6. CASE u \notin present
    <3>1. Feed!In(u)
      BY <1>0, <2>1, <2>3, <2>4, <2>5, <2>6 DEF Feed!In
    <3> QED
      BY <2>5, <3>1, Zenon DEF Feed!Next
  <2>7. CASE u \in present
    <3>1. UNCHANGED present
      BY <2>1, <2>7
    <3> QED
      BY <1>1, <2>3, <3>1
  <2> QED
    BY <2>6, <2>7
<1>12. CASE Terminate
  <2>1. pc' = "done" /\ UNCHANGED <<cur, present>>
    BY <1>12, Zenon DEF Terminate, lists
  <2>2. Seen' = Uids(cur)
    BY <2>1, Zenon DEF Seen
  <2>3. CASE pc = "read"
    <3>1. Seen = present
      BY <1>0, <2>3, Zenon DEF Seen, PresentInv
    <3> QED
      BY <1>2, <2>1, <2>2, <3>1, Zenon
  <2>4. CASE pc # "read"
    <3>1. Seen = Uids(cur)
      BY <2>4, Zenon DEF Seen
    <3> QED
      BY <1>1, <2>1, <2>2, <3>1, Zenon
  <2> QED
    BY <2>3, <2>4
<1>13. CASE UNCHANGED vars
  <2>1. UNCHANGED <<pc, cur, prev, present>>
    BY <1>13, Zenon DEF vars, lists
  <2> QED
    BY <1>1, <2>1, Zenon DEF Seen
<1> HIDE DEF Goal
<1> QED
  BY <1>3, <1>4, <1>5, <1>6, <1>7, <1>8, <1>9, <1>10, <1>11, <1>12, <1>13,
     Zenon DEF Next, Connect, Step, ReadFaults

\* TagPoll implements TagEvents, whatever the number of readers and however
\* the tags move between them: until a read fails the scripts are told exactly
\* the differences between one poll and the next, departures first.
THEOREM PollsImplementFeed == Spec => ImplementsTagEvents
<1>1. Init => Feed!Init
  <2> SUFFICES ASSUME Init PROVE Feed!Init
    OBVIOUS
  <2>1. pc = "idle" /\ present = {} /\ cur = <<>> /\ fails = 0
    BY Zenon DEF Init
  <2>2. Uids(<<>>) = {}
    BY DEF Uids
  <2>3. (fails > 0) = FALSE
    BY <2>1
  <2> QED
    BY <2>1, <2>2, <2>3, Zenon DEF Feed!Init, Seen
<1>2. TypeOK /\ TypeOK' /\ PresentInv /\ [Next]_vars => [Feed!Next]_(Feed!vars)
  BY FeedStep
<1>3. Spec => []PresentInv
  BY PresentInit, PresentStep, TypeCorrect, PTL DEF Spec
<1> QED
  BY <1>1, <1>2, <1>3, TypeCorrect, PTL DEF Spec, ImplementsTagEvents, Feed!Spec

-----------------------------------------------------------------------------
(* The contents attached to a tag, and the events of one reader.           *)

LEMMA ContentsInit == Init => ContentsInv /\ AlternationInv
<1> SUFFICES ASSUME Init PROVE ContentsInv /\ AlternationInv
  OBVIOUS
<1>1. pc = "idle" /\ cur = <<>> /\ prev = <<>>
  BY Zenon DEF Init
<1>2. 1..Len(<<>>) = {}
  OBVIOUS
<1> QED
  BY <1>1, <1>2, Zenon DEF ContentsInv, AlternationInv, NoUidTwice

LEMMA ContentsStep == TypeOK /\ ContentsInv /\ [Next]_vars => ContentsInv'
<1> DEFINE Goal ==
      /\ pc' \in {"idle", "rotate"} =>
            \A i \in 1..Len(cur') : Reported(cur[i])'
      /\ pc' = "read" =>
            /\ \A i \in 1..Len(prev') : Reported(prev[i])'
            /\ rv' = "fail" \/ (rdr' = 1 /\ NumReaders = 1) => cur' = <<>>
      /\ pc' = "outs" =>
            /\ \A i \in 1..Len(prev') : i >= idx' =>
                  /\ prev'[i].data = TestData
                  /\ prev'[i].uid \in Uids(cur') => prev'[i].uid \in present'
            /\ \A i \in 1..Len(prev') : \A j \in 1..Len(cur') :
                  i < idx' /\ prev'[i].uid = cur'[j].uid => Reported(cur[j])'
      /\ pc' = "ins" =>
            \A j \in 1..Len(cur') :
               j < idx' \/ cur'[j].uid \in Uids(prev') => Reported(cur[j])'
<1> SUFFICES ASSUME TypeOK, ContentsInv, [Next]_vars,
                    NumReaders = 1 \/ fails' = 0
             PROVE  Goal
  BY Zenon DEF ContentsInv
<1>0. /\ fails \in Nat /\ idx \in Nat \ {0} /\ rdr \in Nat
      /\ Len(cur) \in Nat /\ Len(prev) \in Nat
  BY LenProperties DEF TypeOK
<1>1. CASE ConnectFails \/ ConnectSucceeds \/ Hangup
  <2>1. /\ pc = "idle" /\ pc' \in {"idle", "rotate"}
        /\ UNCHANGED <<cur, fails, present>>
    BY <1>1, Zenon DEF ConnectFails, ConnectSucceeds, Hangup, lists, reading
  <2> QED
    BY <2>1, Zenon DEF ContentsInv, Reported
<1>2. CASE StartRead
  <2>1. /\ pc \in {"idle", "rotate"} /\ pc' = "read"
        /\ prev' = cur /\ cur' = <<>> /\ UNCHANGED <<fails, present>>
    BY <1>2, Zenon DEF StartRead, RotateLists, AtPollStart
  <2> QED
    BY <2>1, Zenon DEF ContentsInv, Reported
<1>3. CASE ReconnectFails
  <2>1. pc' = "idle" /\ cur' = <<>>
    BY <1>3, Zenon DEF ReconnectFails, RotateLists
  <2>2. 1..Len(<<>>) = {}
    OBVIOUS
  <2> QED
    BY <2>1, <2>2, Zenon
<1>4. CASE ReadFails
  <2>1. /\ pc = "read" /\ pc' = "read" /\ fails' = fails + 1
        /\ rdr \in Readers /\ UNCHANGED <<cur, prev, present>>
    BY <1>4, Zenon DEF ReadFails, AtReader, lists
  <2>2. NumReaders = 1 /\ rdr = 1
    BY <1>0, <2>1 DEF Readers
  <2>3. cur = <<>>
    BY <2>1, <2>2, Zenon DEF ContentsInv
  <2> QED
    BY <2>1, <2>2, <2>3, Zenon DEF ContentsInv, Reported
<1>5. CASE SkipReader
  <2>1. /\ pc = "read" /\ pc' = "read" /\ rdr' = rdr + 1
        /\ rdr \in Readers /\ UNCHANGED <<cur, prev, fails, rv, present>>
    BY <1>5, Zenon DEF SkipReader, AtReader, lists
  <2>2. rdr' # 1
    BY <1>0, <2>1 DEF Readers
  <2> QED
    BY <2>1, <2>2, Zenon DEF ContentsInv, Reported
<1>6. ASSUME NEW report \in Reports, ReadTags(report) PROVE Goal
  <2>1. /\ pc = "read" /\ pc' = "read" /\ rdr' = rdr + 1 /\ rv' = "ok"
        /\ rdr \in Readers /\ UNCHANGED <<prev, fails, present>>
    BY <1>6, Zenon DEF ReadTags, AtReader
  <2>2. rdr' # 1
    BY <1>0, <2>1 DEF Readers
  <2> QED
    BY <2>1, <2>2, Zenon DEF ContentsInv, Reported
<1>7. CASE MergeLists
  <2>1. /\ pc = "read" /\ UNCHANGED <<cur, prev, rv, fails, present>>
        /\ pc' = IF rv = "ok" THEN "outs" ELSE "idle"
        /\ idx' = 1
    BY <1>7, Zenon DEF MergeLists, reading
  <2>2. CASE rv = "ok"
    <3>1. pc' = "outs" /\ \A i \in 1..Len(prev) : Reported(prev[i]) /\ ~(i < 1)
      BY <1>0, <2>1, <2>2 DEF ContentsInv
    <3> QED
      BY <2>1, <3>1, Zenon DEF Reported
  <2>3. CASE rv # "ok"
    <3>1. pc' = "idle" /\ cur = <<>>
      BY <2>1, <2>3, Zenon DEF ContentsInv, TypeOK
    <3>2. 1..Len(<<>>) = {}
      OBVIOUS
    <3> QED
      BY <2>1, <3>1, <3>2, Zenon
  <2> QED
    BY <2>2, <2>3
<1>8. CASE CarryOver
  <2> DEFINE u == prev[idx].uid
  <2>1. /\ pc = "outs" /\ pc' = "outs" /\ idx' = idx + 1
        /\ idx <= Len(prev) /\ u \in Uids(cur)
        /\ cur' = SetData(cur, WithUid(cur, u), prev[idx].data)
        /\ UNCHANGED <<prev, rv, fails, present>>
    BY <1>8, Zenon DEF CarryOver, reading
  <2>2. idx \in 1..Len(prev)
    BY <1>0, <2>1
  <2>3. prev[idx].data = TestData /\ u \in present
    BY <1>0, <2>1, <2>2 DEF ContentsInv
  <2>4. /\ Uids(cur') = Uids(cur) /\ Len(cur') = Len(cur)
        /\ \A j \in 1..Len(cur) :
              /\ cur'[j].uid = cur[j].uid
              /\ cur'[j].data =
                    IF j \in WithUid(cur, u) THEN TestData ELSE cur[j].data
    BY <2>1, <2>3, SetDataList DEF TypeOK
  <2>5. ASSUME NEW i \in 1..Len(prev), NEW j \in 1..Len(cur),
               i < idx + 1, prev[i].uid = cur[j].uid
        PROVE  Reported(cur[j])'
    <3>1. CASE cur[j].uid = u
      BY <2>1, <2>3, <2>4, <3>1 DEF Reported, WithUid
    <3>2. CASE cur[j].uid # u
      <4>1. i < idx
        BY <1>0, <2>5, <3>2
      <4>2. Reported(cur[j])
        BY <2>1, <2>5, <4>1, Zenon DEF ContentsInv
      <4>3. cur'[j].data = cur[j].data
        BY <2>4, <3>2 DEF WithUid
      <4> QED
        BY <2>1, <2>4, <4>2, <4>3, Zenon DEF Reported
    <3> QED
      BY <3>1, <3>2
  <2>6. ASSUME NEW i \in 1..Len(prev), i >= idx + 1
        PROVE  /\ prev[i].data = TestData
               /\ prev[i].uid \in Uids(cur) => prev[i].uid \in present
    <3>1. i >= idx
      BY <1>0, <2>6
    <3> QED
      BY <2>1, <3>1, Zenon DEF ContentsInv
  <2>7. pc' = "outs" /\ idx' = idx + 1 /\ UNCHANGED <<prev, present>>
    BY <2>1, Zenon
  <2>8. Uids(cur') = Uids(cur) /\ Len(cur') = Len(cur)
    BY <2>4, Zenon
  <2>9. \A i \in 1..Len(prev) : \A j \in 1..Len(cur) :
           i < idx + 1 /\ prev[i].uid = cur'[j].uid => Reported(cur[j])'
    BY <2>4, <2>5, Zenon
  <2> QED
    BY <2>6, <2>7, <2>8, <2>9, Zenon
<1>9. CASE TagOut
  <2> DEFINE u == prev[idx].uid
  <2>1. /\ pc = "outs" /\ pc' \in {"outs", "done"} /\ idx' = idx + 1
        /\ idx <= Len(prev) /\ u \notin Uids(cur)
        /\ present' = present \ {u}
        /\ prev' = SetData(prev, {idx}, NULL)
        /\ UNCHANGED <<cur, rv, fails>>
    BY <1>9, Zenon DEF TagOut, reading
  <2>2. /\ Len(prev') = Len(prev)
        /\ \A j \in 1..Len(prev) :
              /\ prev'[j].uid = prev[j].uid
              /\ j # idx => prev'[j].data = prev[j].data
    BY <2>1, SetDataList DEF TypeOK
  <2>3. \A j \in 1..Len(cur) : cur[j].uid \in Uids(cur)
    BY DEF Uids
  <2>4. ASSUME NEW i \in 1..Len(prev), NEW j \in 1..Len(cur),
               i < idx + 1, prev'[i].uid = cur[j].uid
        PROVE  Reported(cur[j])'
    <3>1. prev[i].uid = cur[j].uid /\ cur[j].uid # u
      BY <2>1, <2>2, <2>3, <2>4
    <3>2. i < idx
      BY <1>0, <2>4, <3>1
    <3>3. Reported(cur[j])
      BY <2>1, <3>1, <3>2, Zenon DEF ContentsInv
    <3> QED
      BY <2>1, <3>1, <3>3 DEF Reported
  <2>5. ASSUME NEW i \in 1..Len(prev), i >= idx + 1
        PROVE  /\ prev'[i].data = TestData
               /\ prev'[i].uid \in Uids(cur) => prev'[i].uid \in present'
    <3>1. i >= idx /\ i # idx
      BY <1>0, <2>5
    <3>2. /\ prev[i].data = TestData
          /\ prev[i].uid \in Uids(cur) => prev[i].uid \in present
      BY <2>1, <3>1, Zenon DEF ContentsInv
    <3> QED
      BY <2>1, <2>2, <3>1, <3>2
  <2> QED
    BY <2>1, <2>2, <2>4, <2>5, Zenon
<1>10. CASE EndOuts
  <2>1. /\ pc = "outs" /\ pc' = "ins" /\ idx' = 1 /\ idx > Len(prev)
        /\ UNCHANGED <<cur, prev, rv, fails, present>>
    BY <1>10, Zenon DEF EndOuts, lists, reading
  <2>2. ASSUME NEW j \in 1..Len(cur), cur[j].uid \in Uids(prev)
        PROVE  Reported(cur[j])
    <3>1. PICK i \in 1..Len(prev) : prev[i].uid = cur[j].uid
      BY <2>2 DEF Uids
    <3>2. i < idx
      BY <1>0, <2>1
    <3> QED
      BY <2>1, <3>1, <3>2, Zenon DEF ContentsInv
  <2>3. \A j \in 1..Len(cur) : ~(j < 1)
    BY <1>0
  <2> QED
    BY <2>1, <2>2, <2>3, Zenon DEF Reported
<1>11. CASE KnownTag
  <2>1. /\ pc = "ins" /\ pc' = "ins" /\ idx' = idx + 1 /\ idx <= Len(cur)
        /\ cur[idx].uid \in Uids(prev)
        /\ UNCHANGED <<cur, prev, rv, fails, present>>
    BY <1>11, Zenon DEF KnownTag, lists, reading
  <2>2. \A j \in 1..Len(cur) : j < idx + 1 => j < idx \/ j = idx
    BY <1>0
  <2> QED
    BY <2>1, <2>2, Zenon DEF ContentsInv, Reported
<1>12. CASE TagIn
  <2> DEFINE u == cur[idx].uid
  <2>1. /\ pc = "ins" /\ pc' = "ins" /\ idx' = idx + 1 /\ idx <= Len(cur)
        /\ present' = present \union {u}
        /\ cur' = SetData(cur, {idx}, TestData)
        /\ UNCHANGED <<prev, rv, fails>>
    BY <1>12, Zenon DEF TagIn, reading
  <2>2. /\ Len(cur') = Len(cur)
        /\ \A j \in 1..Len(cur) :
              /\ cur'[j].uid = cur[j].uid
              /\ cur'[j].data = IF j \in {idx} THEN TestData ELSE cur[j].data
    BY <2>1, SetDataList DEF TypeOK
  <2>3. ASSUME NEW j \in 1..Len(cur),
               j < idx + 1 \/ cur'[j].uid \in Uids(prev)
        PROVE  Reported(cur[j])'
    <3>1. CASE j = idx
      BY <2>1, <2>2, <3>1 DEF Reported
    <3>2. CASE j # idx
      <4>1. j < idx \/ cur[j].uid \in Uids(prev)
        BY <1>0, <2>2, <2>3, <3>2
      <4>2. Reported(cur[j])
        BY <2>1, <4>1, Zenon DEF ContentsInv
      <4> QED
        BY <2>1, <2>2, <3>2, <4>2 DEF Reported
    <3> QED
      BY <3>1, <3>2
  <2> QED
    BY <2>1, <2>2, <2>3, Zenon
<1>13. CASE EndPoll
  <2>1. /\ pc = "ins" /\ pc' = "idle" /\ idx > Len(cur)
        /\ UNCHANGED <<cur, fails, present>>
    BY <1>13, Zenon DEF EndPoll, lists, reading
  <2>2. \A j \in 1..Len(cur) : j < idx
    BY <1>0, <2>1
  <2> QED
    BY <2>1, <2>2, Zenon DEF ContentsInv, Reported
<1>14. CASE Terminate
  <2>1. pc' = "done"
    BY <1>14, Zenon DEF Terminate
  <2> QED
    BY <2>1, Zenon
<1>15. CASE UNCHANGED vars
  <2>1. UNCHANGED <<pc, cur, prev, rdr, rv, fails, idx, present>>
    BY <1>15, Zenon DEF vars, lists, reading
  <2> QED
    BY <2>1, Zenon DEF ContentsInv, Reported
<1> HIDE DEF Goal
<1> QED
  BY <1>1, <1>2, <1>3, <1>4, <1>5, <1>6, <1>7, <1>8, <1>9, <1>10, <1>11,
     <1>12, <1>13, <1>14, <1>15, Zenon DEF Next, Connect, Step, ReadFaults

\* With one reader, or before any failure, every tag in the list between two
\* polls has had its IN and still carries the contents attached then.
THEOREM ListIsReported == Spec => []CurrentIsReported
<1>1. ContentsInv => CurrentIsReported
  BY Zenon DEF ContentsInv, CurrentIsReported, Reported
<1> QED
  BY <1>1, ContentsInit, ContentsStep, TypeCorrect, PTL DEF Spec

LEMMA AlternationStep ==
    ASSUME TypeOK, ContentsInv, AlternationInv, [Next]_vars, NumReaders = 1
    PROVE  AlternationInv'
<1> DEFINE Goal ==
      /\ NoUidTwice(cur)' /\ NoUidTwice(prev)'
      /\ pc' = "outs" =>
            \A i \in 1..Len(prev') : i >= idx' => prev'[i].uid \in present'
<1> SUFFICES Goal
  BY Zenon DEF AlternationInv
<1>0. /\ NoUidTwice(cur) /\ NoUidTwice(prev) /\ idx \in Nat \ {0}
      /\ Len(cur) \in Nat /\ Len(prev) \in Nat
  BY LenProperties DEF TypeOK, AlternationInv
<1>1. ASSUME UNCHANGED <<cur, prev>>, pc' # "outs" PROVE Goal
  BY <1>0, <1>1, Zenon
<1>2. CASE ConnectFails \/ ConnectSucceeds \/ Hangup \/ Terminate
           \/ SkipReader \/ ReadFails \/ EndOuts \/ KnownTag \/ EndPoll
  <2>1. UNCHANGED <<cur, prev>> /\ pc' # "outs"
    BY <1>2, Zenon DEF ConnectFails, ConnectSucceeds, Hangup, Terminate,
       SkipReader, ReadFails, EndOuts, KnownTag, EndPoll, AtReader, lists
  <2> QED
    BY <1>1, <2>1
<1>3. CASE StartRead \/ ReconnectFails
  <2>1. prev' = cur /\ cur' = <<>> /\ pc' # "outs"
    BY <1>3, Zenon DEF StartRead, ReconnectFails, RotateLists
  <2>2. NoUidTwice(<<>>)
    BY DEF NoUidTwice
  <2> QED
    BY <1>0, <2>1, <2>2, Zenon
<1>4. ASSUME NEW report \in Reports, ReadTags(report) PROVE Goal
  <2>1. /\ pc = "read" /\ pc' = "read" /\ rdr \in Readers
        /\ cur' = cur \o FreshEntries(report) /\ UNCHANGED prev
    BY <1>4, Zenon DEF ReadTags, AtReader
  <2>2. rdr = 1
    BY <2>1 DEF Readers
  <2>3. cur = <<>>
    BY <2>1, <2>2, Zenon DEF ContentsInv
  <2>4. cur' = FreshEntries(report)
    BY <2>1, <2>3, FreshList, ConcatEmptySeq
  <2> QED
    BY <1>0, <2>1, <2>4, FreshList, Zenon
<1>5. CASE MergeLists
  <2>1. pc = "read" /\ UNCHANGED <<cur, prev, present>>
    BY <1>5, Zenon DEF MergeLists
  <2>2. \A i \in 1..Len(prev) : prev[i].uid \in present
    BY <2>1, Zenon DEF ContentsInv, Reported
  <2> QED
    BY <1>0, <2>1, <2>2, Zenon
<1>6. CASE CarryOver
  <2>1. /\ pc = "outs" /\ idx' = idx + 1 /\ idx <= Len(prev)
        /\ cur' = SetData(cur, WithUid(cur, prev[idx].uid), prev[idx].data)
        /\ UNCHANGED <<prev, present>>
    BY <1>6, Zenon DEF CarryOver
  <2>2. prev[idx].data \in {NULL, TestData}
    <3>1. prev[idx] \in Entry
      BY <1>0, <2>1, ElementOfSeq DEF TypeOK
    <3> QED
      BY <3>1 DEF Entry
  <2>3. /\ Len(cur') = Len(cur)
        /\ \A j \in 1..Len(cur) : cur'[j].uid = cur[j].uid
    BY <2>1, <2>2, SetDataList DEF TypeOK
  <2>4. NoUidTwice(cur)'
    BY <1>0, <2>3, Zenon DEF NoUidTwice
  <2>5. \A i \in 1..Len(prev) : i >= idx + 1 => prev[i].uid \in present
    BY <1>0, <2>1 DEF AlternationInv
  <2> QED
    BY <1>0, <2>1, <2>4, <2>5, Zenon
<1>7. CASE TagOut
  <2> DEFINE u == prev[idx].uid
  <2>1. /\ pc = "outs" /\ idx' = idx + 1 /\ idx <= Len(prev)
        /\ present' = present \ {u}
        /\ prev' = SetData(prev, {idx}, NULL)
        /\ UNCHANGED cur
    BY <1>7, Zenon DEF TagOut
  <2>2. /\ Len(prev') = Len(prev)
        /\ \A j \in 1..Len(prev) : prev'[j].uid = prev[j].uid
    BY <2>1, SetDataList DEF TypeOK
  <2>3. NoUidTwice(prev)'
    BY <1>0, <2>2, Zenon DEF NoUidTwice
  <2>4. ASSUME NEW i \in 1..Len(prev), i >= idx + 1
        PROVE  prev'[i].uid \in present'
    <3>1. prev[i].uid \in present
      BY <1>0, <2>1, <2>4 DEF AlternationInv
    <3>2. idx \in 1..Len(prev) /\ i # idx
      BY <1>0, <2>1, <2>4
    <3>3. prev[i].uid # u
      BY <1>0, <3>2, Zenon DEF NoUidTwice
    <3> QED
      BY <2>1, <2>2, <3>1, <3>3
  <2> QED
    BY <1>0, <2>1, <2>2, <2>3, <2>4, Zenon
<1>8. CASE TagIn
  <2>1. pc' # "outs" /\ cur' = SetData(cur, {idx}, TestData) /\ UNCHANGED prev
    BY <1>8, Zenon DEF TagIn
  <2>2. /\ Len(cur') = Len(cur)
        /\ \A j \in 1..Len(cur) : cur'[j].uid = cur[j].uid
    BY <2>1, SetDataList DEF TypeOK
  <2>3. NoUidTwice(cur)'
    BY <1>0, <2>2, Zenon DEF NoUidTwice
  <2> QED
    BY <1>0, <2>1, <2>3, Zenon
<1>9. CASE UNCHANGED vars
  <2>1. UNCHANGED <<pc, cur, prev, idx, present>>
    BY <1>9, Zenon DEF vars, lists
  <2> QED
    BY <1>0, <2>1, Zenon DEF AlternationInv
<1> HIDE DEF Goal
<1> QED
  BY <1>2, <1>3, <1>4, <1>5, <1>6, <1>7, <1>8, <1>9, Zenon
     DEF Next, Connect, Step, ReadFaults

\* With one reader no script is told OUT of a tag it was not told IN of, even
\* when reads fail.
THEOREM OutsFollowIns ==
    ASSUME NumReaders = 1
    PROVE  Spec => OutFollowsIn
<1>1. ASSUME TypeOK, AlternationInv, [Next]_vars
      PROVE  [event'.type = "OUT" => event'.uid \in present]_vars
  <2> SUFFICES ASSUME Next, event'.type = "OUT"
               PROVE  event'.uid \in present
    BY <1>1, Zenon
  <2>1. CASE TagOut
    <3>1. /\ pc = "outs" /\ idx <= Len(prev)
          /\ event' = [type |-> "OUT", uid |-> prev[idx].uid]
      BY <2>1, Zenon DEF TagOut
    <3>2. idx \in 1..Len(prev) /\ idx >= idx
      BY <1>1, <3>1, LenProperties DEF TypeOK
    <3>3. prev[idx].uid \in present
      BY <1>1, <3>1, <3>2, Zenon DEF AlternationInv
    <3> QED
      BY <3>1, <3>3
  <2>2. CASE TagIn
    BY <2>2 DEF TagIn
  <2>3. ASSUME event' = NoEvent PROVE FALSE
    BY <2>3 DEF NoEvent
  <2> QED
    BY <2>1, <2>2, <2>3, Zenon DEF Next, Connect, Step, ReadFaults,
       ConnectFails, ConnectSucceeds, StartRead, ReconnectFails, SkipReader,
       ReadTags, ReadFails, MergeLists, CarryOver, EndOuts, KnownTag, EndPoll,
       Hangup, Terminate
<1>2. TypeOK /\ ContentsInv /\ AlternationInv /\ [Next]_vars => AlternationInv'
  BY AlternationStep
<1>3. TypeOK /\ AlternationInv /\ [Next]_vars
         => [event'.type = "OUT" => event'.uid \in present]_vars
  BY <1>1
<1> QED
  BY <1>2, <1>3, ContentsInit, ContentsStep, TypeCorrect, PTL
     DEF Spec, OutFollowsIn

\* What becomes present is an entry the second loop has just passed.
LEMMA KnownStep ==
    ASSUME TypeOK, PresentInv, KnownInv, [Next]_vars
    PROVE  KnownInv'
<1> DEFINE Passed(i, t) == i < idx' /\ cur'[i].uid = t
           Goal ==
              /\ pc' = "outs" => present' \subseteq Uids(prev')
              /\ pc' = "ins" => \A t \in present' \ Uids(prev') :
                                   \E i \in 1..Len(cur') : Passed(i, t)
<1> SUFFICES ASSUME fails' = 0 PROVE Goal
  BY Zenon DEF KnownInv
<1>0. /\ fails \in Nat /\ idx \in Nat \ {0}
      /\ Len(cur) \in Nat /\ Len(prev) \in Nat
  BY LenProperties DEF TypeOK
<1>1. fails = 0
  BY <1>0, FailsGrow
<1>2. CASE ConnectFails \/ ConnectSucceeds \/ StartRead \/ ReconnectFails
           \/ SkipReader \/ ReadFails \/ EndPoll \/ Hangup \/ Terminate
           \/ \E report \in Reports : ReadTags(report)
  <2>1. pc' \notin {"outs", "ins"}
    BY <1>2, Zenon DEF ConnectFails, ConnectSucceeds, StartRead, ReconnectFails,
       SkipReader, ReadFails, ReadTags, EndPoll, Hangup, Terminate, AtReader
  <2> QED
    BY <2>1, Zenon
<1>3. CASE MergeLists
  <2>1. /\ pc = "read" /\ pc' # "ins" /\ UNCHANGED <<prev, present>>
    BY <1>3, Zenon DEF MergeLists
  <2>2. present = Uids(prev)
    BY <1>1, <2>1, Zenon DEF PresentInv
  <2> QED
    BY <2>1, <2>2, Zenon
<1>4. CASE CarryOver
  <2>1. pc = "outs" /\ pc' = "outs" /\ UNCHANGED <<prev, present>>
    BY <1>4, Zenon DEF CarryOver
  <2> QED
    BY <1>1, <2>1, Zenon DEF KnownInv
<1>5. CASE TagOut
  <2>1. /\ pc = "outs" /\ pc' # "ins"
        /\ present' \subseteq present /\ prev' = SetData(prev, {idx}, NULL)
    BY <1>5 DEF TagOut
  <2>2. Uids(prev') = Uids(prev)
    BY <2>1, SetDataList DEF TypeOK
  <2> QED
    BY <1>1, <2>1, <2>2 DEF KnownInv
<1>6. CASE EndOuts
  <2>1. /\ pc = "outs" /\ pc' = "ins" /\ UNCHANGED <<prev, present>>
    BY <1>6, Zenon DEF EndOuts, lists
  <2> QED
    BY <1>1, <2>1 DEF KnownInv
<1>7. CASE KnownTag
  <2>1. /\ pc = "ins" /\ pc' = "ins" /\ idx' = idx + 1
        /\ UNCHANGED <<cur, prev, present>>
    BY <1>7, Zenon DEF KnownTag, lists
  <2>2. ASSUME NEW i \in 1..Len(cur), i < idx PROVE i < idx + 1
    BY <1>0, <2>2
  <2> QED
    BY <1>1, <2>1, <2>2, Zenon DEF KnownInv
<1>8. CASE TagIn
  <2> DEFINE u == cur[idx].uid
  <2>1. /\ pc = "ins" /\ pc' = "ins" /\ idx' = idx + 1 /\ idx <= Len(cur)
        /\ present' = present \union {u}
        /\ cur' = SetData(cur, {idx}, TestData) /\ UNCHANGED prev
    BY <1>8, Zenon DEF TagIn
  <2>2. /\ Len(cur') = Len(cur)
        /\ \A j \in 1..Len(cur) : cur'[j].uid = cur[j].uid
    BY <2>1, SetDataList DEF TypeOK
  <2>3. ASSUME NEW t \in present' \ Uids(prev')
        PROVE  \E i \in 1..Len(cur') : Passed(i, t)
    <3>1. CASE t = u
      <4>1. idx \in 1..Len(cur) /\ idx < idx + 1
        BY <1>0, <2>1
      <4> QED
        BY <2>1, <2>2, <3>1, <4>1, Zenon
    <3>2. CASE t \in present
      <4>1. PICK i \in 1..Len(cur) : i < idx /\ cur[i].uid = t
        BY <1>1, <2>1, <2>3, <3>2 DEF KnownInv
      <4>2. i < idx + 1
        BY <1>0, <4>1
      <4> QED
        BY <2>1, <2>2, <4>1, <4>2, Zenon
    <3> QED
      BY <2>1, <2>3, <3>1, <3>2
  <2> HIDE DEF Passed
  <2> QED
    BY <2>1, <2>3, Zenon
<1>9. CASE UNCHANGED vars
  <2>1. UNCHANGED <<pc, cur, prev, idx, present>>
    BY <1>9, Zenon DEF vars, lists
  <2> QED
    BY <1>1, <2>1, Zenon DEF KnownInv
<1> HIDE DEF Goal
<1> QED
  BY <1>2, <1>3, <1>4, <1>5, <1>6, <1>7, <1>8, <1>9, Zenon
     DEF Next, Connect, Step, ReadFaults

\* With one reader and as long as no read has failed, no script is told IN of
\* a tag it was told IN of and not OUT since: the other half of alternation.
THEOREM InsFollowOuts ==
    ASSUME NumReaders = 1
    PROVE  Spec => InFollowsOut
<1>1. ASSUME TypeOK, AlternationInv, KnownInv, [Next]_vars
      PROVE  [event'.type = "IN" /\ fails = 0 => event'.uid \notin present]_vars
  <2> SUFFICES ASSUME Next, event'.type = "IN", fails = 0
               PROVE  event'.uid \notin present
    BY <1>1, Zenon
  <2>1. CASE TagIn
    <3>1. /\ pc = "ins" /\ idx <= Len(cur) /\ cur[idx].uid \notin Uids(prev)
          /\ event' = [type |-> "IN", uid |-> cur[idx].uid]
      BY <2>1, Zenon DEF TagIn
    <3>2. idx \in 1..Len(cur)
      BY <1>1, <3>1, LenProperties DEF TypeOK
    <3>3. SUFFICES ASSUME cur[idx].uid \in present PROVE FALSE
      BY <3>1
    <3>4. PICK i \in 1..Len(cur) : i < idx /\ cur[i].uid = cur[idx].uid
      BY <1>1, <3>1, <3>3, Zenon DEF KnownInv
    <3>5. i = idx
      BY <1>1, <3>2, <3>4, Zenon DEF AlternationInv, NoUidTwice
    <3> QED
      BY <1>1, <3>4, <3>5 DEF TypeOK
  <2>2. CASE TagOut
    BY <2>2 DEF TagOut
  <2>3. ASSUME event' = NoEvent PROVE FALSE
    BY <2>3 DEF NoEvent
  <2> QED
    BY <2>1, <2>2, <2>3, Zenon DEF Next, Connect, Step, ReadFaults,
       ConnectFails, ConnectSucceeds, StartRead, ReconnectFails, SkipReader,
       ReadTags, ReadFails, MergeLists, CarryOver, EndOuts, KnownTag, EndPoll,
       Hangup, Terminate
<1>2. TypeOK /\ ContentsInv /\ AlternationInv /\ [Next]_vars => AlternationInv'
  BY AlternationStep
<1>3. TypeOK /\ PresentInv /\ KnownInv /\ [Next]_vars => KnownInv'
  BY KnownStep
<1>4. Init => KnownInv
  BY Zenon DEF Init, KnownInv
<1>5. TypeOK /\ AlternationInv /\ KnownInv /\ [Next]_vars
         => [event'.type = "IN" /\ fails = 0 => event'.uid \notin present]_vars
  BY <1>1
<1> QED
  BY <1>2, <1>3, <1>4, <1>5, ContentsInit, ContentsStep, PresentInit,
     PresentStep, TypeCorrect, PTL DEF Spec, InFollowsOut

-----------------------------------------------------------------------------
(* What a poll can count on, and that it ends.                             *)

\* Never more than two arrays of tags are allocated: while the readers are
\* read there is at most that of the last poll, so two blocks always suffice.
THEOREM TwoArraysSuffice ==
    ASSUME \E a, b \in Blocks : a # b
    PROVE  Spec => [](pc = "read" => Blocks \ heap # {})
<1>1. ArraysInv => (pc = "read" => Blocks \ heap # {})
  <2> SUFFICES ASSUME ArraysInv, pc = "read" PROVE Blocks \ heap # {}
    OBVIOUS
  <2>1. heap \subseteq {prevPtr}
    BY DEF ArraysInv, ArraysOwned
  <2> QED
    BY <2>1
<1> QED
  BY <1>1, ArraysInvariant, PTL

\* How far a poll is from its end: the loop it is in, and the turns left of it.
Phase == CASE pc = "rotate" -> 4
           [] pc = "read"   -> 3
           [] pc = "outs"   -> 2
           [] pc = "ins"    -> 1
           [] OTHER         -> 0

Left == CASE pc = "read" -> (NumReaders + 1) - rdr
          [] pc = "outs" -> (Len(prev) + 1) - idx
          [] pc = "ins"  -> (Len(cur) + 1) - idx
          [] OTHER       -> 0

\* The measure is a pair of natural numbers, smaller in the order of pairs.
MovesOn == Phase' < Phase \/ (Phase' = Phase /\ Left' < Left)

LeftInv ==
    /\ pc = "outs" => idx <= Len(prev) + 1
    /\ pc = "ins"  => idx <= Len(cur) + 1

LEMMA MovesOnStep ==
    ASSUME TypeOK, LeftInv, Next
    PROVE  LeftInv' /\ (pc # "idle" => MovesOn)
<1> DEFINE Goal == LeftInv' /\ (pc # "idle" => MovesOn)
<1> USE DEF LeftInv, MovesOn, Phase, Left
<1>0. /\ Len(cur) \in Nat /\ Len(prev) \in Nat /\ NumReaders \in Nat
      /\ idx \in Nat \ {0} /\ rdr \in Nat
  BY LenProperties DEF TypeOK
<1>1. CASE ConnectFails \/ ConnectSucceeds \/ Hangup
  <2>1. pc = "idle" /\ pc' \in {"idle", "rotate"}
    BY <1>1, Zenon DEF ConnectFails, ConnectSucceeds, Hangup
  <2> QED
    BY <2>1
<1>2. CASE StartRead \/ ReconnectFails
  <2>1. pc \in {"idle", "rotate"} /\ pc' \in {"read", "idle"}
    BY <1>2, Zenon DEF StartRead, ReconnectFails, AtPollStart
  <2> QED
    BY <2>1
<1>3. CASE SkipReader \/ ReadFails \/ \E report \in Reports : ReadTags(report)
  <2>1. pc = "read" /\ pc' = "read" /\ rdr' = rdr + 1
    BY <1>3, Zenon DEF SkipReader, ReadFails, ReadTags, AtReader
  <2> QED
    BY <1>0, <2>1
<1>4. CASE MergeLists
  <2>1. pc = "read" /\ pc' \in {"outs", "idle"} /\ idx' = 1 /\ UNCHANGED prev
    BY <1>4, Zenon DEF MergeLists
  <2> QED
    BY <1>0, <2>1
<1>5. CASE CarryOver
  <2>1. /\ pc = "outs" /\ pc' = "outs" /\ idx' = idx + 1 /\ idx <= Len(prev)
        /\ UNCHANGED prev
    BY <1>5, Zenon DEF CarryOver
  <2> QED
    BY <1>0, <2>1
<1>6. CASE TagOut
  <2>1. /\ pc = "outs" /\ pc' \in {"outs", "done"} /\ idx' = idx + 1
        /\ idx <= Len(prev) /\ prev' = SetData(prev, {idx}, NULL)
    BY <1>6, Zenon DEF TagOut
  <2>2. Len(prev') = Len(prev)
    BY <2>1, SetDataList DEF TypeOK
  <2> QED
    BY <1>0, <2>1, <2>2
<1>7. CASE EndOuts
  <2>1. pc = "outs" /\ pc' = "ins" /\ idx' = 1 /\ UNCHANGED cur
    BY <1>7, Zenon DEF EndOuts, lists
  <2> QED
    BY <1>0, <2>1
<1>8. CASE KnownTag
  <2>1. /\ pc = "ins" /\ pc' = "ins" /\ idx' = idx + 1 /\ idx <= Len(cur)
        /\ UNCHANGED cur
    BY <1>8, Zenon DEF KnownTag, lists
  <2> QED
    BY <1>0, <2>1
<1>9. CASE TagIn
  <2>1. /\ pc = "ins" /\ pc' = "ins" /\ idx' = idx + 1 /\ idx <= Len(cur)
        /\ cur' = SetData(cur, {idx}, TestData)
    BY <1>9, Zenon DEF TagIn
  <2>2. Len(cur') = Len(cur)
    BY <2>1, SetDataList DEF TypeOK
  <2> QED
    BY <1>0, <2>1, <2>2
<1>10. CASE EndPoll
  <2>1. pc = "ins" /\ pc' = "idle"
    BY <1>10, Zenon DEF EndPoll
  <2> QED
    BY <2>1
<1>11. CASE Terminate
  <2>1. pc # "done" /\ pc' = "done"
    BY <1>11, Zenon DEF Terminate
  <2>2. pc \in {"idle", "rotate", "read", "outs", "ins"}
    BY <2>1, Zenon DEF TypeOK
  <2> QED
    BY <2>1, <2>2
<1> HIDE DEF Goal
<1> QED
  BY <1>1, <1>2, <1>3, <1>4, <1>5, <1>6, <1>7, <1>8, <1>9, <1>10, <1>11, Zenon
     DEF Next, Connect, Step, ReadFaults

\* A poll takes finitely many steps, whatever the readers report and whichever
\* calls fail: from its first step to its last, each step makes a pair of
\* natural numbers smaller.
THEOREM PollsMoveOn ==
    Spec => [](Left \in Nat) /\ [][pc # "idle" => MovesOn]_vars
<1>1. Init => LeftInv
  BY Zenon DEF Init, LeftInv
<1>2. TypeOK /\ LeftInv /\ [Next]_vars => LeftInv'
  <2>1. CASE UNCHANGED vars
    <3>1. UNCHANGED <<pc, idx, prev, cur>>
      BY <2>1, Zenon DEF vars, lists
    <3> QED
      BY <3>1, Zenon DEF LeftInv
  <2> QED
    BY <2>1, MovesOnStep, Zenon
<1>3. TypeOK /\ LeftInv => Left \in Nat
  <2> SUFFICES ASSUME TypeOK, LeftInv PROVE Left \in Nat
    OBVIOUS
  <2>1. /\ Len(cur) \in Nat /\ Len(prev) \in Nat /\ idx \in Nat
        /\ rdr \in 1..(NumReaders + 1) /\ NumReaders \in Nat
    BY LenProperties DEF TypeOK
  <2> QED
    BY <2>1 DEF Left, LeftInv
<1>4. TypeOK /\ LeftInv /\ [Next]_vars => [pc # "idle" => MovesOn]_vars
  BY MovesOnStep, Zenon
<1> QED
  BY <1>1, <1>2, <1>3, <1>4, TypeCorrect, PTL DEF Spec

-----------------------------------------------------------------------------
(* The driver below.                                                       *)

\* TagScan is used for its lists only, which depend on no variable.
Scan == INSTANCE TagScan
            WITH Failed <- NULL, field <- {}, seen <- {}, busy <- FALSE,
                 result <- <<>>

\* What the poll takes a driver to report, besides failing, is what TagScan
\* lets a call return: the driver that implements TagScan (AcrDriver) may take
\* the place of ReadTags and ReadFails here.
THEOREM ReportsAreScans == Reports = Scan!Lists(Tags)
<1>1. \A n \in 0..MaxTags : \A s \in [1..n -> Tags] :
         Scan!IsInjective(s) <=> \A i, j \in 1..n : s[i] = s[j] => i = j
  BY DEF Scan!IsInjective
<1>2. ASSUME NEW s \in Reports PROVE s \in Scan!Lists(Tags)
  <2>1. PICK n \in 0..MaxTags :
           /\ s \in [1..n -> Tags]
           /\ \A i, j \in 1..n : s[i] = s[j] => i = j
    BY Zenon DEF Reports
  <2>2. s \in {r \in [1..n -> Tags] : Scan!IsInjective(r)}
    BY <1>1, <2>1, Zenon
  <2> QED
    BY <2>2, Zenon DEF Scan!Lists
<1>3. ASSUME NEW s \in Scan!Lists(Tags) PROVE s \in Reports
  <2>1. PICK n \in 0..MaxTags : s \in [1..n -> Tags] /\ Scan!IsInjective(s)
    BY Zenon DEF Scan!Lists
  <2>2. s \in {r \in [1..n -> Tags] : \A i, j \in 1..n : r[i] = r[j] => i = j}
    BY <1>1, <2>1, Zenon
  <2> QED
    BY <2>2 DEF Reports
<1> QED
  BY <1>2, <1>3, Zenon
=============================================================================
