------------------------ MODULE SaveSerializerProofs ------------------------
(***************************************************************************)
(* For any number of requests and attempts, in any order of serialisation  *)
(* and whatever the session does: the types; the copy of a failed save is  *)
(* newer than the content on disk, and an idle serializer that keeps one   *)
(* is dirty; what is on disk is never replaced by what was serialised      *)
(* before it; and whoever is told "saved" has this or something later      *)
(* saved.                                                                  *)
(*                                                                         *)
(* What makes it so is the order of the slots (the content on disk, the    *)
(* failed copy, the save under way, the request that waits and the last    *)
(* request were made in this order) and, for the last two, what is known   *)
(* of gen and of those who wait while a save is under way.                 *)
(***************************************************************************)
EXTENDS SaveSerializer, TLAPS

\* The slots hold requests that were made.
SlotsMade ==
    /\ count \in 0..MaxRequests
    /\ disk \in 0..count /\ failed \in 0..count /\ saving \in 0..count /\ waiting \in 0..count

\* In the order of the requests, from the disk to the request that waits.
SlotsInOrder ==
    /\ failed # None => disk < failed
    /\ saving # None => disk < saving /\ failed < saving
    /\ waiting # None => saving # None /\ saving < waiting

\* A failure is kept in sight.
FailureIsDirty == failed # None /\ saving = None => dirty

SlotInv == SlotsMade /\ SlotsInOrder /\ FailureIsDirty

\* Before the first request every slot is empty.
LEMMA SlotInit == Init => SlotInv
BY SaveSerializerAssumption
   DEF Init, SlotInv, SlotsMade, SlotsInOrder, FailureIsDirty, None

\* What the loop does with the slots: it empties them, or the given request is saved next.
LEMMA BeginSlots ==
    ASSUME NEW r, NEW before, Begin(r, before)
    PROVE  /\ waiting' = None
           /\ saving' = r \/ (saving' = None /\ dirty' = (failed' # None))
BY DEF Begin, Finish

\* What is left of the slots after a runOnce: the waiting request is saved next, or the
\* loop is over.
LEMMA ContinueSlots ==
    ASSUME NEW res, Continue(res)
    PROVE  /\ waiting' = None
           /\ \/ waiting # None /\ saving' = waiting
              \/ saving' = None /\ dirty' = (failed' # None)
<1>1. CASE waiting = None
    BY <1>1 DEF Continue, Finish
<1>2. CASE waiting # None
    BY <1>2, BeginSlots DEF Continue
<1> QED
    BY <1>1, <1>2

\* A runOnce that ended, whatever became of it, leaves the slots in order if the failed copy
\* and the disk are still behind what comes next.
LEMMA ContinueKeepsSlots ==
    ASSUME SlotInv, MaxRequests \in Nat, NEW res, Continue(res), count' = count, saving # None,
           disk' \in {disk, saving}, failed' \in {failed, saving, None},
           failed' # None => disk' < failed'
    PROVE  SlotInv'
<1>1. /\ waiting' = None
      /\ \/ waiting # None /\ saving' = waiting
         \/ saving' = None /\ dirty' = (failed' # None)
    BY ContinueSlots
<1>2. CASE waiting # None /\ saving' = waiting
    BY <1>1, <1>2 DEF SlotInv, SlotsMade, SlotsInOrder, FailureIsDirty, None
<1>3. CASE saving' = None /\ dirty' = (failed' # None)
    <2>1. SlotsMade' /\ SlotsInOrder'
        BY <1>1, <1>3 DEF SlotInv, SlotsMade, SlotsInOrder, None
    <2>2. FailureIsDirty'
        BY <1>3 DEF FailureIsDirty
    <2> QED
        BY <2>1, <2>2 DEF SlotInv
<1> QED
    BY <1>1, <1>2, <1>3

\* A request is the newest of all: it waits, or is saved at once, or is skipped.
LEMMA RequestKeepsSlots == ASSUME SlotInv, MaxRequests \in Nat, Request PROVE SlotInv'
<1>1. /\ count < MaxRequests /\ count' = count + 1
      /\ failed' = failed /\ disk' = disk
    BY DEF Request, pastVars
<1>2. CASE Running
    <2>1. waiting' = count' /\ saving' = saving /\ dirty' = TRUE
        BY <1>2 DEF Request
    <2> QED
        BY <1>1, <1>2, <2>1
        DEF SlotInv, SlotsMade, SlotsInOrder, FailureIsDirty, None, Running
<1>3. CASE ~ Running
    <2>1. Begin(count', "saved")
        BY <1>3 DEF Request
    <2>2. waiting' = None /\ (saving' = count' \/ (saving' = None /\ dirty' = (failed' # None)))
        BY <2>1, BeginSlots
    <2>3. SlotsMade' /\ SlotsInOrder'
        BY <1>1, <1>3, <2>2 DEF SlotInv, SlotsMade, SlotsInOrder, None, Running
    <2>4. saving' = count' => FailureIsDirty'
        BY <1>1 DEF SlotInv, SlotsMade, FailureIsDirty, None
    <2>5. dirty' = (failed' # None) => FailureIsDirty'
        BY DEF FailureIsDirty
    <2> QED
        BY <2>2, <2>3, <2>4, <2>5 DEF SlotInv
<1> QED
    BY <1>2, <1>3

\* Every step keeps the slots in order.
LEMMA SlotStep == ASSUME SlotInv, [Next]_vars PROVE SlotInv'
<1> USE SaveSerializerAssumption
<1> DEFINE Rest == UNCHANGED <<count, disk, failed, saving, waiting, dirty>>
<1>1. ASSUME Rest PROVE SlotInv'
    BY <1>1 DEF SlotInv, SlotsMade, SlotsInOrder, FailureIsDirty
<1>2. CASE Request
    BY <1>2, RequestKeepsSlots
<1>3. CASE Dispose
    <2>1. CASE asleep
        <3>1. CASE saving # None
            <4>1. Continue("skipped") /\ count' = count /\ disk' = disk /\ failed' = failed
                BY <1>3, <2>1 DEF Dispose, pastVars
            <4> QED
                BY <3>1, <4>1, ContinueKeepsSlots DEF SlotInv, SlotsInOrder
        <3>2. CASE saving = None
            <4>1. /\ Continue("skipped") /\ count' = count /\ disk' = disk /\ failed' = failed
                  /\ waiting = None
                BY <1>3, <2>1, <3>2 DEF Dispose, pastVars, SlotInv, SlotsInOrder
            <4> QED
                BY <3>2, <4>1, ContinueSlots
                DEF SlotInv, SlotsMade, SlotsInOrder, FailureIsDirty, None
        <3> QED
            BY <3>1, <3>2
    <2>2. CASE ~ asleep
        BY <1>1, <1>3, <2>2 DEF Dispose, loopVars, pastVars
    <2> QED
        BY <2>1, <2>2
<1>4. CASE ClearFailed
    BY <1>4 DEF ClearFailed, loopVars, pastVars, SlotInv, SlotsMade, SlotsInOrder, FailureIsDirty, None
<1>5. CASE SaveOk
    <2>1. Continue("saved") /\ count' = count /\ saving # None /\ disk' = saving /\ failed' = None
        BY <1>5 DEF SaveOk, Busy, Running
    <2> QED
        BY <2>1, ContinueKeepsSlots
<1>6. CASE SaveSkipped
    <2>1. /\ Continue("skipped") /\ count' = count /\ saving # None
          /\ disk' = disk /\ failed' = failed
        BY <1>6 DEF SaveSkipped, Busy, Running, pastVars
    <2> QED
        BY <2>1, ContinueKeepsSlots DEF SlotInv, SlotsInOrder
<1>7. CASE SaveRetries
    BY <1>1, <1>7 DEF SaveRetries, pastVars
<1>8. CASE SaveFails
    <2>1. /\ Continue("failed") /\ count' = count /\ saving # None
          /\ disk' = disk /\ failed' = saving
        BY <1>8 DEF SaveFails, Busy, Running, pastVars
    <2> QED
        BY <2>1, ContinueKeepsSlots DEF SlotInv, SlotsInOrder
<1>9. CASE TimerFires
    <2>1. CASE disposed
        <3>1. Continue("skipped") /\ count' = count /\ disk' = disk /\ failed' = failed
            BY <1>9, <2>1 DEF TimerFires, pastVars
        <3>2. CASE saving # None
            BY <3>1, <3>2, ContinueKeepsSlots DEF SlotInv, SlotsInOrder
        <3>3. CASE saving = None
            BY <3>1, <3>3, ContinueSlots DEF SlotInv, SlotsMade, SlotsInOrder, FailureIsDirty, None
        <3> QED
            BY <3>2, <3>3
    <2>2. CASE ~ disposed
        BY <1>1, <1>9, <2>2 DEF TimerFires, pastVars
    <2> QED
        BY <2>1, <2>2
<1>10. CASE SessionChanges \/ OwnerChanges
    BY <1>1, <1>10 DEF SessionChanges, OwnerChanges, loopVars, pastVars
<1>11. CASE UNCHANGED vars
    BY <1>1, <1>11 DEF vars, loopVars, pastVars
<1> QED
    BY <1>2, <1>3, <1>4, <1>5, <1>6, <1>7, <1>8, <1>9, <1>10, <1>11 DEF Next, SaveStep

\* For any number of requests: the copy that saveSerializer.ts keeps in failedBytes is newer
\* than what was saved last, and an idle serializer that keeps one is dirty.
THEOREM FailedCopyAlwaysNewer == Spec => []FailedCopyIsNewer
<1>1. SlotInv => FailedCopyIsNewer
    BY DEF SlotInv, SlotsMade, SlotsInOrder, FailureIsDirty, FailedCopyIsNewer, Running
<1> QED
    BY SlotInit, SlotStep, <1>1, PTL DEF Spec
-----------------------------------------------------------------------------
(* Types, the order of serialisation, and the answers *)

\* What a loop that is over leaves.
FinishedWith(res) ==
    /\ saving' = None /\ waiting' = None /\ result' = "saved" /\ attempt' = 0 /\ asleep' = FALSE
    /\ answer' = [r \in Requests |->
                    IF answer[r] = "pending" \/ (r = count' /\ count' # count) THEN res
                    ELSE answer[r]]
    /\ dirty' = (failed' # None)

\* The save of r has begun.
BegunWith(r, before) ==
    /\ saving' = r /\ waiting' = None /\ attempt' = 1 /\ asleep' = FALSE /\ result' = before
    /\ r \in Numbered => gen[r] >= lastGen'

\* runOnce begins with the save of the request, or the loop is over and tells "skipped" or "failed".
LEMMA BeginEffect ==
    ASSUME NEW r, NEW before, before \in Results, Begin(r, before)
    PROVE  \/ Admitted(r) /\ BegunWith(r, before)
           \/ ~ Admitted(r) /\ \E res \in {"skipped", "failed"} : FinishedWith(res)
<1>1. Worse(before, "skipped") \in {"skipped", "failed"}
    BY DEF Worse, Results
<1>2. CASE Admitted(r)
    BY <1>2 DEF Begin, BegunWith, Admitted
<1>3. CASE ~ Admitted(r)
    <2>1. FinishedWith(Worse(before, "skipped"))
        BY <1>3 DEF Begin, Finish, FinishedWith
    <2> QED
        BY <1>1, <1>3, <2>1
<1> QED
    BY <1>2, <1>3

\* After a runOnce: the waiting request is saved, or the loop is over, and "saved" is told only if no
\* request waited and the last save succeeded.
LEMMA ContinueEffect ==
    ASSUME NEW res \in Results, result \in Results, Continue(res)
    PROVE  \/ /\ waiting # None /\ dirty' = dirty /\ answer' = answer
              /\ \E before \in Results : BegunWith(waiting, before)
           \/ \E told \in Results : /\ FinishedWith(told)
                                    /\ told = "saved" => waiting = None /\ res = "saved"
<1>1. Worse(result, res) \in Results
    BY DEF Worse, Results
<1>2. CASE waiting = None
    <2>1. FinishedWith(Worse(result, res))
        BY <1>2 DEF Continue, Finish, FinishedWith
    <2>2. Worse(result, res) = "saved" => res = "saved"
        BY DEF Worse, Results
    <2> QED
        BY <1>1, <1>2, <2>1, <2>2
<1>3. CASE waiting # None
    <2> DEFINE before == Worse(result, res)
    <2>0. before \in Results
        BY <1>1
    <2>1. Begin(waiting, before) /\ (Admitted(waiting) => dirty' = dirty /\ answer' = answer)
        BY <1>3 DEF Continue
    <2> HIDE DEF before
    <2>2. CASE Admitted(waiting) /\ BegunWith(waiting, before)
        BY <1>3, <2>0, <2>1, <2>2
    <2>3. CASE ~ Admitted(waiting) /\ \E told \in {"skipped", "failed"} : FinishedWith(told)
        BY <2>3 DEF Results
    <2> QED
        BY <2>0, <2>1, <2>2, <2>3, BeginEffect
<1> QED
    BY <1>2, <1>3

\* A save that waits for its timer has attempts left.
SleepersHaveAttempts == asleep => saving # None /\ attempt < Attempts

\* No save begins with content that is older than what was saved.
SaveIsNewer ==
    /\ \A q \in stored \cap Numbered : lastGen >= gen[q]
    /\ saving \in Numbered => gen[saving] >= lastGen

\* Whoever waits for an answer asked no later than the newest request of the loop.
PendingIsCovered ==
    \A r \in Requests : answer[r] = "pending" =>
        /\ saving # None
        /\ IF waiting # None THEN r <= waiting ELSE r <= saving

\* Whoever was told "saved" asked no later than something that was saved.
SavedIsCovered ==
    \A r \in Requests : answer[r] = "saved" => \E q \in stored : q >= r /\ q <= count

SaveInv ==
    /\ TypeOK /\ SlotInv /\ SleepersHaveAttempts /\ SaveIsNewer /\ PendingIsCovered
    /\ SavedIsCovered

\* The bounds of the constants, without the orders.
LEMMA Bounds == MaxRequests \in Nat /\ MaxRequests >= 1 /\ Attempts \in Nat /\ Attempts >= 1
BY SaveSerializerAssumption

\* Some requests carry numbers.
NumbersOfRequests ==
    /\ Numbered \subseteq Requests
    /\ \A r \in Numbered : gen[r] \in Nat
    /\ None \notin Numbered

LEMMA GenType == ASSUME TypeOK PROVE NumbersOfRequests
<1>1. PICK some \in SUBSET Requests : gen \in [some -> Nat \ {0}]
    BY SaveSerializerAssumption DEF TypeOK
<1>2. Numbered = some
    BY <1>1 DEF Numbered
<1>3. None \notin Requests
    BY DEF None, Requests
<1> QED
    BY <1>1, <1>2, <1>3 DEF NumbersOfRequests

\* Nothing has happened yet.
LEMMA SaveInit == Init => SaveInv
<1> SUFFICES ASSUME Init PROVE SaveInv
    OBVIOUS
<1> USE Bounds
<1>1. TypeOK
    <2>1. session \in Sessions
        BY DEF Init, Sessions
    <2>2. bound \in [Requests -> Sessions] /\ answer \in [Requests -> {"none", "pending"} \cup Results]
        BY <2>1 DEF Init
    <2>3. /\ count \in 0..MaxRequests /\ waiting \in 0..MaxRequests /\ saving \in 0..MaxRequests
          /\ attempt \in 0..Attempts /\ failed \in 0..MaxRequests /\ disk \in 0..MaxRequests
          /\ lastGen \in Nat
        BY DEF Init, None
    <2> QED
        BY <2>1, <2>2, <2>3 DEF Init, TypeOK, Results
<1>2. SleepersHaveAttempts /\ SaveIsNewer /\ PendingIsCovered /\ SavedIsCovered
    <2>1. NumbersOfRequests
        BY <1>1, GenType
    <2>2. saving \notin Numbered /\ stored = {}
        BY <2>1 DEF Init, NumbersOfRequests
    <2> QED
        BY <2>2 DEF Init, SleepersHaveAttempts, SaveIsNewer, PendingIsCovered, SavedIsCovered, None
<1> QED
    BY <1>1, <1>2, SlotInit DEF SaveInv

\* The slots and answers of a loop that goes on or ends keep their types.
LEMMA LoopTypes ==
    ASSUME TypeOK, SlotsMade, NEW told \in Results,
           \/ FinishedWith(told)
           \/ /\ answer' = answer /\ dirty' \in BOOLEAN
              /\ \E r \in 1..MaxRequests, before \in Results : BegunWith(r, before)
    PROVE  /\ waiting' \in 0..MaxRequests /\ saving' \in 0..MaxRequests
           /\ attempt' \in 0..Attempts /\ asleep' \in BOOLEAN /\ result' \in Results
           /\ dirty' \in BOOLEAN
           /\ answer' \in [Requests -> {"none", "pending"} \cup Results]
           /\ asleep' = FALSE
<1> USE Bounds
<1>1. CASE FinishedWith(told)
    <2>1. /\ waiting' \in 0..MaxRequests /\ saving' \in 0..MaxRequests
          /\ attempt' \in 0..Attempts /\ result' \in Results
        BY <1>1 DEF FinishedWith, None, Results
    <2>3. asleep' = FALSE /\ dirty' \in BOOLEAN /\ asleep' \in BOOLEAN
        BY <1>1, Zenon DEF FinishedWith
    <2>2. answer' \in [Requests -> {"none", "pending"} \cup Results]
        BY <1>1 DEF FinishedWith, TypeOK
    <2> QED
        BY <2>1, <2>2, <2>3
<1>2. CASE /\ answer' = answer /\ dirty' \in BOOLEAN
           /\ \E r \in 1..MaxRequests, before \in Results : BegunWith(r, before)
    <2>1. PICK r \in 1..MaxRequests, before \in Results : BegunWith(r, before)
        BY <1>2
    <2>2. /\ waiting' \in 0..MaxRequests /\ saving' \in 0..MaxRequests
          /\ attempt' \in 0..Attempts /\ result' \in Results
        BY <2>1 DEF BegunWith, None
    <2>3. asleep' = FALSE /\ asleep' \in BOOLEAN
        BY <2>1, Zenon DEF BegunWith
    <2>4. answer' \in [Requests -> {"none", "pending"} \cup Results]
        BY <1>2 DEF TypeOK
    <2> QED
        BY <1>2, <2>2, <2>3, <2>4
<1> QED
    BY <1>1, <1>2

\* A runOnce of the running save ended: it saved, or left the disk as it was.
Ended(res) ==
    /\ Continue(res) /\ saving # None
    /\ gen' = gen /\ count' = count /\ disposed' \in BOOLEAN /\ bound' = bound
    /\ session' = session /\ owner' = owner
    /\ \/ /\ res = "saved" /\ failed' = None /\ disk' = saving /\ stored' = stored \cup {saving}
          /\ lastGen' = NewestGen
       \/ /\ res \in {"skipped", "failed"} /\ failed' \in {failed, saving}
          /\ disk' = disk /\ stored' = stored /\ lastGen' = lastGen

\* Whatever comes after the end of a runOnce, the types hold.
LEMMA EndedTypes ==
    ASSUME TypeOK, SlotInv, NEW res \in Results, Ended(res)
    PROVE  TypeOK' /\ asleep' = FALSE
<1> USE Bounds
<1>0. NumbersOfRequests /\ saving \in Requests /\ lastGen \in Nat
    <2>1. saving \in Requests
        BY DEF Ended, TypeOK, None, Requests
    <2> QED
        BY <2>1, GenType DEF TypeOK
<1>1. \E told \in Results :
          \/ FinishedWith(told)
          \/ /\ answer' = answer /\ dirty' \in BOOLEAN
             /\ \E r \in 1..MaxRequests, before \in Results : BegunWith(r, before)
    <2>1. waiting # None => waiting \in 1..MaxRequests
        BY DEF TypeOK, None
    <2>2. dirty' = dirty => dirty' \in BOOLEAN
        BY DEF TypeOK
    <2>3. Continue(res) /\ result \in Results
        BY DEF Ended, TypeOK
    <2>4. CASE /\ waiting # None /\ dirty' = dirty /\ answer' = answer
               /\ \E before \in Results : BegunWith(waiting, before)
        BY <2>1, <2>2, <2>4
    <2>5. CASE \E told \in Results : FinishedWith(told)
        BY <2>5
    <2> QED
        BY <2>3, <2>4, <2>5, ContinueEffect
<1>2. /\ waiting' \in 0..MaxRequests /\ saving' \in 0..MaxRequests
      /\ attempt' \in 0..Attempts /\ asleep' \in BOOLEAN /\ result' \in Results
      /\ dirty' \in BOOLEAN
      /\ answer' \in [Requests -> {"none", "pending"} \cup Results]
      /\ asleep' = FALSE
    BY <1>1, LoopTypes DEF SlotInv
<1>3. failed' \in 0..MaxRequests /\ disk' \in 0..MaxRequests
    BY DEF Ended, TypeOK, None
<1>4. lastGen' \in Nat
    BY <1>0 DEF Ended, NewestGen, NumbersOfRequests
<1>5. stored' \subseteq Requests
    BY <1>0 DEF Ended, TypeOK
<1>6. disposed' \in BOOLEAN /\ owner' \in BOOLEAN /\ gen' \in Orders
    BY Zenon DEF Ended, TypeOK
<1>7. count' \in 0..MaxRequests /\ bound' \in [Requests -> Sessions] /\ session' \in Sessions
    BY DEF Ended, TypeOK
<1> QED
    BY <1>2, <1>3, <1>4, <1>5, <1>6, <1>7 DEF TypeOK

\* What DiskNeverGoesBack says of one step.
DiskForward ==
    disk' # disk =>
        /\ disk' > disk
        /\ disk' \in Numbered => \A q \in stored \cap Numbered : gen[disk'] >= gen[q]

\* A save that ended leaves what it wrote, and what comes next is not older.
LEMMA EndedIsNewer ==
    ASSUME SaveInv, NEW res \in Results, Ended(res)
    PROVE  SaveIsNewer' /\ DiskForward
<1> USE Bounds
<1>0. NumbersOfRequests /\ SaveIsNewer /\ lastGen \in Nat /\ gen' = gen /\ Numbered' = Numbered
    BY GenType DEF SaveInv, TypeOK, Ended, Numbered
<1>1. /\ lastGen' \in Nat /\ lastGen' >= lastGen
      /\ saving \in Numbered /\ res = "saved" => lastGen' >= gen[saving]
    BY <1>0 DEF Ended, NewestGen, NumbersOfRequests
<1>2. \A q \in stored' \cap Numbered : lastGen' >= gen[q]
    <2>1. \A q \in stored \cap Numbered : lastGen' >= gen[q]
        BY <1>0, <1>1 DEF SaveIsNewer, NumbersOfRequests
    <2> QED
        BY <1>1, <2>1 DEF Ended
<1>3. saving' \in Numbered => gen[saving'] >= lastGen'
    <2>1. Continue(res) /\ result \in Results
        BY DEF Ended, SaveInv, TypeOK
    <2>2. CASE \E before \in Results : BegunWith(waiting, before)
        BY <1>0, <2>2 DEF BegunWith
    <2>3. CASE \E told \in Results : FinishedWith(told)
        BY <1>0, <2>3 DEF FinishedWith, NumbersOfRequests
    <2> QED
        BY <2>1, <2>2, <2>3, ContinueEffect
<1>4. SaveIsNewer'
    BY <1>0, <1>2, <1>3 DEF SaveIsNewer
<1>5. DiskForward
    <2>1. disk' # disk => disk' = saving
        BY DEF Ended
    <2>2. disk < saving
        BY DEF Ended, SaveInv, SlotInv, SlotsInOrder
    <2>3. saving \in Numbered => \A q \in stored \cap Numbered : gen[saving] >= gen[q]
        BY <1>0 DEF SaveIsNewer, NumbersOfRequests
    <2>4. saving > disk
        BY <2>2 DEF SaveInv, TypeOK
    <2> QED
        BY <2>1, <2>3, <2>4 DEF DiskForward
<1> QED
    BY <1>4, <1>5

\* A save that ended answers those it covers, or leaves them to the request that waited.
LEMMA EndedCovers ==
    ASSUME SaveInv, NEW res \in Results, Ended(res)
    PROVE  PendingIsCovered' /\ SavedIsCovered'
<1> USE Bounds
<1>0. /\ saving \in Requests /\ saving \in 1..count /\ count \in Nat /\ count' = count
      /\ waiting \in 0..MaxRequests
    BY DEF Ended, SaveInv, SlotInv, SlotsMade, TypeOK, None, Requests
<1>1. stored \subseteq stored' /\ (res = "saved" => saving \in stored')
    BY DEF Ended
<1>2. Continue(res) /\ result \in Results
    BY DEF Ended, SaveInv, TypeOK
<1>3. CASE /\ waiting # None /\ answer' = answer
           /\ \E before \in Results : BegunWith(waiting, before)
    <2>1. saving' = waiting /\ waiting' = None /\ saving' # None
        BY <1>3 DEF BegunWith
    <2>2. PendingIsCovered'
        BY <1>3, <2>1 DEF SaveInv, PendingIsCovered
    <2>3. SavedIsCovered'
        BY <1>0, <1>1, <1>3 DEF SaveInv, SavedIsCovered
    <2> QED
        BY <2>2, <2>3
<1>4. CASE \E told \in Results : /\ FinishedWith(told)
                                 /\ told = "saved" => waiting = None /\ res = "saved"
    <2>1. PICK told \in Results : /\ FinishedWith(told)
                                  /\ told = "saved" => waiting = None /\ res = "saved"
        BY <1>4
    <2>2. answer' = [r \in Requests |-> IF answer[r] = "pending" THEN told ELSE answer[r]]
        BY <1>0, <2>1 DEF FinishedWith
    <2>3. PendingIsCovered'
        BY <2>2 DEF PendingIsCovered, Results
    <2>4. ASSUME NEW r \in Requests, answer'[r] = "saved"
          PROVE  \E q \in stored' : q >= r /\ q <= count'
        <3>1. CASE answer[r] = "pending"
            <4>1. waiting = None /\ res = "saved"
                BY <2>1, <2>2, <2>4, <3>1
            <4>2. r <= saving
                BY <3>1, <4>1 DEF SaveInv, PendingIsCovered
            <4>3. saving >= r /\ saving <= count'
                BY <1>0, <4>2 DEF Requests
            <4> QED
                BY <1>1, <4>1, <4>3
        <3>2. CASE answer[r] # "pending"
            <4>1. answer[r] = "saved"
                BY <2>2, <2>4, <3>2
            <4> QED
                BY <1>0, <1>1, <4>1 DEF SaveInv, SavedIsCovered
        <3> QED
            BY <3>1, <3>2
    <2> QED
        BY <2>3, <2>4 DEF SavedIsCovered
<1> QED
    BY <1>2, <1>3, <1>4, ContinueEffect

\* So the end of a runOnce keeps the invariant.
LEMMA EndedKeeps ==
    ASSUME SaveInv, NEW res \in Results, Ended(res)
    PROVE  SaveInv'
<1>1. TypeOK' /\ asleep' = FALSE
    BY EndedTypes DEF SaveInv
<1>2. SlotInv'
    <2>1. /\ SlotInv /\ Continue(res) /\ count' = count /\ saving # None
          /\ disk' \in {disk, saving} /\ failed' \in {failed, saving, None}
        BY DEF SaveInv, Ended
    <2>2. failed' # None => disk' < failed'
        BY DEF SaveInv, Ended, SlotInv, SlotsInOrder
    <2> QED
        BY <2>1, <2>2, ContinueKeepsSlots, Bounds
<1>3. SleepersHaveAttempts'
    BY <1>1 DEF SleepersHaveAttempts
<1> QED
    BY <1>1, <1>2, <1>3, EndedIsNewer, EndedCovers DEF SaveInv

\* A request waits, or is saved at once, or ends its own loop.
LEMMA RequestKeepsSaves == ASSUME SaveInv, Request PROVE SaveInv'
<1> USE Bounds
<1>0. /\ count \in Nat /\ count < MaxRequests /\ count' = count + 1 /\ count' \in Requests
      /\ gen' = gen /\ failed' = failed /\ lastGen' = lastGen /\ disk' = disk /\ stored' = stored
      /\ Numbered' = Numbered /\ NumbersOfRequests /\ answer \in [Requests -> {"none", "pending"} \cup Results]
    BY GenType DEF Request, SaveInv, TypeOK, pastVars, Requests, Numbered
<1>1. SlotInv'
    BY RequestKeepsSlots DEF SaveInv
<1>2. /\ gen' \in Orders /\ count' \in 0..MaxRequests /\ failed' \in 0..MaxRequests
      /\ lastGen' \in Nat /\ session' \in Sessions /\ disk' \in 0..MaxRequests
      /\ stored' \subseteq Requests
    BY <1>0 DEF Request, SaveInv, TypeOK, envVars
<1>3. bound' \in [Requests -> Sessions]
    BY <1>0 DEF Request, SaveInv, TypeOK
<1>4. disposed' \in BOOLEAN /\ owner' \in BOOLEAN
    BY Zenon DEF Request, SaveInv, TypeOK, envVars
<1>5. CASE Running
    <2>1. /\ waiting' = count' /\ saving' = saving /\ attempt' = attempt /\ result' = result
          /\ answer' = [answer EXCEPT ![count'] = "pending"]
        BY <1>5 DEF Request
    <2>2. asleep' = asleep /\ dirty' \in BOOLEAN /\ asleep' \in BOOLEAN
        BY <1>5, Zenon DEF Request, SaveInv, TypeOK
    <2>3. answer' \in [Requests -> {"none", "pending"} \cup Results]
        BY <1>0, <2>1
    <2>4. TypeOK'
        BY <1>0, <1>2, <1>3, <1>4, <2>1, <2>2, <2>3 DEF SaveInv, TypeOK
    <2>5. SleepersHaveAttempts' /\ SaveIsNewer'
        BY <1>0, <2>1, <2>2 DEF SaveInv, SleepersHaveAttempts, SaveIsNewer
    <2>6. PendingIsCovered'
        <3>1. waiting' # None /\ saving' # None
            BY <1>0, <1>5, <2>1 DEF Running, None
        <3>2. \A r \in Requests : answer[r] = "pending" => r <= count'
            BY <1>0 DEF SaveInv, SlotInv, SlotsMade, PendingIsCovered, Requests
        <3>3. \A r \in Requests : answer'[r] = "pending" => r = count' \/ answer[r] = "pending"
            BY <1>0, <2>1
        <3>4. count' <= count'
            BY <1>0
        <3> QED
            BY <2>1, <3>1, <3>2, <3>3, <3>4 DEF PendingIsCovered
    <2>7. SavedIsCovered'
        <3>1. \A r \in Requests : answer'[r] = "saved" => answer[r] = "saved"
            BY <1>0, <2>1
        <3>2. \A q \in stored : q <= count => q <= count'
            BY <1>0 DEF SaveInv, TypeOK, Requests
        <3> QED
            BY <1>0, <3>1, <3>2 DEF SaveInv, SavedIsCovered
    <2> QED
        BY <1>1, <2>4, <2>5, <2>6, <2>7 DEF SaveInv
<1>6. CASE ~ Running
    <2>0. /\ Begin(count', "saved") /\ "saved" \in Results
          /\ Admitted(count') => dirty' = TRUE /\ answer' = [answer EXCEPT ![count'] = "pending"]
        BY <1>6 DEF Request, Results
    <2>1. \A r \in Requests : answer[r] # "pending"
        BY <1>6 DEF SaveInv, PendingIsCovered, Running
    <2>2. \A q \in stored : q <= count => q <= count'
        BY <1>0 DEF SaveInv, TypeOK, Requests
    <2>3. CASE Admitted(count') /\ BegunWith(count', "saved")
        <3>1. /\ waiting' = None /\ saving' = count' /\ attempt' = 1 /\ result' = "saved"
              /\ answer' = [answer EXCEPT ![count'] = "pending"] /\ (count' \in Numbered => gen[count'] >= lastGen')
            BY <2>0, <2>3 DEF BegunWith
        <3>2. asleep' = FALSE /\ asleep' \in BOOLEAN /\ dirty' \in BOOLEAN
            BY <2>0, <2>3, Zenon DEF BegunWith
        <3>3. answer' \in [Requests -> {"none", "pending"} \cup Results]
            BY <1>0, <3>1
        <3>4. waiting' \in 0..MaxRequests /\ saving' \in 0..MaxRequests /\ attempt' \in 0..Attempts
            BY <1>0, <1>2, <3>1 DEF None
        <3>5. TypeOK'
            BY <1>2, <1>3, <1>4, <3>1, <3>2, <3>3, <3>4 DEF TypeOK, Results
        <3>6. SleepersHaveAttempts' /\ SaveIsNewer'
            BY <1>0, <3>1, <3>2 DEF SaveInv, SleepersHaveAttempts, SaveIsNewer
        <3>7. PendingIsCovered'
            <4>1. \A r \in Requests : answer'[r] = "pending" => r = count'
                BY <1>0, <2>1, <3>1
            <4>2. saving' # None /\ count' <= count'
                BY <1>0, <3>1 DEF None
            <4> QED
                BY <3>1, <4>1, <4>2 DEF PendingIsCovered
        <3>8. \A r \in Requests : answer'[r] = "saved" => answer[r] = "saved"
            BY <1>0, <3>1
        <3>9. SavedIsCovered'
            BY <1>0, <2>2, <3>8 DEF SaveInv, SavedIsCovered
        <3> QED
            BY <1>1, <3>5, <3>6, <3>7, <3>9 DEF SaveInv
    <2>4. CASE \E res \in {"skipped", "failed"} : FinishedWith(res)
        <3>1. PICK res \in {"skipped", "failed"} : FinishedWith(res)
            BY <2>4
        <3>2. /\ waiting' \in 0..MaxRequests /\ saving' \in 0..MaxRequests
              /\ attempt' \in 0..Attempts /\ asleep' \in BOOLEAN /\ result' \in Results
              /\ dirty' \in BOOLEAN
              /\ answer' \in [Requests -> {"none", "pending"} \cup Results]
              /\ asleep' = FALSE
            <4>1. res \in Results
                BY DEF Results
            <4> QED
                BY <3>1, <4>1, LoopTypes DEF SaveInv, SlotInv
        <3>3. TypeOK'
            BY <1>2, <1>3, <1>4, <3>2 DEF TypeOK
        <3>4. /\ saving' = None
              /\ \A r \in Requests : answer'[r] = res \/ answer'[r] = answer[r]
            BY <3>1 DEF FinishedWith
        <3>5. SleepersHaveAttempts' /\ SaveIsNewer'
            BY <1>0, <3>2, <3>4 DEF SaveInv, SleepersHaveAttempts, SaveIsNewer, NumbersOfRequests
        <3>6. PendingIsCovered'
            BY <2>1, <3>4 DEF PendingIsCovered
        <3>7. SavedIsCovered'
            BY <1>0, <2>2, <3>4 DEF SaveInv, SavedIsCovered
        <3> QED
            BY <1>1, <3>3, <3>5, <3>6, <3>7 DEF SaveInv
    <2> QED
        BY <2>0, <2>3, <2>4, BeginEffect
<1> QED
    BY <1>5, <1>6

\* An action after which the request under way is the same, or has ended.
LEMMA SaveSteps ==
    ASSUME SaveInv, SaveStep \/ TimerFires \/ Dispose
    PROVE  \/ \E res \in Results : Ended(res)
           \/ /\ UNCHANGED <<gen, count, waiting, saving, result, failed, lastGen, answer, bound,
                             session, owner, disk, stored>>
              /\ dirty' = dirty /\ disposed' \in BOOLEAN /\ attempt' \in 0..Attempts
              /\ asleep' \in BOOLEAN /\ SleepersHaveAttempts'
<1> USE Bounds
<1>0. /\ attempt \in 0..Attempts /\ asleep \in BOOLEAN /\ disposed \in BOOLEAN
      /\ SleepersHaveAttempts
    BY DEF SaveInv, TypeOK
<1>1. "saved" \in Results /\ "skipped" \in Results /\ "failed" \in Results
    BY DEF Results
<1>2. CASE SaveOk
    <2>1. Ended("saved")
        BY <1>0, <1>2 DEF SaveOk, Ended, Busy, Running, envVars
    <2> QED
        BY <1>1, <2>1
<1>3. CASE SaveSkipped
    <2>1. Ended("skipped")
        BY <1>0, <1>3 DEF SaveSkipped, Ended, Busy, Running, envVars, pastVars
    <2> QED
        BY <1>1, <2>1
<1>4. CASE SaveFails
    <2>1. Ended("failed")
        BY <1>0, <1>4 DEF SaveFails, Ended, Busy, Running, envVars, pastVars
    <2> QED
        BY <1>1, <2>1
<1>5. CASE SaveRetries
    <2>1. /\ UNCHANGED <<gen, count, waiting, saving, result, failed, lastGen, answer, bound,
                         session, owner, disk, stored, attempt>>
          /\ dirty' = dirty
        BY <1>5 DEF SaveRetries, envVars, pastVars
    <2>2. disposed' \in BOOLEAN /\ asleep' \in BOOLEAN
        BY <1>0, <1>5, Zenon DEF SaveRetries
    <2>3. saving # None /\ attempt < Attempts
        BY <1>5 DEF SaveRetries, Busy, Running
    <2>4. SleepersHaveAttempts'
        BY <2>1, <2>3 DEF SleepersHaveAttempts
    <2> QED
        BY <1>0, <2>1, <2>2, <2>4
<1>6. CASE TimerFires
    <2>0. saving # None /\ attempt < Attempts
        BY <1>0, <1>6 DEF TimerFires, SleepersHaveAttempts
    <2>1. CASE disposed
        <3>1. Ended("skipped")
            BY <1>0, <1>6, <2>0, <2>1 DEF TimerFires, Ended, envVars, pastVars
        <3> QED
            BY <1>1, <3>1
    <2>2. CASE ~ disposed
        <3>1. /\ UNCHANGED <<gen, count, waiting, saving, result, failed, lastGen, answer, bound,
                             session, owner, disk, stored>>
              /\ dirty' = dirty /\ attempt' = attempt + 1
            BY <1>6, <2>2 DEF TimerFires, envVars, pastVars
        <3>2. disposed' \in BOOLEAN /\ asleep' = FALSE /\ asleep' \in BOOLEAN
            BY <1>0, <1>6, <2>2, Zenon DEF TimerFires
        <3>3. attempt' \in 0..Attempts
            BY <1>0, <2>0, <3>1
        <3>4. SleepersHaveAttempts'
            BY <3>2 DEF SleepersHaveAttempts
        <3> QED
            BY <3>1, <3>2, <3>3, <3>4
    <2> QED
        BY <2>1, <2>2
<1>7. CASE Dispose
    <2>0. disposed' \in BOOLEAN
        BY <1>7, Zenon DEF Dispose
    <2>1. CASE asleep
        <3>1. Ended("skipped")
            BY <1>0, <1>7, <2>0, <2>1 DEF Dispose, Ended, envVars, pastVars, SleepersHaveAttempts
        <3> QED
            BY <1>1, <3>1
    <2>2. CASE ~ asleep
        <3>1. /\ UNCHANGED <<gen, count, waiting, saving, result, failed, lastGen, answer, bound,
                             session, owner, disk, stored, attempt>>
              /\ dirty' = dirty
            BY <1>7, <2>2 DEF Dispose, envVars, pastVars, loopVars
        <3>2. asleep' = asleep
            BY <1>7, <2>2 DEF Dispose, loopVars
        <3> QED
            BY <1>0, <2>0, <3>1, <3>2 DEF SleepersHaveAttempts
    <2> QED
        BY <2>1, <2>2
<1> QED
    BY <1>2, <1>3, <1>4, <1>5, <1>6, <1>7 DEF SaveStep

\* Every step keeps the invariant.
LEMMA SaveInvStep == ASSUME SaveInv, [Next]_vars PROVE SaveInv'
<1> USE Bounds
<1>0. SlotInv'
    BY SlotStep DEF SaveInv
<1>1. ASSUME UNCHANGED <<gen, count, waiting, saving, lastGen, answer, bound, disk, stored>>
      PROVE  SaveIsNewer' /\ PendingIsCovered' /\ SavedIsCovered'
    BY <1>1 DEF SaveInv, SaveIsNewer, PendingIsCovered, SavedIsCovered, Numbered
<1>2. CASE Request
    BY <1>2, RequestKeepsSaves
<1>3. CASE SaveStep \/ TimerFires \/ Dispose
    <2>1. CASE \E res \in Results : Ended(res)
        BY <2>1, EndedKeeps
    <2>2. CASE /\ UNCHANGED <<gen, count, waiting, saving, result, failed, lastGen, answer, bound,
                              session, owner, disk, stored>>
               /\ dirty' = dirty /\ disposed' \in BOOLEAN /\ attempt' \in 0..Attempts
               /\ asleep' \in BOOLEAN /\ SleepersHaveAttempts'
        <3>1. TypeOK'
            BY <2>2 DEF SaveInv, TypeOK
        <3> QED
            BY <1>0, <1>1, <2>2, <3>1 DEF SaveInv
    <2> QED
        BY <1>3, <2>1, <2>2, SaveSteps
<1>4. CASE ClearFailed
    <2>1. /\ UNCHANGED <<gen, count, waiting, saving, attempt, asleep, result, lastGen, disposed,
                         answer, bound, session, owner, disk, stored>>
          /\ failed' = None
        BY <1>4 DEF ClearFailed, loopVars, envVars, pastVars
    <2>2. dirty' \in BOOLEAN
        BY <1>4, Zenon DEF ClearFailed
    <2>3. TypeOK'
        BY <2>1, <2>2 DEF SaveInv, TypeOK, None
    <2>4. SleepersHaveAttempts'
        BY <2>1 DEF SaveInv, SleepersHaveAttempts
    <2> QED
        BY <1>0, <1>1, <2>1, <2>3, <2>4 DEF SaveInv
<1>5. CASE SessionChanges \/ OwnerChanges
    <2>1. /\ UNCHANGED <<gen, count, waiting, saving, attempt, asleep, result, failed, dirty,
                         lastGen, disposed, answer, bound, disk, stored>>
          /\ session' \in Sessions
        BY <1>5 DEF SessionChanges, OwnerChanges, loopVars, pastVars, SaveInv, TypeOK
    <2>2. owner' \in BOOLEAN
        BY <1>5, Zenon DEF SessionChanges, OwnerChanges, SaveInv, TypeOK
    <2>3. TypeOK'
        BY <2>1, <2>2 DEF SaveInv, TypeOK
    <2>4. SleepersHaveAttempts'
        BY <2>1 DEF SaveInv, SleepersHaveAttempts
    <2> QED
        BY <1>0, <1>1, <2>1, <2>3, <2>4 DEF SaveInv
<1>6. CASE UNCHANGED vars
    <2>1. UNCHANGED <<gen, count, waiting, saving, attempt, asleep, result, failed, dirty,
                      lastGen, disposed, answer, bound, session, owner, disk, stored>>
        BY <1>6 DEF vars, loopVars, envVars, pastVars
    <2>2. TypeOK' /\ SleepersHaveAttempts'
        BY <2>1 DEF SaveInv, TypeOK, SleepersHaveAttempts
    <2> QED
        BY <1>0, <1>1, <2>1, <2>2 DEF SaveInv
<1> QED
    BY <1>2, <1>3, <1>4, <1>5, <1>6 DEF Next

\* A step that saves puts nothing older on disk.
LEMMA DiskStep == ASSUME SaveInv, [Next]_vars PROVE DiskForward
<1>1. CASE SaveStep \/ TimerFires \/ Dispose
    <2>1. CASE \E res \in Results : Ended(res)
        BY <2>1, EndedIsNewer
    <2>2. CASE disk' = disk
        BY <2>2 DEF DiskForward
    <2> QED
        BY <1>1, <2>1, <2>2, SaveSteps
<1>2. CASE Request \/ ClearFailed \/ SessionChanges \/ OwnerChanges \/ UNCHANGED vars
    BY <1>2 DEF Request, ClearFailed, SessionChanges, OwnerChanges, vars, pastVars, DiskForward
<1> QED
    BY <1>1, <1>2 DEF Next

\* The types of saveSerializer.ts, for any number of requests, attempts, decks and epochs.
THEOREM SaveTypeCorrect == Spec => []TypeOK
<1>1. SaveInv => TypeOK
    BY DEF SaveInv
<1> QED
    BY SaveInit, SaveInvStep, <1>1, PTL DEF Spec

\* For any number of requests, any of them numbered in any order: what is saved was requested
\* after what is on disk, and nothing numbered is replaced by what was numbered before it,
\* whatever fails, is retried, replaced or skipped in between (runOnce and loop).
THEOREM DiskNeverGoesBackAlways == Spec => DiskNeverGoesBack
<1>1. SaveInv /\ [Next]_vars => [DiskForward]_vars
    BY DiskStep
<1> QED
    BY SaveInit, SaveInvStep, <1>1, PTL DEF Spec, DiskNeverGoesBack, DiskForward

\* A caller that is told "saved" has its bytes or those of a later request on disk, for the same
\* deck if nothing was asked for another one since.
SavedUnlessDeckLeft ==
    \A r \in Requests :
        /\ answer[r] = "saved"
        /\ \A q \in r..count : bound[q].deck = bound[r].deck
        => \E q \in stored : q >= r /\ bound[q].deck = bound[r].deck

\* What loop() tells all who wait is true of them, however many decks the editor goes through: what
\* replaced their request in pendingBytes was saved.
THEOREM SavedAlwaysLasts == Spec => []SavedUnlessDeckLeft
<1>1. ASSUME SaveInv PROVE SavedUnlessDeckLeft
    <2>1. SUFFICES ASSUME NEW r \in Requests, answer[r] = "saved",
                          \A q \in r..count : bound[q].deck = bound[r].deck
                   PROVE  \E q \in stored : q >= r /\ bound[q].deck = bound[r].deck
        BY DEF SavedUnlessDeckLeft
    <2>2. PICK q \in stored : q >= r /\ q <= count
        BY <1>1, <2>1 DEF SaveInv, SavedIsCovered
    <2>3. q \in r..count
        BY <1>1, <2>2, Bounds DEF SaveInv, TypeOK, Requests
    <2> QED
        BY <2>1, <2>2, <2>3
<1> QED
    BY SaveInit, SaveInvStep, <1>1, PTL DEF Spec

\* In an editor that stays with its deck, as in the run, this is the property itself.
THEOREM SavedAlwaysStored ==
    ASSUME \A a, b \in Decks : a = b
    PROVE  Spec => []SavedIsStored
<1>1. ASSUME SaveInv PROVE SavedIsStored
    <2>1. \A q \in Requests : bound[q].deck \in Decks
        BY <1>1 DEF SaveInv, TypeOK, Sessions
    <2>2. stored \subseteq Requests
        BY <1>1 DEF SaveInv, TypeOK
    <2>3. SavedIsCovered
        BY <1>1 DEF SaveInv
    <2> QED
        BY <2>1, <2>2, <2>3 DEF SavedIsStored, SavedIsCovered
<1> QED
    BY SaveInit, SaveInvStep, <1>1, PTL DEF Spec
=============================================================================
