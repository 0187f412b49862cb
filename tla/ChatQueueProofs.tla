-------------------------- MODULE ChatQueueProofs --------------------------
(***************************************************************************)
(* Theorems about ChatQueue, for every set of items, checks and operations: *)
(* one dispatch at a time, the types, the queue against the statuses, the  *)
(* requests against the stop button, and what a result finds.              *)
(***************************************************************************)
EXTENDS ChatQueue, FiniteSetTheorems, SequenceTheorems, TLAPS


(* abortInFlight never changes how many requests are outstanding. *)
LEMMA AbortKeepsCount ==
    ASSUME SingleDispatch, AbortInFlight, inFlight' = inFlight
    PROVE  SingleDispatch'
<1>1. CASE ctrl
  BY <1>1 DEF AbortInFlight, SingleDispatch
<1>2. CASE ~ ctrl
  BY <1>2 DEF AbortInFlight, SingleDispatch
<1>. QED BY <1>1, <1>2

(* The settling of the only request empties the slot. *)
LEMMA SettledEmpties ==
    ASSUME SingleDispatch, NEW f \in flight, Settled(f)
    PROVE  SingleDispatch'
BY DEF SingleDispatch, Settled

(* No user operation opens a second dispatch. *)
LEMMA UserKeepsSingle ==
    ASSUME SingleDispatch, UserStep
    PROVE  SingleDispatch'
<1>1. ASSUME NEW id \in Ids, NEW toTop \in BOOLEAN, Enqueue(id, toTop) PROVE SingleDispatch'
  BY <1>1 DEF Enqueue, SingleDispatch, sendVars
<1>2. ASSUME NEW op \in Ids, NEW chat \in Ids, EnqueueResend(op, chat) PROVE SingleDispatch'
  BY <1>2 DEF EnqueueResend, SingleDispatch, sendVars
<1>3. ASSUME NEW k \in 1..Len(queue), RemoveQueued(k) PROVE SingleDispatch'
  <2>1. CASE status[queue[k]] = "sending"
    BY <1>3, <2>1, AbortKeepsCount DEF RemoveQueued
  <2>2. CASE status[queue[k]] # "sending"
    BY <1>3, <2>2 DEF RemoveQueued, SingleDispatch
  <2>. QED BY <2>1, <2>2
<1>4. ASSUME NEW k \in 1..Len(queue), Retry(k) PROVE SingleDispatch'
  <2>1. CASE status[queue[k]] = "sending"
    BY <1>4, <2>1, AbortKeepsCount DEF Retry
  <2>2. CASE status[queue[k]] # "sending"
    BY <1>4, <2>2 DEF Retry, SingleDispatch
  <2>. QED BY <2>1, <2>2
<1>5. ASSUME NEW k \in 1..Len(queue), NEW toTop \in BOOLEAN, Move(k, toTop) PROVE SingleDispatch'
  BY <1>5 DEF Move, SingleDispatch, sendVars
<1>6. CASE UpdateModel
  BY <1>6 DEF UpdateModel, SingleDispatch, sendVars
<1>7. CASE Clear
  BY <1>7, AbortKeepsCount DEF Clear
<1>8. CASE ClearSendingOnAbort
  BY <1>8, AbortKeepsCount DEF ClearSendingOnAbort
<1>9. CASE SetPaused \/ SetQuickMode
  BY <1>9 DEF SetPaused, SetQuickMode, SingleDispatch, sendVars
<1>10. ASSUME NEW id \in Ids, DirectSendDelivered(TextOf[id]) PROVE SingleDispatch'
  BY <1>10 DEF DirectSendDelivered, SingleDispatch, sendVars
<1>. QED BY <1>1, <1>2, <1>3, <1>4, <1>5, <1>6, <1>7, <1>8, <1>9, <1>10 DEF UserStep

(* A dispatch starts only in an empty slot; a release only cuts. *)
LEMMA ResumeKeepsSingle ==
    ASSUME SingleDispatch, NEW p \in Probers, ResumeProbe(p)
    PROVE  SingleDispatch'
<1>1. CASE ResumeBusy(p) \/ ResumeConfirm(p) \/ ResumeGiveUp(p)
  BY <1>1 DEF ResumeBusy, ResumeConfirm, ResumeGiveUp, SingleDispatch, sendVars
<1>2. CASE ResumeRelease(p)
  <2>1. CASE ctrl /\ (busySeen \/ probe[p].id \notin since)
    BY <1>2, <2>1, ZenonT(40) DEF ResumeRelease, SingleDispatch
  <2>2. CASE ~ (ctrl /\ (busySeen \/ probe[p].id \notin since))
    BY <1>2, <2>2 DEF ResumeRelease, SingleDispatch
  <2>. QED BY <2>1, <2>2
<1>3. CASE ResumeDispatch(p)
  BY <1>3 DEF ResumeDispatch, MaySend, SingleDispatch
<1>. QED BY <1>1, <1>2, <1>3 DEF ResumeProbe

(* Requests, timers and the poller keep one dispatch at most. *)
LEMMA BackendKeepsSingle ==
    ASSUME SingleDispatch, BackendStep
    PROVE  SingleDispatch'
<1>1. CASE DelayedFlush
  BY <1>1 DEF DelayedFlush, SingleDispatch, sendVars
<1>2. CASE SweepAbort
  BY <1>2, AbortKeepsCount DEF SweepAbort
<1>3. CASE AbortExpire \/ BackoffExpire \/ GraceExpire \/ PollSample \/ PollApply
  BY <1>3 DEF AbortExpire, BackoffExpire, GraceExpire, PollSample, PollApply, SingleDispatch, sendVars
<1>4. ASSUME NEW p \in Probers, ProbeAnswer(p) PROVE SingleDispatch'
  BY <1>4 DEF ProbeAnswer, SingleDispatch, sendVars
<1>5. ASSUME NEW p \in Probers, ResumeProbe(p) PROVE SingleDispatch'
  BY <1>5, ResumeKeepsSingle
<1>6. ASSUME NEW f \in flight, Post(f) PROVE SingleDispatch'
  BY <1>6 DEF Post, SingleDispatch
<1>7. ASSUME NEW f \in flight, Settle(f) PROVE SingleDispatch'
  <2>1. Settled(f)
    BY <1>7 DEF Settle, SettleDiscarded, SettleSent, SettleRejected, SettleTransient, SettleHang, SettleCut
  <2>. QED BY <2>1, SettledEmpties
<1>. QED BY <1>1, <1>2, <1>3, <1>4, <1>5, <1>6, <1>7 DEF BackendStep

(* opencode's turns only move a request to its last stage. *)
LEMMA OpencodeKeepsSingle ==
    ASSUME SingleDispatch, OpencodeStep
    PROVE  SingleDispatch'
<1>1. CASE ExternalTurn \/ TurnShows
  BY <1>1 DEF ExternalTurn, TurnShows, SingleDispatch, sendVars
<1>2. CASE TurnEnds
  BY <1>2 DEF TurnEnds, SingleDispatch
<1>. QED BY <1>1, <1>2 DEF OpencodeStep

(* One message per session at a time: whatever overlaps, dispatchHead's check of inFlight *)
(* after its await keeps a second dispatch from starting.                                 *)
THEOREM SingleDispatchAlways == Spec => []SingleDispatch
<1>1. Init => SingleDispatch
  BY DEF Init, SingleDispatch
<1>2. SingleDispatch /\ [Next]_vars => SingleDispatch'
  <2>1. ASSUME SingleDispatch, UNCHANGED vars PROVE SingleDispatch'
    BY <2>1 DEF SingleDispatch, vars, sendVars
  <2>2. ASSUME SingleDispatch, Next PROVE SingleDispatch'
    BY <2>2, UserKeepsSingle, BackendKeepsSingle, OpencodeKeepsSingle, ResumeKeepsSingle DEF Next
  <2>. QED BY <2>1, <2>2
<1>. QED BY <1>1, <1>2, PTL DEF Spec
-----------------------------------------------------------------------------
(* Types.  The operators on the queue first. *)

LEMMA InsertAtType ==
    ASSUME NEW S, NEW q \in Seq(S), NEW i \in 1..(Len(q) + 1), NEW e \in S
    PROVE  InsertAt(q, i, e) \in Seq(S)
BY DEF InsertAt

LEMMA RemoveAtType ==
    ASSUME NEW S, NEW q \in Seq(S), NEW i \in 1..Len(q)
    PROVE  RemoveAt(q, i) \in Seq(S)
BY DEF RemoveAt

LEMMA KeepType ==
    ASSUME NEW q \in Seq(Ids)
    PROVE  KeepNewest(q) \in Seq(Ids) /\ KeepOldest(q) \in Seq(Ids)
BY ConstantsAssumption DEF KeepNewest, KeepOldest

Status == {"new", "queued", "sending", "failed", "gone"}

LEMMA RetireType ==
    ASSUME NEW st \in [Ids -> Status], NEW q
    PROVE  Retire(st, q) \in [Ids -> Status]
BY DEF Retire, Status

LEMMA DropDuplicatesType ==
    ASSUME NEW q \in Seq(Ids), NEW st \in [Ids -> Status], NEW text, DropDuplicates(q, st, text)
    PROVE  queue' \in Seq(Ids) /\ status' \in [Ids -> Status]
<1>1. PICK keep \in Embeddings(Survivors(st, q, text)) :
        /\ queue' = [j \in DOMAIN keep |-> q[keep[j]]]
        /\ status' = Retire(st, queue')
  BY DEF DropDuplicates
<1>. DEFINE n == Cardinality(Survivors(st, q, text))
<1>2. keep \in [1..n -> Survivors(st, q, text)]
  BY <1>1 DEF Embeddings
<1>3. \A j \in 1..n : q[keep[j]] \in Ids
  BY <1>2 DEF Survivors
<1>4. n \in Nat
  <2>1. IsFiniteSet(1..Len(q))
    BY FS_Interval
  <2>2. Survivors(st, q, text) \subseteq 1..Len(q)
    BY DEF Survivors
  <2>. QED BY <2>1, <2>2, FS_Subset, FS_CardinalityType
<1>. QED BY <1>1, <1>2, <1>3, <1>4, RetireType

LEMMA AbortInFlightType ==
    ASSUME FlightTypeOK, AbortInFlight
    PROVE  FlightTypeOK' /\ ctrl' \in BOOLEAN
<1>1. CASE ctrl
  BY <1>1 DEF AbortInFlight, FlightTypeOK, Flight
<1>2. CASE ~ ctrl
  BY <1>2 DEF AbortInFlight, FlightTypeOK
<1>. QED BY <1>1, <1>2

LEMMA SlotType ==
    ASSUME MapTypeOK
    PROVE  Slot \in 1..(Len(queue) + 1)
BY DEF MapTypeOK, Slot, HeadLocked, HasHead

LEMMA KeepOrCreateType ==
    ASSUME MapTypeOK, KeepOrCreateArray
    PROVE  gen' \in Gens /\ left' \in [Gens -> Nat]
<1>1. CASE HasHead
  BY <1>1 DEF MapTypeOK, KeepOrCreateArray
<1>2. CASE ~ HasHead
  BY <1>2 DEF MapTypeOK, KeepOrCreateArray, FreeGens
<1>. QED BY <1>1, <1>2

LEMMA StartProbeType ==
    ASSUME ProbeTypeOK, MapTypeOK', StartProbe
    PROVE  ProbeTypeOK'
<1>1. CASE UNCHANGED probe
  BY <1>1 DEF ProbeTypeOK
<1>2. CASE probe' # probe
  <2>1. queue' # <<>> /\ status'[queue'[1]] \in {"queued", "sending"}
    BY <1>2 DEF StartProbe
  <2>2. queue'[1] \in Ids
    BY <2>1 DEF MapTypeOK
  <2>3. PICK p \in Probers : probe' = [probe EXCEPT ![p] =
              [gen |-> gen', id |-> queue'[1], was |-> status'[queue'[1]],
               answer |-> IF quick' \/ aborted' THEN "skip" ELSE "wait"]]
    BY <1>2 DEF StartProbe
  <2>4. [gen |-> gen', id |-> queue'[1], was |-> status'[queue'[1]],
         answer |-> IF quick' \/ aborted' THEN "skip" ELSE "wait"] \in Probe
    BY <2>1, <2>2 DEF Probe, MapTypeOK
  <2>. QED BY <2>3, <2>4 DEF ProbeTypeOK
<1>. QED BY <1>1, <1>2

LEMMA FlushQueueType ==
    ASSUME ProbeTypeOK, MapTypeOK', FlushQueue
    PROVE  ProbeTypeOK'
<1>1. CASE UNCHANGED probe
  BY <1>1 DEF ProbeTypeOK
<1>2. CASE StartProbe
  BY <1>2, StartProbeType
<1>. QED BY <1>1, <1>2 DEF FlushQueue


(* The handlers of the queue routes keep the types. *)

LEMMA EnqueueTyped ==
    ASSUME TypeOK, NEW id \in Ids, NEW toTop \in BOOLEAN, Enqueue(id, toTop)
    PROVE  TypeOK'
<1>1. queue' \in Seq(Ids)
  <2>1. CASE toTop
    BY <2>1, SlotType, InsertAtType, KeepType DEF TypeOK, MapTypeOK, Enqueue
  <2>2. CASE ~ toTop
    <3>1. Append(queue, id) \in Seq(Ids)
      BY DEF TypeOK, MapTypeOK
    <3>. QED BY <2>2, <3>1, KeepType DEF Enqueue
  <2>. QED BY <2>1, <2>2
<1>2. status' \in [Ids -> Status]
  <2>1. [status EXCEPT ![id] = "queued"] \in [Ids -> Status]
    BY DEF TypeOK, MapTypeOK, Status
  <2>. QED BY <2>1, RetireType DEF Enqueue
<1>3. MapTypeOK'
  BY <1>1, <1>2, KeepOrCreateType DEF TypeOK, MapTypeOK, Enqueue, Status
<1>4. FlagTypeOK' /\ FlightTypeOK'
  BY DEF TypeOK, FlagTypeOK, FlightTypeOK, Enqueue, userVars, timerVars, sendVars
<1>5. ProbeTypeOK'
  BY <1>3, FlushQueueType DEF TypeOK, Enqueue
<1>. QED BY <1>3, <1>4, <1>5 DEF TypeOK

LEMMA EnqueueResendTyped ==
    ASSUME TypeOK, NEW op \in Ids, NEW chat \in Ids, EnqueueResend(op, chat)
    PROVE  TypeOK'
<1>1. queue' \in Seq(Ids)
  <2>1. InsertAt(queue, Slot, chat) \in Seq(Ids)
    BY SlotType, InsertAtType DEF TypeOK, MapTypeOK
  <2>2. Slot \in 1..(Len(InsertAt(queue, Slot, chat)) + 1)
    BY SlotType DEF InsertAt, TypeOK, MapTypeOK
  <2>3. InsertAt(InsertAt(queue, Slot, chat), Slot, op) \in Seq(Ids)
    BY <2>1, <2>2, InsertAtType
  <2>. QED BY <2>3, KeepType DEF EnqueueResend
<1>2. status' \in [Ids -> Status]
  <2>1. [status EXCEPT ![op] = "queued", ![chat] = "queued"] \in [Ids -> Status]
    BY DEF TypeOK, MapTypeOK, Status
  <2>. QED BY <2>1, RetireType DEF EnqueueResend
<1>3. MapTypeOK'
  BY <1>1, <1>2, KeepOrCreateType DEF TypeOK, MapTypeOK, EnqueueResend, Status
<1>4. FlagTypeOK' /\ FlightTypeOK'
  BY DEF TypeOK, FlagTypeOK, FlightTypeOK, EnqueueResend, userVars, timerVars, sendVars
<1>5. ProbeTypeOK'
  BY <1>3, FlushQueueType DEF TypeOK, EnqueueResend
<1>. QED BY <1>3, <1>4, <1>5 DEF TypeOK

LEMMA RemoveQueuedTyped ==
    ASSUME TypeOK, NEW k \in 1..Len(queue), RemoveQueued(k)
    PROVE  TypeOK'
<1>1. queue' \in Seq(Ids)
  BY RemoveAtType DEF TypeOK, MapTypeOK, RemoveQueued
<1>2. status' \in [Ids -> Status]
  BY RetireType DEF TypeOK, MapTypeOK, RemoveQueued, Status
<1>3. MapTypeOK'
  BY <1>1, <1>2 DEF TypeOK, MapTypeOK, RemoveQueued, Status, ghostVars
<1>4. FlightTypeOK' /\ ctrl' \in BOOLEAN /\ aborted' \in BOOLEAN
  BY AbortInFlightType DEF TypeOK, FlagTypeOK, FlightTypeOK, RemoveQueued
<1>5. FlagTypeOK'
  BY <1>4 DEF TypeOK, FlagTypeOK, RemoveQueued, userVars
<1>6. ProbeTypeOK'
  BY DEF TypeOK, ProbeTypeOK, RemoveQueued
<1>. QED BY <1>3, <1>4, <1>5, <1>6 DEF TypeOK

LEMMA RetryTyped ==
    ASSUME TypeOK, NEW k \in 1..Len(queue), Retry(k)
    PROVE  TypeOK'
<1>1. queue[k] \in Ids
  BY DEF TypeOK, MapTypeOK
<1>2. MapTypeOK'
  BY <1>1 DEF TypeOK, MapTypeOK, Retry
<1>3. FlightTypeOK' /\ ctrl' \in BOOLEAN
  BY AbortInFlightType DEF TypeOK, FlagTypeOK, FlightTypeOK, Retry
<1>4. FlagTypeOK'
  BY <1>3 DEF TypeOK, FlagTypeOK, Retry, userVars
<1>5. ProbeTypeOK'
  <2>1. CASE k = 1
    BY <1>2, <2>1, StartProbeType DEF TypeOK, Retry
  <2>2. CASE k # 1
    BY <2>2 DEF TypeOK, ProbeTypeOK, Retry
  <2>. QED BY <2>1, <2>2
<1>. QED BY <1>2, <1>3, <1>4, <1>5 DEF TypeOK

LEMMA MoveTyped ==
    ASSUME TypeOK, NEW k \in 1..Len(queue), NEW toTop \in BOOLEAN, Move(k, toTop)
    PROVE  TypeOK'
<1>. DEFINE rest == RemoveAt(queue, k)
            place == IF toTop THEN Slot ELSE IF k - 1 > Slot THEN k - 1 ELSE Slot
<1>1. rest \in Seq(Ids) /\ Len(rest) = Len(queue) - 1 /\ queue[k] \in Ids
  <2>1. queue \in Seq(Ids) /\ queue[k] \in Ids
    BY DEF TypeOK, MapTypeOK
  <2>2. Len(SubSeq(queue, 1, k - 1)) = k - 1 /\ Len(SubSeq(queue, k + 1, Len(queue))) = Len(queue) - k
    BY <2>1
  <2>3. SubSeq(queue, 1, k - 1) \in Seq(Ids) /\ SubSeq(queue, k + 1, Len(queue)) \in Seq(Ids)
    BY <2>1
  <2>4. rest = SubSeq(queue, 1, k - 1) \o SubSeq(queue, k + 1, Len(queue))
    BY DEF RemoveAt
  <2>5. Len(rest) = Len(queue) - 1
    <3>1. Len(queue) \in Nat /\ k \in 1..Len(queue)
      BY <2>1
    <3>. HIDE DEF rest
    <3>2. Len(rest) = Len(SubSeq(queue, 1, k - 1)) + Len(SubSeq(queue, k + 1, Len(queue)))
      BY <2>3, <2>4, ConcatProperties
    <3>3. Len(rest) = (k - 1) + (Len(queue) - k)
      BY <2>2, <3>2
    <3>. QED BY <3>1, <3>3
  <2>. QED BY <2>1, <2>5, RemoveAtType
<1>2. Slot \in 1..2 /\ k > 1
  BY DEF Slot, Move
<1>3. place \in 1..(Len(rest) + 1)
  BY <1>1, <1>2
<1>4. queue' = InsertAt(rest, place, queue[k])
  BY DEF Move
<1>5. queue' \in Seq(Ids)
  BY <1>1, <1>3, <1>4, InsertAtType
<1>. QED
  BY <1>5 DEF TypeOK, MapTypeOK, FlagTypeOK, ProbeTypeOK, FlightTypeOK, Move,
              userVars, timerVars, sendVars, ghostVars

LEMMA UpdateModelTyped ==
    ASSUME TypeOK, UpdateModel
    PROVE  TypeOK'
<1>. DEFINE revived == {i \in ToSet(queue) : KindOf[i] = "chat" /\ status[i] = "failed"}
<1>1. revived \subseteq Ids
  BY DEF TypeOK, MapTypeOK, ToSet
<1>2. /\ status' = [i \in Ids |-> IF i \in revived THEN "queued" ELSE status[i]]
      /\ since' = since \ revived /\ licence' = licence \cup revived
  BY DEF UpdateModel
<1>. HIDE DEF revived
<1>3. MapTypeOK'
  BY <1>1, <1>2 DEF TypeOK, MapTypeOK, UpdateModel
<1>4. FlagTypeOK' /\ FlightTypeOK' /\ ProbeTypeOK'
  <2>1. UNCHANGED <<flight, probe>>
    BY DEF UpdateModel, sendVars
  <2>2. FlagTypeOK'
    BY DEF TypeOK, FlagTypeOK, UpdateModel, userVars, sendVars
  <2>. QED BY <2>1, <2>2 DEF TypeOK, ProbeTypeOK, FlightTypeOK
<1>. QED BY <1>3, <1>4 DEF TypeOK

LEMMA ClearTyped ==
    ASSUME TypeOK, Clear
    PROVE  TypeOK'
<1>1. queue' \in Seq(Ids) /\ left' \in [Gens -> Nat]
  <2>1. CASE HasHead
    <3>1. Len(queue) \in Nat
      BY DEF TypeOK, MapTypeOK
    <3>. QED BY <2>1, <3>1 DEF TypeOK, MapTypeOK, Clear, DeleteMapEntry
  <2>2. CASE ~ HasHead
    BY <2>2 DEF TypeOK, MapTypeOK, Clear
  <2>. QED BY <2>1, <2>2
<1>2. status' \in [Ids -> Status]
  BY RetireType DEF TypeOK, MapTypeOK, Clear, Status
<1>3. MapTypeOK'
  BY <1>1, <1>2 DEF TypeOK, MapTypeOK, Clear, Status, ghostVars
<1>4. FlightTypeOK' /\ ctrl' \in BOOLEAN
  BY AbortInFlightType DEF TypeOK, Clear
<1>5. FlagTypeOK' /\ ProbeTypeOK'
  BY <1>4 DEF TypeOK, FlagTypeOK, ProbeTypeOK, Clear, userVars
<1>. QED BY <1>3, <1>4, <1>5 DEF TypeOK

LEMMA ClearSendingTyped ==
    ASSUME TypeOK, ClearSendingOnAbort
    PROVE  TypeOK'
<1>1. queue' \in Seq(Ids)
  BY RemoveAtType DEF TypeOK, MapTypeOK, ClearSendingOnAbort
<1>2. status' \in [Ids -> Status]
  BY RetireType DEF TypeOK, MapTypeOK, ClearSendingOnAbort, Status
<1>3. MapTypeOK'
  BY <1>1, <1>2 DEF TypeOK, MapTypeOK, ClearSendingOnAbort, Status, ghostVars
<1>4. FlightTypeOK' /\ ctrl' \in BOOLEAN
  BY AbortInFlightType DEF TypeOK, ClearSendingOnAbort
<1>5. FlagTypeOK' /\ ProbeTypeOK'
  BY <1>4 DEF TypeOK, FlagTypeOK, ProbeTypeOK, ClearSendingOnAbort, userVars
<1>. QED BY <1>3, <1>4, <1>5 DEF TypeOK

LEMMA SwitchTyped ==
    ASSUME TypeOK, SetPaused \/ SetQuickMode
    PROVE  TypeOK'
<1>1. MapTypeOK'
  BY DEF TypeOK, MapTypeOK, SetPaused, SetQuickMode, mapVars, ghostVars
<1>2. FlagTypeOK' /\ FlightTypeOK'
  <2>1. CASE SetPaused
    BY <2>1 DEF TypeOK, FlagTypeOK, FlightTypeOK, SetPaused, timerVars, sendVars
  <2>2. CASE SetQuickMode
    BY <2>2 DEF TypeOK, FlagTypeOK, FlightTypeOK, SetQuickMode, timerVars, sendVars
  <2>. QED BY <2>1, <2>2
<1>3. ProbeTypeOK'
  <2>1. CASE SetPaused
    BY <1>1, <2>1, FlushQueueType DEF TypeOK, SetPaused
  <2>2. CASE SetQuickMode
    BY <2>2 DEF TypeOK, ProbeTypeOK, SetQuickMode
  <2>. QED BY <2>1, <2>2
<1>. QED BY <1>1, <1>2, <1>3 DEF TypeOK

LEMMA DirectSendTyped ==
    ASSUME TypeOK, NEW text, DirectSendDelivered(text)
    PROVE  TypeOK'
<1>1. queue' \in Seq(Ids) /\ status' \in [Ids -> Status]
  BY DropDuplicatesType DEF TypeOK, MapTypeOK, DirectSendDelivered, Status
<1>. QED
  BY <1>1 DEF TypeOK, MapTypeOK, FlagTypeOK, ProbeTypeOK, FlightTypeOK, DirectSendDelivered,
              Status, userVars, sendVars, ghostVars

LEMMA UserTyped ==
    ASSUME TypeOK, UserStep
    PROVE  TypeOK'
BY EnqueueTyped, EnqueueResendTyped, RemoveQueuedTyped, RetryTyped, MoveTyped, UpdateModelTyped,
   ClearTyped, ClearSendingTyped, SwitchTyped, DirectSendTyped DEF UserStep

(* Timers, the poller and the suspended checks keep the types. *)

LEMMA TimerTyped ==
    ASSUME TypeOK, AbortExpire \/ BackoffExpire \/ GraceExpire \/ SweepAbort
    PROVE  TypeOK'
<1>1. CASE AbortExpire \/ BackoffExpire \/ GraceExpire
  <2>1. MapTypeOK' /\ ProbeTypeOK' /\ FlightTypeOK'
    BY <1>1 DEF TypeOK, MapTypeOK, ProbeTypeOK, FlightTypeOK, AbortExpire, BackoffExpire, GraceExpire,
                mapVars, sendVars, ghostVars
  <2>2. FlagTypeOK'
    <3>1. CASE AbortExpire
      BY <3>1 DEF TypeOK, FlagTypeOK, AbortExpire, userVars, sendVars
    <3>2. CASE BackoffExpire
      BY <3>2 DEF TypeOK, FlagTypeOK, BackoffExpire, userVars, sendVars
    <3>3. CASE GraceExpire
      BY <3>3 DEF TypeOK, FlagTypeOK, GraceExpire, userVars, sendVars
    <3>. QED BY <1>1, <3>1, <3>2, <3>3
  <2>. QED BY <2>1, <2>2 DEF TypeOK
<1>2. CASE SweepAbort
  BY <1>2, AbortInFlightType DEF TypeOK, MapTypeOK, FlagTypeOK, ProbeTypeOK, SweepAbort,
              mapVars, userVars, timerVars, ghostVars
<1>. QED BY <1>1, <1>2

LEMMA PollTyped ==
    ASSUME TypeOK, PollSample \/ PollApply \/ DelayedFlush
    PROVE  TypeOK'
<1>1. MapTypeOK'
  BY DEF TypeOK, MapTypeOK, PollSample, PollApply, DelayedFlush, mapVars, ghostVars
<1>2. FlagTypeOK' /\ FlightTypeOK'
  <2>1. CASE PollSample
    BY <2>1 DEF TypeOK, FlagTypeOK, FlightTypeOK, PollSample, userVars, timerVars, sendVars
  <2>2. CASE PollApply
    BY <2>2 DEF TypeOK, FlagTypeOK, FlightTypeOK, PollApply, userVars, sendVars
  <2>3. CASE DelayedFlush
    BY <2>3 DEF TypeOK, FlagTypeOK, FlightTypeOK, DelayedFlush, userVars, timerVars, sendVars
  <2>. QED BY <2>1, <2>2, <2>3
<1>3. ProbeTypeOK'
  <2>1. CASE UNCHANGED probe
    BY <2>1 DEF TypeOK, ProbeTypeOK
  <2>2. CASE StartProbe \/ FlushQueue
    BY <1>1, <2>2, StartProbeType, FlushQueueType DEF TypeOK
  <2>. QED BY <2>1, <2>2 DEF PollSample, PollApply, DelayedFlush
<1>. QED BY <1>1, <1>2, <1>3 DEF TypeOK

LEMMA ProbeAnswerTyped ==
    ASSUME TypeOK, NEW p \in Probers, ProbeAnswer(p)
    PROVE  TypeOK'
<1>1. probe[p] \in Probe
  BY DEF TypeOK, ProbeTypeOK, ProbeAnswer
<1>2. PICK a \in {"busy", "idle"} : probe' = [probe EXCEPT ![p].answer = a]
  BY DEF ProbeAnswer
<1>3. [probe[p] EXCEPT !.answer = a] \in Probe
  BY <1>1 DEF Probe
<1>4. ProbeTypeOK'
  BY <1>2, <1>3 DEF TypeOK, ProbeTypeOK
<1>. QED
  BY <1>4 DEF TypeOK, MapTypeOK, FlagTypeOK, FlightTypeOK, ProbeAnswer,
              mapVars, userVars, timerVars, sendVars, ghostVars

LEMMA ResumeConfirmTyped ==
    ASSUME TypeOK, NEW p \in Probers, ResumeConfirm(p)
    PROVE  TypeOK'
<1>1. probe[p].gen \in Gens
  BY DEF TypeOK, ProbeTypeOK, Probe, ResumeConfirm, Resume, Resumable
<1>. DEFINE g == probe[p].gen
            rest == AfterSplice(left[g])
<1>2. rest \in Nat
  BY <1>1 DEF TypeOK, MapTypeOK, AfterSplice
<1>3. queue' \in Seq(Ids) /\ left' \in [Gens -> Nat]
  <2>1. CASE HasHead /\ g = gen
    BY <2>1 DEF TypeOK, MapTypeOK, ResumeConfirm, HasHead
  <2>2. CASE ~ (HasHead /\ g = gen) /\ rest = 0 /\ HasHead
    <3>1. Len(queue) \in Nat
      BY DEF TypeOK, MapTypeOK
    <3>2. queue' = <<>> /\ left' = [left EXCEPT ![g] = 0, ![gen] = Len(queue)]
      BY <2>2 DEF ResumeConfirm
    <3>. QED BY <1>1, <3>1, <3>2 DEF TypeOK, MapTypeOK
  <2>3. CASE ~ (HasHead /\ g = gen) /\ ~ (rest = 0 /\ HasHead)
    <3>1. queue' = queue /\ left' = [left EXCEPT ![g] = rest]
      BY <2>3 DEF ResumeConfirm
    <3>. QED BY <1>1, <1>2, <3>1 DEF TypeOK, MapTypeOK
  <2>. QED BY <2>1, <2>2, <2>3
<1>4. status' \in [Ids -> Status]
  BY RetireType DEF TypeOK, MapTypeOK, ResumeConfirm, Status
<1>5. MapTypeOK'
  BY <1>3, <1>4 DEF TypeOK, MapTypeOK, ResumeConfirm, Status, ghostVars
<1>6. FlagTypeOK' /\ FlightTypeOK'
  BY DEF TypeOK, FlagTypeOK, FlightTypeOK, ResumeConfirm, userVars, sendVars
<1>7. ProbeTypeOK'
  BY DEF TypeOK, ProbeTypeOK, ResumeConfirm, Resume
<1>. QED BY <1>5, <1>6, <1>7 DEF TypeOK

LEMMA ResumeDispatchTyped ==
    ASSUME TypeOK, NEW p \in Probers, ResumeDispatch(p)
    PROVE  TypeOK'
<1>. DEFINE id == probe[p].id
<1>1. id \in Ids
  BY DEF TypeOK, ProbeTypeOK, Probe, ResumeDispatch, Resume, Resumable
<1>2. MapTypeOK'
  BY <1>1 DEF TypeOK, MapTypeOK, ResumeDispatch
<1>3. FlightTypeOK'
  <2>1. [id |-> id, stage |-> "prep", cut |-> FALSE] \in Flight
    BY <1>1 DEF Flight
  <2>. QED BY <2>1 DEF TypeOK, FlightTypeOK, ResumeDispatch
<1>4. FlagTypeOK'
  BY DEF TypeOK, FlagTypeOK, ResumeDispatch, userVars, timerVars
<1>5. ProbeTypeOK'
  BY DEF TypeOK, ProbeTypeOK, ResumeDispatch, Resume
<1>. QED BY <1>2, <1>3, <1>4, <1>5 DEF TypeOK

LEMMA ResumeReleaseTyped ==
    ASSUME TypeOK, NEW p \in Probers, ResumeRelease(p)
    PROVE  TypeOK'
<1>1. FlightTypeOK' /\ idleRel' \in BOOLEAN
  <2>1. CASE ctrl /\ (busySeen \/ probe[p].id \notin since)
    <3>1. flight' = {[f EXCEPT !.cut = TRUE] : f \in flight} /\ idleRel' = TRUE
      BY <2>1 DEF ResumeRelease
    <3>. QED BY <3>1 DEF TypeOK, FlightTypeOK, Flight
  <2>2. CASE ~ (ctrl /\ (busySeen \/ probe[p].id \notin since))
    BY <2>2 DEF TypeOK, FlightTypeOK, FlagTypeOK, ResumeRelease
  <2>. QED BY <2>1, <2>2
<1>2. MapTypeOK' /\ ProbeTypeOK'
  BY DEF TypeOK, MapTypeOK, ProbeTypeOK, ResumeRelease, Resume, mapVars, ghostVars
<1>3. FlagTypeOK'
  BY <1>1 DEF TypeOK, FlagTypeOK, ResumeRelease, userVars, timerVars
<1>. QED BY <1>1, <1>2, <1>3 DEF TypeOK

LEMMA ResumeProbeTyped ==
    ASSUME TypeOK, NEW p \in Probers, ResumeProbe(p)
    PROVE  TypeOK'
<1>1. CASE ResumeBusy(p)
  BY <1>1 DEF TypeOK, MapTypeOK, FlagTypeOK, ProbeTypeOK, FlightTypeOK, ResumeBusy, Resume,
              mapVars, userVars, sendVars, ghostVars
<1>2. CASE ResumeGiveUp(p)
  BY <1>2 DEF TypeOK, MapTypeOK, FlagTypeOK, ProbeTypeOK, FlightTypeOK, ResumeGiveUp, Resume,
              mapVars, userVars, timerVars, sendVars, ghostVars
<1>. QED
  BY <1>1, <1>2, ResumeReleaseTyped, ResumeConfirmTyped, ResumeDispatchTyped DEF ResumeProbe

(* The request on the wire keeps the types. *)

LEMMA PostTyped ==
    ASSUME TypeOK, NEW f \in flight, Post(f)
    PROVE  TypeOK'
<1>1. f \in Flight
  BY DEF TypeOK, FlightTypeOK
<1>2. FlightTypeOK'
  BY <1>1 DEF TypeOK, FlightTypeOK, Flight, Post, StageAfterPost
<1>3. MapTypeOK'
  BY <1>1 DEF TypeOK, MapTypeOK, Flight, Post, mapVars
<1>4. FlagTypeOK' /\ ProbeTypeOK'
  BY DEF TypeOK, FlagTypeOK, ProbeTypeOK, Post, userVars, timerVars
<1>. QED BY <1>2, <1>3, <1>4 DEF TypeOK

LEMMA SettledTyped ==
    ASSUME TypeOK, NEW f \in flight, Settled(f), backoff' \in BOOLEAN,
           queue' \in Seq(Ids), status' \in [Ids -> Status], licence' \subseteq Ids
    PROVE  TypeOK'
<1>1. MapTypeOK'
  BY DEF TypeOK, MapTypeOK, Settled, Status
<1>2. FlagTypeOK' /\ ProbeTypeOK' /\ FlightTypeOK'
  BY DEF TypeOK, FlagTypeOK, ProbeTypeOK, FlightTypeOK, Settled, userVars
<1>. QED BY <1>1, <1>2 DEF TypeOK

LEMMA SettleTyped ==
    ASSUME TypeOK, NEW f \in flight, Settle(f)
    PROVE  TypeOK'
<1>1. f.id \in Ids
  BY DEF TypeOK, FlightTypeOK, Flight
<1>2. queue \in Seq(Ids) /\ status \in [Ids -> Status] /\ licence \subseteq Ids /\ backoff \in BOOLEAN
      /\ idleRel \in BOOLEAN
  BY DEF TypeOK, MapTypeOK, FlagTypeOK, Status
<1>3. ASSUME NEW s \in Status PROVE HeadBecomes(f, s) \in [Ids -> Status]
  BY <1>2 DEF HeadBecomes
<1>4. CASE SettleDiscarded(f)
  BY <1>2, <1>4, SettledTyped DEF SettleDiscarded
<1>5. CASE SettleSent(f)
  <2>. DEFINE q == IF IsHead(f.id) THEN Tail(queue) ELSE queue
  <2>1. q \in Seq(Ids)
    BY <1>2 DEF IsHead, HasHead
  <2>2. queue' \in Seq(Ids) /\ status' \in [Ids -> Status]
    <3>1. CASE KindOf[f.id] = "chat"
      BY <1>2, <1>5, <2>1, <3>1, DropDuplicatesType DEF SettleSent
    <3>2. CASE KindOf[f.id] # "chat"
      BY <1>2, <1>5, <2>1, <3>2, RetireType DEF SettleSent
    <3>. QED BY <3>1, <3>2
  <2>. QED BY <1>2, <1>5, <2>2, SettledTyped DEF SettleSent
<1>6. CASE SettleRejected(f)
  BY <1>2, <1>3, <1>6, SettledTyped DEF SettleRejected, Status
<1>7. CASE SettleTransient(f)
  BY <1>1, <1>2, <1>3, <1>7, SettledTyped DEF SettleTransient, Status
<1>8. CASE SettleHang(f) \/ SettleCut(f)
  BY <1>2, <1>8, SettledTyped DEF SettleHang, SettleCut
<1>. QED BY <1>4, <1>5, <1>6, <1>7, <1>8 DEF Settle

LEMMA OpencodeTyped ==
    ASSUME TypeOK, OpencodeStep
    PROVE  TypeOK'
<1>1. CASE ExternalTurn \/ TurnShows
  BY <1>1 DEF TypeOK, MapTypeOK, FlagTypeOK, ProbeTypeOK, FlightTypeOK, ExternalTurn, TurnShows,
              mapVars, userVars, timerVars, sendVars, ghostVars
<1>2. CASE TurnEnds
  <2>1. FlightTypeOK'
    BY <1>2 DEF TypeOK, FlightTypeOK, Flight, TurnEnds
  <2>. QED
    BY <1>2, <2>1 DEF TypeOK, MapTypeOK, FlagTypeOK, ProbeTypeOK, TurnEnds,
              mapVars, userVars, timerVars, ghostVars
<1>. QED BY <1>1, <1>2 DEF OpencodeStep

(* Every state of every instance is typed. *)
THEOREM TypeCorrect == Spec => []TypeOK
<1>1. Init => TypeOK
  <2>. SUFFICES ASSUME Init PROVE TypeOK
    OBVIOUS
  <2>1. queue \in Seq(Ids)
    BY DEF Init
  <2>2. MapTypeOK
    BY <2>1 DEF Init, MapTypeOK
  <2>3. FlagTypeOK
    BY DEF Init, FlagTypeOK
  <2>4. ProbeTypeOK /\ FlightTypeOK
    BY DEF Init, ProbeTypeOK, FlightTypeOK
  <2>. QED BY <2>2, <2>3, <2>4 DEF TypeOK
<1>2. TypeOK /\ [Next]_vars => TypeOK'
  <2>1. ASSUME TypeOK, UNCHANGED vars PROVE TypeOK'
    BY <2>1 DEF TypeOK, MapTypeOK, FlagTypeOK, ProbeTypeOK, FlightTypeOK, vars,
                mapVars, userVars, timerVars, sendVars, ghostVars
  <2>2. ASSUME TypeOK, BackendStep PROVE TypeOK'
    BY <2>2, TimerTyped, PollTyped, ProbeAnswerTyped, ResumeProbeTyped, PostTyped, SettleTyped
       DEF BackendStep
  <2>3. ASSUME TypeOK, Next PROVE TypeOK'
    BY <2>2, <2>3, UserTyped, OpencodeTyped, ResumeProbeTyped DEF Next
  <2>. QED BY <2>1, <2>3
<1>. QED BY <1>1, <1>2, PTL DEF Spec
-----------------------------------------------------------------------------
(* The queue and the statuses. *)

(* What insertion, removal and the trims do to the queue, position by position ... *)
LEMMA InsertAtEffect ==
    ASSUME NEW S, NEW q \in Seq(S), NEW i \in 1..(Len(q) + 1), NEW e \in S
    PROVE  /\ Len(InsertAt(q, i, e)) = Len(q) + 1
           /\ \A j \in 1..(Len(q) + 1) :
                InsertAt(q, i, e)[j] = IF j < i THEN q[j] ELSE IF j = i THEN e ELSE q[j - 1]
<1>. DEFINE front == SubSeq(q, 1, i - 1)
            back == SubSeq(q, i, Len(q))
<1>1. front \in Seq(S) /\ Len(front) = i - 1 /\ \A j \in 1..(i - 1) : front[j] = q[j]
  OBVIOUS
<1>2. back \in Seq(S) /\ Len(back) = Len(q) + 1 - i /\ \A j \in 1..(Len(q) + 1 - i) : back[j] = q[i + j - 1]
  OBVIOUS
<1>3. InsertAt(q, i, e) = (front \o <<e>>) \o back
  BY DEF InsertAt
<1>. HIDE DEF front, back
<1>4. front \o <<e>> \in Seq(S) /\ Len(front \o <<e>>) = i
      /\ \A j \in 1..i : (front \o <<e>>)[j] = IF j < i THEN q[j] ELSE e
  BY <1>1
<1>5. Len(InsertAt(q, i, e)) = Len(q) + 1
  <2>1. Len(InsertAt(q, i, e)) = Len(front \o <<e>>) + Len(back)
    BY <1>2, <1>3, <1>4, ConcatProperties
  <2>2. Len(InsertAt(q, i, e)) = i + (Len(q) + 1 - i)
    BY <1>2, <1>4, <2>1
  <2>. QED BY <2>2
<1>6. ASSUME NEW j \in 1..(Len(q) + 1)
      PROVE  InsertAt(q, i, e)[j] = IF j < i THEN q[j] ELSE IF j = i THEN e ELSE q[j - 1]
  <2>1. CASE j <= i
    BY <1>2, <1>3, <1>4, <2>1
  <2>2. CASE j > i
    <3>1. j - i \in 1..(Len(q) + 1 - i) /\ i + (j - i) - 1 = j - 1
      BY <2>2
    <3>2. InsertAt(q, i, e)[j] = back[j - i]
      BY <1>2, <1>3, <1>4, <2>2, SMTT(30)
    <3>. QED BY <1>2, <2>2, <3>1, <3>2
  <2>. QED BY <2>1, <2>2
<1>. QED BY <1>5, <1>6

LEMMA RemoveAtEffect ==
    ASSUME NEW S, NEW q \in Seq(S), NEW i \in 1..Len(q)
    PROVE  /\ Len(RemoveAt(q, i)) = Len(q) - 1
           /\ \A j \in 1..(Len(q) - 1) : RemoveAt(q, i)[j] = IF j < i THEN q[j] ELSE q[j + 1]
<1>. DEFINE front == SubSeq(q, 1, i - 1)
            back == SubSeq(q, i + 1, Len(q))
<1>1. front \in Seq(S) /\ Len(front) = i - 1 /\ \A j \in 1..(i - 1) : front[j] = q[j]
  OBVIOUS
<1>2. back \in Seq(S) /\ Len(back) = Len(q) - i /\ \A j \in 1..(Len(q) - i) : back[j] = q[i + j]
  OBVIOUS
<1>3. RemoveAt(q, i) = front \o back
  BY DEF RemoveAt
<1>. HIDE DEF front, back
<1>4. Len(RemoveAt(q, i)) = Len(q) - 1
  <2>1. Len(RemoveAt(q, i)) = Len(front) + Len(back)
    BY <1>1, <1>2, <1>3, ConcatProperties
  <2>2. Len(q) \in Nat
    OBVIOUS
  <2>. QED BY <1>1, <1>2, <2>1, <2>2
<1>5. ASSUME NEW j \in 1..(Len(q) - 1)
      PROVE  RemoveAt(q, i)[j] = IF j < i THEN q[j] ELSE q[j + 1]
  <2>1. CASE j < i
    BY <1>1, <1>2, <1>3, <2>1
  <2>2. CASE j >= i
    <3>1. j - (i - 1) \in 1..(Len(q) - i) /\ i + (j - (i - 1)) = j + 1
      BY <2>2
    <3>2. RemoveAt(q, i)[j] = back[j - (i - 1)]
      BY <1>1, <1>2, <1>3, <2>2, SMTT(30)
    <3>. QED BY <1>2, <2>2, <3>1, <3>2
  <2>. QED BY <2>1, <2>2
<1>. QED BY <1>4, <1>5

(* The queue holds no item twice. *)
Distinct(q) == \A a, b \in 1..Len(q) : q[a] = q[b] => a = b

(* ... and to the set of its items. *)
LEMMA InsertAtSet ==
    ASSUME NEW S, NEW q \in Seq(S), NEW i \in 1..(Len(q) + 1), NEW e \in S
    PROVE  /\ ToSet(InsertAt(q, i, e)) = ToSet(q) \cup {e}
           /\ Distinct(q) /\ e \notin ToSet(q) => Distinct(InsertAt(q, i, e))
<1>. DEFINE r == InsertAt(q, i, e)
<1>1. Len(r) = Len(q) + 1
      /\ \A j \in 1..(Len(q) + 1) : r[j] = IF j < i THEN q[j] ELSE IF j = i THEN e ELSE q[j - 1]
  BY InsertAtEffect
<1>2. r \in Seq(S) /\ DOMAIN r = 1..(Len(q) + 1)
  BY <1>1, InsertAtType
<1>. HIDE DEF r
<1>3. ToSet(r) \subseteq ToSet(q) \cup {e}
  <2>. SUFFICES ASSUME NEW j \in 1..(Len(q) + 1) PROVE r[j] = e \/ r[j] \in ToSet(q)
    BY <1>2 DEF ToSet
  <2>1. j < i => r[j] = q[j] /\ j \in 1..Len(q)
    BY <1>1
  <2>2. j > i => r[j] = q[j - 1] /\ j - 1 \in 1..Len(q)
    BY <1>1
  <2>3. j = i => r[j] = e
    BY <1>1
  <2>. QED BY <2>1, <2>2, <2>3 DEF ToSet
<1>4. ToSet(q) \cup {e} \subseteq ToSet(r)
  <2>1. r[i] = e /\ i \in DOMAIN r
    BY <1>1, <1>2
  <2>2. ASSUME NEW a \in 1..Len(q) PROVE \E j \in DOMAIN r : r[j] = q[a]
    <3>1. CASE a < i
      <4>1. a \in DOMAIN r /\ r[a] = q[a]
        BY <1>1, <1>2, <3>1
      <4>. QED BY <4>1
    <3>2. CASE a >= i
      <4>1. a + 1 \in DOMAIN r /\ r[a + 1] = q[a]
        BY <1>1, <1>2, <3>2
      <4>. QED BY <4>1
    <3>. QED BY <3>1, <3>2
  <2>. QED BY <2>1, <2>2 DEF ToSet
<1>5. ASSUME Distinct(q), e \notin ToSet(q), NEW a \in 1..Len(r), NEW b \in 1..Len(r), r[a] = r[b]
      PROVE  a = b
  <2>1. \A j \in 1..Len(q) : q[j] # e
    BY <1>5 DEF ToSet
  <2>. DEFINE before(j) == IF j < i THEN j ELSE j - 1
  <2>2. a \in 1..(Len(q) + 1) /\ b \in 1..(Len(q) + 1)
    BY <1>1
  <2>3. ASSUME NEW j \in 1..(Len(q) + 1), j # i PROVE before(j) \in 1..Len(q) /\ r[j] = q[before(j)]
    BY <1>1, <2>3
  <2>4. r[i] = e
    BY <1>1
  <2>5. a = i <=> b = i
    BY <1>5, <2>1, <2>2, <2>3, <2>4
  <2>6. CASE a # i /\ b # i
    <3>1. before(a) = before(b)
      BY <1>5, <2>2, <2>3, <2>6, SMTT(30) DEF Distinct
    <3>. QED BY <2>2, <2>6, <3>1
  <2>. QED BY <2>5, <2>6
<1>. QED BY <1>3, <1>4, <1>5 DEF r, Distinct

LEMMA RemoveAtSet ==
    ASSUME NEW S, NEW q \in Seq(S), NEW i \in 1..Len(q), Distinct(q)
    PROVE  /\ ToSet(RemoveAt(q, i)) = ToSet(q) \ {q[i]}
           /\ Distinct(RemoveAt(q, i))
<1>. DEFINE r == RemoveAt(q, i)
<1>1. Len(r) = Len(q) - 1
      /\ \A j \in 1..(Len(q) - 1) : r[j] = IF j < i THEN q[j] ELSE q[j + 1]
  BY RemoveAtEffect
<1>2. r \in Seq(S) /\ DOMAIN r = 1..(Len(q) - 1)
  BY <1>1, RemoveAtType
<1>. HIDE DEF r
<1>3. ToSet(r) \subseteq ToSet(q) \ {q[i]}
  BY <1>1, <1>2, SMTT(30) DEF ToSet, Distinct
<1>4. ToSet(q) \ {q[i]} \subseteq ToSet(r)
  <2>1. ASSUME NEW a \in 1..Len(q), a # i PROVE \E j \in DOMAIN r : r[j] = q[a]
    <3>1. CASE a < i
      <4>1. a \in DOMAIN r /\ r[a] = q[a]
        BY <1>1, <1>2, <3>1
      <4>. QED BY <4>1
    <3>2. CASE a > i
      <4>1. a - 1 \in DOMAIN r /\ r[a - 1] = q[a]
        BY <1>1, <1>2, <3>2
      <4>. QED BY <4>1
    <3>. QED BY <2>1, <3>1, <3>2
  <2>. QED BY <2>1 DEF ToSet
<1>5. Distinct(r)
  BY <1>1, SMTT(30) DEF Distinct
<1>. QED BY <1>3, <1>4, <1>5 DEF r

(* The trims to MaxQueue: keeping the oldest keeps the head, keeping the newest shifts it off. *)
LEMMA KeepEffect ==
    ASSUME NEW q \in Seq(Ids), Distinct(q)
    PROVE  /\ Len(KeepNewest(q)) <= MaxQueue /\ Len(KeepOldest(q)) <= MaxQueue
           /\ Distinct(KeepNewest(q)) /\ Distinct(KeepOldest(q))
           /\ ToSet(KeepNewest(q)) \subseteq ToSet(q) /\ ToSet(KeepOldest(q)) \subseteq ToSet(q)
           /\ q # <<>> => KeepOldest(q) # <<>> /\ KeepOldest(q)[1] = q[1]
           /\ Len(q) > MaxQueue => q[1] \notin ToSet(KeepNewest(q))
           /\ Len(q) <= MaxQueue => KeepNewest(q) = q
<1>. DEFINE late == SubSeq(q, 1 + Len(q) - MaxQueue, Len(q))
            early == SubSeq(q, 1, MaxQueue)
<1>1. MaxQueue \in Nat /\ MaxQueue > 0
  BY ConstantsAssumption
<1>2. CASE Len(q) <= MaxQueue
  <2>1. KeepNewest(q) = q /\ KeepOldest(q) = q
    BY <1>1, <1>2 DEF KeepNewest, KeepOldest
  <2>. QED BY <1>1, <1>2, <2>1
<1>3. CASE Len(q) > MaxQueue
  <2>1. KeepNewest(q) = late /\ KeepOldest(q) = early
    BY <1>1, <1>3 DEF KeepNewest, KeepOldest
  <2>2. late \in Seq(Ids) /\ Len(late) = MaxQueue /\ \A j \in 1..MaxQueue : late[j] = q[j + (Len(q) - MaxQueue)]
    BY <1>1, <1>3
  <2>3. early \in Seq(Ids) /\ Len(early) = MaxQueue /\ \A j \in 1..MaxQueue : early[j] = q[j]
    BY <1>1, <1>3
  <2>. HIDE DEF late, early
  <2>. DEFINE d == Len(q) - MaxQueue
  <2>7. d \in Nat /\ d > 0 /\ \A j \in 1..MaxQueue : j + d \in 1..Len(q) /\ j + d # 1 /\ late[j] = q[j + d]
    BY <1>1, <1>3, <2>2
  <2>. HIDE DEF d
  <2>4. Distinct(late) /\ ToSet(late) \subseteq ToSet(q)
    <3>1. DOMAIN late = 1..MaxQueue /\ DOMAIN q = 1..Len(q)
      BY <2>2
    <3>2. ToSet(late) \subseteq ToSet(q)
      BY <2>7, <3>1 DEF ToSet
    <3>3. ASSUME NEW a \in 1..MaxQueue, NEW b \in 1..MaxQueue, late[a] = late[b] PROVE a = b
      <4>1. a + d = b + d
        BY <2>7, <3>3 DEF Distinct
      <4>. QED BY <1>1, <2>7, <4>1
    <3>. QED BY <2>2, <3>2, <3>3 DEF Distinct
  <2>5. Distinct(early) /\ ToSet(early) \subseteq ToSet(q)
    BY <1>1, <1>3, <2>3 DEF Distinct, ToSet
  <2>6. q[1] \notin ToSet(late)
    <3>1. 1 \in 1..Len(q)
      BY <1>1, <1>3
    <3>2. \A j \in 1..MaxQueue : late[j] # q[1]
      BY <2>7, <3>1 DEF Distinct
    <3>. QED BY <2>2, <3>2 DEF ToSet
  <2>. QED BY <1>1, <1>3, <2>1, <2>2, <2>3, <2>4, <2>5, <2>6
<1>. QED BY <1>1, <1>2, <1>3

LEMMA AppendSet ==
    ASSUME NEW S, NEW q \in Seq(S), NEW e \in S
    PROVE  /\ ToSet(Append(q, e)) = ToSet(q) \cup {e}
           /\ Distinct(q) /\ e \notin ToSet(q) => Distinct(Append(q, e))
<1>1. Append(q, e) \in Seq(S) /\ Len(Append(q, e)) = Len(q) + 1
      /\ \A j \in 1..Len(q) : Append(q, e)[j] = q[j]
      /\ Append(q, e)[Len(q) + 1] = e
  OBVIOUS
<1>. DEFINE r == Append(q, e)
<1>. HIDE DEF r
<1>2. r \in Seq(S) /\ Len(r) = Len(q) + 1 /\ (\A j \in 1..Len(q) : r[j] = q[j]) /\ r[Len(q) + 1] = e
  BY <1>1 DEF r
<1>3. ToSet(r) = ToSet(q) \cup {e}
  <2>1. ToSet(r) \subseteq ToSet(q) \cup {e}
    BY <1>2 DEF ToSet
  <2>2. DOMAIN q \subseteq DOMAIN r /\ Len(q) + 1 \in DOMAIN r
    BY <1>2
  <2>3. ToSet(q) \cup {e} \subseteq ToSet(r)
    BY <1>2, <2>2 DEF ToSet
  <2>. QED BY <2>1, <2>3
<1>4. ASSUME Distinct(q), e \notin ToSet(q) PROVE Distinct(r)
  BY <1>2, <1>4 DEF Distinct, ToSet
<1>. QED BY <1>3, <1>4 DEF r

(* The items that belong to the queue, by their status. *)
Waiting(st) == {i \in Ids : st[i] \in {"queued", "sending", "failed"}}

(* What a handler that retires the items it dropped owes to QueueHoldsItsItems. *)
LEMMA RetiredQueueMatches ==
    ASSUME NEW st \in [Ids -> Status], NEW q \in Seq(Ids), Distinct(q), Len(q) <= MaxQueue,
           ToSet(q) \subseteq Waiting(st), queue' = q, status' = Retire(st, q)
    PROVE  QueueHoldsItsItems'
<1>1. \A i \in Ids : i \in ToSet(q) => status'[i] = st[i]
  BY DEF Retire
<1>2. \A i \in Ids : i \notin ToSet(q) => status'[i] \in {"new", "gone"}
  BY DEF Retire
<1>3. ToSet(q) = {i \in Ids : status'[i] \in {"queued", "sending", "failed"}}
  BY <1>1, <1>2 DEF Waiting
<1>. QED BY <1>3 DEF QueueHoldsItsItems, Distinct

(* What a handler that leaves the queue alone owes to QueueHoldsItsItems. *)
LEMMA KeptQueueMatches ==
    ASSUME QueueHoldsItsItems, queue' = queue,
           \A i \in Ids : status'[i] \in {"queued", "sending", "failed"}
                            <=> status[i] \in {"queued", "sending", "failed"}
    PROVE  QueueHoldsItsItems'
BY DEF QueueHoldsItsItems

(* What the proofs below use of the types and of QueueHoldsItsItems. *)
LEMMA QueueFacts ==
    ASSUME TypeOK, QueueHoldsItsItems
    PROVE  /\ queue \in Seq(Ids) /\ Len(queue) \in Nat /\ Len(queue) <= MaxQueue /\ Distinct(queue)
           /\ status \in [Ids -> Status] /\ ToSet(queue) = Waiting(status) /\ MaxQueue \in Nat /\ MaxQueue > 0
           /\ \A k \in 1..Len(queue) : queue[k] \in Ids /\ queue[k] \in ToSet(queue)
           /\ queue # <<>> => 1 \in 1..Len(queue)
           /\ \A i \in ToSet(queue) : i \in Ids /\ \E k \in 1..Len(queue) : queue[k] = i
           /\ Slot \in 1..(Len(queue) + 1)
<1>1. queue \in Seq(Ids) /\ status \in [Ids -> Status] /\ Slot \in 1..(Len(queue) + 1)
  BY SlotType DEF TypeOK, MapTypeOK, Status
<1>2. DOMAIN queue = 1..Len(queue)
  BY <1>1
<1>3. \A k \in 1..Len(queue) : queue[k] \in Ids /\ queue[k] \in ToSet(queue)
  BY <1>1, <1>2 DEF ToSet
<1>4. \A i \in ToSet(queue) : i \in Ids /\ \E k \in 1..Len(queue) : queue[k] = i
  BY <1>1, <1>2 DEF ToSet
<1>5. queue # <<>> => 1 \in 1..Len(queue)
  BY <1>1
<1>6. MaxQueue \in Nat /\ MaxQueue > 0
  BY ConstantsAssumption
<1>. QED BY <1>1, <1>3, <1>4, <1>5, <1>6 DEF QueueHoldsItsItems, Distinct, Waiting

LEMMA TailSet ==
    ASSUME NEW q \in Seq(Ids), q # <<>>, Distinct(q)
    PROVE  /\ Tail(q) \in Seq(Ids) /\ Len(Tail(q)) = Len(q) - 1 /\ Distinct(Tail(q))
           /\ ToSet(Tail(q)) = ToSet(q) \ {q[1]}
<1>1. /\ Tail(q) \in Seq(Ids) /\ Len(Tail(q)) = Len(q) - 1 /\ Len(q) \in Nat
      /\ \A j \in 1..(Len(q) - 1) : Tail(q)[j] = q[j + 1]
  OBVIOUS
<1>2. Distinct(Tail(q))
  <2>1. ASSUME NEW a \in 1..(Len(q) - 1), NEW b \in 1..(Len(q) - 1), Tail(q)[a] = Tail(q)[b] PROVE a = b
    <3>1. a + 1 \in 1..Len(q) /\ b + 1 \in 1..Len(q) /\ q[a + 1] = q[b + 1]
      BY <1>1, <2>1
    <3>2. a + 1 = b + 1
      BY <3>1 DEF Distinct
    <3>. QED BY <3>2
  <2>. QED BY <1>1, <2>1 DEF Distinct
<1>3. DOMAIN Tail(q) = 1..(Len(q) - 1) /\ DOMAIN q = 1..Len(q)
  BY <1>1
<1>4. \A j \in 1..(Len(q) - 1) : j + 1 \in 1..Len(q) /\ j + 1 # 1
  BY <1>1
<1>5. ToSet(Tail(q)) \subseteq ToSet(q) \ {q[1]}
  <2>1. 1 \in 1..Len(q)
    BY <1>1
  <2>2. \A j \in 1..(Len(q) - 1) : q[j + 1] # q[1]
    BY <1>4, <2>1 DEF Distinct
  <2>. QED BY <1>1, <1>3, <1>4, <2>2 DEF ToSet
<1>6. ToSet(q) \ {q[1]} \subseteq ToSet(Tail(q))
  <2>1. ASSUME NEW a \in 1..Len(q), a # 1 PROVE \E j \in 1..(Len(q) - 1) : Tail(q)[j] = q[a]
    <3>1. a - 1 \in 1..(Len(q) - 1) /\ (a - 1) + 1 = a
      BY <1>1, <2>1
    <3>. QED BY <1>1, <3>1
  <2>2. \A x \in ToSet(q) \ {q[1]} : \E a \in 1..Len(q) : a # 1 /\ q[a] = x
    BY <1>3 DEF ToSet
  <2>3. \A x \in ToSet(q) \ {q[1]} : \E j \in DOMAIN Tail(q) : Tail(q)[j] = x
    BY <1>3, <2>1, <2>2
  <2>. QED BY <2>3 DEF ToSet
<1>. QED BY <1>1, <1>2, <1>5, <1>6

(* dropDeliveredDuplicates keeps an order-preserving part of the queue; a sending item stays. *)
LEMMA DropDuplicatesEffect ==
    ASSUME NEW q \in Seq(Ids), Distinct(q), NEW st \in [Ids -> Status], NEW text,
           DropDuplicates(q, st, text)
    PROVE  /\ queue' \in Seq(Ids) /\ Len(queue') <= Len(q) /\ Distinct(queue')
           /\ ToSet(queue') \subseteq ToSet(q)
           /\ status' = Retire(st, queue')
           /\ \A j \in 1..Len(q) : st[q[j]] = "sending" => q[j] \in ToSet(queue')
           /\ q # <<>> /\ q[1] \in ToSet(queue') => queue' # <<>> /\ queue'[1] = q[1]
<1>1. PICK keep \in Embeddings(Survivors(st, q, text)) :
        /\ queue' = [j \in DOMAIN keep |-> q[keep[j]]]
        /\ status' = Retire(st, queue')
  BY DEF DropDuplicates
<1>. DEFINE K == Survivors(st, q, text)
            n == Cardinality(K)
<1>2. n \in Nat /\ n <= Len(q) /\ IsFiniteSet(K)
  <2>1. IsFiniteSet(1..Len(q)) /\ Cardinality(1..Len(q)) = Len(q)
    <3>1. Len(q) \in Nat
      OBVIOUS
    <3>2. 1 \in Int /\ Len(q) \in Int
      BY <3>1
    <3>3. Cardinality(1..Len(q)) = IF 1 > Len(q) THEN 0 ELSE Len(q) - 1 + 1
      BY <3>2, FS_Interval
    <3>. QED BY <3>1, <3>2, <3>3, FS_Interval, SMTT(30)
  <2>2. K \subseteq 1..Len(q)
    BY DEF Survivors
  <2>. QED BY <2>1, <2>2, FS_Subset, FS_CardinalityType
<1>3. keep \in [1..n -> K] /\ \A a, b \in 1..n : a < b => keep[a] < keep[b]
  BY <1>1 DEF Embeddings
<1>4. K \subseteq 1..Len(q)
  BY DEF Survivors
<1>11. \A j \in 1..Len(q) : st[q[j]] = "sending" => j \in K
  BY DEF Survivors, IsDuplicate
<1>12. n = Cardinality(K)
  OBVIOUS
<1>. HIDE DEF K, n
<1>5. \A j \in 1..n : keep[j] \in 1..Len(q)
  BY <1>3, <1>4
<1>6. queue' = [j \in 1..n |-> q[keep[j]]]
  BY <1>1, <1>3
<1>7. queue' \in Seq(Ids) /\ Len(queue') = n /\ DOMAIN queue' = 1..n
  <2>1. \A j \in 1..n : q[keep[j]] \in Ids
    BY <1>5
  <2>. QED BY <1>2, <1>6, <2>1
<1>8. Distinct(queue')
  <2>1. ASSUME NEW a \in 1..n, NEW b \in 1..n, queue'[a] = queue'[b] PROVE a = b
    <3>1. keep[a] = keep[b]
      BY <1>5, <1>6, <2>1 DEF Distinct
    <3>. QED BY <1>3, <1>5, <3>1
  <2>. QED BY <1>7, <2>1 DEF Distinct
<1>9. ToSet(queue') \subseteq ToSet(q)
  BY <1>5, <1>6, <1>7 DEF ToSet
<1>10. ASSUME q # <<>>, q[1] \in ToSet(queue') PROVE queue' # <<>> /\ queue'[1] = q[1]
  <2>1. PICK j \in 1..n : queue'[j] = q[1]
    BY <1>7, <1>10 DEF ToSet
  <2>2. 1 \in 1..Len(q) /\ 1 \in 1..n
    BY <1>2, <1>10
  <2>3. keep[j] = 1
    BY <1>5, <1>6, <2>1, <2>2 DEF Distinct
  <2>4. j = 1
    BY <1>3, <1>5, <2>2, <2>3
  <2>. QED BY <1>2, <1>7, <2>1, <2>2, <2>4
<1>13. \A j \in K : \E a \in 1..n : keep[a] = j
  <2>1. \A a, b \in 1..n : keep[a] = keep[b] => a = b
    BY <1>3, <1>5
  <2>2. keep \in Injection(1..n, K)
    BY <1>3, <2>1 DEF Injection, IsInjective
  <2>3. Cardinality(1..n) = n
    <3>1. 1 \in Int /\ n \in Int
      BY <1>2
    <3>2. Cardinality(1..n) = IF 1 > n THEN 0 ELSE n - 1 + 1
      BY <3>1, FS_Interval
    <3>. QED BY <1>2, <3>2
  <2>4. keep \in Surjection(1..n, K)
    BY <1>2, <1>12, <2>2, <2>3, FS_Injection
  <2>. QED BY <2>4 DEF Surjection
<1>14. ASSUME NEW j \in 1..Len(q), st[q[j]] = "sending" PROVE q[j] \in ToSet(queue')
  BY <1>6, <1>7, <1>11, <1>13, <1>14 DEF ToSet
<1>. QED BY <1>1, <1>2, <1>7, <1>8, <1>9, <1>10, <1>14

(* Every handler keeps the queue and the statuses in step. *)
LEMMA EnqueueHolds ==
    ASSUME TypeOK, QueueHoldsItsItems, NEW id \in Ids, NEW toTop \in BOOLEAN, Enqueue(id, toTop)
    PROVE  QueueHoldsItsItems'
<1>. DEFINE st == [status EXCEPT ![id] = "queued"]
            q == IF toTop THEN InsertAt(queue, Slot, id) ELSE Append(queue, id)
<1>1. st \in [Ids -> Status] /\ Waiting(st) = ToSet(queue) \cup {id} /\ id \notin ToSet(queue)
  BY QueueFacts DEF Enqueue, Waiting, Status
<1>2. q \in Seq(Ids) /\ Distinct(q) /\ ToSet(q) = ToSet(queue) \cup {id}
  <2>1. CASE toTop
    BY <1>1, <2>1, QueueFacts, InsertAtType, InsertAtSet
  <2>2. CASE ~ toTop
    <3>1. Append(queue, id) \in Seq(Ids)
      BY QueueFacts
    <3>. QED BY <1>1, <2>2, <3>1, QueueFacts, AppendSet
  <2>. QED BY <2>1, <2>2
<1>3. queue' = (IF toTop THEN KeepOldest(q) ELSE KeepNewest(q)) /\ status' = Retire(st, queue')
  BY DEF Enqueue
<1>. HIDE DEF q, st
<1>4. queue' \in Seq(Ids) /\ Distinct(queue') /\ Len(queue') <= MaxQueue /\ ToSet(queue') \subseteq ToSet(q)
  BY <1>2, <1>3, KeepType, KeepEffect
<1>. QED BY <1>1, <1>2, <1>3, <1>4, RetiredQueueMatches

LEMMA EnqueueResendHolds ==
    ASSUME TypeOK, QueueHoldsItsItems, NEW op \in Ids, NEW chat \in Ids, EnqueueResend(op, chat)
    PROVE  QueueHoldsItsItems'
<1>. DEFINE st == [status EXCEPT ![op] = "queued", ![chat] = "queued"]
            q1 == InsertAt(queue, Slot, chat)
            q2 == InsertAt(q1, Slot, op)
<1>1. st \in [Ids -> Status] /\ Waiting(st) = ToSet(queue) \cup {op, chat}
      /\ op \notin ToSet(queue) /\ chat \notin ToSet(queue) /\ op # chat
  BY QueueFacts DEF EnqueueResend, Waiting, Status
<1>2. q1 \in Seq(Ids) /\ Distinct(q1) /\ ToSet(q1) = ToSet(queue) \cup {chat} /\ Len(q1) = Len(queue) + 1
  BY <1>1, QueueFacts, InsertAtType, InsertAtSet, InsertAtEffect
<1>3. queue' = KeepOldest(q2) /\ status' = Retire(st, queue')
  BY DEF EnqueueResend
<1>4. Slot \in 1..(Len(q1) + 1)
  BY <1>2, QueueFacts
<1>. HIDE DEF q1
<1>5. q2 \in Seq(Ids) /\ Distinct(q2) /\ ToSet(q2) = ToSet(queue) \cup {op, chat}
  BY <1>1, <1>2, <1>4, InsertAtType, InsertAtSet
<1>. HIDE DEF q2, st
<1>6. queue' \in Seq(Ids) /\ Distinct(queue') /\ Len(queue') <= MaxQueue /\ ToSet(queue') \subseteq ToSet(q2)
  BY <1>3, <1>5, KeepType, KeepEffect
<1>. QED BY <1>1, <1>3, <1>5, <1>6, RetiredQueueMatches

LEMMA RemoveHolds ==
    ASSUME TypeOK, QueueHoldsItsItems, NEW k \in 1..Len(queue),
           queue' = RemoveAt(queue, k), status' = Retire(status, queue')
    PROVE  QueueHoldsItsItems'
<1>1. queue' \in Seq(Ids) /\ Distinct(queue') /\ ToSet(queue') \subseteq ToSet(queue) /\ Len(queue') = Len(queue) - 1
  BY QueueFacts, RemoveAtType, RemoveAtSet, RemoveAtEffect
<1>. QED BY <1>1, QueueFacts, RetiredQueueMatches

LEMMA MoveHolds ==
    ASSUME TypeOK, QueueHoldsItsItems, NEW k \in 1..Len(queue), NEW toTop \in BOOLEAN, Move(k, toTop)
    PROVE  /\ QueueHoldsItsItems'
           /\ HeadLocked => queue' # <<>> /\ queue'[1] = queue[1]
<1>. DEFINE rest == RemoveAt(queue, k)
            place == IF toTop THEN Slot ELSE IF k - 1 > Slot THEN k - 1 ELSE Slot
<1>1. rest \in Seq(Ids) /\ Len(rest) = Len(queue) - 1 /\ ToSet(rest) = ToSet(queue) \ {queue[k]} /\ Distinct(rest)
      /\ queue[k] \in Ids /\ queue[k] \in ToSet(queue)
      /\ \A j \in 1..(Len(queue) - 1) : rest[j] = IF j < k THEN queue[j] ELSE queue[j + 1]
  BY QueueFacts, RemoveAtType, RemoveAtSet, RemoveAtEffect
<1>2. Slot \in 1..2 /\ k > 1 /\ k <= Len(queue) /\ Len(queue) \in Nat /\ k \in Nat
  BY QueueFacts DEF Slot, Move
<1>3. place \in 1..(Len(rest) + 1)
  BY <1>1, <1>2
<1>4. queue' = InsertAt(rest, place, queue[k]) /\ status' = status
  BY DEF Move
<1>5. HeadLocked => place > 1
  BY <1>2 DEF Slot
<1>. HIDE DEF rest, place
<1>6. Len(queue') = Len(queue) /\ queue' \in Seq(Ids) /\ Distinct(queue') /\ ToSet(queue') = ToSet(queue)
  <2>1. Len(queue') = Len(rest) + 1
    BY <1>1, <1>3, <1>4, InsertAtEffect
  <2>2. queue' \in Seq(Ids) /\ Distinct(queue') /\ ToSet(queue') = ToSet(rest) \cup {queue[k]}
    BY <1>1, <1>3, <1>4, InsertAtType, InsertAtSet
  <2>. QED BY <1>1, <1>2, <2>1, <2>2
<1>7. ASSUME HeadLocked PROVE queue' # <<>> /\ queue'[1] = queue[1]
  <2>1. 1 \in 1..(Len(queue) - 1) /\ 1 \in 1..(Len(rest) + 1) /\ 1 < k /\ 1 < place
    BY <1>1, <1>2, <1>5, <1>7
  <2>2. queue'[1] = rest[1]
    BY <1>1, <1>3, <1>4, <2>1, InsertAtEffect
  <2>3. queue' # <<>>
    BY <1>2, <1>6
  <2>. QED BY <1>1, <2>1, <2>2, <2>3
<1>8. QueueHoldsItsItems'
  BY <1>4, <1>6, QueueFacts DEF QueueHoldsItsItems, Distinct
<1>. QED BY <1>7, <1>8

LEMMA UserHolds ==
    ASSUME TypeOK, QueueHoldsItsItems, UserStep
    PROVE  QueueHoldsItsItems'
<1>1. ASSUME NEW k \in 1..Len(queue), RemoveQueued(k) PROVE QueueHoldsItsItems'
  BY <1>1, RemoveHolds DEF RemoveQueued
<1>2. ASSUME NEW k \in 1..Len(queue), Retry(k) PROVE QueueHoldsItsItems'
  <2>1. queue' = queue /\ status' = [status EXCEPT ![queue[k]] = "queued"]
        /\ status[queue[k]] \in {"sending", "failed"} /\ status \in [Ids -> Status]
    BY <1>2, QueueFacts DEF Retry
  <2>. QED BY <2>1, KeptQueueMatches
<1>3. CASE UpdateModel
  <2>1. queue' = queue
        /\ \A i \in Ids : \/ status[i] = "failed" /\ status'[i] = "queued"
                          \/ status'[i] = status[i]
    BY <1>3 DEF UpdateModel
  <2>. QED BY <2>1, KeptQueueMatches
<1>4. CASE Clear
  <2>1. queue' = <<>> /\ status' = Retire(status, queue')
    BY <1>4 DEF Clear, DeleteMapEntry, HasHead
  <2>2. queue' \in Seq(Ids) /\ Len(queue') = 0 /\ ToSet(queue') = {} /\ Distinct(queue')
    BY <2>1 DEF ToSet, Distinct
  <2>3. Len(queue') <= MaxQueue /\ ToSet(queue') \subseteq Waiting(status) /\ status \in [Ids -> Status]
    BY <2>2, QueueFacts
  <2>. QED BY <2>1, <2>2, <2>3, RetiredQueueMatches
<1>5. CASE ClearSendingOnAbort
  <2>1. status' = Retire(status, queue')
    BY <1>5 DEF ClearSendingOnAbort
  <2>2. CASE queue' = queue
    BY <2>1, <2>2, QueueFacts, RetiredQueueMatches
  <2>3. CASE \E k \in 1..Len(queue) : queue' = RemoveAt(queue, k)
    BY <2>1, <2>3, RemoveHolds
  <2>. QED BY <1>5, <2>2, <2>3 DEF ClearSendingOnAbort
<1>6. CASE SetPaused \/ SetQuickMode
  BY <1>6, KeptQueueMatches DEF SetPaused, SetQuickMode, mapVars
<1>7. ASSUME NEW id \in Ids, DirectSendDelivered(TextOf[id]) PROVE QueueHoldsItsItems'
  BY <1>7, QueueFacts, DropDuplicatesEffect, RetiredQueueMatches DEF DirectSendDelivered
<1>. QED
  BY <1>1, <1>2, <1>3, <1>4, <1>5, <1>6, <1>7, EnqueueHolds, EnqueueResendHolds, MoveHolds DEF UserStep

LEMMA ResumeHolds ==
    ASSUME TypeOK, QueueHoldsItsItems, NEW p \in Probers, ResumeProbe(p)
    PROVE  QueueHoldsItsItems'
<1>1. CASE ResumeBusy(p) \/ ResumeRelease(p) \/ ResumeGiveUp(p)
  BY <1>1, KeptQueueMatches DEF ResumeBusy, ResumeRelease, ResumeGiveUp, mapVars
<1>2. CASE ResumeConfirm(p)
  <2>1. status' = Retire(status, queue') /\ queue' \in {queue, Tail(queue), <<>>}
        /\ (queue' = Tail(queue) /\ queue' # queue => queue # <<>>)
    BY <1>2 DEF ResumeConfirm, HasHead
  <2>2. queue' \in Seq(Ids) /\ Len(queue') <= Len(queue) /\ ToSet(queue') \subseteq ToSet(queue) /\ Distinct(queue')
    <3>1. CASE queue' = queue
      BY <3>1, QueueFacts
    <3>2. CASE queue' = Tail(queue) /\ queue # <<>>
      BY <3>2, QueueFacts, TailSet
    <3>3. CASE queue' = <<>>
      BY <3>3, QueueFacts DEF ToSet, Distinct
    <3>. QED BY <2>1, <3>1, <3>2, <3>3
  <2>. QED BY <2>1, <2>2, QueueFacts, RetiredQueueMatches
<1>3. CASE ResumeDispatch(p)
  <2>1. queue' = queue /\ IsHead(probe[p].id) /\ status' = [status EXCEPT ![probe[p].id] = "sending"]
    BY <1>3 DEF ResumeDispatch, MaySend
  <2>2. probe[p].id \in ToSet(queue)
    BY <2>1, QueueFacts DEF IsHead, HasHead
  <2>. QED BY <2>1, <2>2, QueueFacts, KeptQueueMatches DEF Waiting
<1>. QED BY <1>1, <1>2, <1>3 DEF ResumeProbe

LEMMA SettleHolds ==
    ASSUME TypeOK, QueueHoldsItsItems, NEW f \in flight, Settle(f)
    PROVE  QueueHoldsItsItems'
<1>1. ASSUME NEW s \in {"failed", "queued"}, queue' = queue, status' = HeadBecomes(f, s)
      PROVE  QueueHoldsItsItems'
  <2>1. CASE IsHead(f.id)
    <3>1. f.id \in ToSet(queue)
      BY <2>1, QueueFacts DEF IsHead, HasHead
    <3>. QED BY <1>1, <2>1, <3>1, QueueFacts, KeptQueueMatches DEF HeadBecomes, Waiting
  <2>2. CASE ~ IsHead(f.id)
    BY <1>1, <2>2, KeptQueueMatches DEF HeadBecomes
  <2>. QED BY <2>1, <2>2
<1>2. CASE SettleDiscarded(f) \/ SettleHang(f) \/ SettleCut(f)
  BY <1>2, KeptQueueMatches DEF SettleDiscarded, SettleHang, SettleCut
<1>3. CASE SettleRejected(f) \/ SettleTransient(f)
  BY <1>1, <1>3 DEF SettleRejected, SettleTransient
<1>4. CASE SettleSent(f)
  <2>. DEFINE q == IF IsHead(f.id) THEN Tail(queue) ELSE queue
  <2>1. q \in Seq(Ids) /\ Distinct(q) /\ Len(q) <= MaxQueue /\ ToSet(q) \subseteq ToSet(queue)
    <3>1. CASE IsHead(f.id)
      BY <3>1, QueueFacts, TailSet DEF IsHead, HasHead
    <3>2. CASE ~ IsHead(f.id)
      BY <3>2, QueueFacts
    <3>. QED BY <3>1, <3>2
  <2>2. \/ DropDuplicates(q, status, TextOf[f.id])
        \/ queue' = q /\ status' = Retire(status, q)
    BY <1>4 DEF SettleSent
  <2>. HIDE DEF q
  <2>3. CASE DropDuplicates(q, status, TextOf[f.id])
    <3>1. queue' \in Seq(Ids) /\ Len(queue') <= Len(q) /\ Distinct(queue') /\ ToSet(queue') \subseteq ToSet(q)
          /\ status' = Retire(status, queue')
      BY <2>1, <2>3, QueueFacts, DropDuplicatesEffect
    <3>2. Len(queue') <= MaxQueue
      BY <2>1, <3>1, QueueFacts
    <3>. QED BY <2>1, <3>1, <3>2, QueueFacts, RetiredQueueMatches
  <2>4. CASE queue' = q /\ status' = Retire(status, q)
    BY <2>1, <2>4, QueueFacts, RetiredQueueMatches
  <2>. QED BY <2>2, <2>3, <2>4
<1>. QED BY <1>2, <1>3, <1>4 DEF Settle

LEMMA BackendHolds ==
    ASSUME TypeOK, QueueHoldsItsItems, BackendStep
    PROVE  QueueHoldsItsItems'
<1>1. CASE DelayedFlush \/ SweepAbort \/ AbortExpire \/ BackoffExpire \/ GraceExpire \/ PollSample \/ PollApply
  BY <1>1, KeptQueueMatches
     DEF DelayedFlush, SweepAbort, AbortExpire, BackoffExpire, GraceExpire, PollSample, PollApply, mapVars
<1>2. ASSUME NEW p \in Probers, ProbeAnswer(p) PROVE QueueHoldsItsItems'
  BY <1>2, KeptQueueMatches DEF ProbeAnswer, mapVars
<1>3. ASSUME NEW f \in flight, Post(f) PROVE QueueHoldsItsItems'
  BY <1>3, KeptQueueMatches DEF Post, mapVars
<1>. QED BY <1>1, <1>2, <1>3, ResumeHolds, SettleHolds DEF BackendStep

(* The queue never holds an item twice nor more than MaxQueue items, and a status tells whether *)
(* its item is in the queue, through inserts, moves, trims, removals and confirmations.          *)
THEOREM QueueHoldsItsItemsAlways == Spec => []QueueHoldsItsItems
<1>1. Init => QueueHoldsItsItems
  <2>. SUFFICES ASSUME Init PROVE QueueHoldsItsItems
    OBVIOUS
  <2>1. Len(queue) = 0 /\ ToSet(queue) = {} /\ \A i \in Ids : status[i] = "new"
    BY DEF Init, ToSet
  <2>2. MaxQueue \in Nat
    BY ConstantsAssumption
  <2>. QED BY <2>1, <2>2 DEF QueueHoldsItsItems
<1>2. TypeOK /\ QueueHoldsItsItems /\ [Next]_vars => QueueHoldsItsItems'
  <2>1. ASSUME QueueHoldsItsItems, UNCHANGED vars PROVE QueueHoldsItsItems'
    BY <2>1, KeptQueueMatches DEF vars, mapVars
  <2>2. ASSUME QueueHoldsItsItems, OpencodeStep PROVE QueueHoldsItsItems'
    BY <2>2, KeptQueueMatches DEF OpencodeStep, ExternalTurn, TurnShows, TurnEnds, mapVars
  <2>3. ASSUME TypeOK, QueueHoldsItsItems, Next PROVE QueueHoldsItsItems'
    BY <2>2, <2>3, UserHolds, BackendHolds, ResumeHolds DEF Next
  <2>. QED BY <2>1, <2>3
<1>. QED BY <1>1, <1>2, TypeCorrect, PTL DEF Spec
-----------------------------------------------------------------------------
(* The requests. *)

(* What a step may do to the requests. *)
CutAll == ctrl /\ ctrl' = ctrl /\ flight' = {[f EXCEPT !.cut = TRUE] : f \in flight}
KeepRequests == ctrl' = ctrl /\ flight' = flight

LEMMA RequestSteps ==
    ASSUME [Next]_vars
    PROVE  \/ KeepRequests \/ AbortInFlight \/ CutAll
           \/ \E p \in Probers : ResumeDispatch(p)
           \/ \E f \in flight : Post(f) \/ Settled(f)
           \/ TurnEnds
<1>. DEFINE Goal == \/ KeepRequests \/ AbortInFlight \/ CutAll
                    \/ \E p \in Probers : ResumeDispatch(p)
                    \/ \E f \in flight : Post(f) \/ Settled(f)
                    \/ TurnEnds
<1>1. ASSUME UNCHANGED vars PROVE Goal
  BY <1>1 DEF vars, sendVars, KeepRequests
<1>2. ASSUME UserStep PROVE Goal
  BY <1>2 DEF UserStep, Enqueue, EnqueueResend, RemoveQueued, Retry, Move, UpdateModel, Clear,
              ClearSendingOnAbort, SetPaused, SetQuickMode, DirectSendDelivered, sendVars, KeepRequests
<1>3. ASSUME NEW p \in Probers, ResumeProbe(p) PROVE Goal
  <2>1. CASE ResumeRelease(p)
    BY <2>1 DEF ResumeRelease, CutAll, KeepRequests
  <2>. QED
    BY <1>3, <2>1 DEF ResumeProbe, ResumeBusy, ResumeConfirm, ResumeGiveUp, sendVars, KeepRequests
<1>4. ASSUME NEW f \in flight, Settle(f) PROVE Settled(f)
  BY <1>4 DEF Settle, SettleDiscarded, SettleSent, SettleRejected, SettleTransient, SettleHang, SettleCut
<1>5. ASSUME BackendStep PROVE Goal
  <2>1. CASE DelayedFlush \/ AbortExpire \/ BackoffExpire \/ GraceExpire \/ PollSample \/ PollApply
    BY <2>1 DEF DelayedFlush, AbortExpire, BackoffExpire, GraceExpire, PollSample, PollApply, sendVars, KeepRequests
  <2>2. CASE SweepAbort
    BY <2>2 DEF SweepAbort
  <2>3. ASSUME NEW p \in Probers, ProbeAnswer(p) PROVE Goal
    BY <2>3 DEF ProbeAnswer, sendVars, KeepRequests
  <2>. QED BY <1>3, <1>4, <1>5, <2>1, <2>2, <2>3 DEF BackendStep
<1>6. ASSUME OpencodeStep PROVE Goal
  BY <1>6 DEF OpencodeStep, ExternalTurn, TurnShows, sendVars, KeepRequests
<1>. QED BY <1>1, <1>2, <1>3, <1>5, <1>6 DEF Next

(* Cutting and moving on keep the requests one for one. *)
LEMMA CutAllFacts ==
    ASSUME FlightTypeOK, flight' = {[f EXCEPT !.cut = TRUE] : f \in flight}
    PROVE  /\ \A f \in flight' : f.cut /\ \E g \in flight : g.id = f.id
           /\ \A g \in flight : \E f \in flight' : g.id = f.id
<1>1. \A g \in flight : [g EXCEPT !.cut = TRUE].cut /\ [g EXCEPT !.cut = TRUE].id = g.id
  BY DEF FlightTypeOK, Flight
<1>. QED BY <1>1

LEMMA MovedOnFacts ==
    ASSUME FlightTypeOK, TurnEnds \/ \E f \in flight : Post(f)
    PROVE  /\ \A f \in flight' : \E g \in flight : g.id = f.id /\ g.cut = f.cut
           /\ \A g \in flight : \E f \in flight' : g.id = f.id
<1>1. ASSUME NEW g \in flight, NEW s
      PROVE  [g EXCEPT !.stage = s].id = g.id /\ [g EXCEPT !.stage = s].cut = g.cut
  BY DEF FlightTypeOK, Flight
<1>2. CASE TurnEnds
  <2>. DEFINE moved(f) == IF f.stage = "wire" THEN [f EXCEPT !.stage = "done"] ELSE f
  <2>1. flight' = {moved(f) : f \in flight}
    BY <1>2 DEF TurnEnds
  <2>2. \A g \in flight : moved(g).id = g.id /\ moved(g).cut = g.cut
    BY <1>1
  <2>. QED BY <2>1, <2>2
<1>3. ASSUME NEW f \in flight, Post(f)
      PROVE  /\ \A h \in flight' : \E g \in flight : g.id = h.id /\ g.cut = h.cut
             /\ \A g \in flight : \E h \in flight' : g.id = h.id
  <2>1. flight' = (flight \ {f}) \cup {[f EXCEPT !.stage = StageAfterPost(f.id)]}
    BY <1>3 DEF Post
  <2>. DEFINE posted_f == [f EXCEPT !.stage = StageAfterPost(f.id)]
  <2>2. posted_f.id = f.id /\ posted_f.cut = f.cut
    BY <1>1
  <2>3. flight' = (flight \ {f}) \cup {posted_f}
    BY <2>1
  <2>. HIDE DEF posted_f
  <2>. QED BY <2>2, <2>3
<1>. QED BY <1>2, <1>3

(* AbortReachesSend is inductive given SingleDispatch. *)
LEMMA AbortReachesStep ==
    ASSUME TypeOK, SingleDispatch, AbortReachesSend, [Next]_vars
    PROVE  AbortReachesSend'
<1>. FlightTypeOK
  BY DEF TypeOK
<1>1. CASE KeepRequests
  BY <1>1 DEF KeepRequests, AbortReachesSend
<1>2. CASE AbortInFlight
  <2>1. CASE ctrl
    BY <1>2, <2>1, CutAllFacts DEF AbortInFlight, AbortReachesSend
  <2>2. CASE ~ ctrl
    BY <1>2, <2>2 DEF AbortInFlight, AbortReachesSend
  <2>. QED BY <2>1, <2>2
<1>3. CASE CutAll
  BY <1>3, CutAllFacts DEF CutAll, AbortReachesSend
<1>4. ASSUME NEW p \in Probers, ResumeDispatch(p) PROVE AbortReachesSend'
  <2>1. flight = {}
    BY <1>4 DEF ResumeDispatch, MaySend, SingleDispatch
  <2>2. flight' = {[id |-> probe[p].id, stage |-> "prep", cut |-> FALSE]}
        /\ ctrl' = (ctrl \/ KindOf[probe[p].id] = "chat")
    BY <1>4, <2>1 DEF ResumeDispatch
  <2>3. ~ ctrl
    BY <2>1 DEF AbortReachesSend
  <2>4. \A f \in flight' : f.id = probe[p].id
    BY <2>2
  <2>5. flight' # {}
    BY <2>2
  <2>. QED BY <2>2, <2>3, <2>4, <2>5 DEF AbortReachesSend
<1>5. CASE TurnEnds \/ \E f \in flight : Post(f)
  <2>1. ctrl' = ctrl
    BY <1>5 DEF TurnEnds, Post
  <2>. QED BY <1>5, <2>1, MovedOnFacts DEF AbortReachesSend
<1>6. ASSUME NEW f \in flight, Settled(f) PROVE AbortReachesSend'
  <2>1. flight' = {} /\ ctrl' = FALSE
    BY <1>6 DEF Settled, SingleDispatch
  <2>. QED BY <2>1 DEF AbortReachesSend
<1>. QED BY <1>1, <1>2, <1>3, <1>4, <1>5, <1>6, RequestSteps

(* The stop button reaches every chat on the wire, whatever retries and checks overlap. *)
THEOREM AbortReachesSendAlways == Spec => []AbortReachesSend
<1>1. Init => AbortReachesSend
  BY DEF Init, AbortReachesSend
<1>. QED BY <1>1, AbortReachesStep, TypeCorrect, SingleDispatchAlways, PTL DEF Spec

(* A dispatch is made by dispatchHead after its await, and by nothing else. *)
LEMMA OnlyResumeDispatches ==
    ASSUME FlightTypeOK, [Next]_vars, NEW f \in Dispatched
    PROVE  \E p \in Probers : ResumeDispatch(p) /\ f.id = probe[p].id
<1>1. f \in flight' \ flight /\ f.stage = "prep" /\ ~ f.cut
  BY DEF Dispatched
<1>2. ~ KeepRequests
  BY <1>1 DEF KeepRequests
<1>3. ~ AbortInFlight /\ ~ CutAll
  BY <1>1, CutAllFacts DEF AbortInFlight, CutAll
<1>4. ~ TurnEnds
  <2>. SUFFICES ASSUME TurnEnds PROVE FALSE
    OBVIOUS
  <2>1. PICK g \in flight : f = IF g.stage = "wire" THEN [g EXCEPT !.stage = "done"] ELSE g
    BY <1>1 DEF TurnEnds
  <2>2. [g EXCEPT !.stage = "done"].stage = "done"
    BY DEF FlightTypeOK, Flight
  <2>. QED BY <1>1, <2>1, <2>2
<1>5. ASSUME NEW g \in flight, Post(g) PROVE FALSE
  <2>1. [g EXCEPT !.stage = StageAfterPost(g.id)].stage # "prep"
    BY DEF FlightTypeOK, Flight, StageAfterPost
  <2>. QED BY <1>1, <1>5, <2>1 DEF Post
<1>6. ASSUME NEW g \in flight, Settled(g) PROVE FALSE
  BY <1>1, <1>6 DEF Settled
<1>7. PICK p \in Probers : ResumeDispatch(p)
  BY <1>2, <1>3, <1>4, <1>5, <1>6, RequestSteps
<1>8. f = [id |-> probe[p].id, stage |-> "prep", cut |-> FALSE]
  BY <1>1, <1>7 DEF ResumeDispatch
<1>. QED BY <1>7, <1>8

(* A pause, a failure or another dispatch that came during the idle check stops the dispatch. *)
THEOREM NoDispatchWhileHeldAlways == Spec => NoDispatchWhileHeld
<1>1. TypeOK /\ [Next]_vars => [Dispatched # {} => ~ paused /\ ~ backoff /\ ~ inFlight]_vars
  <2>. SUFFICES ASSUME TypeOK, [Next]_vars, NEW f \in Dispatched PROVE ~ paused /\ ~ backoff /\ ~ inFlight
    OBVIOUS
  <2>. QED BY OnlyResumeDispatches DEF TypeOK, ResumeDispatch, MaySend
<1>. QED BY <1>1, TypeCorrect, PTL DEF Spec, NoDispatchWhileHeld

(* Licences.  An item that waits has leave to be sent, whatever checks overlap. *)
WaitingIsLicensed == \A i \in Ids : status[i] = "queued" => i \in licence

(* Steps that queue nothing without a licence, and take none away. *)
LEMMA QuietLicensed ==
    ASSUME WaitingIsLicensed, licence \subseteq licence',
           \A i \in Ids : status'[i] = "queued" => status[i] = "queued" \/ i \in licence'
    PROVE  WaitingIsLicensed'
BY DEF WaitingIsLicensed

(* The handlers of the routes, then the rest, license what they queue. *)
LEMMA UserLicensed ==
    ASSUME TypeOK, TypeOK', WaitingIsLicensed, UserStep
    PROVE  WaitingIsLicensed'
<1>. /\ ProbeTypeOK /\ MapTypeOK' /\ status \in [Ids -> Status] /\ licence \subseteq Ids /\ queue \in Seq(Ids)
  BY DEF TypeOK, MapTypeOK, Status
<1>1. ASSUME NEW id \in Ids, NEW toTop \in BOOLEAN, Enqueue(id, toTop) PROVE WaitingIsLicensed'
  BY <1>1 DEF Enqueue, Retire, WaitingIsLicensed
<1>2. ASSUME NEW op \in Ids, NEW chat \in Ids, EnqueueResend(op, chat) PROVE WaitingIsLicensed'
  BY <1>2 DEF EnqueueResend, Retire, WaitingIsLicensed
<1>3. ASSUME NEW k \in 1..Len(queue), RemoveQueued(k) PROVE WaitingIsLicensed'
  BY <1>3, QuietLicensed DEF RemoveQueued, Retire, ghostVars
<1>4. ASSUME NEW k \in 1..Len(queue), Retry(k) PROVE WaitingIsLicensed'
  BY <1>4 DEF Retry, WaitingIsLicensed
<1>5. ASSUME NEW k \in 1..Len(queue), NEW toTop \in BOOLEAN, Move(k, toTop) PROVE WaitingIsLicensed'
  BY <1>5, QuietLicensed DEF Move, ghostVars
<1>6. CASE UpdateModel
  <2>1. licence \subseteq licence'
        /\ \A i \in Ids : status'[i] = "queued" => status[i] = "queued" \/ i \in licence'
    BY <1>6 DEF UpdateModel
  <2>. QED BY <2>1, QuietLicensed
<1>7. CASE Clear
  BY <1>7, QuietLicensed DEF Clear, Retire, ghostVars
<1>8. CASE ClearSendingOnAbort
  BY <1>8, QuietLicensed DEF ClearSendingOnAbort, Retire, ghostVars
<1>9. CASE SetPaused
  BY <1>9 DEF SetPaused, mapVars, ghostVars, WaitingIsLicensed
<1>10. CASE SetQuickMode
  BY <1>10, QuietLicensed DEF SetQuickMode, mapVars, ghostVars
<1>11. ASSUME NEW id \in Ids, DirectSendDelivered(TextOf[id]) PROVE WaitingIsLicensed'
  BY <1>11, QuietLicensed DEF DirectSendDelivered, DropDuplicates, Retire, ghostVars
<1>. QED
  BY <1>1, <1>2, <1>3, <1>4, <1>5, <1>6, <1>7, <1>8, <1>9, <1>10, <1>11 DEF UserStep

(* Only a dispatch uses a licence up, and its item does not wait any more. *)
LEMMA ResumeLicensed ==
    ASSUME TypeOK, WaitingIsLicensed, NEW p \in Probers, ResumeProbe(p)
    PROVE  WaitingIsLicensed'
<1>1. CASE ResumeDispatch(p)
  <2>1. \A i \in Ids : status'[i] = "queued" => status[i] = "queued" /\ i # probe[p].id
    BY <1>1 DEF ResumeDispatch, TypeOK, MapTypeOK
  <2>2. licence' = licence \ {probe[p].id}
    BY <1>1 DEF ResumeDispatch
  <2>. QED BY <2>1, <2>2 DEF WaitingIsLicensed
<1>2. CASE ~ ResumeDispatch(p)
  <2>1. licence' = licence /\ \A i \in Ids : status'[i] = "queued" => status[i] = "queued"
    BY <1>2 DEF ResumeProbe, ResumeBusy, ResumeRelease, ResumeConfirm, ResumeGiveUp, Retire, mapVars, ghostVars
  <2>. QED BY <2>1 DEF WaitingIsLicensed
<1>. QED BY <1>1, <1>2

LEMMA BackendLicensed ==
    ASSUME TypeOK, TypeOK', WaitingIsLicensed, BackendStep
    PROVE  WaitingIsLicensed'
<1>. /\ ProbeTypeOK /\ MapTypeOK' /\ status \in [Ids -> Status] /\ queue \in Seq(Ids)
  BY DEF TypeOK, MapTypeOK, Status
<1>1. CASE SweepAbort \/ AbortExpire \/ BackoffExpire \/ GraceExpire \/ PollSample
  BY <1>1, QuietLicensed
     DEF SweepAbort, AbortExpire, BackoffExpire, GraceExpire, PollSample, mapVars, ghostVars
<1>2. CASE DelayedFlush \/ PollApply
  BY <1>2 DEF DelayedFlush, PollApply, mapVars, ghostVars, WaitingIsLicensed
<1>3. ASSUME NEW p \in Probers, ProbeAnswer(p) PROVE WaitingIsLicensed'
  BY <1>3 DEF ProbeAnswer, mapVars, ghostVars, WaitingIsLicensed
<1>4. ASSUME NEW f \in flight, Post(f) PROVE WaitingIsLicensed'
  BY <1>4, QuietLicensed DEF Post, mapVars
<1>5. ASSUME NEW f \in flight, Settle(f) PROVE WaitingIsLicensed'
  <2>2. licence \subseteq licence'
    BY <1>5 DEF Settle, SettleDiscarded, SettleSent, SettleRejected, SettleTransient, SettleHang, SettleCut
  <2>3. \A i \in Ids : status'[i] = "queued" => status[i] = "queued" \/ i \in licence'
    <3>1. CASE SettleDiscarded(f) \/ SettleHang(f) \/ SettleCut(f)
      BY <3>1 DEF SettleDiscarded, SettleHang, SettleCut
    <3>2. CASE SettleRejected(f)
      BY <3>2 DEF SettleRejected, HeadBecomes
    <3>3. CASE SettleTransient(f)
      BY <3>3 DEF SettleTransient, HeadBecomes
    <3>4. CASE SettleSent(f)
      BY <3>4 DEF SettleSent, DropDuplicates, Retire
    <3>. QED BY <1>5, <3>1, <3>2, <3>3, <3>4 DEF Settle
  <2>. QED BY <2>2, <2>3, QuietLicensed
<1>. QED BY <1>1, <1>2, <1>3, <1>4, <1>5, ResumeLicensed DEF BackendStep

LEMMA LicensedStep ==
    ASSUME TypeOK, TypeOK', WaitingIsLicensed, [Next]_vars
    PROVE  WaitingIsLicensed'
<1>1. ASSUME UNCHANGED vars PROVE WaitingIsLicensed'
  BY <1>1 DEF WaitingIsLicensed, vars, mapVars, ghostVars
<1>2. ASSUME OpencodeStep PROVE WaitingIsLicensed'
  BY <1>2, QuietLicensed DEF OpencodeStep, ExternalTurn, TurnShows, TurnEnds, mapVars, ghostVars
<1>. QED BY <1>1, <1>2, UserLicensed, BackendLicensed, ResumeLicensed DEF Next

(* Whatever checks overlap, an item that is dispatched while it waits was licensed: only a check *)
(* older than the item's last dispatch, which finds it failed, can send what nothing allowed.    *)
THEOREM WaitingSendIsAlwaysLicensed == Spec => WaitingSendIsLicensed
<1>1. Init => WaitingIsLicensed
  BY DEF Init, WaitingIsLicensed
<1>2. TypeOK /\ WaitingIsLicensed /\ [Next]_vars
        => [\A f \in Dispatched : status[f.id] = "queued" => f.id \in licence]_vars
  <2>. SUFFICES ASSUME TypeOK, WaitingIsLicensed, [Next]_vars, NEW f \in Dispatched, status[f.id] = "queued"
                PROVE  f.id \in licence
    OBVIOUS
  <2>1. PICK p \in Probers : ResumeDispatch(p) /\ f.id = probe[p].id
    BY OnlyResumeDispatches DEF TypeOK
  <2>2. f.id \in Ids
    BY <2>1 DEF TypeOK, ProbeTypeOK, Probe, ResumeDispatch, Resume, Resumable
  <2>. QED BY <2>2 DEF WaitingIsLicensed
<1>. QED BY <1>1, <1>2, LicensedStep, TypeCorrect, PTL DEF Spec, WaitingSendIsLicensed

-----------------------------------------------------------------------------
(* The outcomes. *)

(* What a step may do to a status. *)
LEMMA StatusSteps ==
    ASSUME TypeOK, QueueHoldsItsItems, [Next]_vars, NEW i \in Ids
    PROVE  /\ status[i] # "new" => status'[i] # "new"
           /\ status[i] = "gone" => status'[i] = "gone"
<1>. DEFINE Goal == /\ status[i] # "new" => status'[i] # "new"
                    /\ status[i] = "gone" => status'[i] = "gone"
<1>. status \in [Ids -> Status]
  BY QueueFacts
<1>0. \A k \in 1..Len(queue) : status[queue[k]] # "gone" /\ status[queue[k]] # "new"
  BY QueueFacts DEF Waiting
<1>1. CASE status' = status
  BY <1>1
<1>2. ASSUME NEW q, status' = Retire(status, q) PROVE Goal
  BY <1>2 DEF Retire
<1>3. ASSUME UserStep PROVE Goal
  <2>1. ASSUME NEW id \in Ids, NEW toTop \in BOOLEAN, Enqueue(id, toTop) PROVE Goal
    BY <2>1 DEF Enqueue, Retire
  <2>2. ASSUME NEW op \in Ids, NEW chat \in Ids, EnqueueResend(op, chat) PROVE Goal
    BY <2>2 DEF EnqueueResend, Retire
  <2>3. ASSUME NEW k \in 1..Len(queue), RemoveQueued(k) PROVE Goal
    BY <1>2, <2>3 DEF RemoveQueued
  <2>4. ASSUME NEW k \in 1..Len(queue), Retry(k) PROVE Goal
    BY <1>0, <2>4 DEF Retry
  <2>5. ASSUME NEW k \in 1..Len(queue), NEW toTop \in BOOLEAN, Move(k, toTop) PROVE Goal
    BY <2>5 DEF Move
  <2>6. CASE UpdateModel
    BY <2>6 DEF UpdateModel
  <2>7. CASE Clear \/ ClearSendingOnAbort
    BY <1>2, <2>7 DEF Clear, ClearSendingOnAbort
  <2>8. CASE SetPaused \/ SetQuickMode
    BY <2>8 DEF SetPaused, SetQuickMode, mapVars
  <2>9. ASSUME NEW id \in Ids, DirectSendDelivered(TextOf[id]) PROVE Goal
    BY <1>2, <2>9 DEF DirectSendDelivered, DropDuplicates
  <2>. QED BY <1>3, <2>1, <2>2, <2>3, <2>4, <2>5, <2>6, <2>7, <2>8, <2>9 DEF UserStep
<1>4. ASSUME NEW p \in Probers, ResumeProbe(p) PROVE Goal
  <2>1. CASE ResumeConfirm(p)
    BY <1>2, <2>1 DEF ResumeConfirm
  <2>2. CASE ResumeDispatch(p)
    <3>1. IsHead(probe[p].id) /\ status' = [status EXCEPT ![probe[p].id] = "sending"]
      BY <2>2 DEF ResumeDispatch, MaySend
    <3>2. status[probe[p].id] # "gone"
      BY <1>0, <3>1, QueueFacts DEF IsHead, HasHead
    <3>. QED BY <3>1, <3>2
  <2>3. CASE ResumeBusy(p) \/ ResumeRelease(p) \/ ResumeGiveUp(p)
    BY <2>3 DEF ResumeBusy, ResumeRelease, ResumeGiveUp, mapVars
  <2>. QED BY <1>4, <2>1, <2>2, <2>3 DEF ResumeProbe
<1>5. ASSUME NEW f \in flight, Settle(f) PROVE Goal
  <2>1. ASSUME NEW s \in {"failed", "queued"}, status' = HeadBecomes(f, s) PROVE Goal
    <3>1. CASE IsHead(f.id)
      <4>1. status[f.id] # "gone"
        BY <1>0, <3>1, QueueFacts DEF IsHead, HasHead
      <4>. QED BY <2>1, <3>1, <4>1 DEF HeadBecomes
    <3>2. CASE ~ IsHead(f.id)
      BY <2>1, <3>2 DEF HeadBecomes
    <3>. QED BY <3>1, <3>2
  <2>2. CASE SettleRejected(f) \/ SettleTransient(f)
    BY <2>1, <2>2 DEF SettleRejected, SettleTransient
  <2>3. CASE SettleSent(f)
    BY <1>2, <2>3 DEF SettleSent, DropDuplicates
  <2>4. CASE SettleDiscarded(f) \/ SettleHang(f) \/ SettleCut(f)
    BY <2>4 DEF SettleDiscarded, SettleHang, SettleCut
  <2>. QED BY <1>5, <2>2, <2>3, <2>4 DEF Settle
<1>6. ASSUME BackendStep PROVE Goal
  <2>1. CASE DelayedFlush \/ SweepAbort \/ AbortExpire \/ BackoffExpire \/ GraceExpire \/ PollSample \/ PollApply
    BY <2>1 DEF DelayedFlush, SweepAbort, AbortExpire, BackoffExpire, GraceExpire, PollSample, PollApply, mapVars
  <2>2. ASSUME NEW p \in Probers, ProbeAnswer(p) PROVE Goal
    BY <2>2 DEF ProbeAnswer, mapVars
  <2>3. ASSUME NEW f \in flight, Post(f) PROVE Goal
    BY <2>3 DEF Post, mapVars
  <2>. QED BY <1>4, <1>5, <1>6, <2>1, <2>2, <2>3 DEF BackendStep
<1>7. ASSUME UNCHANGED vars \/ OpencodeStep PROVE Goal
  BY <1>7 DEF vars, OpencodeStep, ExternalTurn, TurnShows, TurnEnds, mapVars
<1>. QED BY <1>3, <1>4, <1>6, <1>7 DEF Next

(* i is the head and being sent. *)
SendingHead(i) == IsHead(i) /\ status[i] = "sending"

(* A step that appends to a full queue, which shifts the head off. *)
Shift == \E id \in Ids : Enqueue(id, FALSE) /\ Len(queue) = MaxQueue

(* While a chat's request is neither cut nor settled its item keeps the head of the queue. *)
LEMMA HeadStays ==
    ASSUME TypeOK, SingleDispatch, QueueHoldsItsItems, AbortReachesSend, [Next]_vars,
           NEW g \in flight, KindOf[g.id] = "chat", ~ g.cut, SendingHead(g.id),
           NEW h \in flight', ~ h.cut
    PROVE  SendingHead(g.id)' \/ (Shift /\ g.id \notin ToSet(queue'))
<1>. DEFINE i == g.id
            Goal == SendingHead(i)' \/ (Shift /\ i \notin ToSet(queue'))
<1>. FlightTypeOK /\ status \in [Ids -> Status] /\ i \in Ids
  BY QueueFacts DEF TypeOK, FlightTypeOK, Flight
<1>0. /\ ctrl /\ inFlight /\ queue # <<>> /\ queue[1] = i /\ status[i] = "sending" /\ HeadLocked /\ Slot = 2
      /\ 1 \in 1..Len(queue) /\ i \in ToSet(queue) /\ \A k \in 1..Len(queue) : queue[k] = i => k = 1
  BY QueueFacts DEF AbortReachesSend, SingleDispatch, SendingHead, IsHead, HasHead, HeadLocked, Slot, Distinct
<1>1. ~ AbortInFlight /\ ~ CutAll
  BY <1>0, CutAllFacts DEF AbortInFlight, CutAll
<1>2. ASSUME NEW st \in [Ids -> Status], st[i] = "sending", queue' \in Seq(Ids), queue' # <<>>, queue'[1] = i,
             status' = Retire(st, queue')
      PROVE  Goal
  <2>1. i \in ToSet(queue')
    BY <1>2 DEF ToSet
  <2>. QED BY <1>2, <2>1 DEF Retire, SendingHead, IsHead, HasHead
<1>3. ASSUME queue' = queue, status'[i] = "sending" PROVE Goal
  BY <1>0, <1>3 DEF SendingHead, IsHead, HasHead
<1>4. ASSUME NEW id \in Ids, NEW toTop \in BOOLEAN, Enqueue(id, toTop) PROVE Goal
  <2>. DEFINE st == [status EXCEPT ![id] = "queued"]
              q == IF toTop THEN InsertAt(queue, 2, id) ELSE Append(queue, id)
  <2>1. id # i /\ st \in [Ids -> Status] /\ st[i] = "sending"
    BY <1>0, <1>4 DEF Enqueue, Status
  <2>2. queue' = (IF toTop THEN KeepOldest(q) ELSE KeepNewest(q)) /\ status' = Retire(st, queue')
    BY <1>0, <1>4 DEF Enqueue
  <2>3. id \notin ToSet(queue)
    BY <1>4, QueueFacts DEF Enqueue, Waiting
  <2>9. (toTop => q = InsertAt(queue, 2, id)) /\ (~ toTop => q = Append(queue, id))
    OBVIOUS
  <2>. HIDE DEF q, st
  <2>4. q \in Seq(Ids) /\ Distinct(q) /\ q # <<>> /\ q[1] = i /\ Len(q) = Len(queue) + 1
    <3>1. CASE toTop
      <4>1. 2 \in 1..(Len(queue) + 1) /\ 1 \in 1..(Len(queue) + 1)
        BY <1>0, QueueFacts
      <4>2. InsertAt(queue, 2, id) \in Seq(Ids) /\ Distinct(InsertAt(queue, 2, id))
        BY <2>3, <4>1, QueueFacts, InsertAtType, InsertAtSet
      <4>3. Len(InsertAt(queue, 2, id)) = Len(queue) + 1 /\ InsertAt(queue, 2, id)[1] = queue[1]
        BY <4>1, QueueFacts, InsertAtEffect
      <4>4. q # <<>>
        BY <2>9, <3>1, <4>3, QueueFacts
      <4>. QED BY <1>0, <2>9, <3>1, <4>2, <4>3, <4>4
    <3>2. CASE ~ toTop
      <4>1. queue \in Seq(Ids) /\ queue # <<>>
        BY <1>0, QueueFacts
      <4>2. Append(queue, id) \in Seq(Ids) /\ Append(queue, id) # <<>> /\ Append(queue, id)[1] = queue[1]
            /\ Len(Append(queue, id)) = Len(queue) + 1
        BY <4>1
      <4>3. Distinct(Append(queue, id))
        BY <2>3, QueueFacts, AppendSet
      <4>. QED BY <1>0, <2>9, <3>2, <4>2, <4>3
    <3>. QED BY <3>1, <3>2
  <2>5. queue' \in Seq(Ids)
    BY <2>2, <2>4, KeepType
  <2>6. CASE toTop
    <3>1. queue' # <<>> /\ queue'[1] = i
      BY <2>2, <2>4, <2>6, KeepEffect
    <3>. QED BY <1>2, <2>1, <2>2, <2>5, <3>1
  <2>7. CASE ~ toTop /\ Len(queue) < MaxQueue
    <3>1. Len(q) <= MaxQueue
      BY <2>4, <2>7, QueueFacts
    <3>2. queue' = q
      BY <2>2, <2>4, <2>7, <3>1, KeepEffect
    <3>. QED BY <1>2, <2>1, <2>2, <2>4, <3>2
  <2>8. CASE ~ toTop /\ Len(queue) >= MaxQueue
    <3>1. Len(q) > MaxQueue /\ Len(queue) = MaxQueue
      BY <2>4, <2>8, QueueFacts
    <3>2. i \notin ToSet(queue')
      BY <2>2, <2>4, <2>8, <3>1, KeepEffect
    <3>. QED BY <1>4, <2>8, <3>1, <3>2 DEF Shift
  <2>. QED BY <2>6, <2>7, <2>8, QueueFacts
<1>5. ASSUME NEW op \in Ids, NEW chat \in Ids, EnqueueResend(op, chat) PROVE Goal
  <2>. DEFINE st == [status EXCEPT ![op] = "queued", ![chat] = "queued"]
              q1 == InsertAt(queue, 2, chat)
              q2 == InsertAt(q1, 2, op)
  <2>1. op # i /\ chat # i /\ op # chat /\ st \in [Ids -> Status] /\ st[i] = "sending"
    BY <1>0, <1>5 DEF EnqueueResend, Status
  <2>2. queue' = KeepOldest(q2) /\ status' = Retire(st, queue')
    BY <1>0, <1>5 DEF EnqueueResend
  <2>3. op \notin ToSet(queue) /\ chat \notin ToSet(queue)
    BY <1>5, QueueFacts DEF EnqueueResend, Waiting
  <2>4. 2 \in 1..(Len(queue) + 1) /\ 1 \in 1..(Len(queue) + 1)
    BY <1>0, QueueFacts
  <2>5. q1 \in Seq(Ids) /\ Distinct(q1) /\ Len(q1) = Len(queue) + 1 /\ ToSet(q1) = ToSet(queue) \cup {chat}
    BY <2>3, <2>4, QueueFacts, InsertAtType, InsertAtSet, InsertAtEffect
  <2>6. q1[1] = queue[1]
    BY <2>4, QueueFacts, InsertAtEffect
  <2>7. 2 \in 1..(Len(q1) + 1) /\ 1 \in 1..(Len(q1) + 1)
    BY <2>4, <2>5, QueueFacts
  <2>. HIDE DEF q1
  <2>8. q2 \in Seq(Ids) /\ Distinct(q2) /\ Len(q2) = Len(q1) + 1
    BY <2>1, <2>3, <2>5, <2>7, InsertAtType, InsertAtSet, InsertAtEffect
  <2>9. q2[1] = q1[1]
    <3>1. \A j \in 1..(Len(q1) + 1) :
            InsertAt(q1, 2, op)[j] = IF j < 2 THEN q1[j] ELSE IF j = 2 THEN op ELSE q1[j - 1]
      BY <2>5, <2>7, InsertAtEffect
    <3>. QED BY <2>7, <3>1
  <2>. HIDE DEF q2, st
  <2>10. q2 # <<>>
    BY <2>5, <2>8, QueueFacts
  <2>11. queue' \in Seq(Ids) /\ queue' # <<>> /\ queue'[1] = i
    BY <1>0, <2>2, <2>6, <2>8, <2>9, <2>10, KeepType, KeepEffect
  <2>. QED BY <1>2, <2>1, <2>2, <2>11
<1>6. ASSUME NEW k \in 1..Len(queue), RemoveQueued(k) PROVE Goal
  <2>1. status[queue[k]] # "sending" /\ queue' = RemoveAt(queue, k) /\ status' = Retire(status, queue')
    BY <1>1, <1>6 DEF RemoveQueued
  <2>2. k \in 1..Len(queue) /\ k # 1 /\ 1 \in 1..(Len(queue) - 1) /\ 1 < k
    BY <1>0, <2>1, QueueFacts
  <2>3. Len(queue') = Len(queue) - 1 /\ queue' \in Seq(Ids) /\ queue'[1] = queue[1]
    <3>1. queue \in Seq(Ids)
      BY QueueFacts
    <3>2. RemoveAt(queue, k) \in Seq(Ids)
      BY <2>2, <3>1, RemoveAtType
    <3>3. /\ Len(RemoveAt(queue, k)) = Len(queue) - 1
          /\ RemoveAt(queue, k)[1] = IF 1 < k THEN queue[1] ELSE queue[1 + 1]
      BY <2>2, <3>1, RemoveAtEffect
    <3>. QED BY <2>1, <2>2, <3>2, <3>3
  <2>4. queue' # <<>>
    BY <2>2, <2>3
  <2>. QED BY <1>0, <1>2, <2>1, <2>3, <2>4
<1>7. ASSUME NEW k \in 1..Len(queue), Retry(k) PROVE Goal
  <2>1. status[queue[k]] # "sending" /\ queue' = queue /\ status' = [status EXCEPT ![queue[k]] = "queued"]
    BY <1>1, <1>7 DEF Retry
  <2>. QED BY <1>0, <1>3, <2>1
<1>8. ASSUME NEW k \in 1..Len(queue), NEW toTop \in BOOLEAN, Move(k, toTop) PROVE Goal
  <2>1. queue' # <<>> /\ queue'[1] = queue[1] /\ status' = status
    BY <1>0, <1>8, MoveHolds DEF Move
  <2>. QED BY <1>0, <2>1 DEF SendingHead, IsHead, HasHead
<1>9. CASE UpdateModel
  <2>1. queue' = queue /\ status'[i] = status[i]
    BY <1>0, <1>9 DEF UpdateModel
  <2>. QED BY <1>0, <1>3, <2>1
<1>10. ~ Clear /\ ~ ClearSendingOnAbort /\ ~ SweepAbort
  BY <1>1 DEF Clear, ClearSendingOnAbort, SweepAbort
<1>11. CASE SetPaused \/ SetQuickMode
  BY <1>0, <1>3, <1>11 DEF SetPaused, SetQuickMode, mapVars
<1>12. ASSUME NEW id \in Ids, DirectSendDelivered(TextOf[id]) PROVE Goal
  <2>1. DropDuplicates(queue, status, TextOf[id])
    BY <1>12 DEF DirectSendDelivered
  <2>2. queue' \in Seq(Ids) /\ status' = Retire(status, queue') /\ i \in ToSet(queue')
    BY <1>0, <2>1, QueueFacts, DropDuplicatesEffect
  <2>3. queue' # <<>> /\ queue'[1] = i
    BY <1>0, <2>1, <2>2, QueueFacts, DropDuplicatesEffect
  <2>. QED BY <1>0, <1>2, <2>2, <2>3
<1>13. ASSUME UserStep PROVE Goal
  BY <1>4, <1>5, <1>6, <1>7, <1>8, <1>9, <1>10, <1>11, <1>12, <1>13 DEF UserStep
<1>14. ASSUME NEW p \in Probers, ResumeProbe(p) PROVE Goal
  <2>1. ~ ResumeConfirm(p) /\ ~ ResumeDispatch(p)
    BY <1>0 DEF ResumeConfirm, ResumeDispatch, MaySend
  <2>. QED
    BY <1>0, <1>3, <1>14, <2>1 DEF ResumeProbe, ResumeBusy, ResumeRelease, ResumeGiveUp, mapVars
<1>15. ASSUME NEW f \in flight, Settle(f) PROVE FALSE
  <2>1. Settled(f)
    BY <1>15 DEF Settle, SettleDiscarded, SettleSent, SettleRejected, SettleTransient, SettleHang, SettleCut
  <2>. QED BY <2>1 DEF Settled, SingleDispatch
<1>16. ASSUME BackendStep PROVE Goal
  <2>1. CASE DelayedFlush \/ AbortExpire \/ BackoffExpire \/ GraceExpire \/ PollSample \/ PollApply
    BY <1>0, <1>3, <2>1 DEF DelayedFlush, AbortExpire, BackoffExpire, GraceExpire, PollSample, PollApply, mapVars
  <2>2. ASSUME NEW p \in Probers, ProbeAnswer(p) PROVE Goal
    BY <1>0, <1>3, <2>2 DEF ProbeAnswer, mapVars
  <2>3. ASSUME NEW f \in flight, Post(f) PROVE Goal
    BY <1>0, <1>3, <2>3 DEF Post, mapVars
  <2>. QED BY <1>10, <1>14, <1>15, <1>16, <2>1, <2>2, <2>3 DEF BackendStep
<1>17. ASSUME UNCHANGED vars \/ OpencodeStep PROVE Goal
  BY <1>0, <1>3, <1>17 DEF vars, OpencodeStep, ExternalTurn, TurnShows, TurnEnds, mapVars
<1>. QED BY <1>13, <1>14, <1>16, <1>17 DEF Next

(* A request that is on its way after a step was on its way before, or the step dispatched it. *)
LEMMA RequestOrigin ==
    ASSUME TypeOK, SingleDispatch, QueueHoldsItsItems, [Next]_vars, NEW f \in flight'
    PROVE  \/ SendingHead(f.id)'
           \/ \E g \in flight : g.id = f.id /\ (~ f.cut => ~ g.cut)
<1>. FlightTypeOK
  BY DEF TypeOK
<1>1. CASE KeepRequests
  BY <1>1 DEF KeepRequests
<1>2. CASE AbortInFlight \/ CutAll
  BY <1>2, CutAllFacts DEF AbortInFlight, CutAll
<1>3. ASSUME NEW p \in Probers, ResumeDispatch(p) PROVE SendingHead(f.id)'
  <2>1. flight = {}
    BY <1>3 DEF ResumeDispatch, MaySend, SingleDispatch
  <2>2. f.id = probe[p].id
    BY <1>3, <2>1 DEF ResumeDispatch
  <2>3. queue' = queue /\ IsHead(f.id) /\ status' = [status EXCEPT ![f.id] = "sending"]
    BY <1>3, <2>2 DEF ResumeDispatch, MaySend
  <2>4. f.id \in Ids /\ status \in [Ids -> Status]
    BY <2>3, QueueFacts DEF IsHead, HasHead
  <2>. QED BY <2>3, <2>4 DEF SendingHead, IsHead, HasHead
<1>4. CASE TurnEnds \/ \E g \in flight : Post(g)
  BY <1>4, MovedOnFacts
<1>5. ASSUME NEW g \in flight, Settled(g) PROVE FALSE
  BY <1>5 DEF Settled, SingleDispatch
<1>. QED BY <1>1, <1>2, <1>3, <1>4, <1>5, RequestSteps

(* The items of requests have been queued once. *)
RequestsAreKnown == \A f \in flight : status[f.id] # "new"

LEMMA RequestsAreKnownStep ==
    ASSUME TypeOK, SingleDispatch, QueueHoldsItsItems, RequestsAreKnown, [Next]_vars
    PROVE  RequestsAreKnown'
<1>1. ASSUME NEW f \in flight' PROVE status'[f.id] # "new"
  <2>1. CASE SendingHead(f.id)'
    BY <2>1 DEF SendingHead
  <2>2. ASSUME NEW g \in flight, g.id = f.id PROVE status'[f.id] # "new"
    BY <2>2, StatusSteps DEF RequestsAreKnown, TypeOK, FlightTypeOK, Flight
  <2>. QED BY <2>1, <2>2, RequestOrigin
<1>. QED BY <1>1 DEF RequestsAreKnown

(* The item of an uncut request is the sending head or has left the queue for good. *)
LEMMA OutcomeFindsStep ==
    ASSUME TypeOK, SingleDispatch, QueueHoldsItsItems, QueueHoldsItsItems', AbortReachesSend,
           RequestsAreKnown, OutcomeFindsItsItem, [Next]_vars
    PROVE  OutcomeFindsItsItem'
<1>. SUFFICES ASSUME NEW f \in flight', KindOf[f.id] = "chat", ~ f.cut, f.id \in ToSet(queue')
              PROVE  SendingHead(f.id)'
  BY DEF OutcomeFindsItsItem, SendingHead
<1>1. ASSUME NEW g \in flight, g.id = f.id, ~ g.cut PROVE SendingHead(f.id)'
  <2>1. CASE SendingHead(g.id)
    BY <1>1, <2>1, HeadStays
  <2>2. CASE ~ SendingHead(g.id)
    <3>1. g.id \notin ToSet(queue) /\ g.id \in Ids
      BY <1>1, <2>2 DEF OutcomeFindsItsItem, SendingHead, TypeOK, FlightTypeOK, Flight
    <3>2. status[g.id] = "gone"
      BY <1>1, <3>1, QueueFacts DEF RequestsAreKnown, Waiting, Status
    <3>3. status'[g.id] = "gone"
      BY <3>1, <3>2, StatusSteps
    <3>. QED BY <1>1, <3>1, <3>3 DEF QueueHoldsItsItems
  <2>. QED BY <2>1, <2>2
<1>. QED BY <1>1, RequestOrigin

(* The outcome of a request that nobody has cut is recorded on the item it is about. *)
THEOREM OutcomeFindsItsItemAlways == Spec => []OutcomeFindsItsItem
<1>1. Init => RequestsAreKnown /\ OutcomeFindsItsItem
  BY DEF Init, RequestsAreKnown, OutcomeFindsItsItem
<1>. QED
  BY <1>1, RequestsAreKnownStep, OutcomeFindsStep, TypeCorrect, SingleDispatchAlways,
     QueueHoldsItsItemsAlways, AbortReachesSendAlways, PTL DEF Spec

(* ... and unless the queue overflows its item is there to be found. *)
UncutIsSending == \A f \in flight : KindOf[f.id] = "chat" /\ ~ f.cut => SendingHead(f.id)

LEMMA UncutIsSendingStep ==
    ASSUME TypeOK, SingleDispatch, QueueHoldsItsItems, AbortReachesSend, UncutIsSending, [Next]_vars, ~ Shift
    PROVE  UncutIsSending'
<1>. SUFFICES ASSUME NEW f \in flight', KindOf[f.id] = "chat", ~ f.cut
              PROVE  SendingHead(f.id)'
  BY DEF UncutIsSending
<1>. QED BY RequestOrigin, HeadStays DEF UncutIsSending

(* Only Post delivers a message to opencode. *)
LEMMA OnlyPostPosts ==
    ASSUME [Next]_vars, posted' # posted
    PROVE  \E f \in flight : Post(f)
<1>1. ~ UNCHANGED vars /\ ~ OpencodeStep
  BY DEF vars, ghostVars, OpencodeStep, ExternalTurn, TurnShows, TurnEnds
<1>2. ~ UserStep
  BY DEF UserStep, Enqueue, EnqueueResend, RemoveQueued, Retry, Move, UpdateModel, Clear,
         ClearSendingOnAbort, SetPaused, SetQuickMode, DirectSendDelivered, ghostVars
<1>3. ASSUME NEW p \in Probers, ResumeProbe(p) PROVE FALSE
  BY <1>3 DEF ResumeProbe, ResumeBusy, ResumeRelease, ResumeConfirm, ResumeDispatch, ResumeGiveUp, ghostVars
<1>4. ASSUME NEW f \in flight, Settle(f) PROVE FALSE
  BY <1>4 DEF Settle, SettleDiscarded, SettleSent, SettleRejected, SettleTransient, SettleHang, SettleCut, Settled
<1>5. ASSUME BackendStep PROVE \E f \in flight : Post(f)
  <2>1. ~ (DelayedFlush \/ SweepAbort \/ AbortExpire \/ BackoffExpire \/ GraceExpire \/ PollSample \/ PollApply)
    BY DEF DelayedFlush, SweepAbort, AbortExpire, BackoffExpire, GraceExpire, PollSample, PollApply, ghostVars
  <2>2. ASSUME NEW p \in Probers, ProbeAnswer(p) PROVE FALSE
    BY <2>2 DEF ProbeAnswer, ghostVars
  <2>. QED BY <1>3, <1>4, <1>5, <2>1, <2>2 DEF BackendStep
<1>. QED BY <1>1, <1>2, <1>3, <1>5 DEF Next

(* As long as no append overflows the queue, a chat that left the queue before it was posted is *)
(* never posted, unless it is a Slash chat: whoever removes the sending head cuts its request   *)
(* in the same step, and a request that is cut is not posted.                                   *)
THEOREM CancelledStaysCancelledAlways == Spec /\ [][~ Shift]_vars => CancelledStaysCancelled
<1>1. Init => UncutIsSending
  BY DEF Init, UncutIsSending
<1>2. TypeOK /\ SingleDispatch /\ QueueHoldsItsItems /\ AbortReachesSend /\ UncutIsSending
        /\ [Next]_vars /\ [~ Shift]_vars => UncutIsSending'
  <2>1. ASSUME UncutIsSending, UNCHANGED vars PROVE UncutIsSending'
    BY <2>1 DEF UncutIsSending, SendingHead, IsHead, HasHead, vars, mapVars, sendVars
  <2>. QED BY <2>1, UncutIsSendingStep
<1>3. UncutIsSending /\ [Next]_vars
        => [\A i \in posted' \ posted : KindOf[i] = "chat" /\ i \notin Slash => status[i] # "gone"]_vars
  <2>. SUFFICES ASSUME UncutIsSending, [Next]_vars, NEW i \in posted' \ posted, KindOf[i] = "chat", i \notin Slash
                PROVE  status[i] # "gone"
    OBVIOUS
  <2>1. PICK f \in flight : Post(f)
    BY OnlyPostPosts
  <2>2. i = f.id /\ ~ f.cut
    BY <2>1 DEF Post, CutShort
  <2>. QED BY <2>2 DEF UncutIsSending, SendingHead
<1>. QED
  BY <1>1, <1>2, <1>3, TypeCorrect, SingleDispatchAlways, QueueHoldsItsItemsAlways,
     AbortReachesSendAlways, PTL DEF Spec, CancelledStaysCancelled
=============================================================================
