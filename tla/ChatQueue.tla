----------------------------- MODULE ChatQueue -----------------------------
(***************************************************************************)
(* The chat queue of one session: backend/src/services/chat-queue.ts, the  *)
(* routes that call it, and the part of the status poller that drives it.  *)
(*                                                                         *)
(* The backend is one JavaScript thread, so a handler runs to its next     *)
(* await without interruption.  An action below is such a stretch of code. *)
(* What interleaves is: handlers of HTTP requests, the 1 s status poller,  *)
(* the idle checks that dispatchHead awaits ("probes"), and the settling   *)
(* of the request that carries a message to opencode (the "flight").       *)
(*                                                                         *)
(* All state of the code is a Map or Set keyed by session; sessions do not *)
(* share any of it, so one session is modelled.                            *)
(***************************************************************************)
EXTENDS Naturals, FiniteSets, Sequences, SequencesExt

CONSTANTS
    Ids,        \* the items a run may enqueue
    KindOf,     \* Ids -> {"chat", "op"}; op stands for truncate, delete and compact
    TextOf,     \* Ids -> message text, what dropDeliveredDuplicates compares
    SlashTexts, \* the texts "/compact" and "/summarize"
    Probers,    \* bound: at most this many idle checks are awaited at once
    Gens,       \* identities of the array objects that `queues` may hold
    MaxQueue,   \* MAX_QUEUE_LENGTH
    Ops,        \* the user and proxy operations this instance exercises
    Outcomes    \* the ways a flight may end in this instance

AllOps == {"enqueue", "top", "resend", "remove", "model", "move", "clear", "abort",
           "retry", "pause", "quick", "direct", "flush", "external", "sweep", "unreachable"}
AllOutcomes == {"sent", "rejected", "transient", "hang", "cut"}

ASSUME ConstantsAssumption ==
    /\ KindOf \in [Ids -> {"chat", "op"}]
    /\ DOMAIN TextOf = Ids
    /\ MaxQueue \in Nat \ {0}
    /\ Ops \subseteq AllOps
    /\ Outcomes \subseteq AllOutcomes

VARIABLES
    queue,     \* queues.get(session): ids in order; <<>> when the map has no entry
    gen,       \* which array object that is (a handler may still hold an older one)
    left,      \* number of items in each array object the map no longer holds
    status,    \* item.status; "new" before it is enqueued, "gone" once it left the queue
    since,     \* the items that carry a sendingSince
    paused,    \* pausedSessions
    quick,     \* quickModeSessions
    aborted,   \* recentlyAbortedBackend (cleared by a 5 s timer)
    backoff,   \* failedUntil > now
    grace,     \* now - lastBusyAt < IDLE_GRACE_MS
    inFlight,  \* inFlight.has(session)
    ctrl,      \* inFlightControllers.has(session)
    idleRel,   \* idleReleasedSessions.has(session)
    busySeen,  \* busyObservedAt was set since the message in flight was dispatched
    probe,     \* dispatchHead calls suspended in isSessionBusy
    flight,    \* dispatches whose promise has not settled
    tick,      \* the poller: "off", or the snapshot it holds and has not applied
    turn,      \* opencode: "none", a turn not "busy" in /session/status yet ("unseen"), "busy"
    posted,    \* history: items opencode received
    licence    \* history: items some rule allows to be sent (once)

userVars   == <<paused, quick>>
sendVars   == <<inFlight, ctrl, idleRel, flight>>
mapVars    == <<queue, gen, left, status, since>>
timerVars  == <<aborted, backoff, grace>>
ghostVars  == <<posted, licence>>
vars == <<mapVars, userVars, timerVars, sendVars, busySeen, probe, tick, turn, ghostVars>>

Off == [answer |-> "off"]
Probe == [gen : Gens, id : Ids, was : {"queued", "sending"}, answer : {"wait", "busy", "idle", "skip"}]
Flight == [id : Ids, stage : {"prep", "wire", "done"}, cut : BOOLEAN]

-----------------------------------------------------------------------------
(* Helpers *)

\* Chats that dispatchCompactionSlash takes: their request has a timeout and no other signal.
Slash == {i \in Ids : KindOf[i] = "chat" /\ TextOf[i] \in SlashTexts}

HasHead == queue # <<>>
IsHead(id) == HasHead /\ queue[1] = id
HeadLocked == HasHead /\ status[queue[1]] = "sending"

\* Mutant of Slot: a sending head is not protected.
SlotAlwaysFirst == 1

\* The slot before which nothing may be inserted: a sending head keeps its place.
Slot == IF HeadLocked THEN 2 ELSE 1

\* The status map once the queue holds q: an item that is not in it any more is gone.
Retire(st, q) == [i \in Ids |-> IF st[i] # "new" /\ i \notin ToSet(q) THEN "gone" ELSE st[i]]

\* Mutant of KeepNewest: off by one.
KeepOneMore(q) == IF Len(q) > MaxQueue + 1 THEN SubSeq(q, Len(q) - MaxQueue, Len(q)) ELSE q

\* `while (queue.length > MAX_QUEUE_LENGTH) queue.shift()` and `... queue.pop()`.
KeepNewest(q) == IF Len(q) > MaxQueue THEN SubSeq(q, 1 + Len(q) - MaxQueue, Len(q)) ELSE q
KeepOldest(q) == IF Len(q) > MaxQueue THEN SubSeq(q, 1, MaxQueue) ELSE q

\* The strictly increasing ways to pick Cardinality(K) positions out of K: exactly one.
Embeddings(K) ==
    {k \in [1..Cardinality(K) -> K] : \A a, b \in 1..Cardinality(K) : a < b => k[a] < k[b]}

\* Mutant of AfterSplice: an empty array is not considered.
AfterSpliceUnguarded(n) == n - 1

\* The length of an array of length n after splice(0, 1).
AfterSplice(n) == IF n > 0 THEN n - 1 ELSE 0

\* The items that dropDeliveredDuplicates(text) removes from q.
IsDuplicate(st, id, text) == KindOf[id] = "chat" /\ st[id] # "sending" /\ TextOf[id] = text
Survivors(st, q, text) == {j \in 1..Len(q) : ~ IsDuplicate(st, q[j], text)}

\* An array object that no suspended handler holds: a new queue is a new array.
FreeGens == {g \in Gens : \A p \in Probers : probe[p] # Off => probe[p].gen # g}

\* `queues.get(sessionID) ?? []` ... `queues.set(sessionID, queue)`.
KeepOrCreateArray ==
    IF HasHead THEN UNCHANGED <<gen, left>>
    ELSE \E g \in FreeGens : gen' = g /\ left' = [left EXCEPT ![g] = 0]

\* queues.delete(sessionID): the array object keeps its items for whoever holds it.
DeleteMapEntry == queue' = <<>> /\ left' = [left EXCEPT ![gen] = Len(queue)]

\* Mutant of AbortInFlight: the controller is dropped, the request is not cut.
ForgetController == ctrl' = FALSE /\ UNCHANGED flight

\* abortInFlight: signal the registered controller and forget it.
AbortInFlight ==
    /\ ctrl' = FALSE
    /\ flight' = IF ctrl THEN {[f EXCEPT !.cut = TRUE] : f \in flight} ELSE flight

(***************************************************************************)
(* dispatchHead up to its await, run at the end of the handler whose       *)
(* primed state it sees.  isSessionBusy answers without asking opencode in *)
(* quick mode and after an abort; such a probe resumes in the same burst   *)
(* of microtasks (see Next).                                               *)
(***************************************************************************)
StartProbe ==
    IF /\ ~ backoff' /\ queue' # <<>>
       /\ \/ status'[queue'[1]] = "sending"
          \/ status'[queue'[1]] = "queued" /\ ~ paused'
    THEN \E p \in Probers :
            /\ probe[p] = Off
            /\ probe' = [probe EXCEPT ![p] =
                  [gen |-> gen', id |-> queue'[1], was |-> status'[queue'[1]],
                   answer |-> IF quick' \/ aborted' THEN "skip" ELSE "wait"]]
    ELSE UNCHANGED probe

\* flushQueueForSession: the guards before it calls dispatchHead.
FlushQueue == IF paused' \/ inFlight' THEN UNCHANGED probe ELSE StartProbe

-----------------------------------------------------------------------------
Init ==
    /\ queue = <<>> /\ gen \in Gens /\ left = [g \in Gens |-> 0]
    /\ status = [i \in Ids |-> "new"] /\ since = {}
    /\ paused = FALSE /\ quick = FALSE
    /\ aborted = FALSE /\ backoff = FALSE /\ grace = FALSE
    /\ inFlight = FALSE /\ ctrl = FALSE /\ idleRel = FALSE /\ busySeen = FALSE
    /\ probe = [p \in Probers |-> Off]
    /\ flight = {} /\ tick = "off" /\ turn = "none"
    /\ posted = {} /\ licence = {}

-----------------------------------------------------------------------------
(* Handlers of the queue routes *)

\* POST /:sessionId: append, or insert before everything but a sending head.
Enqueue(id, toTop) ==
    /\ IF toTop THEN "top" \in Ops ELSE "enqueue" \in Ops
    /\ status[id] = "new"
    /\ KeepOrCreateArray
    /\ queue' = IF toTop THEN KeepOldest(InsertAt(queue, Slot, id))
                ELSE KeepNewest(Append(queue, id))
    /\ status' = Retire([status EXCEPT ![id] = "queued"], queue')
    /\ licence' = licence \cup {id}
    /\ UNCHANGED <<since, userVars, timerVars, sendVars, busySeen, tick, turn, posted>>
    /\ FlushQueue

\* POST /:sessionId/resend: a truncate op and the edited message, together.
EnqueueResend(op, chat) ==
    /\ "resend" \in Ops
    /\ status[op] = "new" /\ status[chat] = "new"
    /\ KindOf[op] = "op" /\ KindOf[chat] = "chat"
    /\ KeepOrCreateArray
    /\ queue' = KeepOldest(InsertAt(InsertAt(queue, Slot, chat), Slot, op))
    /\ status' = Retire([status EXCEPT ![op] = "queued", ![chat] = "queued"], queue')
    /\ licence' = licence \cup {op, chat}
    /\ UNCHANGED <<since, userVars, timerVars, sendVars, busySeen, tick, turn, posted>>
    /\ FlushQueue

\* DELETE /:sessionId/:itemId.
RemoveQueued(k) ==
    /\ "remove" \in Ops
    /\ queue' = RemoveAt(queue, k)
    /\ status' = Retire(status, queue')
    /\ IF status[queue[k]] = "sending" THEN AbortInFlight /\ aborted' = TRUE
       ELSE UNCHANGED <<ctrl, flight, aborted>>
    /\ backoff' = (backoff /\ queue' # <<>>)
    /\ UNCHANGED <<gen, left, since, userVars, grace, inFlight, idleRel,
                   busySeen, probe, tick, turn, ghostVars>>

\* PATCH /:sessionId/model: failed chats become sendable again.
UpdateModel ==
    /\ "model" \in Ops
    /\ HasHead
    /\ LET revived == {i \in ToSet(queue) : KindOf[i] = "chat" /\ status[i] = "failed"} IN
        /\ status' = [i \in Ids |-> IF i \in revived THEN "queued" ELSE status[i]]
        /\ since' = since \ revived
        /\ licence' = licence \cup revived
    /\ backoff' = FALSE
    /\ UNCHANGED <<queue, gen, left, userVars, aborted, grace, sendVars,
                   busySeen, probe, tick, turn, posted>>

\* PATCH /:sessionId/:itemId/move: to the top or one place up, never past a sending head.
Move(k, toTop) ==
    /\ "move" \in Ops
    /\ k > 1 /\ status[queue[k]] # "sending"
    /\ LET rest == RemoveAt(queue, k)
           one_up == IF k - 1 > Slot THEN k - 1 ELSE Slot
       IN queue' = InsertAt(rest, IF toTop THEN Slot ELSE one_up, queue[k])
    /\ UNCHANGED <<gen, left, status, since, userVars, timerVars, sendVars,
                   busySeen, probe, tick, turn, ghostVars>>

\* DELETE /:sessionId: drop the whole queue and cut the request on the wire.
Clear ==
    /\ "clear" \in Ops
    /\ AbortInFlight
    /\ aborted' = TRUE
    /\ IF HasHead THEN DeleteMapEntry ELSE UNCHANGED <<queue, left>>
    /\ status' = Retire(status, queue')
    /\ backoff' = (backoff /\ ~ HasHead)
    /\ UNCHANGED <<gen, since, userVars, grace, inFlight, idleRel,
                   busySeen, probe, tick, turn, ghostVars>>

\* The proxy saw POST /session/:id/abort: clearSendingOnAbort.
ClearSendingOnAbort ==
    /\ "abort" \in Ops
    /\ AbortInFlight
    /\ aborted' = TRUE
    /\ LET sending == {k \in 1..Len(queue) : status[queue[k]] = "sending"} IN
        IF sending = {} THEN UNCHANGED queue
        ELSE \E k \in sending : (\A j \in sending : k <= j) /\ queue' = RemoveAt(queue, k)
    /\ status' = Retire(status, queue')
    /\ grace' = FALSE /\ backoff' = FALSE
    /\ UNCHANGED <<gen, left, since, userVars, inFlight, idleRel,
                   busySeen, probe, tick, turn, ghostVars>>

\* POST /:sessionId/:itemId/retry: sending and failed items go back to queued.
Retry(k) ==
    /\ "retry" \in Ops
    /\ status[queue[k]] \in {"sending", "failed"}
    /\ IF status[queue[k]] = "sending" THEN AbortInFlight ELSE UNCHANGED <<ctrl, flight>>
    /\ status' = [status EXCEPT ![queue[k]] = "queued"]
    /\ since' = since \ {queue[k]}
    /\ licence' = licence \cup {queue[k]}
    /\ backoff' = FALSE
    /\ UNCHANGED <<queue, gen, left, userVars, aborted, grace, inFlight, idleRel,
                   busySeen, tick, turn, posted>>
    /\ IF k = 1 THEN StartProbe ELSE UNCHANGED probe

\* POST /:sessionId/paused: resuming flushes at once.
SetPaused ==
    /\ "pause" \in Ops
    /\ paused' = ~ paused
    /\ UNCHANGED <<mapVars, quick, timerVars, sendVars, busySeen, tick, turn, ghostVars>>
    /\ FlushQueue

\* POST /:sessionId/quick-mode.
SetQuickMode ==
    /\ "quick" \in Ops
    /\ quick' = ~ quick
    /\ UNCHANGED <<mapVars, paused, timerVars, sendVars, busySeen, probe, tick, turn, ghostVars>>

\* dropDeliveredDuplicates(text) on queue q and status st, result in the primed state.
DropDuplicates(q, st, text) ==
    \E keep \in Embeddings(Survivors(st, q, text)) :
        /\ queue' = [j \in DOMAIN keep |-> q[keep[j]]]
        /\ status' = Retire(st, queue')

\* The proxy delivered a message typed directly: copies of it leave the queue.
DirectSendDelivered(text) ==
    /\ "direct" \in Ops
    /\ DropDuplicates(queue, status, text)
    /\ backoff' = (backoff /\ queue' = queue)
    /\ UNCHANGED <<gen, left, since, userVars, aborted, grace, sendVars,
                   busySeen, probe, tick, turn, ghostVars>>

\* flushQueueForSession from the proxy, 150 ms after a direct send ended.
DelayedFlush ==
    /\ "flush" \in Ops
    /\ HasHead /\ ~ backoff
    /\ UNCHANGED <<mapVars, userVars, timerVars, sendVars, busySeen, tick, turn, ghostVars>>
    /\ FlushQueue

\* reconcile-sweep found the request stale: abortQueueInFlight cuts it and keeps the item.
SweepAbort ==
    /\ "sweep" \in Ops
    /\ ctrl
    /\ AbortInFlight
    /\ UNCHANGED <<mapVars, userVars, timerVars, inFlight, idleRel,
                   busySeen, probe, tick, turn, ghostVars>>

-----------------------------------------------------------------------------
(* Timers *)

AbortExpire ==
    /\ aborted /\ aborted' = FALSE
    /\ UNCHANGED <<mapVars, userVars, backoff, grace, sendVars, busySeen, probe, tick, turn, ghostVars>>

\* failedUntil lies at least 2 s ahead and an idle check lasts at most 1.5 s; none starts
\* while failedUntil is in the future, so none is still suspended when it passes.
BackoffExpire ==
    /\ backoff /\ \A p \in Probers : probe[p] = Off
    /\ backoff' = FALSE
    /\ UNCHANGED <<mapVars, userVars, aborted, grace, sendVars, busySeen, probe, tick, turn, ghostVars>>

GraceExpire ==
    /\ grace /\ grace' = FALSE
    /\ UNCHANGED <<mapVars, userVars, aborted, backoff, sendVars, busySeen, probe, tick, turn, ghostVars>>

-----------------------------------------------------------------------------
(* The status poller *)

\* A request for opencode's status may fail or time out.
Unreachable == "unreachable" \in Ops

\* collectDirectorySnapshots: a directory that does not answer is left out, so a busy
\* session may be missing from the busy set.
PollSample ==
    /\ tick = "off"
    /\ \/ tick' = IF turn = "busy" THEN "busy" ELSE "idle"
       \/ Unreachable /\ tick' = "idle"
    /\ UNCHANGED <<mapVars, userVars, timerVars, sendVars, busySeen, probe, turn, ghostVars>>

\* flushReadyQueues with the busy set sampled some awaits ago.
PollApply ==
    /\ tick # "off" /\ tick' = "off"
    /\ LET skip == ~ HasHead \/ paused IN
        /\ grace' = (grace \/ (~ skip /\ tick = "busy"))
        /\ busySeen' = (busySeen \/ (~ skip /\ tick = "busy" /\ inFlight))
        /\ UNCHANGED <<mapVars, userVars, aborted, backoff, sendVars, turn, ghostVars>>
        /\ IF skip \/ tick = "busy" THEN UNCHANGED probe ELSE StartProbe

-----------------------------------------------------------------------------
(* dispatchHead after its await *)

\* opencode answered /session/status, /permission and /question.  A request that fails
\* or times out counts as busy.
ProbeAnswer(p) ==
    /\ probe[p] # Off /\ probe[p].answer = "wait"
    /\ \/ probe' = [probe EXCEPT ![p].answer = IF turn = "busy" THEN "busy" ELSE "idle"]
       \/ Unreachable /\ probe' = [probe EXCEPT ![p].answer = "busy"]
    /\ UNCHANGED <<mapVars, userVars, timerVars, sendVars, busySeen, tick, turn, ghostVars>>

Resumable(p) == probe[p] # Off /\ probe[p].answer # "wait"
Resume(p) == Resumable(p) /\ probe' = [probe EXCEPT ![p] = Off]

ResumeBusy(p) ==
    /\ Resume(p) /\ probe[p].answer = "busy"
    /\ grace' = TRUE
    /\ busySeen' = (busySeen \/ (probe[p].was = "sending" /\ inFlight))
    /\ UNCHANGED <<mapVars, userVars, aborted, backoff, sendVars, tick, turn, ghostVars>>

\* The head was sending and the session is idle, but the request still hangs: cut it when
\* the turn had been observed.  A head whose sendingSince was deleted counts as observed.
ResumeRelease(p) ==
    /\ Resume(p) /\ probe[p].answer # "busy" /\ probe[p].was = "sending"
    /\ inFlight
    /\ IF ctrl /\ (busySeen \/ probe[p].id \notin since)
       THEN idleRel' = TRUE /\ flight' = {[f EXCEPT !.cut = TRUE] : f \in flight}
       ELSE UNCHANGED <<idleRel, flight>>
    /\ UNCHANGED <<mapVars, userVars, timerVars, inFlight, ctrl, busySeen, tick, turn, ghostVars>>

\* Idle is taken as "the turn of the sending head is over": queue.splice(0, 1) on the
\* array that was current before the await.
ResumeConfirm(p) ==
    /\ Resume(p) /\ probe[p].answer # "busy" /\ probe[p].was = "sending"
    /\ ~ inFlight
    /\ LET g == probe[p].gen
           rest == AfterSplice(left[g])
       IN IF HasHead /\ g = gen
          THEN queue' = Tail(queue) /\ UNCHANGED left
          ELSE IF rest = 0 /\ HasHead
          THEN queue' = <<>> /\ left' = [left EXCEPT ![g] = 0, ![gen] = Len(queue)]
          ELSE UNCHANGED queue /\ left' = [left EXCEPT ![g] = rest]
    /\ status' = Retire(status, queue')
    /\ backoff' = FALSE
    /\ UNCHANGED <<gen, since, userVars, aborted, grace, sendVars, busySeen, tick, turn, ghostVars>>

\* Mutants of MaySend: a recheck is missing.
MaySendWithoutPauseCheck(id) == ~ grace /\ ~ inFlight /\ ~ backoff /\ IsHead(id)
MaySendWithoutSlotCheck(id) == ~ grace /\ ~ paused /\ ~ backoff /\ IsHead(id)

\* The rechecks after the await of the queued branch.
MaySend(id) == ~ grace /\ ~ paused /\ ~ inFlight /\ ~ backoff /\ IsHead(id)

ResumeDispatch(p) ==
    /\ Resume(p) /\ probe[p].answer # "busy" /\ probe[p].was = "queued"
    /\ LET id == probe[p].id
           chat == KindOf[id] = "chat"
       IN /\ MaySend(id)
          /\ status' = [status EXCEPT ![id] = "sending"]
          /\ since' = since \cup {id}
          /\ busySeen' = FALSE
          /\ inFlight' = TRUE
          /\ ctrl' = (ctrl \/ chat)
          /\ flight' = flight \cup {[id |-> id, stage |-> "prep", cut |-> FALSE]}
          /\ licence' = licence \ {id}
    /\ UNCHANGED <<queue, gen, left, userVars, timerVars, idleRel, tick, turn, posted>>

ResumeGiveUp(p) ==
    /\ Resume(p) /\ probe[p].answer # "busy" /\ probe[p].was = "queued"
    /\ ~ MaySend(probe[p].id)
    /\ UNCHANGED <<mapVars, userVars, timerVars, sendVars, busySeen, tick, turn, ghostVars>>

ResumeProbe(p) ==
    ResumeBusy(p) \/ ResumeRelease(p) \/ ResumeConfirm(p) \/ ResumeDispatch(p) \/ ResumeGiveUp(p)

-----------------------------------------------------------------------------
(* The request that carries an item to opencode *)

\* dispatchOpItem acts on opencode and its database directly; a chat waits for its turn.
StageAfterPost(id) == IF KindOf[id] = "op" THEN "done" ELSE "wire"

\* A cut ends the request, unless it does not listen to the controller.
CutShort(f) == f.cut /\ f.id \notin Slash

\* The preparation is over and the message reaches opencode.
Post(f) ==
    /\ f.stage = "prep" /\ ~ CutShort(f)
    /\ flight' = (flight \ {f}) \cup {[f EXCEPT !.stage = StageAfterPost(f.id)]}
    /\ turn' = IF turn = "none" /\ KindOf[f.id] = "chat" THEN "unseen" ELSE turn
    /\ posted' = posted \cup {f.id}
    /\ UNCHANGED <<mapVars, userVars, timerVars, inFlight, ctrl, idleRel, busySeen, probe, tick, licence>>

\* Mutants of Settled: the .finally block forgets the controller, or the slot.
SettledKeepingController(f) ==
    /\ flight' = flight \ {f}
    /\ inFlight' = FALSE /\ ctrl' = ctrl /\ idleRel' = FALSE /\ busySeen' = FALSE
    /\ UNCHANGED <<gen, left, since, userVars, aborted, grace, probe, tick, turn, posted>>
SettledKeepingSlot(f) ==
    /\ flight' = flight \ {f}
    /\ inFlight' = inFlight /\ ctrl' = FALSE /\ idleRel' = FALSE /\ busySeen' = FALSE
    /\ UNCHANGED <<gen, left, since, userVars, aborted, grace, probe, tick, turn, posted>>

\* .finally of the dispatch.
Settled(f) ==
    /\ flight' = flight \ {f}
    /\ inFlight' = FALSE /\ ctrl' = FALSE /\ idleRel' = FALSE /\ busySeen' = FALSE
    /\ UNCHANGED <<gen, left, since, userVars, aborted, grace, probe, tick, turn, posted>>

\* Within 5 s of an abort every result, of whichever dispatch, is discarded.
SettleDiscarded(f) ==
    /\ aborted
    /\ Settled(f)
    /\ backoff' = FALSE
    /\ UNCHANGED <<queue, status, licence>>

\* 2xx: the item and the chats with the same text leave the queue.
SettleSent(f) ==
    /\ "sent" \in Outcomes /\ ~ aborted /\ f.stage = "done"
    /\ Settled(f)
    /\ backoff' = FALSE
    /\ LET q == IF IsHead(f.id) THEN Tail(queue) ELSE queue IN
        IF KindOf[f.id] = "chat" THEN DropDuplicates(q, status, TextOf[f.id])
        ELSE queue' = q /\ status' = Retire(status, q)
    /\ UNCHANGED licence

\* Mutant of HeadBecomes: a rejected head is queued again.
HeadRequeued(f, s) == IF IsHead(f.id) THEN [status EXCEPT ![f.id] = "queued"] ELSE status

\* The statuses once the head, if it is f's item, got status s.
HeadBecomes(f, s) == IF IsHead(f.id) THEN [status EXCEPT ![f.id] = s] ELSE status

\* 4xx, quota, unhealable mismatch, 504: the head is failed.
SettleRejected(f) ==
    /\ "rejected" \in Outcomes /\ ~ aborted /\ (CutShort(f) => f.stage = "done")
    /\ Settled(f)
    /\ status' = HeadBecomes(f, "failed")
    /\ UNCHANGED <<queue, backoff, licence>>

\* 5xx, refused or reset connection, other transport errors, a summarize without an answer for
\* 600 s: queued again after a backoff.
SettleTransient(f) ==
    /\ "transient" \in Outcomes /\ ~ aborted /\ (CutShort(f) => f.stage = "done")
    /\ Settled(f)
    /\ status' = HeadBecomes(f, "queued")
    /\ backoff' = TRUE
    /\ licence' = IF IsHead(f.id) THEN licence \cup {f.id} ELSE licence
    /\ UNCHANGED queue

\* No header for 600 s: the head stays sending.  No check that found it queued lasts so long.
SettleHang(f) ==
    /\ "hang" \in Outcomes /\ ~ aborted /\ ~ f.cut /\ f.stage # "prep"
    /\ KindOf[f.id] = "chat" /\ f.id \notin Slash
    /\ \A p \in Probers : probe[p] # Off => ~ (probe[p].was = "queued" /\ probe[p].id = f.id)
    /\ Settled(f)
    /\ backoff' = TRUE
    /\ UNCHANGED <<queue, status, licence>>

\* The aborted fetch throws: a normal end when we released it on idle, else a backoff.
SettleCut(f) ==
    /\ "cut" \in Outcomes /\ ~ aborted /\ CutShort(f)
    /\ Settled(f)
    /\ backoff' = ~ idleRel
    /\ UNCHANGED <<queue, status, licence>>

Settle(f) ==
    \/ SettleDiscarded(f) \/ SettleSent(f) \/ SettleRejected(f)
    \/ SettleTransient(f) \/ SettleHang(f) \/ SettleCut(f)

-----------------------------------------------------------------------------
(* opencode *)

ExternalTurn ==
    /\ "external" \in Ops
    /\ turn = "none" /\ turn' = "unseen"
    /\ UNCHANGED <<mapVars, userVars, timerVars, sendVars, busySeen, probe, tick, ghostVars>>

TurnShows ==
    /\ turn = "unseen" /\ turn' = "busy"
    /\ UNCHANGED <<mapVars, userVars, timerVars, sendVars, busySeen, probe, tick, ghostVars>>

\* The turn ends, and with it every request waiting for its headers.
TurnEnds ==
    /\ turn # "none" /\ turn' = "none"
    /\ flight' = {IF f.stage = "wire" THEN [f EXCEPT !.stage = "done"] ELSE f : f \in flight}
    /\ UNCHANGED <<mapVars, userVars, timerVars, inFlight, ctrl, idleRel, busySeen, probe, tick, ghostVars>>

-----------------------------------------------------------------------------
UserStep ==
    \/ \E id \in Ids, toTop \in BOOLEAN : Enqueue(id, toTop)
    \/ \E op, chat \in Ids : EnqueueResend(op, chat)
    \/ \E k \in 1..Len(queue) : RemoveQueued(k) \/ Retry(k) \/ (\E toTop \in BOOLEAN : Move(k, toTop))
    \/ UpdateModel \/ Clear \/ ClearSendingOnAbort \/ SetPaused \/ SetQuickMode
    \/ \E id \in Ids : DirectSendDelivered(TextOf[id])

BackendStep ==
    \/ DelayedFlush \/ SweepAbort
    \/ AbortExpire \/ BackoffExpire \/ GraceExpire
    \/ PollSample \/ PollApply
    \/ \E p \in Probers : ProbeAnswer(p) \/ ResumeProbe(p)
    \/ \E f \in flight : Post(f) \/ Settle(f)

OpencodeStep == ExternalTurn \/ TurnShows \/ TurnEnds

\* A probe that was answered without asking opencode resumes before any other event.
Calm == \A p \in Probers : probe[p].answer # "skip"

Next ==
    \/ \E p \in Probers : probe[p].answer = "skip" /\ ResumeProbe(p)
    \/ Calm /\ (UserStep \/ BackendStep \/ OpencodeStep)

Spec == Init /\ [][Next]_vars

\* What the runtime gives: timers fire, the poller is re-armed after every tick, awaited
\* requests settle, and a turn of opencode ends.
Fairness ==
    /\ WF_vars(AbortExpire /\ Calm) /\ WF_vars(BackoffExpire /\ Calm) /\ WF_vars(GraceExpire /\ Calm)
    /\ WF_vars(PollSample /\ Calm) /\ WF_vars(PollApply /\ Calm)
    /\ \A p \in Probers :
        /\ WF_vars(ProbeAnswer(p) /\ Calm)
        /\ WF_vars(ResumeProbe(p))
    /\ WF_vars(Calm /\ \E f \in flight : Post(f))
    /\ WF_vars(Calm /\ \E f \in flight : Settle(f))
    /\ WF_vars(TurnShows /\ Calm) /\ WF_vars(TurnEnds /\ Calm)

FairSpec == Spec /\ Fairness

-----------------------------------------------------------------------------
(* Properties *)

\* Types, in four groups: the queue, the flags, the suspended checks, the requests.
MapTypeOK ==
    /\ queue \in Seq(Ids) /\ gen \in Gens /\ left \in [Gens -> Nat]
    /\ status \in [Ids -> {"new", "queued", "sending", "failed", "gone"}]
    /\ since \subseteq Ids /\ posted \subseteq Ids /\ licence \subseteq Ids
FlagTypeOK ==
    /\ paused \in BOOLEAN /\ quick \in BOOLEAN
    /\ aborted \in BOOLEAN /\ backoff \in BOOLEAN /\ grace \in BOOLEAN
    /\ inFlight \in BOOLEAN /\ ctrl \in BOOLEAN /\ idleRel \in BOOLEAN /\ busySeen \in BOOLEAN
    /\ tick \in {"off", "idle", "busy"} /\ turn \in {"none", "unseen", "busy"}
ProbeTypeOK == probe \in [Probers -> {Off} \cup Probe]
FlightTypeOK == flight \subseteq Flight
TypeOK == MapTypeOK /\ FlagTypeOK /\ ProbeTypeOK /\ FlightTypeOK

\* The queue holds each item once, at most MaxQueue of them, and exactly the items whose
\* status says so.
QueueHoldsItsItems ==
    /\ Len(queue) <= MaxQueue
    /\ \A a, b \in 1..Len(queue) : queue[a] = queue[b] => a = b
    /\ ToSet(queue) = {i \in Ids : status[i] \in {"queued", "sending", "failed"}}

\* One message per session at a time, whatever checks, retries and aborts overlap: the
\* inFlight set tells exactly whether a dispatch is outstanding, and there is never a second.
SingleDispatch ==
    /\ inFlight <=> flight # {}
    /\ \A f, g \in flight : f = g

\* The stop button has something to signal: a chat's request that nobody has cut has its
\* controller registered, and a controller belongs to a chat's request.  (The request of a
\* Slash chat does not listen to it.)
AbortReachesSend ==
    /\ \A f \in flight : KindOf[f.id] = "chat" /\ ~ f.cut => ctrl
    /\ ctrl => \E f \in flight : KindOf[f.id] = "chat"

\* While a chat's request is neither cut nor settled its item, if still queued, is the
\* sending head: the outcome is recorded on the item it is about.
OutcomeFindsItsItem ==
    \A f \in flight :
        KindOf[f.id] = "chat" /\ ~ f.cut /\ f.id \in ToSet(queue)
            => IsHead(f.id) /\ status[f.id] = "sending"

\* The new dispatches of a step.
Dispatched == {f \in flight' \ flight : f.stage = "prep" /\ ~ f.cut}

\* No dispatch while the session is paused, backing off or already sending, even when the
\* pause or the failure came while the idle check was awaited.
NoDispatchWhileHeld ==
    [][Dispatched # {} => ~ paused /\ ~ backoff /\ ~ inFlight]_vars

\* An item that waits is sent only with leave: it was enqueued, retried or revived by the user,
\* or its transport failed, since it was sent last.  So no result, confirmation or insertion
\* puts an item that opencode has had back among the waiting ones.
WaitingSendIsLicensed ==
    [][\A f \in Dispatched : status[f.id] = "queued" => f.id \in licence]_vars

\* A chat that left the queue before it reached opencode (removed, cleared, aborted) is
\* never delivered afterwards, unless it is a Slash chat.  It holds as long as the queue does
\* not overflow.
CancelledStaysCancelled ==
    [][\A i \in posted' \ posted : KindOf[i] = "chat" /\ i \notin Slash => status[i] # "gone"]_vars

\* The queue drains: a waiting item is eventually sent or removed, unless a failed head,
\* which only the user may clear, stands before it.  Lost responses do not wedge the queue.
QueueDrains ==
    \A i \in Ids : status[i] = "queued" ~> (status[i] = "gone" \/ (HasHead /\ status[queue[1]] = "failed"))
=============================================================================
