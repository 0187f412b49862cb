--------------------------- MODULE SaveSerializer ---------------------------
(***************************************************************************)
(* frontend/src/lib/saveSerializer.ts: the queue of one between the        *)
(* editor, which serialises the document and asks to have it saved, and    *)
(* the save request.  One save is in flight, one request waits, and a      *)
(* later request replaces the one that waits.                              *)
(*                                                                         *)
(* The loop runs from one await to the next without interruption, and what *)
(* requests, saves and timers do are events of their own, so the steps     *)
(* between two events are one action.  Request r is the r-th to arrive;    *)
(* the bytes it carries are identified with it.                            *)
(***************************************************************************)
EXTENDS Naturals, FiniteSets

CONSTANTS
    MaxRequests,  \* bound on the number of requests
    Attempts,     \* retry.attempts
    Orders,       \* serialisation orders: the gen of the r-th request, of those that carry one
    Decks,        \* what a session is of: a path and a room
    Epochs,       \* epochs of a session, besides NoEpoch
    NoEpoch,      \* the epoch of a session that cannot be read (undefined)
    Ops           \* what else happens in this instance

AllOps == {"dispose", "clear", "session", "owner"}
Requests == 1..MaxRequests
None == 0
Sessions == [deck: Decks, epoch: Epochs \cup {NoEpoch}]

ASSUME SaveSerializerAssumption ==
    /\ MaxRequests \in Nat \ {0} /\ Attempts \in Nat \ {0}
    /\ \A order \in Orders : \E some \in SUBSET Requests : order \in [some -> Nat \ {0}]
    /\ NoEpoch \notin Epochs
    /\ Ops \subseteq AllOps

VARIABLES
    gen,        \* serialisation order of this run, one of Orders (meta.gen is optional)
    count,      \* reqSeq
    waiting,    \* pendingBytes: the request that waits, or None
    saving,     \* the request of the running runOnce, or None
    attempt,    \* its attempts so far
    asleep,     \* it waits for the retry timer
    result,     \* what loop() will return
    failed,     \* failedBytes
    dirty,
    lastGen,    \* lastSavedGen; 0 before the first save
    disposed,
    answer,     \* of each request: "none", "pending", or what its promise gave
    bound,      \* session a request was made for (meta.session)
    session,    \* getSession()
    owner,      \* canSave()
    disk,       \* history: the request whose bytes were saved last
    stored      \* history: the requests whose bytes were saved

loopVars == <<waiting, saving, attempt, asleep, result>>
envVars  == <<session, owner>>
pastVars == <<disk, stored>>
vars == <<gen, count, loopVars, failed, dirty, lastGen, disposed, answer, bound, envVars,
          pastVars>>

Init ==
    /\ gen \in Orders
    /\ count = 0
    /\ waiting = None /\ saving = None /\ attempt = 0 /\ asleep = FALSE /\ result = "saved"
    /\ failed = None /\ dirty = FALSE /\ lastGen = 0 /\ disposed = FALSE
    /\ session \in [deck: Decks, epoch: Epochs] /\ owner = TRUE
    /\ answer = [r \in Requests |-> "none"] /\ bound = [r \in Requests |-> session]
    /\ disk = None /\ stored = {}

-----------------------------------------------------------------------------
(* The loop *)

Running == saving # None

\* sameSession: an epoch that is undefined matches any.
SameSession(a, b) == a.deck = b.deck /\ (a.epoch = b.epoch \/ NoEpoch \in {a.epoch, b.epoch})

\* The requests that carry a number.
Numbered == DOMAIN gen

\* Mutant of Admitted: gen is not compared.
AdmittedAnyGen(r) == bound'[r].epoch # NoEpoch /\ SameSession(bound'[r], session) /\ owner

\* The checks at the start of runOnce: gen if there is one, epoch, session, owner.
Admitted(r) ==
    /\ r \in Numbered => gen[r] >= lastGen'
    /\ bound'[r].epoch # NoEpoch /\ SameSession(bound'[r], session)
    /\ owner

\* Mutant of Worse: a save that was skipped does not count.
WorseIgnoringSkips(before, now) == IF now = "failed" THEN "failed" ELSE before

\* The result of the loop after one more runOnce.
Worse(before, now) ==
    IF now = "failed" THEN "failed"
    ELSE IF now = "skipped" /\ before = "saved" THEN "skipped"
    ELSE before

\* The loop is over: every request made meanwhile got the same promise.
Finish(res) ==
    /\ saving' = None /\ waiting' = None /\ result' = "saved"
    /\ attempt' = 0 /\ asleep' = FALSE
    /\ answer' = [r \in Requests |->
                    IF answer[r] = "pending" \/ (r = count' /\ count' # count) THEN res
                    ELSE answer[r]]
    /\ dirty' = (failed' # None)

\* runOnce for request r begins: opts.save is called if the checks pass.
Begin(r, before) ==
    IF Admitted(r)
    THEN /\ saving' = r /\ waiting' = None /\ attempt' = 1 /\ asleep' = FALSE /\ result' = before
    ELSE Finish(Worse(before, "skipped"))

\* runOnce ended with res; the loop takes the request that waits, if there is one.
Continue(res) ==
    IF waiting = None THEN Finish(Worse(result, res))
    ELSE /\ Begin(waiting, Worse(result, res))
         /\ (Admitted(waiting) => dirty' = dirty /\ UNCHANGED answer)

-----------------------------------------------------------------------------
(* What callers do *)

\* request(bytes, meta).
Request ==
    /\ count < MaxRequests
    /\ count' = count + 1
    /\ bound' = [bound EXCEPT ![count'] = session]
    /\ UNCHANGED <<gen, failed, lastGen, disposed, envVars, pastVars>>
    /\ IF Running
       THEN /\ waiting' = count'
            /\ dirty' = TRUE /\ answer' = [answer EXCEPT ![count'] = "pending"]
            /\ UNCHANGED <<saving, attempt, asleep, result>>
       ELSE /\ Begin(count', "saved")
            /\ (Admitted(count') => dirty' = TRUE /\ answer' = [answer EXCEPT ![count'] = "pending"])

\* dispose(): a retry that waits for its timer is given up.
Dispose ==
    /\ "dispose" \in Ops /\ ~ disposed
    /\ disposed' = TRUE
    /\ UNCHANGED <<gen, count, failed, lastGen, bound, envVars, pastVars>>
    /\ IF asleep THEN Continue("skipped") ELSE UNCHANGED <<loopVars, dirty, answer>>

\* clearFailed(): the user downloaded a copy of the bytes.
ClearFailed ==
    /\ "clear" \in Ops /\ failed # None
    /\ failed' = None /\ dirty' = (waiting # None)
    /\ UNCHANGED <<gen, count, loopVars, lastGen, disposed, answer, bound, envVars, pastVars>>

-----------------------------------------------------------------------------
(* How a save ends *)

Busy == Running /\ ~ asleep

\* lastSavedGen after a save: it grows, and only with requests that carry a number.
NewestGen == IF saving \in Numbered /\ gen[saving] > lastGen THEN gen[saving] ELSE lastGen

\* Mutant of SaveOk: the copy of an earlier failure is kept.
SaveOkKeepsFailed ==
    /\ Busy
    /\ lastGen' = NewestGen
    /\ disk' = saving /\ stored' = stored \cup {saving}
    /\ UNCHANGED <<gen, count, failed, disposed, bound, envVars>>
    /\ Continue("saved")

SaveOk ==
    /\ Busy
    /\ lastGen' = NewestGen
    /\ failed' = None
    /\ disk' = saving /\ stored' = stored \cup {saving}
    /\ UNCHANGED <<gen, count, disposed, bound, envVars>>
    /\ Continue("saved")

\* The save declined, which is no failure and is not retried.
SaveSkipped ==
    /\ Busy
    /\ UNCHANGED <<gen, count, failed, lastGen, disposed, bound, envVars, pastVars>>
    /\ Continue("skipped")

\* Mutant of SaveRetries: attempts are compared off by one.
SaveRetriesOnceMore ==
    /\ Busy /\ attempt <= Attempts
    /\ asleep' = TRUE
    /\ UNCHANGED <<gen, count, waiting, saving, attempt, result, failed, dirty, lastGen, disposed,
                   answer, bound, envVars, pastVars>>

\* A failure that may be retried (network, 5xx, an exception) while attempts are left.
SaveRetries ==
    /\ Busy /\ attempt < Attempts
    /\ asleep' = TRUE
    /\ UNCHANGED <<gen, count, waiting, saving, attempt, result, failed, dirty, lastGen, disposed,
                   answer, bound, envVars, pastVars>>

\* A failure that is final (denied, or the last attempt): the bytes are kept for the user.
SaveFails ==
    /\ Busy
    /\ failed' = saving
    /\ UNCHANGED <<gen, count, lastGen, disposed, bound, envVars, pastVars>>
    /\ Continue("failed")

\* Mutant of TimerFires: a retry that is put to sleep after dispose() is never told.
TimerIgnoredOnceDisposed ==
    /\ asleep /\ ~ disposed
    /\ asleep' = FALSE /\ attempt' = attempt + 1
    /\ UNCHANGED <<gen, count, waiting, saving, result, failed, dirty, lastGen, disposed, answer,
                   bound, envVars, pastVars>>

\* The retry timer: the save is called again, or given up after dispose().
TimerFires ==
    /\ asleep
    /\ UNCHANGED <<gen, count, failed, lastGen, disposed, bound, envVars, pastVars>>
    /\ IF disposed THEN Continue("skipped")
       ELSE /\ asleep' = FALSE /\ attempt' = attempt + 1
            /\ UNCHANGED <<waiting, saving, result, dirty, answer>>

-----------------------------------------------------------------------------
(* The viewer: another file or epoch, ownership lost or gained *)

SessionChanges ==
    /\ "session" \in Ops /\ session' \in Sessions \ {session}
    /\ UNCHANGED <<gen, count, loopVars, failed, dirty, lastGen, disposed, answer, bound, owner,
                   pastVars>>
OwnerChanges ==
    /\ "owner" \in Ops /\ owner' = ~ owner
    /\ UNCHANGED <<gen, count, loopVars, failed, dirty, lastGen, disposed, answer, bound, session,
                   pastVars>>

SaveStep == SaveOk \/ SaveSkipped \/ SaveRetries \/ SaveFails
Next ==
    \/ Request \/ Dispose \/ ClearFailed
    \/ SaveStep \/ TimerFires
    \/ SessionChanges \/ OwnerChanges

Spec == Init /\ [][Next]_vars

\* A save returns (axios has a timeout) and the timer fires.
Fairness == WF_vars(SaveStep) /\ WF_vars(TimerFires)
FairSpec == Spec /\ Fairness

-----------------------------------------------------------------------------
(* Properties *)

Results == {"saved", "skipped", "failed"}

TypeOK ==
    /\ gen \in Orders /\ count \in 0..MaxRequests
    /\ waiting \in 0..MaxRequests /\ saving \in 0..MaxRequests /\ attempt \in 0..Attempts
    /\ asleep \in BOOLEAN /\ result \in Results
    /\ failed \in 0..MaxRequests /\ dirty \in BOOLEAN /\ lastGen \in Nat /\ disposed \in BOOLEAN
    /\ answer \in [Requests -> {"none", "pending"} \cup Results]
    /\ bound \in [Requests -> Sessions] /\ session \in Sessions /\ owner \in BOOLEAN
    /\ disk \in 0..MaxRequests /\ stored \subseteq Requests

\* A caller that is told "saved" has its bytes, or those of a later request for the same deck,
\* on disk.
SavedIsStored ==
    \A r \in Requests : answer[r] = "saved" =>
        \E q \in stored : q >= r /\ bound[q].deck = bound[r].deck

\* The disk only moves forward: to a later request, through failures, retries and replaced
\* requests, and to none that was serialised before anything numbered that is or was on disk,
\* also when two serialisations overtook each other.  A caller that numbers nothing, as
\* PptxViewer does today, has the order of arrival only.
DiskNeverGoesBack ==
    [][disk' # disk =>
          /\ disk' > disk
          /\ disk' \in Numbered => \A q \in stored \cap Numbered : gen[disk'] >= gen[q]]_vars

\* The copy of a failed save that the user may download is newer than what is on disk, and
\* as long as it is kept an idle serializer is dirty.
FailedCopyIsNewer == failed # None => failed > disk /\ (~ Running => dirty)

\* Every caller gets an answer, also when the viewer is unmounted during a retry.
EveryRequestIsAnswered ==
    \A r \in Requests : answer[r] = "pending" ~> answer[r] \in Results
=============================================================================
