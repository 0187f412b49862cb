------------------------------ MODULE TurnEnd ------------------------------
(***************************************************************************)
(* Direct sends of one session and the end of their turns:                 *)
(*   proxy.ts             the request forwarded to opencode,               *)
(*   proxy-turn-end.ts    which request is tracked and what was observed,  *)
(*   turn-verdict.ts      the snapshot the poller leaves behind,           *)
(*   session-status.ts    the poller, and the session's row in our DB,     *)
(*   reconcile-sweep.ts   the 60 s sweep over what looks stale.            *)
(*                                                                         *)
(* All of it is one JavaScript thread; an action is the code between two   *)
(* awaits.  Clocks are abstracted to what the code compares: a timer       *)
(* action says that the time it waits for has passed.                      *)
(***************************************************************************)
EXTENDS Naturals, FiniteSets

CONSTANTS
    Sends,        \* the direct sends (POST /session/:id/message) of a run
    NoSend,       \* no entry in the controllers map
    MaxOpen,      \* bound: direct sends of the session outstanding at once
    Registered,   \* is the session's directory one that the poller asks?
    Ops,          \* what else happens in this instance
    Outcomes      \* how a forwarded request may end, besides being cut

AllOps == {"external", "unreachable", "sweep", "others"}
AllOutcomes == {"answer", "rejected", "mismatch", "network", "broken"}

ASSUME TurnEndAssumption ==
    /\ NoSend \notin Sends
    /\ MaxOpen \in Nat
    /\ Registered \in BOOLEAN
    /\ Ops \subseteq AllOps
    /\ Outcomes \subseteq AllOutcomes

VARIABLES
    stage,      \* of each send: "new", waiting for headers ("wire"), "stream", healing the history
                \* after a refusal ("heal"), waiting for the resent request ("resent"), or its result
    reached,    \* sends that opencode received
    over,       \* received sends whose turn has ended
    cut,        \* sends whose AbortController was aborted
    owner,      \* controllers.get(session)
    aged,       \* dispatchedAt lies 2 minutes back
    busyObs,    \* busyObservedAt >= dispatchedAt
    idleFor,    \* idleSince: "none", less than PROXY_IDLE_GRACE_MS ("short"), or more ("long")
    released,   \* idleReleased.has(session)
    row,        \* session_status.status: "none" (no row), "busy", "idle"
    snap,       \* what getTurnVerdict would answer
    tick,       \* the poller: where it is, and the answer it holds
    sweep,      \* the sweep: "off", or listed with or without this session
    idleRec,    \* observed.get(session): "none", "once", or 60 s old ("ripe")
    turn        \* opencode: "none", "unseen" (not in /session/status yet), "busy"

sendVars  == <<stage, reached, over>>
trackVars == <<owner, aged, busyObs, idleFor>>
pollVars  == <<row, snap, tick>>
sweepVars == <<sweep, idleRec>>
vars == <<sendVars, cut, trackVars, released, pollVars, sweepVars, turn>>

Open == {s \in Sends : stage[s] \in {"wire", "stream", "heal", "resent"}}
Unreachable == "unreachable" \in Ops
Answers == {"busy", "idle", "fail"}

Init ==
    /\ stage = [s \in Sends |-> "new"] /\ reached = {} /\ over = {} /\ cut = {}
    /\ owner = NoSend /\ aged = FALSE /\ busyObs = FALSE /\ idleFor = "none"
    /\ released = FALSE
    /\ row = "none" /\ snap = "unknown" /\ tick = [at |-> "off"]
    /\ sweep = "off" /\ idleRec = "none"
    /\ turn = "none"

-----------------------------------------------------------------------------
(* proxy-turn-end.ts *)

\* trackProxyDispatch: one entry per session, an earlier one is overwritten.
Track(s) == owner' = s /\ aged' = FALSE /\ busyObs' = FALSE /\ idleFor' = "none"

\* untrackProxyDispatch: by session, whoever is tracked.
Untrack == owner' = NoSend /\ aged' = FALSE /\ idleFor' = "none" /\ UNCHANGED busyObs

\* noteProxyBusy.
NoteBusy ==
    IF owner = NoSend THEN UNCHANGED <<busyObs, idleFor>>
    ELSE busyObs' = TRUE /\ idleFor' = "none"

\* clearProxyIdle.
CancelGrace == idleFor' = "none"

\* noteProxyIdle: the first idle starts the grace period, one after it releases.
NoteIdle ==
    IF owner = NoSend \/ ~ busyObs THEN UNCHANGED <<idleFor, released, cut>>
    ELSE CASE idleFor = "none"  -> idleFor' = "short" /\ UNCHANGED <<released, cut>>
           [] idleFor = "short" -> UNCHANGED <<idleFor, released, cut>>
           [] idleFor = "long"  -> idleFor' = "none" /\ released' = TRUE /\ cut' = cut \cup {owner}

\* pumpTrackedIdle with the verdict v.
Pump(v) ==
    /\ IF v = "busy" THEN NoteBusy /\ UNCHANGED <<released, cut>>
       ELSE IF v = "unknown"
       THEN /\ IF owner = NoSend THEN UNCHANGED idleFor ELSE CancelGrace
            /\ UNCHANGED <<busyObs, released, cut>>
       ELSE NoteIdle /\ UNCHANGED busyObs
    /\ UNCHANGED <<owner, aged>>

-----------------------------------------------------------------------------
(* proxy.ts: a direct send *)

Send(s) ==
    /\ stage[s] = "new" /\ Cardinality(Open) < MaxOpen
    /\ stage' = [stage EXCEPT ![s] = "wire"]
    /\ Track(s)
    /\ UNCHANGED <<reached, over, cut, released, pollVars, sweepVars, turn>>

\* consumeProxyIdleReleased.
Consume == released' = FALSE

\* Headers with 2xx: the body is streamed to the browser (a turn answers with a body).
Headers(s) ==
    /\ "answer" \in Outcomes
    /\ stage[s] = "wire" /\ s \in over /\ s \notin cut
    /\ stage' = [stage EXCEPT ![s] = "stream"]
    /\ UNCHANGED <<reached, over, cut, trackVars, released, pollVars, sweepVars, turn>>

\* The finally block of the tracked stream, after its end or an error.
StreamEnds(s) ==
    /\ stage[s] = "stream"
    /\ \/ s \notin cut /\ stage' = [stage EXCEPT ![s] = "ok"]
       \/ (s \in cut \/ "broken" \in Outcomes) /\ stage' = [stage EXCEPT ![s] = "error"]
    /\ Consume
    /\ Untrack
    /\ UNCHANGED <<reached, over, cut, pollVars, sweepVars, turn>>

\* A response of 400 or more is passed on, without untracking the dispatch; a timeout that
\* opencode reports (504) also corrects the row.
Rejected(s) ==
    /\ "rejected" \in Outcomes
    /\ stage[s] = "wire" /\ (s \notin reached \/ s \in over) /\ s \notin cut
    /\ stage' = [stage EXCEPT ![s] = "rejected"]
    /\ \/ UNCHANGED row
       \/ row' = IF row = "none" THEN "none" ELSE "idle"
    /\ UNCHANGED <<reached, over, cut, trackVars, released, snap, tick, sweepVars, turn>>

\* The history holds reasoning of another model: the turn that failed is cut off and the same
\* request sent once more, with a timeout of its own: the dispatch stays tracked, but its
\* controller does not reach this one.
Heals(s) ==
    /\ "mismatch" \in Outcomes
    /\ stage[s] = "wire" /\ s \in over /\ s \notin cut
    /\ stage' = [stage EXCEPT ![s] = "heal"]
    /\ UNCHANGED <<reached, over, cut, trackVars, released, pollVars, sweepVars, turn>>

Resends(s) ==
    /\ stage[s] = "heal"
    /\ stage' = [stage EXCEPT ![s] = "resent"]
    /\ over' = over \ {s}
    /\ turn' = IF turn = "none" THEN "unseen" ELSE turn
    /\ UNCHANGED <<reached, cut, trackVars, released, pollVars, sweepVars>>

\* The repair fails, or the second answer comes; neither untracks the dispatch.
HealEnds(s) ==
    /\ \/ stage[s] \in {"heal", "resent"} /\ stage' = [stage EXCEPT ![s] = "rejected"]
       \/ stage[s] = "resent" /\ s \in over /\ stage' = [stage EXCEPT ![s] = "ok"]
    /\ UNCHANGED <<reached, over, cut, trackVars, released, pollVars, sweepVars, turn>>

\* The connection is reset or refused, and within 15 s the request is fetched again.
Refetch(s) ==
    /\ "network" \in Outcomes
    /\ stage[s] = "wire" /\ s \in reached /\ s \notin cut
    /\ reached' = reached \ {s} /\ over' = over \ {s}
    /\ UNCHANGED <<stage, cut, trackVars, released, pollVars, sweepVars, turn>>

\* fetch throws: we cut it, or the connection fails.  A request that we released is reported
\* as a normal end, with a 200 of our own.
Throws(s) ==
    /\ stage[s] = "wire"
    /\ s \in cut \/ "network" \in Outcomes
    /\ stage' = [stage EXCEPT ![s] = IF released THEN "synthetic" ELSE "error"]
    /\ Untrack
    /\ Consume
    /\ UNCHANGED <<reached, over, cut, pollVars, sweepVars, turn>>

-----------------------------------------------------------------------------
(* session-status.ts: one tick of the poller *)

\* A sample of the session's turn; "fail" when the directory did not answer.
DirectoryAnswer(a) ==
    \/ Registered /\ a = (IF turn = "busy" THEN "busy" ELSE "idle")
    \/ (~ Registered \/ Unreachable) /\ a = "fail"

\* collectDirectorySnapshots.  No directory answers at all: down.
PollCollect ==
    /\ tick.at = "off"
    /\ \E a \in Answers : \E down \in BOOLEAN :
          /\ DirectoryAnswer(a)
          /\ down => Unreachable /\ a = "fail"
          /\ tick' = [at |-> "rows", dir |-> a, down |-> down]
    /\ UNCHANGED <<sendVars, cut, trackVars, released, row, snap, sweepVars, turn>>

\* Mutant of IdleRow: a row that says busy is not corrected.
KeepRow == row

\* markSessionStatusIdle: UPDATE, so no row appears.
IdleRow == IF row = "none" THEN "none" ELSE "idle"

\* No directory answers while a row says busy, this session's or another's.
AsksIfDown == tick.down /\ (row = "busy" \/ "others" \in Ops)

\* The code between the two fetches: rows are written, a busy session is noted.
PollRows ==
    /\ tick.at = "rows"
    /\ ~ (tick.down /\ row = "busy")
    /\ tick' = [at |-> "merge", dir |-> tick.dir]
    /\ IF tick.dir = "busy" THEN NoteBusy /\ UNCHANGED <<owner, aged>> ELSE UNCHANGED trackVars
    /\ row' = CASE tick.dir = "busy" -> "busy"
                [] tick.dir = "idle" -> IdleRow
                [] tick.dir = "fail" -> row
    /\ UNCHANGED <<sendVars, cut, released, snap, sweepVars, turn>>

\* Is the server there?  If not, the tick ends with the busy rows cancelled and idle, and a
\* snapshot that knows nothing; the tracked dispatch is not judged by it.
PollServerDown ==
    /\ tick.at = "rows" /\ AsksIfDown
    /\ tick' = [at |-> "off"]
    /\ row' = (IF row = "busy" THEN "idle" ELSE row)
    /\ snap' = "unknown"
    /\ UNCHANGED <<sendVars, cut, trackVars, released, sweepVars, turn>>
PollServerAlive ==
    /\ tick.at = "rows" /\ AsksIfDown
    /\ tick' = [at |-> "merge", dir |-> "fail"]
    /\ UNCHANGED <<sendVars, cut, trackVars, released, row, snap, sweepVars, turn>>

\* Mutant of Verdict: a session nobody knows of gets no verdict of its own.
VerdictOrNone(dir, global) ==
    IF dir = "busy" \/ global = "busy" THEN "busy" ELSE IF dir = "idle" THEN "idle" ELSE "none"

\* recordTurnSnapshot and getTurnVerdict: idle only if the session's directory answered.
Verdict(dir, global) ==
    CASE dir = "busy" \/ global = "busy" -> "busy"
      [] dir = "idle" /\ global # "busy" -> "idle"
      [] OTHER -> "unknown"

\* mergeGlobalFallback (the global answer may lack the session), then the snapshot is
\* recorded and the tracked dispatch judged by it.
PollMerge ==
    /\ tick.at = "merge"
    /\ \E global \in {"busy", "none"} :
          /\ global = "busy" => turn = "busy"
          /\ row' = IF global = "busy" THEN "busy" ELSE row
          /\ snap' = Verdict(tick.dir, global)
    /\ Pump(snap')
    /\ tick' = [at |-> "off"]
    /\ UNCHANGED <<sendVars, sweepVars, turn>>

-----------------------------------------------------------------------------
(* reconcile-sweep.ts with the dependencies of reconcile-wire.ts *)

\* listCandidates; then listRunningParts is awaited.
SweepList ==
    /\ "sweep" \in Ops /\ sweep = "off"
    /\ sweep' = IF row = "busy" \/ (owner # NoSend /\ aged) THEN "candidate" ELSE "none"
    /\ UNCHANGED <<sendVars, cut, trackVars, released, pollVars, idleRec, turn>>

\* Mutants of SweepClears: the request is not cut, or cut without saying so.
SweepMarksOnly == row' = IdleRow /\ UNCHANGED <<released, cut>>
SweepCutsSilently ==
    /\ row' = IdleRow /\ UNCHANGED released
    /\ cut' = IF owner = NoSend THEN cut ELSE cut \cup {owner}

\* markIdle and abortInFlight.
SweepClears ==
    /\ row' = IdleRow
    /\ IF owner = NoSend THEN UNCHANGED <<released, cut>>
       ELSE released' = TRUE /\ cut' = cut \cup {owner}

\* The loop over the candidates: its awaits return at once, the verdict is a local one.
SweepRound ==
    /\ sweep # "off" /\ sweep' = "off"
    /\ LET idle == sweep = "candidate" /\ snap = "idle" IN
        /\ idleRec' = CASE sweep = "none" \/ snap = "busy" -> "none"
                        [] idle /\ idleRec = "none" -> "once"
                        [] idle /\ idleRec = "ripe" -> "none"
                        [] OTHER -> idleRec
        /\ IF idle /\ idleRec = "ripe" THEN SweepClears ELSE UNCHANGED <<row, released, cut>>
    /\ UNCHANGED <<sendVars, trackVars, snap, tick, turn>>

-----------------------------------------------------------------------------
(* Time *)

\* 3 s of the grace period.
GracePasses ==
    /\ idleFor = "short" /\ idleFor' = "long"
    /\ UNCHANGED <<sendVars, cut, owner, aged, busyObs, released, pollVars, sweepVars, turn>>

\* 15 s without a new snapshot, because requests of the tick under way time out.
SnapshotExpires ==
    /\ Unreachable /\ tick.at # "off"
    /\ snap # "unknown" /\ snap' = "unknown"
    /\ UNCHANGED <<sendVars, cut, trackVars, released, row, tick, sweepVars, turn>>

\* What a minute is enough for: a tick ends, opencode receives a request or the connection
\* fails, and a turn shows in /session/status.
MinutePasses == tick.at = "off" /\ turn # "unseen" /\ Open \subseteq reached \cup cut

\* 60 s since the first idle observation of the sweep; a snapshot of then is stale.
ObservationRipens ==
    /\ idleRec = "once" /\ idleRec' = "ripe"
    /\ MinutePasses
    /\ snap' = "unknown"
    /\ UNCHANGED <<sendVars, cut, trackVars, released, row, tick, sweep, turn>>

\* 2 minutes since the dispatch.
DispatchAges ==
    /\ owner # NoSend /\ ~ aged /\ aged' = TRUE
    /\ MinutePasses
    /\ snap' = "unknown"
    /\ UNCHANGED <<sendVars, cut, owner, busyObs, idleFor, released, row, tick, sweepVars, turn>>

-----------------------------------------------------------------------------
(* opencode *)

\* The request is received and starts a turn, or joins the one that runs.
Deliver(s) ==
    /\ stage[s] = "wire" /\ s \notin reached \cup cut
    /\ reached' = reached \cup {s}
    /\ turn' = IF turn = "none" THEN "unseen" ELSE turn
    /\ UNCHANGED <<stage, over, cut, trackVars, released, pollVars, sweepVars>>

\* A turn that is not from a direct send (the queue, the scheduler, another client).
ExternalTurn ==
    /\ "external" \in Ops /\ turn = "none" /\ turn' = "unseen"
    /\ UNCHANGED <<sendVars, cut, trackVars, released, pollVars, sweepVars>>

TurnShows ==
    /\ turn = "unseen" /\ turn' = "busy"
    /\ UNCHANGED <<sendVars, cut, trackVars, released, pollVars, sweepVars>>

TurnEnds ==
    /\ turn # "none" /\ turn' = "none"
    /\ over' = over \cup reached
    /\ UNCHANGED <<stage, reached, cut, trackVars, released, pollVars, sweepVars>>

-----------------------------------------------------------------------------
ProxyStep ==
    \E s \in Sends :
        \/ Send(s) \/ Headers(s) \/ StreamEnds(s) \/ Rejected(s) \/ Refetch(s) \/ Throws(s)
        \/ Heals(s) \/ Resends(s) \/ HealEnds(s)
PollStep == PollCollect \/ PollRows \/ PollServerDown \/ PollServerAlive \/ PollMerge
SweepStep == SweepList \/ SweepRound
TimeStep == GracePasses \/ SnapshotExpires \/ ObservationRipens \/ DispatchAges
OpencodeStep == (\E s \in Sends : Deliver(s)) \/ ExternalTurn \/ TurnShows \/ TurnEnds

Next == ProxyStep \/ PollStep \/ SweepStep \/ TimeStep \/ OpencodeStep

Spec == Init /\ [][Next]_vars

\* The poller and the sweep are re-armed, time passes (whatever the poller is doing, hence
\* SF), opencode receives what is sent and ends its turns, a body ends, and a request that
\* was cut throws.  Nothing makes opencode answer: responses may get lost.
Fairness ==
    /\ WF_vars(PollCollect) /\ WF_vars(PollRows) /\ WF_vars(PollMerge)
    /\ WF_vars(SweepList) /\ WF_vars(SweepRound)
    /\ WF_vars(GracePasses) /\ SF_vars(ObservationRipens) /\ SF_vars(DispatchAges)
    /\ WF_vars(TurnShows) /\ WF_vars(TurnEnds)
    /\ \A s \in Sends :
        WF_vars(Deliver(s)) /\ WF_vars(StreamEnds(s)) /\ WF_vars(s \in cut /\ Throws(s))

FairSpec == Spec /\ Fairness

-----------------------------------------------------------------------------
(* Properties *)

TypeOK ==
    /\ stage \in [Sends -> {"new", "wire", "stream", "heal", "resent", "ok", "rejected", "error", "synthetic"}]
    /\ reached \subseteq Sends /\ over \subseteq reached /\ cut \subseteq Sends
    /\ owner \in Sends \cup {NoSend}
    /\ aged \in BOOLEAN /\ busyObs \in BOOLEAN /\ released \in BOOLEAN
    /\ idleFor \in {"none", "short", "long"}
    /\ row \in {"none", "busy", "idle"} /\ snap \in {"busy", "idle", "unknown"}
    /\ tick \in {[at |-> "off"]} \cup [at : {"rows"}, dir : Answers, down : BOOLEAN]
                \cup [at : {"merge"}, dir : Answers]
    /\ sweep \in {"off", "none", "candidate"} /\ idleRec \in {"none", "once", "ripe"}
    /\ turn \in {"none", "unseen", "busy"}

\* What poller or sweep cut is told from a failure: its release flag is set with the cut, and
\* while the request still waits the flag is lost only to another send of the session that
\* ends meanwhile, however sends, refusals, repairs and foreign turns overlap.
CutIsKnownAsReleased ==
    [][\A s \in cut' : stage'[s] = "wire" =>
          \/ released'
          \/ s \in cut /\ ~ released
          \/ \E t \in Open \ {s} : t \notin Open']_vars

\* From some time on the directory answers every poll, connections hold, and nobody else
\* starts turns.
Restless == ExternalTurn \/ SnapshotExpires \/ (\E s \in Sends : Refetch(s))
EventuallyCalm == <>[][~ Restless /\ ~ (tick'.at = "rows" /\ tick'.dir = "fail")]_vars

\* A request whose response got lost is settled without waiting for the 600 s timeout, once
\* things are calm: its turn is over, and the poller, or else the sweep, releases it, whatever
\* was observed and forgotten before; unless another send of the session replaced its entry.
LostResponseSettles ==
    EventuallyCalm =>
        \A s \in Sends : (stage[s] = "wire" /\ s \in over) ~> (stage[s] # "wire" \/ owner # s)

\* A row that says busy after the turn's end is corrected.
BusyRowIsCorrected ==
    EventuallyCalm => ((row = "busy" /\ turn = "none") ~> (row # "busy" \/ turn # "none"))
=============================================================================
