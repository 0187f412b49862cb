------------------------- MODULE PermissionApprover -------------------------
(***************************************************************************)
(* backend/src/services/permission-auto-approver.ts: permission asks of    *)
(* opencode are answered according to the user's rules.  An ask arrives as *)
(* an event of its directory's stream, or it is found by a sweep over what *)
(* is pending: after a (re)connect, on a 45 s timer, and after a rule      *)
(* changed (routes/permission-rules.ts).                                   *)
(*                                                                         *)
(* An action is the code between two awaits.  Every ask has a session of   *)
(* its own, and a rule either covers an ask or is not modelled, so a rule  *)
(* is its scope: a session, a repository, or all of them.                  *)
(***************************************************************************)
EXTENDS FiniteSets

CONSTANTS
    Asks,         \* permission requests
    Dirs,         \* watched directories: the workspace, then the repositories
    NoDir,        \* no sweep is running; no repository
    Repos,        \* those of them that are registered repositories
    First,        \* the directory whose feed was created first
    DirOf,        \* the directory of an ask's session
    InPhase,      \* were the feeds created by the same sync(), so that their timers coincide?
    Mapped,       \* the repository of an ask's session in session_repo_map, or NoDir
    Resolved,     \* ... to which resolveRepoId matches its directory: by path, else by suffix
    StatusRows,   \* ... in its session_status row
    Global,       \* the scope of a rule for every repository
    Changing      \* the scopes whose rule is created and deleted in this instance

ASSUME ApproverAssumption ==
    /\ First \in Dirs /\ NoDir \notin Dirs \cup Repos
    /\ DirOf \in [Asks -> Dirs]
    /\ InPhase \in BOOLEAN
    /\ \A repoOf \in {Mapped, Resolved, StatusRows} : repoOf \in [Asks -> Repos \cup {NoDir}]
    /\ Changing \subseteq Asks \cup Repos \cup {Global}
    /\ Global \notin Asks \cup Repos /\ Asks \cap Repos = {}

Scopes == Asks \cup Repos \cup {Global}   \* an ask stands for its session's rules

VARIABLES
    rules,        \* scopes that have a rule covering the asks
    ask,          \* of each ask: "new", "pending", or "gone" (answered by anybody)
    up,           \* directories whose event stream is connected
    event,        \* asks whose event is under way in a stream
    responded,    \* respondedRecently
    cached,       \* sessionDirectoryCache
    handler,      \* handleAskedPermission of each path and ask: where it is suspended
    sweepDir,     \* the directory of the running sweep; sweepRunning is sweepDir # NoDir
    listed,       \* has it received the list?
    todo,         \* asks of the list that it has not looked at
    kick,         \* directories that the running kickPermissionSweep still has to do
    kickDue,      \* a rule was changed and its handler has not called the kick yet
    covered,      \* history: asks that some rule of theirs covered while they were pending
    reachable,    \* does opencode answer?
    approved      \* history: asks for which an approval was sent

askVars   == <<ask, event, covered>>
sweepVars == <<sweepDir, listed, todo, kick>>
vars == <<rules, askVars, up, responded, cached, handler, sweepVars, kickDue, reachable,
          approved>>

Paths == {"event", "sweep"}
Idle == [at |-> "off"]
\* rule: did the session have a rule when the handler began?
Waiting(at, rule) == [at |-> at, rule |-> rule]

\* The repository that an ask belongs to, from the best source that names one.
OwnRepo(a) ==
    IF Mapped[a] # NoDir THEN Mapped[a]
    ELSE IF Resolved[a] # NoDir THEN Resolved[a] ELSE StatusRows[a]

\* Global rules are applied within repositories only.
InRepo(repo) == IF repo = NoDir THEN {} ELSE {repo, Global}
ScopesOf(a) == {a} \cup InRepo(OwnRepo(a))

Init ==
    /\ rules = {}
    /\ ask = [a \in Asks |-> "new"] /\ event = {} /\ covered = {}
    /\ up = {} /\ reachable = TRUE
    /\ responded = {} /\ cached = {}
    /\ handler = [p \in Paths |-> [a \in Asks |-> Idle]]
    /\ sweepDir = NoDir /\ listed = FALSE /\ todo = {} /\ kick = {}
    /\ kickDue = FALSE /\ approved = {}

-----------------------------------------------------------------------------
(* handleAskedPermission *)

Handle(p, a, h) == handler' = [handler EXCEPT ![p][a] = h]

\* Up to the first await: the session's rules are read here.
Begin(p, a) == Handle(p, a, Waiting("lookup", a \in rules))

\* The repository that the handler finds once the lookup gave the directory, or nothing.
RepoFound(a, answer, sessionRule) ==
    IF Mapped[a] # NoDir THEN Mapped[a]
    ELSE IF answer # "dir" THEN NoDir
    ELSE IF Resolved[a] # NoDir \/ sessionRule THEN Resolved[a]
    ELSE StatusRows[a]

RepoScope(a, answer, sessionRule) == InRepo(RepoFound(a, answer, sessionRule))

\* Mutant of Match: when the session's repository cannot be resolved, all rules are tried.
MatchAnyRepo(a, answer, sessionRule) ==
    sessionRule \/ (IF answer = "dir" THEN rules \cap RepoScope(a, answer, sessionRule) ELSE rules) # {}

\* Does a rule match?  Those of the repository are read after the await.
Match(a, answer, sessionRule) == sessionRule \/ rules \cap RepoScope(a, answer, sessionRule) # {}

\* The answer to the lookup of the directory: it, nothing (not 2xx), or an exception.
\* An approval is marked and sent before the next await.
LookupAnswers(p, a, answer) ==
    /\ handler[p][a].at = "lookup"
    /\ answer = "dir" \/ (a \notin cached /\ ~ reachable)
    /\ answer = "dir" => (a \in cached \/ reachable)
    /\ cached' = IF answer = "dir" THEN cached \cup {a} ELSE cached
    /\ IF answer # "error" /\ Match(a, answer, handler[p][a].rule)
       THEN /\ Handle(p, a, Waiting("reply", handler[p][a].rule))
            /\ responded' = responded \cup {a} /\ approved' = approved \cup {a}
       ELSE Handle(p, a, Idle) /\ UNCHANGED <<responded, approved>>
    /\ UNCHANGED <<rules, askVars, up, sweepVars, kickDue, reachable>>

\* opencode accepts the answer while the ask is pending.
ReplyOk(p, a) ==
    /\ handler[p][a].at = "reply" /\ ask[a] = "pending" /\ reachable
    /\ ask' = [ask EXCEPT ![a] = "gone"]
    /\ Handle(p, a, Idle)
    /\ UNCHANGED <<rules, event, covered, up, responded, cached, sweepVars, kickDue, reachable, approved>>

\* Mutant of Unmark: the ask stays marked, and is marked again when the mark expires.
UnmarkNot(a) == UNCHANGED responded

\* unmarkResponded.
Unmark(a) == responded' = responded \ {a}

\* The reply fails: the ask was answered meanwhile, or opencode is out of reach.
ReplyFails(p, a) ==
    /\ handler[p][a].at = "reply" /\ (ask[a] = "gone" \/ ~ reachable)
    /\ Unmark(a) /\ Handle(p, a, Idle)
    /\ UNCHANGED <<rules, askVars, up, cached, sweepVars, kickDue, reachable, approved>>

\* RESPONDED_TTL_MS, which is longer than a reply can take.
MarkExpires(a) ==
    /\ a \in responded /\ \A p \in Paths : handler[p][a].at # "reply"
    /\ responded' = responded \ {a}
    /\ UNCHANGED <<rules, askVars, up, cached, handler, sweepVars, kickDue, reachable, approved>>

-----------------------------------------------------------------------------
(* The sweep *)

\* sweepPendingPermissions(directory), called while no sweep runs.
StartSweep(d) == sweepDir' = d /\ listed' = FALSE /\ todo' = {}

\* ... called at any time: one sweep at a time, whatever its directory.
TrySweep(d) ==
    IF sweepDir # NoDir THEN UNCHANGED sweepVars ELSE StartSweep(d) /\ UNCHANGED kick

\* The end of a sweep (finally): a kick goes on with its next directory.
EndSweep ==
    IF kick = {} THEN sweepDir' = NoDir /\ listed' = FALSE /\ todo' = {} /\ UNCHANGED kick
    ELSE \E d \in kick : StartSweep(d) /\ kick' = kick \ {d}

SweepListFails ==
    /\ sweepDir # NoDir /\ ~ listed /\ ~ reachable
    /\ EndSweep
    /\ UNCHANGED <<rules, askVars, up, responded, cached, handler, kickDue, reachable, approved>>

\* Mutant of Pending: the directory is not passed on.
PendingAnywhere(d) == {a \in Asks : ask[a] = "pending"}

\* GET /permission?directory=d.
Pending(d) == {a \in Asks : ask[a] = "pending" /\ DirOf[a] = d}

SweepLists ==
    /\ sweepDir # NoDir /\ ~ listed /\ reachable
    /\ listed' = TRUE /\ todo' = Pending(sweepDir)
    /\ UNCHANGED <<rules, askVars, up, responded, cached, handler, sweepDir, kick, kickDue, reachable, approved>>

SweepIdle == sweepDir # NoDir /\ listed /\ \A a \in Asks : handler["sweep"][a] = Idle

\* The next ask of the list; one that was answered recently is skipped.
SweepNext(a) ==
    /\ SweepIdle /\ a \in todo
    /\ todo' = todo \ {a}
    /\ IF a \in responded THEN UNCHANGED handler ELSE Begin("sweep", a)
    /\ UNCHANGED <<rules, askVars, up, responded, cached, sweepDir, listed, kick, kickDue, reachable, approved>>

SweepEnds ==
    /\ SweepIdle /\ todo = {}
    /\ EndSweep
    /\ UNCHANGED <<rules, askVars, up, responded, cached, handler, kickDue, reachable, approved>>

\* The 45 s timers.  Timers in phase fire together, and the first one takes the flag.
SweepTimer(d) ==
    /\ sweepDir = NoDir /\ (InPhase => d = First)
    /\ TrySweep(d)
    /\ UNCHANGED <<rules, askVars, up, responded, cached, handler, kickDue, reachable, approved>>

\* kickPermissionSweep.
Kick ==
    /\ kickDue /\ kickDue' = FALSE
    /\ IF sweepDir # NoDir THEN UNCHANGED sweepVars
       ELSE \E d \in Dirs : StartSweep(d) /\ kick' = Dirs \ {d}
    /\ UNCHANGED <<rules, askVars, up, responded, cached, handler, reachable, approved>>

-----------------------------------------------------------------------------
(* The feeds *)

StreamConnects(d) ==
    /\ reachable /\ d \notin up /\ up' = up \cup {d}
    /\ TrySweep(d)
    /\ UNCHANGED <<rules, askVars, responded, cached, handler, kickDue, reachable, approved>>

\* The stream breaks, or the watchdog aborts it: events on their way are lost.
StreamDrops(d) ==
    /\ d \in up /\ up' = up \ {d}
    /\ event' = {a \in event : DirOf[a] # d}
    /\ UNCHANGED <<rules, ask, covered, responded, cached, handler, sweepVars, kickDue, reachable, approved>>

\* The event is read; the handler is not awaited.
Deliver(a) ==
    /\ a \in event /\ event' = event \ {a}
    /\ IF a \in responded THEN UNCHANGED handler ELSE Begin("event", a)
    /\ UNCHANGED <<rules, ask, covered, up, responded, cached, sweepVars, kickDue, reachable, approved>>

-----------------------------------------------------------------------------
(* opencode and the user *)

\* opencode asks: permission.asked is sent to whoever listens.
NewAsk(a) ==
    /\ ask[a] = "new" /\ ask' = [ask EXCEPT ![a] = "pending"]
    /\ event' = IF DirOf[a] \in up THEN event \cup {a} ELSE event
    /\ covered' = IF rules \cap ScopesOf(a) # {} THEN covered \cup {a} ELSE covered
    /\ UNCHANGED <<rules, up, responded, cached, handler, sweepVars, kickDue, reachable, approved>>

\* The user answers the dialog, or the session is aborted.
AnsweredElsewhere(a) ==
    /\ ask[a] = "pending" /\ ask' = [ask EXCEPT ![a] = "gone"]
    /\ UNCHANGED <<rules, event, covered, up, responded, cached, handler, sweepVars, kickDue, reachable, approved>>

\* A rule is created or deleted; the handler then awaits the sync of the config file.
\* One such handler at a time.
ChangeRule(s) ==
    /\ ~ kickDue /\ kickDue' = TRUE
    /\ rules' = IF s \in rules THEN rules \ {s} ELSE rules \cup {s}
    /\ covered' = covered \cup {a \in Asks : ask[a] # "new" /\ rules' \cap ScopesOf(a) # {}}
    /\ UNCHANGED <<ask, event, up, responded, cached, handler, sweepVars, reachable, approved>>

\* opencode restarts, hangs, or answers again.
OutageBegins ==
    /\ reachable /\ reachable' = FALSE
    /\ UNCHANGED <<rules, askVars, up, responded, cached, handler, sweepVars, kickDue, approved>>
OutageEnds ==
    /\ ~ reachable /\ reachable' = TRUE
    /\ UNCHANGED <<rules, askVars, up, responded, cached, handler, sweepVars, kickDue, approved>>

HandlerStep(p, a) ==
    \/ \E answer \in {"dir", "none", "error"} : LookupAnswers(p, a, answer)
    \/ ReplyOk(p, a) \/ ReplyFails(p, a)
SweepStep == SweepListFails \/ SweepLists \/ (\E a \in Asks : SweepNext(a)) \/ SweepEnds

Next ==
    \/ \E p \in Paths, a \in Asks : HandlerStep(p, a)
    \/ \E a \in Asks : MarkExpires(a) \/ Deliver(a) \/ NewAsk(a) \/ AnsweredElsewhere(a)
    \/ SweepStep \/ Kick
    \/ \E d \in Dirs : SweepTimer(d) \/ StreamConnects(d) \/ StreamDrops(d)
    \/ \E s \in Changing : ChangeRule(s)
    \/ OutageBegins \/ OutageEnds

Spec == Init /\ [][Next]_vars

\* Requests have timeouts, timers fire (those in phase only for the first directory, the others
\* find a sweep running), and opencode is reachable from some time on.
Fairness ==
    /\ \A p \in Paths, a \in Asks : WF_vars(HandlerStep(p, a))
    /\ WF_vars(SweepStep)
    /\ \A d \in Dirs : SF_vars(SweepTimer(d))
FairSpec == Spec /\ Fairness /\ <>[]reachable

-----------------------------------------------------------------------------
(* Properties *)

HandlerStates == {Idle} \cup [at : {"lookup", "reply"}, rule : BOOLEAN]

\* Types; a sweep looks at asks of its own directory only, and only while it runs.
TypeOK ==
    /\ rules \subseteq Scopes /\ ask \in [Asks -> {"new", "pending", "gone"}]
    /\ up \subseteq Dirs /\ event \subseteq Asks
    /\ responded \subseteq Asks /\ cached \subseteq Asks
    /\ handler \in [Paths -> [Asks -> HandlerStates]]
    /\ sweepDir \in Dirs \cup {NoDir} /\ listed \in BOOLEAN
    /\ todo \subseteq {a \in Asks : DirOf[a] = sweepDir} /\ kick \subseteq Dirs
    /\ kickDue \in BOOLEAN /\ reachable \in BOOLEAN
    /\ covered \subseteq Asks /\ approved \subseteq Asks

\* An approval is sent only for an ask that a rule of its session, of its repository or, within a
\* repository, a global rule covered at some time since it was asked: never by the rule of
\* another repository, and never by a rule that was gone before.
ApprovedOnlyByOwnRules == approved \subseteq covered

\* The directories whose timers find no sweep running.
SweptByTimer == IF InPhase THEN {First} ELSE Dirs

Answered(a) ==
    \A s \in ScopesOf(a) \cap Changing :
        (ask[a] = "pending" /\ s \in rules) ~> (ask[a] = "gone" \/ s \notin rules)

\* The sweep catches what the streams missed, in a directory whose timer gets through: an ask
\* that a rule covers is answered in the end, or that rule is deleted.
CoveredAskIsAnswered == \A a \in Asks : DirOf[a] \in SweptByTimer => Answered(a)

\* ... and in every directory, as the comments of the timers and of the kick have it.
EveryCoveredAskIsAnswered == \A a \in Asks : Answered(a)
=============================================================================
