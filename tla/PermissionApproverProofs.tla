---------------------- MODULE PermissionApproverProofs ----------------------
(***************************************************************************)
(* For any requests, directories and ways to find a session's repository:  *)
(* permission-auto-approver.ts approves a request only by a rule of its    *)
(* own, one that was in force at some time since the request.              *)
(*                                                                         *)
(* The property is not inductive.  What it needs: a handler's memory of    *)
(* the session's rules, read before the lookup, is about a request that    *)
(* such a rule covered; and every request the event path or the sweep      *)
(* holds was made, so that a rule found after the lookup covers it.        *)
(***************************************************************************)
EXTENDS PermissionApprover, TLAPS

Made == {a \in Asks : ask[a] # "new"}

\* A request that a rule of its own covers now has been covered.
CoverIsRecorded == \A a \in Made : rules \cap ScopesOf(a) # {} => a \in covered

\* Only requests that were made are announced, listed or handled.
HandledIsMade ==
    /\ event \subseteq Made /\ todo \subseteq Made
    /\ \A p \in Paths, a \in Asks : handler[p][a].at # "off" => a \in Made

\* A handler that saw a rule of the session is about a request that was covered.
SeenRuleIsRecorded ==
    \A p \in Paths, a \in Asks : handler[p][a].at # "off" /\ handler[p][a].rule => a \in covered

-----------------------------------------------------------------------------
(* Types *)

\* Nothing was asked, and nobody is suspended.
LEMMA TypeInit == Init => TypeOK
BY DEF Init, TypeOK, HandlerStates

\* Where a handler may be suspended.
LEMMA HandlerStateOK ==
    /\ Idle \in HandlerStates
    /\ \A at \in {"lookup", "reply"}, rule \in BOOLEAN : Waiting(at, rule) \in HandlerStates
BY DEF HandlerStates, Idle, Waiting

\* Suspending one handler keeps the types of all.
LEMMA HandleTypes ==
    ASSUME TypeOK, NEW p \in Paths, NEW a \in Asks, NEW h \in HandlerStates, Handle(p, a, h)
    PROVE  handler' \in [Paths -> [Asks -> HandlerStates]]
BY DEF TypeOK, Handle

LEMMA BeginTypes ==
    ASSUME TypeOK, NEW p \in Paths, NEW a \in Asks, Begin(p, a)
    PROVE  handler' \in [Paths -> [Asks -> HandlerStates]]
<1>1. Waiting("lookup", a \in rules) \in HandlerStates
    BY DEF Waiting, HandlerStates
<1> QED
    BY <1>1, HandleTypes DEF Begin

\* What a sweep does to its four variables.
SweepTypes ==
    /\ sweepDir \in Dirs \cup {NoDir} /\ listed \in BOOLEAN
    /\ todo \subseteq {a \in Asks : DirOf[a] = sweepDir} /\ kick \subseteq Dirs

LEMMA StartSweepTypes ==
    ASSUME NEW d \in Dirs, StartSweep(d), kick' \subseteq Dirs PROVE SweepTypes'
BY DEF StartSweep, SweepTypes

LEMMA TrySweepTypes == ASSUME TypeOK, NEW d \in Dirs, TrySweep(d) PROVE SweepTypes'
BY StartSweepTypes DEF TrySweep, sweepVars, TypeOK, SweepTypes

LEMMA EndSweepTypes == ASSUME TypeOK, EndSweep PROVE SweepTypes'
<1>1. CASE kick = {}
    BY <1>1 DEF EndSweep, SweepTypes, TypeOK
<1>2. CASE kick # {}
    <2>1. PICK d \in kick : StartSweep(d) /\ kick' = kick \ {d}
        BY <1>2 DEF EndSweep
    <2>2. d \in Dirs /\ kick' \subseteq Dirs
        BY <2>1 DEF TypeOK
    <2> QED
        BY <2>1, <2>2, StartSweepTypes
<1> QED
    BY <1>1, <1>2

LEMMA TypeHandler ==
    ASSUME TypeOK, NEW p \in Paths, NEW a \in Asks, HandlerStep(p, a) PROVE TypeOK'
<1>1. ASSUME NEW answer \in {"dir", "none", "error"}, LookupAnswers(p, a, answer) PROVE TypeOK'
    <2>1. handler[p][a] \in HandlerStates /\ handler[p][a].at = "lookup"
        BY <1>1 DEF TypeOK, LookupAnswers
    <2>2. handler[p][a].rule \in BOOLEAN
        BY <2>1 DEF HandlerStates, Idle
    <2>3. /\ Idle \in HandlerStates
          /\ Waiting("reply", handler[p][a].rule) \in HandlerStates
        BY <2>2, HandlerStateOK
    <2>4. handler' \in [Paths -> [Asks -> HandlerStates]]
        BY <1>1, <2>3, HandleTypes DEF LookupAnswers
    <2> QED
        BY <1>1, <2>4 DEF LookupAnswers, TypeOK, askVars, sweepVars
<1>2. CASE ReplyOk(p, a)
    <2>1. handler' \in [Paths -> [Asks -> HandlerStates]]
        BY <1>2, HandlerStateOK, HandleTypes DEF ReplyOk
    <2> QED
        BY <1>2, <2>1 DEF ReplyOk, TypeOK, sweepVars
<1>3. CASE ReplyFails(p, a)
    <2>1. handler' \in [Paths -> [Asks -> HandlerStates]]
        BY <1>3, HandlerStateOK, HandleTypes DEF ReplyFails
    <2> QED
        BY <1>3, <2>1 DEF ReplyFails, Unmark, TypeOK, askVars, sweepVars
<1> QED
    BY <1>1, <1>2, <1>3 DEF HandlerStep

LEMMA TypeSweep == ASSUME TypeOK, SweepStep \/ Kick PROVE TypeOK'
<1>1. CASE SweepListFails
    BY <1>1, EndSweepTypes DEF SweepListFails, TypeOK, askVars, SweepTypes
<1>2. CASE SweepLists
    BY <1>2 DEF SweepLists, Pending, TypeOK, askVars
<1>3. ASSUME NEW a \in Asks, SweepNext(a) PROVE TypeOK'
    <2>1. handler' \in [Paths -> [Asks -> HandlerStates]]
        BY <1>3, BeginTypes DEF SweepNext, TypeOK, Paths
    <2> QED
        BY <1>3, <2>1 DEF SweepNext, TypeOK, askVars
<1>4. CASE SweepEnds
    BY <1>4, EndSweepTypes DEF SweepEnds, TypeOK, askVars, SweepTypes
<1>5. CASE Kick
    <2>1. CASE sweepDir # NoDir
        BY <1>5, <2>1 DEF Kick, TypeOK, askVars, sweepVars
    <2>2. CASE sweepDir = NoDir
        <3>1. PICK d \in Dirs : StartSweep(d) /\ kick' = Dirs \ {d}
            BY <1>5, <2>2 DEF Kick
        <3>2. SweepTypes'
            BY <3>1, StartSweepTypes
        <3> QED
            BY <1>5, <3>2 DEF Kick, TypeOK, askVars, SweepTypes
    <2> QED
        BY <2>1, <2>2
<1> QED
    BY <1>1, <1>2, <1>3, <1>4, <1>5 DEF SweepStep

LEMMA TypeFeed ==
    ASSUME TypeOK, NEW d \in Dirs, SweepTimer(d) \/ StreamConnects(d) \/ StreamDrops(d)
    PROVE  TypeOK'
<1>1. CASE SweepTimer(d)
    BY <1>1, TrySweepTypes DEF SweepTimer, TypeOK, askVars, SweepTypes
<1>2. CASE StreamConnects(d)
    BY <1>2, TrySweepTypes DEF StreamConnects, TypeOK, askVars, SweepTypes
<1>3. CASE StreamDrops(d)
    BY <1>3 DEF StreamDrops, TypeOK, sweepVars
<1> QED
    BY <1>1, <1>2, <1>3

LEMMA TypeAsk ==
    ASSUME TypeOK, NEW a \in Asks, MarkExpires(a) \/ Deliver(a) \/ NewAsk(a) \/ AnsweredElsewhere(a)
    PROVE  TypeOK'
<1>1. CASE MarkExpires(a)
    BY <1>1 DEF MarkExpires, TypeOK, askVars, sweepVars
<1>2. CASE Deliver(a)
    <2>1. handler' \in [Paths -> [Asks -> HandlerStates]]
        BY <1>2, BeginTypes DEF Deliver, TypeOK, Paths
    <2> QED
        BY <1>2, <2>1 DEF Deliver, TypeOK, sweepVars
<1>3. CASE NewAsk(a)
    BY <1>3 DEF NewAsk, TypeOK, sweepVars
<1>4. CASE AnsweredElsewhere(a)
    BY <1>4 DEF AnsweredElsewhere, TypeOK, sweepVars
<1> QED
    BY <1>1, <1>2, <1>3, <1>4

LEMMA TypeRest ==
    ASSUME ApproverAssumption, TypeOK,
           (\E s \in Changing : ChangeRule(s)) \/ OutageBegins \/ OutageEnds
    PROVE  TypeOK'
<1>1. ASSUME NEW s \in Changing, ChangeRule(s) PROVE TypeOK'
    <2>1. s \in Scopes
        BY ApproverAssumption DEF ApproverAssumption, Scopes
    <2> QED
        BY <1>1, <2>1 DEF ChangeRule, TypeOK, sweepVars
<1>2. CASE OutageBegins \/ OutageEnds
    BY <1>2 DEF OutageBegins, OutageEnds, TypeOK, askVars, sweepVars
<1> QED
    BY <1>1, <1>2

LEMMA TypeNext == ASSUME ApproverAssumption, TypeOK, [Next]_vars PROVE TypeOK'
<1>1. CASE Next
    BY <1>1, TypeHandler, TypeSweep, TypeFeed, TypeAsk, TypeRest DEF Next
<1>2. CASE UNCHANGED vars
    BY <1>2 DEF vars, askVars, sweepVars, TypeOK
<1> QED
    BY <1>1, <1>2

\* For any requests and directories, the approver's state keeps its types; above all, a sweep
\* holds requests of the directory it was started for only (sweepPendingPermissions).
THEOREM ApproverTypeCorrect == Spec => []TypeOK
<1>1. Init => TypeOK
    BY TypeInit
<1>2. TypeOK /\ [Next]_vars => TypeOK'
    BY ApproverAssumption, TypeNext
<1> QED
    BY <1>1, <1>2, PTL DEF Spec

-----------------------------------------------------------------------------
(* Approvals *)

\* All but the types, which have their own theorem.
Recorded == CoverIsRecorded /\ HandledIsMade /\ SeenRuleIsRecorded /\ ApprovedOnlyByOwnRules

USE DEF Recorded, CoverIsRecorded, HandledIsMade, SeenRuleIsRecorded, ApprovedOnlyByOwnRules, Made

LEMMA RecordedInit == Init => Recorded
BY DEF Init, Idle

\* What handleAskedPermission looks at after the lookup is the request's own.
LEMMA RepoScopeIsOwn ==
    ASSUME NEW a \in Asks, NEW answer, NEW seen, answer \in {"dir", "none", "error"}
    PROVE  RepoScope(a, answer, seen) \subseteq ScopesOf(a)
BY DEF RepoScope, RepoFound, ScopesOf, OwnRepo, InRepo

\* A handler of a request that was made begins, with what it reads of the session's rules.
LEMMA BeginRecorded ==
    ASSUME TypeOK, Recorded, NEW p \in Paths, NEW a \in Made, Begin(p, a)
    PROVE  \A q \in Paths, b \in Asks : handler'[q][b].at # "off" =>
               b \in Made /\ (handler'[q][b].rule => b \in covered)
<1>1. handler' = [handler EXCEPT ![p][a] = Waiting("lookup", a \in rules)]
    BY DEF Begin, Handle
<1>2. a \in rules => a \in covered
    BY DEF ScopesOf
<1> QED
    BY <1>1, <1>2 DEF TypeOK, Waiting

\* A handler of path p that ends or goes on to its reply keeps the request and what it saw.
LEMMA HandleRecorded ==
    ASSUME TypeOK, Recorded, NEW p \in Paths, NEW a \in Asks, handler[p][a].at # "off",
           NEW h \in {Idle, Waiting("reply", handler[p][a].rule)}, Handle(p, a, h)
    PROVE  \A q \in Paths, b \in Asks : handler'[q][b].at # "off" =>
               b \in Made /\ (handler'[q][b].rule => b \in covered)
BY DEF Handle, TypeOK, Idle, Waiting

LEMMA RecordedHandler ==
    ASSUME TypeOK, Recorded, NEW p \in Paths, NEW a \in Asks, HandlerStep(p, a) PROVE Recorded'
<1>1. ASSUME NEW answer \in {"dir", "none", "error"}, LookupAnswers(p, a, answer) PROVE Recorded'
    <2> DEFINE seen == handler[p][a].rule
    <2>1. /\ handler[p][a].at = "lookup"
          /\ UNCHANGED <<rules, ask, event, covered, todo>>
        BY <1>1 DEF LookupAnswers, askVars, sweepVars
    <2>2. a \in Made /\ (seen => a \in covered)
        BY <2>1
    <2>3. Match(a, answer, seen) => a \in covered
        BY <2>2, RepoScopeIsOwn DEF Match
    <2>4. \E h \in {Idle, Waiting("reply", seen)} : Handle(p, a, h)
        BY <1>1 DEF LookupAnswers
    <2>5. \A q \in Paths, b \in Asks : handler'[q][b].at # "off" =>
              b \in Made /\ (handler'[q][b].rule => b \in covered)
        BY <2>1, <2>4, HandleRecorded
    <2>6. approved' \subseteq covered
        BY <1>1, <2>3 DEF LookupAnswers
    <2> QED
        BY <2>1, <2>5, <2>6 DEF ScopesOf
<1>2. CASE ReplyOk(p, a)
    <2>1. /\ handler[p][a].at = "reply" /\ Handle(p, a, Idle)
          /\ UNCHANGED <<rules, event, covered, todo, approved>>
          /\ ask' = [ask EXCEPT ![a] = "gone"] /\ ask[a] = "pending"
        BY <1>2 DEF ReplyOk, sweepVars
    <2>2. Made' = Made
        BY <2>1 DEF TypeOK
    <2>3. \A q \in Paths, b \in Asks : handler'[q][b].at # "off" =>
              b \in Made /\ (handler'[q][b].rule => b \in covered)
        BY <2>1, HandleRecorded
    <2> QED
        BY <2>1, <2>2, <2>3 DEF ScopesOf
<1>3. CASE ReplyFails(p, a)
    <2>1. /\ handler[p][a].at = "reply" /\ Handle(p, a, Idle)
          /\ UNCHANGED <<rules, ask, event, covered, todo, approved>>
        BY <1>3 DEF ReplyFails, askVars, sweepVars
    <2>2. \A q \in Paths, b \in Asks : handler'[q][b].at # "off" =>
              b \in Made /\ (handler'[q][b].rule => b \in covered)
        BY <2>1, HandleRecorded
    <2> QED
        BY <2>1, <2>2 DEF ScopesOf
<1> QED
    BY <1>1, <1>2, <1>3 DEF HandlerStep

\* The sweep lists what is pending, and hands on what is on its list.
LEMMA RecordedSweep == ASSUME TypeOK, Recorded, SweepStep \/ Kick PROVE Recorded'
<1>1. CASE SweepListFails \/ SweepEnds \/ Kick
    <2>1. todo' \in {{}, todo}
        BY <1>1 DEF SweepListFails, SweepEnds, Kick, EndSweep, StartSweep, sweepVars
    <2>2. UNCHANGED <<rules, ask, event, covered, handler, approved>>
        BY <1>1 DEF SweepListFails, SweepEnds, Kick, askVars
    <2> QED
        BY <2>1, <2>2 DEF ScopesOf
<1>2. CASE SweepLists
    BY <1>2 DEF SweepLists, Pending, askVars, ScopesOf
<1>3. ASSUME NEW a \in Asks, SweepNext(a) PROVE Recorded'
    <2>1. /\ a \in todo /\ todo' \subseteq todo
          /\ UNCHANGED <<rules, ask, event, covered, approved>>
          /\ UNCHANGED handler \/ Begin("sweep", a)
        BY <1>3 DEF SweepNext, askVars
    <2>2. \A q \in Paths, b \in Asks : handler'[q][b].at # "off" =>
              b \in Made /\ (handler'[q][b].rule => b \in covered)
        BY <2>1, BeginRecorded DEF Paths
    <2> QED
        BY <2>1, <2>2 DEF ScopesOf
<1> QED
    BY <1>1, <1>2, <1>3 DEF SweepStep

LEMMA RecordedFeed ==
    ASSUME Recorded, NEW d \in Dirs, SweepTimer(d) \/ StreamConnects(d) \/ StreamDrops(d)
    PROVE  Recorded'
<1>1. todo' \in {{}, todo} /\ event' \subseteq event
    BY DEF SweepTimer, StreamConnects, StreamDrops, TrySweep, StartSweep, askVars, sweepVars
<1>2. UNCHANGED <<rules, ask, covered, handler, approved>>
    BY DEF SweepTimer, StreamConnects, StreamDrops, askVars
<1> QED
    BY <1>1, <1>2 DEF ScopesOf

LEMMA RecordedAsk ==
    ASSUME TypeOK, Recorded, NEW a \in Asks,
           MarkExpires(a) \/ Deliver(a) \/ NewAsk(a) \/ AnsweredElsewhere(a)
    PROVE  Recorded'
<1>1. CASE MarkExpires(a)
    BY <1>1 DEF MarkExpires, askVars, sweepVars, ScopesOf
<1>2. CASE Deliver(a)
    <2>1. /\ a \in event /\ event' \subseteq event
          /\ UNCHANGED <<rules, ask, covered, todo, approved>>
          /\ UNCHANGED handler \/ Begin("event", a)
        BY <1>2 DEF Deliver, sweepVars
    <2>2. \A q \in Paths, b \in Asks : handler'[q][b].at # "off" =>
              b \in Made /\ (handler'[q][b].rule => b \in covered)
        BY <2>1, BeginRecorded DEF Paths
    <2> QED
        BY <2>1, <2>2 DEF ScopesOf
<1>3. CASE NewAsk(a)
    <2>1. /\ ask' = [ask EXCEPT ![a] = "pending"]
          /\ event' \subseteq event \cup {a} /\ covered \subseteq covered'
          /\ rules \cap ScopesOf(a) # {} => a \in covered'
          /\ UNCHANGED <<rules, todo, handler, approved>>
        BY <1>3 DEF NewAsk, sweepVars
    <2>2. Made' = Made \cup {a}
        BY <2>1 DEF TypeOK
    <2> QED
        BY <2>1, <2>2 DEF ScopesOf
<1>4. CASE AnsweredElsewhere(a)
    <2>1. /\ ask[a] = "pending" /\ ask' = [ask EXCEPT ![a] = "gone"]
          /\ UNCHANGED <<rules, event, covered, todo, handler, approved>>
        BY <1>4 DEF AnsweredElsewhere, sweepVars
    <2>2. Made' = Made
        BY <2>1 DEF TypeOK
    <2> QED
        BY <2>1, <2>2 DEF ScopesOf
<1> QED
    BY <1>1, <1>2, <1>3, <1>4

\* A rule that is created covers all requests of its scope that were made.
LEMMA RecordedRest ==
    ASSUME Recorded, (\E s \in Changing : ChangeRule(s)) \/ OutageBegins \/ OutageEnds
    PROVE  Recorded'
<1>1. ASSUME NEW s \in Changing, ChangeRule(s) PROVE Recorded'
    <2>1. /\ covered' = covered \cup {a \in Asks : ask[a] # "new" /\ rules' \cap ScopesOf(a) # {}}
          /\ UNCHANGED <<ask, event, todo, handler, approved>>
        BY <1>1 DEF ChangeRule, sweepVars
    <2> QED
        BY <2>1 DEF ScopesOf
<1>2. CASE OutageBegins \/ OutageEnds
    BY <1>2 DEF OutageBegins, OutageEnds, askVars, sweepVars, ScopesOf
<1> QED
    BY <1>1, <1>2

LEMMA RecordedNext == ASSUME TypeOK, Recorded, [Next]_vars PROVE Recorded'
<1>1. CASE Next
    BY <1>1, RecordedHandler, RecordedSweep, RecordedFeed, RecordedAsk, RecordedRest DEF Next
<1>2. CASE UNCHANGED vars
    BY <1>2 DEF vars, askVars, sweepVars, ScopesOf
<1> QED
    BY <1>1, <1>2

\* For any requests, directories and rules, an approval is sent only for a request that a rule of
\* its session, of its repository or, in a repository, a global one covered at some time since it
\* was asked (handleAskedPermission), although the rules are read before and after an await.
THEOREM ApprovedAlwaysByOwnRules == Spec => []ApprovedOnlyByOwnRules
<1>1. Init => Recorded
    BY RecordedInit
<1>2. TypeOK /\ Recorded /\ [Next]_vars => Recorded'
    BY RecordedNext
<1>3. Recorded => ApprovedOnlyByOwnRules
    OBVIOUS
<1> QED
    BY <1>1, <1>2, <1>3, ApproverTypeCorrect, PTL DEF Spec
=============================================================================
