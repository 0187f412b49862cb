------------------------ MODULE OpencodeServerProofs ------------------------
(***************************************************************************)
(* For any number of processes and callers: there is never a second        *)
(* opencode server, the backend never exits over its own child, and a      *)
(* restart is not over before a server was launched for it.                *)
(*                                                                         *)
(* The first two follow from what the code never says: whenever a process  *)
(* that it launched is alive, serverPid is this process, isManaged is set, *)
(* nobody is about to attach or to launch another one, and no exit event   *)
(* is outstanding that would clear serverPid.                              *)
(* The third follows from what isManaged says, that our child is alone: a  *)
(* restart that has stopped the server finds nobody to attach to.          *)
(***************************************************************************)
EXTENDS OpencodeServer, TLAPS

States == {"off", "start", "stop", "pause", "go", "takeover", "join", "wait", "probe"}

Stages == {"off", "health", "attach", "verify", "adopt", "port", "boot"}

\* A caller that joined waits for nothing else, and only restart() waits for a start.
CallersAreWhereTheySay ==
    /\ \A c \in Callers : joined[c] # NoOne => at[c] = "join"
    /\ \A c \in Callers : at[c] = "wait" => c \in Restarters \cup {Monitor}

\* The part of TypeOK that is about the callers.
CallTypeOK ==
    /\ starter \in Callers \cup {NoOne}
    /\ stage \in Stages
    /\ (stage = "off") <=> (starter = NoOne)
    /\ promise \in Restarters \cup {Monitor, NoOne}
    /\ at \in [Callers -> States]
    /\ \A c \in Callers : at[c] = "start" <=> starter = c
    /\ joined \in [Callers -> Callers \cup {NoOne}]
    /\ CallersAreWhereTheySay

ProcTypeOK ==
    /\ proc \in [Procs -> {"none", "booting", "up", "hung", "dead"}]
    /\ launched \subseteq Procs
    /\ pid \in Procs \cup {NoProc} /\ healthy \in BOOLEAN /\ managed \in BOOLEAN

FlagTypeOK ==
    /\ watching \in BOOLEAN /\ failedOnce \in BOOLEAN /\ exited \in BOOLEAN
    /\ since \in [Callers -> BOOLEAN]

TypeInv == ProcTypeOK /\ CallTypeOK /\ FlagTypeOK

-----------------------------------------------------------------------------
(* Types *)

LEMMA TypeInit == Init => TypeInv
<1> SUFFICES ASSUME Init PROVE TypeInv
    OBVIOUS
<1>1. ProcTypeOK
    BY DEF Init, ProcTypeOK
<1>2. CallTypeOK
    BY ServerAssumption
       DEF Init, CallTypeOK, CallersAreWhereTheySay, States, Stages, ServerAssumption
<1>3. FlagTypeOK
    BY DEF Init, FlagTypeOK
<1> QED
    BY <1>1, <1>2, <1>3 DEF TypeInv

\* A caller that moves on to another await outside start().
LEMMA MoveTypes ==
    ASSUME CallTypeOK, NEW c \in Callers, at[c] \notin {"start", "join"},
           NEW s \in States \ {"start", "wait"}, at' = [at EXCEPT ![c] = s],
           UNCHANGED <<startVars, promise, joined>>
    PROVE  CallTypeOK'
BY DEF CallTypeOK, CallersAreWhereTheySay, startVars

\* A caller returns, from start() or from elsewhere, and with it whoever joined it.
LEMMA LeaveTypes ==
    ASSUME CallTypeOK, NEW c \in Callers, at[c] # "join", Leave(c),
           \/ at[c] # "start" /\ UNCHANGED startVars
           \/ starter = c /\ starter' = NoOne /\ stage' = "off"
    PROVE  CallTypeOK'
<1>1. promise' \in Restarters \cup {Monitor, NoOne}
    BY DEF CallTypeOK, Leave
<1>2. at' \in [Callers -> States] /\ joined' \in [Callers -> Callers \cup {NoOne}]
    BY DEF CallTypeOK, Leave, Return, States
<1>3. \A d \in Callers : at'[d] = IF d = c \/ joined[d] = c THEN "off" ELSE at[d]
    BY DEF CallTypeOK, Leave, Return
<1>4. \A d \in Callers : joined[d] = c => at[d] = "join"
    BY ServerAssumption DEF CallTypeOK, CallersAreWhereTheySay, ServerAssumption
<1>5. \A d \in Callers : at'[d] = "start" <=> starter' = d
    BY <1>3, <1>4, ServerAssumption DEF CallTypeOK, startVars, ServerAssumption
<1>6. \A d \in Callers : joined'[d] # NoOne => joined[d] # NoOne /\ joined[d] # c
    BY DEF CallTypeOK, Leave, Return
<1>7. \A d \in Callers : joined'[d] # NoOne => at'[d] = "join"
    BY <1>3, <1>6 DEF CallTypeOK, CallersAreWhereTheySay
<1>8. \A d \in Callers : at'[d] = "wait" => d \in Restarters \cup {Monitor}
    BY <1>3 DEF CallTypeOK, CallersAreWhereTheySay
<1>9. (stage' = "off") <=> (starter' = NoOne)
    BY DEF CallTypeOK, startVars
<1>10. stage' \in Stages /\ starter' \in Callers \cup {NoOne}
    BY DEF CallTypeOK, Stages, startVars
<1> QED
    BY <1>1, <1>2, <1>5, <1>7, <1>8, <1>9, <1>10 DEF CallTypeOK, CallersAreWhereTheySay

\* The end of a start().
LEMMA FinishTypes == ASSUME CallTypeOK, starter # NoOne, FinishStart PROVE CallTypeOK'
<1>1. starter \in Callers /\ at[starter] # "join"
    BY DEF CallTypeOK
<1> QED
    BY <1>1, LeaveTypes DEF FinishStart

LEMMA EnterStartTypes ==
    ASSUME CallTypeOK, NEW c \in Callers, at[c] \notin {"start", "join"}, NEW seen, EnterStart(c, seen)
    PROVE  CallTypeOK'
<1>1. CASE starter # NoOne \/ seen
    BY <1>1, LeaveTypes DEF EnterStart
<1>2. CASE ~ (starter # NoOne \/ seen)
    <2>1. /\ starter = NoOne /\ starter' = c /\ stage' \in {"attach", "health"}
          /\ at' = [at EXCEPT ![c] = "start"] /\ UNCHANGED <<promise, joined>>
        BY <1>2 DEF EnterStart
    <2> QED
        BY <2>1, ServerAssumption
           DEF CallTypeOK, CallersAreWhereTheySay, States, Stages, ServerAssumption
<1> QED
    BY <1>1, <1>2

LEMMA EnterStopTypes ==
    ASSUME ProcTypeOK, NEW c \in Callers, NEW next, NEW seen \in BOOLEAN, EnterStop(c, next, seen),
           UNCHANGED <<managed, launched>>
    PROVE  /\ ProcTypeOK'
           /\ \E s \in {next, "stop"} : at' = [at EXCEPT ![c] = s]
BY DEF ProcTypeOK, EnterStop, Killed

LEMMA EnterBodyTypes ==
    ASSUME ProcTypeOK, CallTypeOK, NEW c \in Restarters \cup {Monitor}, at[c] \notin {"start", "join"},
           NEW seen \in BOOLEAN, EnterBody(c, seen), UNCHANGED <<managed, launched, startVars>>
    PROVE  ProcTypeOK' /\ CallTypeOK'
<1>1. c \in Callers
    BY DEF Callers
<1>2. ProcTypeOK' /\ \E s \in {"pause", "stop", "takeover"} : at' = [at EXCEPT ![c] = s]
    <2>1. CASE managed
        BY <1>1, <2>1, EnterStopTypes DEF EnterBody
    <2>2. CASE ~ managed
        BY <2>2 DEF EnterBody, ProcTypeOK
    <2> QED
        BY <2>1, <2>2
<1>3. promise' = c /\ UNCHANGED joined
    BY DEF EnterBody
<1> QED
    BY <1>1, <1>2, <1>3 DEF CallTypeOK, CallersAreWhereTheySay, startVars, States

LEMMA EnterRestartTypes ==
    ASSUME ProcTypeOK, CallTypeOK, NEW c \in Restarters \cup {Monitor}, at[c] \notin {"start", "join"},
           NEW seen \in BOOLEAN, EnterRestart(c, seen), UNCHANGED <<managed, launched, startVars>>
    PROVE  ProcTypeOK' /\ CallTypeOK'
<1>1. c \in Callers
    BY DEF Callers
<1>2. CASE promise # NoOne
    <2>1. /\ at' = [at EXCEPT ![c] = "join"] /\ joined' = [joined EXCEPT ![c] = promise]
          /\ healthy' = seen /\ UNCHANGED <<proc, pid, promise>>
        BY <1>2 DEF EnterRestart
    <2>2. promise \in Callers
        BY <1>2 DEF CallTypeOK, Callers
    <2> QED
        BY <1>1, <2>1, <2>2
           DEF ProcTypeOK, CallTypeOK, CallersAreWhereTheySay, startVars, States
<1>3. CASE promise = NoOne /\ starter # NoOne
    <2>1. /\ at' = [at EXCEPT ![c] = "wait"]
          /\ healthy' = seen /\ UNCHANGED <<proc, pid, promise, joined>>
        BY <1>3 DEF EnterRestart
    <2>2. joined[c] = NoOne
        BY <1>1 DEF CallTypeOK, CallersAreWhereTheySay
    <2> QED
        BY <1>1, <2>1, <2>2
           DEF ProcTypeOK, CallTypeOK, CallersAreWhereTheySay, startVars, States
<1>4. CASE promise = NoOne /\ starter = NoOne
    BY <1>4, EnterBodyTypes DEF EnterRestart
<1> QED
    BY <1>2, <1>3, <1>4

USE DEF TypeInv

\* The processes themselves.
LEMMA TypeProc ==
    ASSUME TypeInv, NEW p \in Procs, ExitEvent(p) \/ Binds(p) \/ Crashes(p) \/ Hangs(p)
    PROVE  TypeInv'
<1>1. ProcTypeOK'
    BY DEF ProcTypeOK, ExitEvent, Binds, Crashes, Hangs, Killed, flagVars
<1>2. UNCHANGED <<startVars, callVars, watching, failedOnce, exited, since>>
    BY DEF ExitEvent, Binds, Crashes, Hangs
<1> QED
    BY <1>1, <1>2
       DEF CallTypeOK, CallersAreWhereTheySay, FlagTypeOK, startVars, callVars

LEMMA TypeStart == ASSUME TypeInv, StartStep PROVE TypeInv'
<1>1. CASE HealthComes
    <2>1. CallTypeOK'
        BY <1>1, FinishTypes DEF HealthComes, CallTypeOK
    <2> QED
        BY <1>1, <2>1 DEF HealthComes, ProcTypeOK, FlagTypeOK
<1>2. CASE HealthTimesOut
    <2>1. ProcTypeOK'
        BY <1>2 DEF HealthTimesOut, Teardown, Killed, ProcTypeOK
    <2>2. CallTypeOK'
        BY <1>2 DEF HealthTimesOut, CallTypeOK, Stages, callVars, CallersAreWhereTheySay
    <2> QED
        BY <1>2, <2>1, <2>2 DEF HealthTimesOut, FlagTypeOK
<1>3. CASE BootTimesOut
    <2>1. ProcTypeOK'
        BY <1>3 DEF BootTimesOut, Teardown, Killed, ProcTypeOK
    <2>2. CallTypeOK'
        BY <1>3, FinishTypes DEF BootTimesOut, CallTypeOK
    <2> QED
        BY <1>3, <2>1, <2>2 DEF BootTimesOut, FlagTypeOK
<1>4. CASE Attach
    <2>1. ProcTypeOK' /\ FlagTypeOK'
        BY <1>4 DEF Attach, ProcTypeOK, FlagTypeOK
    <2>2. /\ stage = "attach" /\ stage' \in {"verify", "port"}
          /\ UNCHANGED <<starter, promise, at, joined>>
        BY <1>4 DEF Attach, callVars
    <2>3. CallTypeOK'
        BY <2>2 DEF CallTypeOK, Stages, CallersAreWhereTheySay
    <2> QED
        BY <2>1, <2>3
<1>5. CASE Launch
    <2>1. ProcTypeOK'
        BY <1>5 DEF Launch, ProcTypeOK
    <2>2. CallTypeOK'
        BY <1>5 DEF Launch, CallTypeOK, Stages, callVars, CallersAreWhereTheySay
    <2> QED
        BY <1>5, <2>1, <2>2 DEF Launch, FlagTypeOK
<1>6. CASE GiveUp
    BY <1>6 DEF GiveUp, ProcTypeOK, FlagTypeOK, CallTypeOK, callVars, startVars, flagVars,
               CallersAreWhereTheySay
<1>7. CASE Verify
    <2>1. ProcTypeOK' /\ FlagTypeOK'
        BY <1>7 DEF Verify, ProcTypeOK, FlagTypeOK, flagVars
    <2>2. /\ stage = "verify" /\ stage' \in {"verify", "adopt"}
          /\ UNCHANGED <<starter, promise, at, joined>>
        BY <1>7 DEF Verify, callVars
    <2>3. CallTypeOK'
        BY <2>2 DEF CallTypeOK, Stages, CallersAreWhereTheySay
    <2> QED
        BY <2>1, <2>3
<1>8. CASE Adopt
    <2>1. ProcTypeOK' /\ FlagTypeOK'
        BY <1>8 DEF Adopt, ProcTypeOK, FlagTypeOK, Holders
    <2>2. CallTypeOK'
        BY <1>8, FinishTypes DEF Adopt, CallTypeOK
    <2> QED
        BY <2>1, <2>2
<1> QED
    BY <1>1, <1>2, <1>3, <1>4, <1>5, <1>6, <1>7, <1>8 DEF StartStep

LEMMA TypeCaller ==
    ASSUME TypeInv, NEW c \in Callers, CallerStep(c) \/ NewCall(c) PROVE TypeInv'
<1>1. CASE StopEnds(c)
    <2>1. ProcTypeOK' /\ FlagTypeOK'
        BY <1>1 DEF StopEnds, Killed, ProcTypeOK, FlagTypeOK
    <2>2. CallTypeOK'
        BY <1>1, MoveTypes DEF StopEnds, States
    <2> QED
        BY <2>1, <2>2
<1>2. CASE TakeOver(c)
    <2>1. ProcTypeOK' /\ FlagTypeOK'
        BY <1>2 DEF TakeOver, Killed, ProcTypeOK, FlagTypeOK, flagVars
    <2>2. CallTypeOK'
        BY <1>2, MoveTypes DEF TakeOver, States
    <2> QED
        BY <2>1, <2>2
<1>3. CASE WaitEnds(c)
    <2>1. at[c] = "wait" /\ c \in Restarters \cup {Monitor} /\ FlagTypeOK'
        BY <1>3 DEF WaitEnds, CallTypeOK, CallersAreWhereTheySay, FlagTypeOK
    <2>2. CASE Answering /\ c = Monitor
        <3>1. CallTypeOK'
            BY <1>3, <2>1, <2>2, MoveTypes DEF WaitEnds, States
        <3> QED
            BY <1>3, <2>1, <2>2, <3>1 DEF WaitEnds, ProcTypeOK
    <2>3. CASE ~ (Answering /\ c = Monitor)
        <3>1. Answering \in BOOLEAN
            BY DEF Answering
        <3> QED
            BY <1>3, <2>1, <2>3, <3>1, EnterBodyTypes DEF WaitEnds
    <2> QED
        BY <2>2, <2>3
<1>4. CASE Go(c)
    BY <1>4, EnterStartTypes DEF Go, ProcTypeOK, FlagTypeOK, flagVars
<1>5. CASE EnsureProbed(c)
    <2>1. ProcTypeOK' /\ FlagTypeOK'
        BY <1>5 DEF EnsureProbed, ProcTypeOK, FlagTypeOK, Answering
    <2>2. CallTypeOK'
        <3>1. CASE Answering
            BY <1>5, <3>1, MoveTypes DEF EnsureProbed, States
        <3>2. CASE ~ Answering
            BY <1>5, <3>2, EnterStartTypes DEF EnsureProbed
        <3> QED
            BY <3>1, <3>2
    <2> QED
        BY <2>1, <2>2
<1>6. CASE c = Monitor /\ MonitorProbed
    <2>1. at[c] = "probe" /\ FlagTypeOK' /\ UNCHANGED <<managed, launched, startVars>>
        BY <1>6 DEF MonitorProbed, FlagTypeOK
    <2>2. CASE Answering \/ ~ failedOnce
        <3>1. CallTypeOK'
            BY <1>6, <2>1, <2>2, MoveTypes DEF MonitorProbed, States
        <3> QED
            BY <1>6, <2>1, <2>2, <3>1 DEF MonitorProbed, ProcTypeOK
    <2>3. CASE ~ (Answering \/ ~ failedOnce)
        BY <1>6, <2>1, <2>3, EnterRestartTypes DEF MonitorProbed
    <2> QED
        BY <2>2, <2>3
<1>7. CASE RestartCall(c)
    BY <1>7, EnterRestartTypes DEF RestartCall, ProcTypeOK, FlagTypeOK
<1>8. CASE SwitchCall(c)
    <2>1. FlagTypeOK'
        BY <1>8 DEF SwitchCall, FlagTypeOK
    <2>2. ProcTypeOK' /\ \E s \in {"go", "stop"} : at' = [at EXCEPT ![c] = s]
        BY <1>8, EnterStopTypes DEF SwitchCall, ProcTypeOK
    <2>3. CallTypeOK'
        BY <1>8, <2>2, MoveTypes DEF SwitchCall, States
    <2> QED
        BY <2>1, <2>2, <2>3
<1>9. CASE EnsureCall(c)
    <2>1. ProcTypeOK' /\ FlagTypeOK'
        BY <1>9 DEF EnsureCall, ProcTypeOK, FlagTypeOK, flagVars
    <2>2. CASE promise # NoOne
        <3>1. promise \in Callers
            BY <2>2 DEF CallTypeOK, Callers
        <3>2. at' = [at EXCEPT ![c] = "join"] /\ joined' = [joined EXCEPT ![c] = promise]
              /\ at[c] = "off" /\ UNCHANGED <<startVars, promise>>
            BY <1>9, <2>2 DEF EnsureCall
        <3>3. CallTypeOK'
            BY <3>1, <3>2 DEF CallTypeOK, CallersAreWhereTheySay, startVars, States
        <3> QED
            BY <2>1, <3>3
    <2>3. CASE promise = NoOne
        BY <1>9, <2>1, <2>3, MoveTypes DEF EnsureCall, States
    <2> QED
        BY <2>2, <2>3
<1> QED
    BY <1>1, <1>2, <1>3, <1>4, <1>5, <1>6, <1>7, <1>8, <1>9 DEF CallerStep, NewCall

LEMMA TypeNext == ASSUME TypeInv, [Next]_vars PROVE TypeInv'
<1>1. CASE MonitorTick
    <2>1. Monitor \in Callers
        BY DEF Callers
    <2>2. CallTypeOK'
        BY <1>1, <2>1, MoveTypes DEF MonitorTick, States
    <2> QED
        BY <1>1, <2>2 DEF MonitorTick, ProcTypeOK, FlagTypeOK, flagVars
<1>2. CASE UNCHANGED vars
    BY <1>2 DEF vars, flagVars, startVars, callVars, ProcTypeOK, CallTypeOK, FlagTypeOK,
               CallersAreWhereTheySay
<1> QED
    BY <1>1, <1>2, TypeProc, TypeStart, TypeCaller DEF Next

\* For any processes and callers, the manager's fields keep their types; above all, isStarting is
\* held by the one caller that is inside start() (opencode-single-server.ts, start).
THEOREM ServerTypeCorrect == Spec => []TypeOK
<1>1. TypeInv => TypeOK
    BY DEF TypeOK, ProcTypeOK, CallTypeOK, FlagTypeOK, States, Stages
<1> QED
    BY <1>1, TypeInit, TypeNext, PTL DEF Spec

-----------------------------------------------------------------------------
(* One server *)

\* Where start() has found no server of ours.
Seeking == {"attach", "verify", "adopt", "port"}

\* A child that is alive is the one the fields are about, and nobody launches another.
ChildIsKnown ==
    \A q \in Alive \cap launched :
        /\ pid = q /\ managed
        /\ stage \notin Seeking
        /\ \A p \in launched : proc[p] # "dead"

\* What boots was launched by this backend.
BootingIsChild == \A q \in Procs : proc[q] = "booting" => q \in launched

ServerInv == OneServer /\ ChildIsKnown /\ BootingIsChild /\ NoLockout

USE DEF ServerInv, OneServer, ChildIsKnown, BootingIsChild, NoLockout, Seeking

LEMMA ServerInit == Init => ServerInv
BY DEF Init, Alive

\* A step that brings nothing to life, and leaves the fields alone unless the child is dead.
LEMMA Stays ==
    ASSUME ServerInv, launched' = launched, ~ exited, UNCHANGED exited,
           Alive' \subseteq Alive,
           \A p \in Procs : proc'[p] = "booting" => proc[p] = "booting",
           \A p \in Alive' \cap launched :
               /\ pid' = pid /\ managed' = managed /\ stage' \notin Seeking
               /\ \A q \in launched : proc'[q] = "dead" => proc[q] = "dead"
    PROVE  ServerInv'
BY DEF Holders

\* The same when all are dead.
LEMMA AllDead ==
    ASSUME ServerInv, launched' = launched, ~ exited, UNCHANGED exited, Alive' = {}
    PROVE  ServerInv'
BY DEF Alive, Holders

\* Killing the child and whoever holds the port leaves nobody.
LEMMA KillsAll ==
    ASSUME TypeInv, ServerInv, proc' = Killed(Alive \cap (Holders \cup {pid})) PROVE Alive' = {}
<1>1. \A p \in Procs : proc[p] = "booting" => p = pid
    BY DEF Alive
<1> QED
    BY <1>1 DEF Killed, Alive, Holders, ProcTypeOK

\* EnterStop ends the child at most, and forgets one that is dead or not its own.
LEMMA EnterStopStays ==
    ASSUME TypeInv, ServerInv, ~ exited, NEW c, NEW next, NEW seen, EnterStop(c, next, seen),
           UNCHANGED <<managed, launched, stage, exited>>
    PROVE  ServerInv'
<1>1. CASE ~ managed
    BY <1>1, Stays DEF EnterStop, Alive
<1>2. CASE managed /\ pid = NoProc
    BY <1>2, Stays DEF EnterStop, Alive
<1>3. CASE managed /\ pid # NoProc
    <2>1. PICK ps \in {{}, {pid} \cap Alive} : proc' = Killed(ps)
        BY <1>3 DEF EnterStop
    <2>2. UNCHANGED pid
        BY <1>3 DEF EnterStop
    <2>3. CASE ps = {}
        BY <2>1, <2>2, <2>3, Stays DEF Killed, Alive, ProcTypeOK
    <2>4. CASE ps = {pid} /\ pid \in Alive
        <3>1. Alive' = {}
            BY <2>1, <2>4 DEF Killed, Alive, ProcTypeOK
        <3> QED
            BY <3>1, AllDead
    <2> QED
        BY <2>1, <2>3, <2>4
<1> QED
    BY <1>1, <1>2, <1>3

LEMMA EnterBodyStays ==
    ASSUME TypeInv, ServerInv, ~ exited, NEW c, NEW seen, EnterBody(c, seen),
           UNCHANGED <<managed, launched, stage, exited>>
    PROVE  ServerInv'
<1>1. CASE managed
    BY <1>1, EnterStopStays DEF EnterBody
<1>2. CASE ~ managed
    BY <1>2, Stays DEF EnterBody, Alive
<1> QED
    BY <1>1, <1>2

LEMMA EnterRestartStays ==
    ASSUME TypeInv, ServerInv, ~ exited, NEW c, NEW seen, EnterRestart(c, seen),
           UNCHANGED <<managed, launched, stage, exited>>
    PROVE  ServerInv'
<1>1. CASE UNCHANGED <<proc, pid>>
    BY <1>1, Stays DEF Alive
<1>2. CASE EnterBody(c, seen)
    BY <1>2, EnterBodyStays
<1> QED
    BY <1>1, <1>2 DEF EnterRestart

\* A start() begins when no child is known: then none is alive.
LEMMA EnterStartStays ==
    ASSUME TypeInv, ServerInv, ~ exited, NEW c, NEW seen, EnterStart(c, seen),
           UNCHANGED <<proc, pid, managed, launched, exited>>
    PROVE  ServerInv'
<1>1. stage' \in {stage, "health"} \/ pid = NoProc
    BY DEF EnterStart, startVars
<1> QED
    BY <1>1, Stays, ServerAssumption DEF Alive, ProcTypeOK, ServerAssumption

LEMMA ServerProc ==
    ASSUME TypeInv, ServerInv, ~ exited, NEW p \in Procs,
           ExitEvent(p) \/ Binds(p) \/ Crashes(p) \/ Hangs(p)
    PROVE  ServerInv'
<1>1. CASE ExitEvent(p)
    <2>1. Alive' = Alive /\ proc[p] = "dead" /\ proc' = [proc EXCEPT ![p] = "none"]
        BY <1>1 DEF ExitEvent, Alive, ProcTypeOK
    <2>2. p \in launched => Alive \cap launched = {}
        BY <2>1
    <2> QED
        BY <1>1, <2>1, <2>2, Stays DEF ExitEvent, startVars, ProcTypeOK
<1>2. CASE Binds(p)
    <2>1. /\ proc[p] = "booting" /\ p \in launched /\ p \in Alive
          /\ UNCHANGED <<pid, managed, stage, launched, exited>>
        BY <1>2 DEF Binds, flagVars, startVars, Alive
    <2>2. Holders = {}
        BY <2>1 DEF Holders, Alive
    <2>3. proc' = [proc EXCEPT ![p] = "up"]
        BY <1>2, <2>2 DEF Binds
    <2>4. Alive' = Alive
        BY <2>1, <2>3 DEF Alive, ProcTypeOK
    <2> QED
        BY <2>1, <2>3, <2>4, Stays DEF ProcTypeOK
<1>3. CASE Crashes(p)
    <2>1. p \in Alive /\ proc' = Killed({p}) /\ UNCHANGED <<launched, exited>>
        BY <1>3 DEF Crashes, Holders, Alive
    <2>2. Alive' = {}
        BY <2>1 DEF Killed, Alive, ProcTypeOK
    <2> QED
        BY <2>1, <2>2, AllDead
<1>4. CASE Hangs(p)
    <2>1. /\ Alive' = Alive /\ \A q \in Procs : q # p => proc'[q] = proc[q]
          /\ proc'[p] \in {"up", "hung"}
          /\ UNCHANGED <<pid, managed, stage, launched, exited>>
        BY <1>4 DEF Hangs, Holders, Alive, ProcTypeOK, flagVars, startVars
    <2> QED
        BY <2>1, Stays DEF ProcTypeOK
<1> QED
    BY <1>1, <1>2, <1>3, <1>4

LEMMA ServerStart == ASSUME TypeInv, ServerInv, ~ exited, StartStep PROVE ServerInv'
<1>1. CASE HealthComes
    BY <1>1, Stays DEF HealthComes, FinishStart, Alive
<1>2. CASE HealthTimesOut
    BY <1>2, KillsAll, AllDead DEF HealthTimesOut, Teardown
<1>3. CASE BootTimesOut
    <2>1. CASE pid # NoProc
        BY <1>3, <2>1, KillsAll, AllDead DEF BootTimesOut, Teardown
    <2>2. CASE pid = NoProc
        BY <1>3, <2>2, Stays DEF BootTimesOut, FinishStart, Alive
    <2> QED
        BY <2>1, <2>2
<1>4. CASE Attach
    <2>1. Alive \cap launched = {} /\ UNCHANGED <<proc, launched, exited>>
        BY <1>4 DEF Attach
    <2> QED
        BY <2>1, Stays DEF Alive
<1>5. CASE Launch
    <2>1. PICK p \in Procs : /\ proc[p] = "none" /\ proc' = [proc EXCEPT ![p] = "booting"]
                             /\ pid' = p /\ launched' = launched \cup {p}
        BY <1>5 DEF Launch
    <2>2. /\ stage = "port" /\ Holders = {} /\ managed' = TRUE /\ stage' = "boot"
          /\ exited' = exited /\ \A q \in launched : proc[q] # "dead"
        BY <1>5 DEF Launch
    <2>3. Alive = {}
        BY <2>2 DEF Alive, Holders
    <2>4. Alive' = {p}
        BY <2>1, <2>3 DEF Alive, ProcTypeOK
    <2>5. \A q \in launched' : proc'[q] # "dead"
        BY <2>1, <2>2 DEF ProcTypeOK
    <2>6. BootingIsChild'
        BY <2>1 DEF ProcTypeOK
    <2> QED
        BY <2>1, <2>2, <2>4, <2>5, <2>6
<1>6. CASE GiveUp
    <2>1. /\ stage = "port" /\ Holders # {}
          /\ UNCHANGED <<proc, pid, managed, stage, launched>>
        BY <1>6 DEF GiveUp, flagVars, startVars
    <2>2. Alive' = Alive /\ Alive \cap launched = {}
        BY <2>1 DEF Alive
    <2> QED
        BY <2>1, <2>2
<1>7. CASE Verify
    <2>1. /\ UNCHANGED <<proc, launched, pid, managed>>
          /\ stage' \in {"verify", "adopt"} /\ stage = "verify"
        BY <1>7 DEF Verify, flagVars
    <2>2. Alive' = Alive /\ Alive \cap launched = {}
        BY <2>1 DEF Alive
    <2> QED
        BY <2>1, <2>2
<1>8. CASE Adopt
    <2>1. Alive \cap launched = {} /\ UNCHANGED <<proc, launched, exited>>
        BY <1>8 DEF Adopt
    <2> QED
        BY <2>1, Stays DEF Alive
<1> QED
    BY <1>1, <1>2, <1>3, <1>4, <1>5, <1>6, <1>7, <1>8 DEF StartStep

LEMMA ServerCaller ==
    ASSUME TypeInv, ServerInv, ~ exited, NEW c \in Callers, CallerStep(c) \/ NewCall(c)
    PROVE  ServerInv'
<1>1. CASE StopEnds(c)
    BY <1>1, KillsAll, AllDead DEF StopEnds
<1>2. CASE TakeOver(c)
    <2>1. CASE Answering
        <3>1. Alive' = {}
            BY <1>2, <2>1 DEF TakeOver, Killed, Answering, Alive, Holders, ProcTypeOK
        <3> QED
            BY <1>2, <3>1, AllDead DEF TakeOver
    <2>2. CASE ~ Answering
        BY <1>2, <2>2, Stays DEF TakeOver, flagVars, startVars, Alive
    <2> QED
        BY <2>1, <2>2
<1>3. CASE WaitEnds(c)
    <2>1. CASE Answering /\ c = Monitor
        BY <1>3, <2>1, Stays DEF WaitEnds, startVars, Alive
    <2>2. CASE ~ (Answering /\ c = Monitor)
        BY <1>3, <2>2, EnterBodyStays DEF WaitEnds, startVars
    <2> QED
        BY <2>1, <2>2
<1>4. CASE Go(c)
    BY <1>4, EnterStartStays DEF Go, flagVars
<1>5. CASE EnsureProbed(c)
    <2>1. CASE Answering
        BY <1>5, <2>1, Stays DEF EnsureProbed, startVars, Alive
    <2>2. CASE ~ Answering
        BY <1>5, <2>2, EnterStartStays DEF EnsureProbed
    <2> QED
        BY <2>1, <2>2
<1>6. CASE c = Monitor /\ MonitorProbed
    <2>1. CASE Answering \/ ~ failedOnce
        BY <1>6, <2>1, Stays DEF MonitorProbed, startVars, Alive
    <2>2. CASE ~ (Answering \/ ~ failedOnce)
        BY <1>6, <2>2, EnterRestartStays DEF MonitorProbed, startVars
    <2> QED
        BY <2>1, <2>2
<1>7. CASE RestartCall(c)
    BY <1>7, EnterRestartStays DEF RestartCall, startVars
<1>8. CASE SwitchCall(c)
    BY <1>8, EnterStopStays DEF SwitchCall, startVars
<1>9. CASE EnsureCall(c)
    BY <1>9, Stays DEF EnsureCall, flagVars, startVars, Alive
<1> QED
    BY <1>1, <1>2, <1>3, <1>4, <1>5, <1>6, <1>7, <1>8, <1>9 DEF CallerStep, NewCall

LEMMA ServerNext == ASSUME TypeInv, ServerInv, [Next]_vars PROVE ServerInv'
<1>1. CASE Next
    <2>1. CASE MonitorTick
        BY <1>1, <2>1, Stays DEF Next, MonitorTick, flagVars, startVars, Alive
    <2> QED
        BY <1>1, <2>1, ServerProc, ServerStart, ServerCaller DEF Next
<1>2. CASE UNCHANGED vars
    BY <1>2 DEF vars, flagVars, startVars, Alive, Holders
<1> QED
    BY <1>1, <1>2

LEMMA ServerAlways == Spec => []ServerInv
<1>1. Init => TypeInv /\ ServerInv
    BY TypeInit, ServerInit
<1>2. TypeInv /\ ServerInv /\ [Next]_vars => TypeInv' /\ ServerInv'
    BY TypeNext, ServerNext
<1> QED
    BY <1>1, <1>2, PTL DEF Spec

\* For any processes, callers and faults: starts, restarts, switches and the monitor, however they
\* overlap, never leave two opencode processes (opencode-single-server.ts, startServer, restart).
THEOREM OneServerAlways == Spec => []OneServer
<1>1. ServerInv => OneServer
    OBVIOUS
<1> QED
    BY <1>1, ServerAlways, PTL

\* For any processes, callers and faults: whichever way the backend exits, after its wait for the
\* port or over a server that fails the second look, no server that it has launched is alive
\* (opencode-single-server.ts, startServer, gracefulExit).
THEOREM NeverLockedOut == Spec => []NoLockout
<1>1. ServerInv => NoLockout
    OBVIOUS
<1> QED
    BY <1>1, ServerAlways, PTL

-----------------------------------------------------------------------------
(* A restart applies *)

\* isManaged says that nobody but our child is alive: it is set by a launch, which finds the port
\* free, and by taking an attached server over, which kills it.
ManagedIsAlone == managed => Alive \subseteq launched

\* A restart that has stopped the server, while none was launched since, has nobody to attach to.
StoppedForGood ==
    \A c \in Restarters : at[c] \in {"pause", "go", "start"} /\ ~ since[c] => Alive = {}

RestartInv == ManagedIsAlone /\ StoppedForGood

USE DEF RestartInv, ManagedIsAlone, StoppedForGood

LEMMA RestartInit == Init => RestartInv
BY DEF Init, Callers

\* A step that launches nothing and brings no restart further than it was.
LEMMA NoFurther ==
    ASSUME RestartInv, launched' = launched, Alive' \subseteq Alive,
           managed' => managed \/ Alive' = {},
           \A c \in Restarters : at'[c] \in {"pause", "go", "start"} /\ ~ since'[c] =>
               Alive' = {} \/ (at[c] \in {"pause", "go", "start"} /\ ~ since[c])
    PROVE  RestartInv'
OBVIOUS

\* A caller returns: the others that return with it had joined it.
LEMMA LeaveEnds ==
    ASSUME CallTypeOK, NEW c \in Callers, Leave(c)
    PROVE  \A d \in Callers : at'[d] = "off" \/ at'[d] = at[d]
BY DEF CallTypeOK, Leave, Return

\* start() is entered from the pause of a restart, or by a caller that is no restart.
LEMMA EnterStartOf ==
    ASSUME CallTypeOK, NEW c \in Callers, NEW seen, EnterStart(c, seen)
    PROVE  \A d \in Callers : at'[d] \in {"off", at[d]} \/ (d = c /\ at'[d] = "start")
<1>1. CASE starter # NoOne \/ seen
    BY <1>1, LeaveEnds DEF EnterStart
<1>2. CASE ~ (starter # NoOne \/ seen)
    BY <1>2 DEF EnterStart, CallTypeOK
<1> QED
    BY <1>1, <1>2

LEMMA FinishEnds ==
    ASSUME CallTypeOK, starter # NoOne, FinishStart
    PROVE  \A d \in Callers : at'[d] = "off" \/ at'[d] = at[d]
<1>1. starter \in Callers
    BY DEF CallTypeOK
<1> QED
    BY <1>1, LeaveEnds DEF FinishStart

\* What a stop() does to the processes, and where it leaves the caller.
LEMMA EnterStopLeads ==
    ASSUME TypeInv, ServerInv, RestartInv, NEW c \in Callers, NEW next, NEW seen,
           EnterStop(c, next, seen)
    PROVE  /\ Alive' \subseteq Alive
           /\ \A d \in Callers : d # c => at'[d] = at[d]
           /\ at'[c] = "stop" \/ at'[c] = next
           /\ managed /\ at'[c] = next /\ next # "stop" => Alive' = {}
<1>1. CASE ~ managed
    BY <1>1 DEF EnterStop, Alive, CallTypeOK
<1>2. CASE managed /\ pid = NoProc
    <2>1. Alive = {}
        BY <1>2, ServerAssumption DEF Alive, ServerAssumption
    <2> QED
        BY <1>2, <2>1 DEF EnterStop, Alive, CallTypeOK
<1>3. CASE managed /\ pid # NoProc
    <2>1. PICK ps \in {{}, {pid} \cap Alive} : proc' = Killed(ps)
        BY <1>3 DEF EnterStop
    <2>2. at' = [at EXCEPT ![c] = "stop"]
        BY <1>3 DEF EnterStop
    <2>3. Alive' \subseteq Alive
        BY <2>1 DEF Killed, Alive, ProcTypeOK
    <2> QED
        BY <2>2, <2>3 DEF CallTypeOK
<1> QED
    BY <1>1, <1>2, <1>3

LEMMA EnterBodyLeads ==
    ASSUME TypeInv, ServerInv, RestartInv, NEW c \in Callers, NEW seen, EnterBody(c, seen)
    PROVE  /\ Alive' \subseteq Alive
           /\ \A d \in Callers : d # c => at'[d] = at[d]
           /\ at'[c] \in {"stop", "takeover"} \/ Alive' = {}
<1>1. CASE managed
    BY <1>1, EnterStopLeads DEF EnterBody
<1>2. CASE ~ managed
    BY <1>2 DEF EnterBody, Alive, CallTypeOK
<1> QED
    BY <1>1, <1>2

LEMMA EnterRestartLeads ==
    ASSUME TypeInv, ServerInv, RestartInv, NEW c \in Callers, NEW seen, EnterRestart(c, seen)
    PROVE  /\ Alive' \subseteq Alive
           /\ \A d \in Callers : d # c => at'[d] = at[d]
           /\ at'[c] \in {"stop", "takeover", "join", "wait"} \/ Alive' = {}
<1>1. CASE promise = NoOne /\ starter = NoOne
    BY <1>1, EnterBodyLeads DEF EnterRestart
<1>2. CASE promise # NoOne \/ starter # NoOne
    BY <1>2 DEF EnterRestart, Alive, CallTypeOK
<1> QED
    BY <1>1, <1>2

LEMMA RestartProc ==
    ASSUME TypeInv, RestartInv, NEW p \in Procs, ExitEvent(p) \/ Binds(p) \/ Crashes(p) \/ Hangs(p)
    PROVE  RestartInv'
<1>1. /\ launched' = launched /\ UNCHANGED <<managed, at, since>>
    BY DEF ExitEvent, Binds, Crashes, Hangs, flagVars, callVars
<1>2. Alive' \subseteq Alive
    BY DEF ExitEvent, Binds, Crashes, Hangs, Killed, Alive, Holders, ProcTypeOK
<1> QED
    BY <1>1, <1>2, NoFurther

LEMMA RestartStart == ASSUME TypeInv, ServerInv, RestartInv, StartStep PROVE RestartInv'
<1>1. Restarters \subseteq Callers
    BY DEF Callers
<1>2. CASE Launch
    <2>1. /\ managed' = TRUE /\ since' = [c \in Callers |-> TRUE] /\ Holders = {}
        BY <1>2 DEF Launch
    <2>2. PICK p \in Procs : /\ proc' = [proc EXCEPT ![p] = "booting"]
                             /\ launched' = launched \cup {p}
        BY <1>2 DEF Launch
    <2>3. Alive' \subseteq launched'
        BY <2>1, <2>2 DEF Alive, Holders, ProcTypeOK
    <2> QED
        BY <1>1, <2>1, <2>3
<1>3. CASE HealthComes \/ Attach \/ Verify \/ Adopt \/ GiveUp
    <2>1. /\ launched' = launched /\ Alive' \subseteq Alive /\ since' = since
          /\ managed' => managed
        BY <1>3 DEF HealthComes, Attach, Verify, Adopt, GiveUp, Alive, flagVars
    <2>2. \A d \in Callers : at'[d] = "off" \/ at'[d] = at[d]
        <3>1. CASE FinishStart /\ stage # "off"
            BY <3>1, FinishEnds DEF CallTypeOK
        <3>2. CASE UNCHANGED callVars
            BY <3>2 DEF callVars
        <3> QED
            BY <1>3, <3>1, <3>2 DEF HealthComes, Attach, Verify, Adopt, GiveUp
    <2> QED
        BY <1>1, <2>1, <2>2, NoFurther
<1>4. CASE HealthTimesOut \/ BootTimesOut
    <2>1. Alive' \subseteq Alive
        BY <1>4 DEF HealthTimesOut, BootTimesOut, Teardown, Killed, Alive, ProcTypeOK
    <2>2. /\ launched' = launched /\ since' = since /\ managed' = managed
        BY <1>4 DEF HealthTimesOut, BootTimesOut
    <2>3. \A d \in Callers : at'[d] = "off" \/ at'[d] = at[d]
        <3>1. CASE FinishStart /\ stage # "off"
            BY <3>1, FinishEnds DEF CallTypeOK
        <3>2. CASE UNCHANGED callVars
            BY <3>2 DEF callVars
        <3> QED
            BY <1>4, <3>1, <3>2 DEF HealthTimesOut, BootTimesOut
    <2> QED
        BY <1>1, <2>1, <2>2, <2>3, NoFurther
<1> QED
    BY <1>2, <1>3, <1>4 DEF StartStep

LEMMA RestartCaller ==
    ASSUME TypeInv, ServerInv, RestartInv, NEW c \in Callers, CallerStep(c) \/ NewCall(c)
    PROVE  RestartInv'
<1>1. Restarters \subseteq Callers
    BY DEF Callers
<1>2. CASE StopEnds(c)
    <2>1. Alive' = {} /\ launched' = launched
        BY <1>2, KillsAll DEF StopEnds
    <2> QED
        BY <2>1
<1>3. CASE TakeOver(c)
    <2>1. CASE Answering
        <3>1. Alive' = {} /\ launched' = launched
            BY <1>3, <2>1 DEF TakeOver, Killed, Answering, Alive, Holders, ProcTypeOK
        <3> QED
            BY <3>1
    <2>2. CASE ~ Answering
        <3>1. /\ UNCHANGED <<launched, proc, managed>> /\ at' = [at EXCEPT ![c] = "pause"]
              /\ since' = [since EXCEPT ![c] = TRUE]
            BY <1>3, <2>2 DEF TakeOver, flagVars
        <3>2. Alive' = Alive
            BY <3>1 DEF Alive
        <3> QED
            BY <1>1, <3>1, <3>2, NoFurther DEF CallTypeOK, FlagTypeOK
    <2> QED
        BY <2>1, <2>2
<1>4. CASE WaitEnds(c)
    <2>1. UNCHANGED <<launched, managed, since>>
        BY <1>4 DEF WaitEnds
    <2>2. CASE Answering /\ c = Monitor
        BY <1>1, <1>4, <2>1, <2>2, NoFurther DEF WaitEnds, Alive, CallTypeOK
    <2>3. CASE ~ (Answering /\ c = Monitor)
        <3>1. EnterBody(c, Answering)
            BY <1>4, <2>3 DEF WaitEnds
        <3> QED
            BY <1>1, <2>1, <3>1, EnterBodyLeads, NoFurther
    <2> QED
        BY <2>2, <2>3
<1>5. CASE Go(c)
    <2>1. /\ at[c] \in {"pause", "go"} /\ UNCHANGED <<launched, managed, since, proc>>
          /\ EnterStart(c, healthy)
        BY <1>5 DEF Go, flagVars
    <2>2. Alive' = Alive
        BY <2>1 DEF Alive
    <2>3. \A d \in Callers : at'[d] \in {"off", at[d]} \/ (d = c /\ at'[d] = "start")
        BY <2>1, EnterStartOf
    <2> QED
        BY <1>1, <2>1, <2>2, <2>3, NoFurther
<1>6. CASE EnsureProbed(c)
    <2>1. /\ c \notin Restarters /\ UNCHANGED <<launched, managed, since, proc>>
        BY <1>6, ServerAssumption DEF EnsureProbed, ServerAssumption
    <2>2. Alive' = Alive
        BY <2>1 DEF Alive
    <2>3. \A d \in Callers : d # c => at'[d] \in {"off", at[d]}
        BY <1>6, EnterStartOf DEF EnsureProbed, CallTypeOK
    <2> QED
        BY <1>1, <2>1, <2>2, <2>3, NoFurther
<1>7. CASE c = Monitor /\ MonitorProbed
    <2>1. c \notin Restarters /\ UNCHANGED <<launched, managed, since>>
        BY <1>7, ServerAssumption DEF MonitorProbed, ServerAssumption
    <2>2. Alive' \subseteq Alive /\ \A d \in Callers : d # c => at'[d] = at[d]
        <3>1. CASE Answering \/ ~ failedOnce
            BY <1>7, <3>1 DEF MonitorProbed, Alive, CallTypeOK
        <3>2. CASE ~ (Answering \/ ~ failedOnce)
            BY <1>7, <3>2, EnterRestartLeads DEF MonitorProbed
        <3> QED
            BY <3>1, <3>2
    <2> QED
        BY <1>1, <2>1, <2>2, NoFurther
<1>8. CASE RestartCall(c)
    <2>1. EnterRestart(c, healthy) /\ UNCHANGED <<launched, managed>>
          /\ since' = [since EXCEPT ![c] = FALSE]
        BY <1>8 DEF RestartCall
    <2> QED
        BY <1>1, <2>1, EnterRestartLeads, NoFurther DEF FlagTypeOK
<1>9. CASE SwitchCall(c)
    <2>1. /\ c \notin Restarters /\ EnterStop(c, "go", healthy) /\ UNCHANGED <<launched, managed>>
          /\ since' = [since EXCEPT ![c] = FALSE]
        BY <1>9, ServerAssumption DEF SwitchCall, ServerAssumption
    <2> QED
        BY <1>1, <2>1, EnterStopLeads, NoFurther DEF FlagTypeOK
<1>10. CASE EnsureCall(c)
    <2>1. /\ UNCHANGED <<launched, managed, since, proc>>
          /\ at' = [at EXCEPT ![c] = "join"] \/ at' = [at EXCEPT ![c] = "probe"]
        BY <1>10 DEF EnsureCall, flagVars
    <2> QED
        BY <1>1, <2>1, NoFurther DEF CallTypeOK, Alive
<1> QED
    BY <1>2, <1>3, <1>4, <1>5, <1>6, <1>7, <1>8, <1>9, <1>10 DEF CallerStep, NewCall

LEMMA RestartNext == ASSUME TypeInv, ServerInv, RestartInv, [Next]_vars PROVE RestartInv'
<1>1. CASE MonitorTick
    <2>1. /\ UNCHANGED <<launched, managed, since, proc>> /\ at' = [at EXCEPT ![Monitor] = "probe"]
        BY <1>1 DEF MonitorTick, flagVars
    <2>2. Restarters \subseteq Callers
        BY DEF Callers
    <2> QED
        BY <2>1, <2>2, NoFurther DEF CallTypeOK, Alive
<1>2. CASE UNCHANGED vars
    BY <1>2 DEF vars, flagVars, startVars, callVars, Alive
<1> QED
    BY <1>1, <1>2, RestartProc, RestartStart, RestartCaller DEF Next

\* The body of restart() ends where start() returns.
LEMMA BodyEnds ==
    ASSUME TypeInv, RestartInv, [Next]_vars, NEW c \in Restarters,
           at[c] \notin {"off", "join"}, at'[c] = "off"
    PROVE  since[c] \/ ~ Answering
<1>1. SUFFICES ASSUME Answering PROVE since[c]
    OBVIOUS
<1>2. Alive # {}
    BY <1>1 DEF Answering, Alive
<1>3. SUFFICES at[c] \in {"pause", "go", "start"}
    BY <1>2
<1>4. c \in Callers /\ joined[c] = NoOne
    BY DEF Callers, CallTypeOK, CallersAreWhereTheySay
<1>5. ASSUME NEW d \in Callers, Leave(d) PROVE d = c
    BY <1>4, <1>5, ServerAssumption DEF Leave, Return, CallTypeOK, ServerAssumption
<1>6. ASSUME NEW d \in Callers, NEW seen, EnterStart(d, seen) PROVE d = c
    BY <1>4, <1>5, <1>6 DEF EnterStart, CallTypeOK
<1>7. CASE StartStep
    <2>1. FinishStart /\ stage # "off"
        BY <1>4, <1>7 DEF StartStep, HealthComes, HealthTimesOut, BootTimesOut, Attach, Verify,
                         Adopt, Launch, GiveUp, callVars
    <2>2. starter \in Callers
        BY <2>1 DEF CallTypeOK
    <2> QED
        BY <1>5, <2>1, <2>2 DEF FinishStart, CallTypeOK
<1>8. ASSUME NEW d \in Callers, CallerStep(d) \/ NewCall(d) PROVE at[c] \in {"pause", "go", "start"}
    <2>1. CASE StopEnds(d) \/ TakeOver(d)
        BY <1>4, <2>1 DEF StopEnds, TakeOver, CallTypeOK
    <2>2. CASE WaitEnds(d)
        BY <1>4, <2>2, ServerAssumption
           DEF WaitEnds, EnterBody, EnterStop, CallTypeOK, ServerAssumption
    <2>3. CASE Go(d)
        BY <1>6, <2>3, ServerAssumption DEF Go
    <2>4. CASE EnsureProbed(d)
        BY <1>1, <1>4, <2>4, ServerAssumption DEF EnsureProbed, CallTypeOK, ServerAssumption
    <2>5. CASE d = Monitor /\ MonitorProbed
        BY <1>1, <1>4, <2>5, ServerAssumption DEF MonitorProbed, CallTypeOK, ServerAssumption
    <2>6. CASE RestartCall(d)
        BY <1>4, <2>6 DEF RestartCall, EnterRestart, EnterBody, EnterStop, CallTypeOK
    <2>7. CASE SwitchCall(d)
        BY <1>4, <2>7 DEF SwitchCall, EnterStop, CallTypeOK
    <2>8. CASE EnsureCall(d)
        BY <1>4, <2>8 DEF EnsureCall, CallTypeOK
    <2> QED
        BY <1>8, <2>1, <2>2, <2>3, <2>4, <2>5, <2>6, <2>7, <2>8 DEF CallerStep, NewCall
<1>9. CASE UNCHANGED at
    BY <1>9
<1>10. CASE MonitorTick
    BY <1>4, <1>10, ServerAssumption DEF MonitorTick, CallTypeOK
<1>11. ASSUME NEW p \in Procs, ExitEvent(p) \/ Binds(p) \/ Crashes(p) \/ Hangs(p)
       PROVE UNCHANGED at
    BY <1>11 DEF ExitEvent, Binds, Crashes, Hangs, callVars
<1> QED
    BY <1>7, <1>8, <1>9, <1>10, <1>11 DEF Next, vars, callVars

\* For any processes, callers and faults: a restart that runs its own body returns only when a
\* process was launched after the request, or it was reported that it could not, or nothing
\* answers (opencode-single-server.ts, restart, takeOverAttachedServer).
THEOREM RestartAlwaysApplies == Spec => OwnRestartApplies
<1>1. Init => TypeInv /\ ServerInv /\ RestartInv
    BY TypeInit, ServerInit, RestartInit
<1>2. TypeInv /\ ServerInv /\ RestartInv /\ [Next]_vars => TypeInv' /\ ServerInv' /\ RestartInv'
    BY TypeNext, ServerNext, RestartNext
<1>3. TypeInv /\ RestartInv /\ [Next]_vars =>
        [\A c \in Restarters :
            at[c] \notin {"off", "join"} /\ at'[c] = "off" => since[c] \/ ~ Answering]_vars
    BY BodyEnds
<1> QED
    BY <1>1, <1>2, <1>3, PTL DEF Spec, OwnRestartApplies
=============================================================================
