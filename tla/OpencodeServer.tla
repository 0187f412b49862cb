--------------------------- MODULE OpencodeServer ---------------------------
(***************************************************************************)
(* backend/src/services/opencode-single-server.ts, the process manager:    *)
(* one `opencode serve` on one port, launched or attached to, watched by a *)
(* health monitor and by a periodic ensureRunning (index.ts), restarted by *)
(* the settings routes and stopped and started by a config switch.         *)
(*                                                                         *)
(* An action is the code between two awaits; a loop of probes is the       *)
(* answer it ends with.  The health flag and the process handle are fields *)
(* that everybody writes: most of what can go wrong is one caller clearing *)
(* what another one has just set.                                          *)
(***************************************************************************)

CONSTANTS
    Procs,        \* processes; one that is dead and forgotten is reused
    External,     \* those that may have been serving before the backend came up
    NoProc,       \* serverPid = null
    Restarters,   \* callers of restart() (settings)
    Switchers,    \* callers of stop() and then start() (repository config)
    Ensurers,     \* callers of ensureRunning(), among them the periodic one
    Monitor,      \* the health monitor
    NoOne,        \* restartPromise = null, isStarting = FALSE
    Faults        \* what may happen to a process: "crash", "hang", "boot"

Callers == Restarters \cup Switchers \cup Ensurers \cup {Monitor}

ASSUME ServerAssumption ==
    /\ External \subseteq Procs /\ NoProc \notin Procs /\ NoOne \notin Callers
    /\ Monitor \notin Restarters \cup Switchers \cup Ensurers
    /\ Restarters \cap (Switchers \cup Ensurers) = {}   \* a caller runs one kind of request
    /\ Faults \subseteq {"crash", "hang", "boot"}

VARIABLES
    launched,     \* the processes launched by this backend: their exit event has a handler
    proc,         \* of each process: "none", "booting" (no port yet), "up", "hung", "dead"
                  \* (its exit event is to come)
    pid,          \* serverPid
    healthy,      \* isHealthy
    managed,      \* isManaged
    starter,      \* who holds isStarting
    stage,        \* where start() is suspended: "off", "health", "attach", "verify", "adopt",
                  \* "port", "boot"
    promise,      \* whose restart body restartPromise is
    at,           \* where each caller is suspended
    joined,       \* whose restart body a caller that joined awaits
    watching,     \* startHealthMonitor was called
    failedOnce,   \* healthFailCount = 1
    exited,       \* gracefulExit
    since         \* history: since this caller's request a process was launched, or the caller
                  \* was told in the log that its restart has no effect

flagVars  == <<pid, healthy, managed>>
startVars == <<starter, stage>>
callVars  == <<promise, at, joined>>
vars == <<launched, proc, flagVars, startVars, callVars, watching, failedOnce, exited, since>>

Answering == \E p \in Procs : proc[p] = "up"
Holders == {p \in Procs : proc[p] \in {"up", "hung"}}
Alive == {p \in Procs : proc[p] \in {"booting", "up", "hung"}}

Init ==
    /\ launched = {}
    /\ \E other \in External \cup {NoProc} :
         proc = [p \in Procs |-> IF p = other THEN "up" ELSE "none"]
    /\ pid = NoProc /\ healthy = FALSE /\ managed = FALSE
    /\ starter = NoOne /\ stage = "off" /\ promise = NoOne
    /\ at = [c \in Callers |-> "off"] /\ joined = [c \in Callers |-> NoOne]
    /\ watching = FALSE /\ failedOnce = FALSE /\ exited = FALSE
    /\ since = [c \in Callers |-> FALSE]

-----------------------------------------------------------------------------
(* Processes *)

Killed(ps) == [p \in Procs |-> IF p \in ps THEN "dead" ELSE proc[p]]

\* The exit event of a process: its handler clears the fields, whoever they are about by now.
ExitEvent(p) ==
    /\ proc[p] = "dead" /\ proc' = [proc EXCEPT ![p] = "none"]
    /\ IF p \in launched THEN healthy' = FALSE /\ pid' = NoProc ELSE UNCHANGED <<healthy, pid>>
    /\ UNCHANGED <<managed, startVars, callVars, watching, failedOnce, exited, since, launched>>

\* A booting process listens, or finds the port taken and ends.
Binds(p) ==
    /\ proc[p] = "booting"
    /\ proc' = [proc EXCEPT ![p] = IF Holders = {} THEN "up" ELSE "dead"]
    /\ UNCHANGED <<flagVars, startVars, callVars, watching, failedOnce, exited, since, launched>>

Crashes(p) ==
    /\ \/ "crash" \in Faults /\ p \in Holders
       \/ "boot" \in Faults /\ proc[p] = "booting"
    /\ proc' = Killed({p})
    /\ UNCHANGED <<flagVars, startVars, callVars, watching, failedOnce, exited, since, launched>>

\* The process stops answering, or answers again.
Hangs(p) ==
    /\ "hang" \in Faults /\ p \in Holders
    /\ proc' = [proc EXCEPT ![p] = IF @ = "up" THEN "hung" ELSE "up"]
    /\ UNCHANGED <<flagVars, startVars, callVars, watching, failedOnce, exited, since, launched>>

-----------------------------------------------------------------------------
(* start() *)

\* A caller returns, and so does whoever joined the restart it ran.
Return(c) ==
    /\ at' = [d \in Callers |-> IF d = c \/ joined[d] = c THEN "off" ELSE at[d]]
    /\ joined' = [d \in Callers |-> IF joined[d] = c THEN NoOne ELSE joined[d]]

\* Mutant of Leave: restartPromise is not cleared.
LeaveKeepingPromise(c) == Return(c) /\ UNCHANGED promise

\* The end of a restart body: finally { restartPromise = null }, whoever set it last.
Leave(c) ==
    /\ Return(c)
    /\ promise' = IF c \in Restarters \cup {Monitor} THEN NoOne ELSE promise

\* Mutant of EnterStart: isStarting is not looked at.
EnterStartAlways(c, seen) ==
    IF seen
    THEN Leave(c) /\ UNCHANGED startVars
    ELSE /\ starter' = c /\ stage' = IF pid = NoProc THEN "attach" ELSE "health"
         /\ at' = [at EXCEPT ![c] = "start"] /\ UNCHANGED <<promise, joined>>

\* start() up to its first await: it returns at once when a start is under way, and when
\* isHealthy is set.
EnterStart(c, seen) ==
    IF starter # NoOne \/ seen
    THEN Leave(c) /\ UNCHANGED startVars
    ELSE /\ starter' = c /\ stage' = IF pid = NoProc THEN "attach" ELSE "health"
         /\ at' = [at EXCEPT ![c] = "start"] /\ UNCHANGED <<promise, joined>>

FinishStart == starter' = NoOne /\ stage' = "off" /\ Leave(starter)

\* waitForHealth of a process that is there already, or of the launched one.
HealthComes ==
    /\ stage \in {"health", "boot"} /\ Answering
    /\ healthy' = TRUE
    /\ watching' = (watching \/ stage = "boot")
    /\ FinishStart
    /\ UNCHANGED <<proc, pid, managed, failedOnce, exited, since, launched>>

\* Mutant of Teardown: a process that has no port yet is left alone.
TeardownByPort == proc' = Killed(Holders) /\ pid' = NoProc /\ healthy' = FALSE

\* teardownCurrent: our process and whoever holds the port.
Teardown ==
    /\ proc' = Killed(Alive \cap (Holders \cup {pid}))
    /\ pid' = NoProc /\ healthy' = FALSE

\* 90 s without an answer.
HealthTimesOut ==
    /\ stage = "health" /\ ~ Answering
    /\ Teardown /\ stage' = "attach"
    /\ UNCHANGED <<managed, starter, callVars, watching, failedOnce, exited, since, launched>>

\* The same after a launch: start() throws.
BootTimesOut ==
    /\ stage = "boot" /\ ~ Answering
    /\ IF pid # NoProc THEN Teardown ELSE healthy' = FALSE /\ UNCHANGED <<proc, pid>>
    /\ FinishStart
    /\ UNCHANGED <<managed, watching, failedOnce, exited, since, launched>>

\* startServer: does somebody answer at the port already?
Attach ==
    /\ stage = "attach"
    /\ IF Answering THEN stage' = "verify" /\ healthy' = TRUE
       ELSE stage' = "port" /\ healthy' = FALSE
    /\ UNCHANGED <<proc, pid, managed, watching, starter, callVars, failedOnce, exited, since, launched>>

\* verifyOpenCodeServer asks it once more, for 3 s; without an answer it counts as another
\* program, and the backend exits.
Verify ==
    /\ stage = "verify"
    /\ IF Answering THEN stage' = "adopt" /\ UNCHANGED exited ELSE exited' = TRUE /\ UNCHANGED stage
    /\ UNCHANGED <<proc, flagVars, watching, starter, callVars, failedOnce, since, launched>>

\* Whoever holds the port by now becomes ours to watch, but not to manage.
Adopt ==
    /\ stage = "adopt"
    /\ IF Holders = {} THEN pid' = NoProc ELSE pid' \in Holders
    /\ healthy' = TRUE /\ managed' = FALSE /\ watching' = TRUE
    /\ FinishStart
    /\ UNCHANGED <<proc, failedOnce, exited, since, launched>>

\* The port is free.  The exit event of a dead process arrives before that is known.
Launch ==
    /\ stage = "port" /\ Holders = {}
    /\ \A p \in launched : proc[p] # "dead"
    /\ \E p \in Procs :
         /\ proc[p] = "none" /\ proc' = [proc EXCEPT ![p] = "booting"]
         /\ pid' = p /\ launched' = launched \cup {p}
    /\ managed' = TRUE /\ stage' = "boot"
    /\ since' = [c \in Callers |-> TRUE]
    /\ UNCHANGED <<healthy, starter, callVars, watching, failedOnce, exited>>

\* It is not free for 20 s: "in use by another program", and the backend exits.
GiveUp ==
    /\ stage = "port" /\ Holders # {}
    /\ exited' = TRUE
    /\ UNCHANGED <<proc, flagVars, startVars, callVars, watching, failedOnce, since, launched>>

StartStep == HealthComes \/ HealthTimesOut \/ BootTimesOut \/ Attach \/ Verify \/ Adopt \/ Launch \/ GiveUp

-----------------------------------------------------------------------------
(* stop() and restart() *)

\* The start of stop(): our process gets a SIGTERM, and may end.  seen is isHealthy before.
EnterStop(c, next, seen) ==
    IF ~ managed
    THEN pid' = NoProc /\ healthy' = FALSE /\ at' = [at EXCEPT ![c] = next] /\ UNCHANGED proc
    ELSE IF pid = NoProc
    THEN at' = [at EXCEPT ![c] = next] /\ healthy' = seen /\ UNCHANGED <<proc, pid>>
    ELSE /\ at' = [at EXCEPT ![c] = "stop"] /\ healthy' = seen
         /\ \E ps \in {{}, {pid} \cap Alive} : proc' = Killed(ps)
         /\ UNCHANGED pid

\* Mutant of StopEnds: a process that ignores the SIGTERM stays.
StopEndsGently(c) ==
    /\ at[c] = "stop"
    /\ pid' = NoProc /\ healthy' = FALSE /\ managed' = FALSE
    /\ at' = [at EXCEPT ![c] = IF c \in Switchers THEN "go" ELSE "pause"]
    /\ UNCHANGED <<proc, startVars, promise, joined, watching, failedOnce, exited, since, launched>>

\* ... 2 s later: what is left of it is killed, and whoever holds the port.
StopEnds(c) ==
    /\ at[c] = "stop"
    /\ proc' = Killed(Alive \cap (Holders \cup {pid}))
    /\ pid' = NoProc /\ healthy' = FALSE /\ managed' = FALSE
    /\ at' = [at EXCEPT ![c] = IF c \in Switchers THEN "go" ELSE "pause"]
    /\ UNCHANGED <<startVars, promise, joined, watching, failedOnce, exited, since, launched>>

\* Mutant of EnterBody: stop() is called for an attached server too, where it does nothing.
EnterBodyStopping(c, seen) == promise' = c /\ UNCHANGED joined /\ EnterStop(c, "pause", seen)

\* The body of restart().
EnterBody(c, seen) ==
    /\ promise' = c /\ UNCHANGED joined
    /\ IF managed THEN EnterStop(c, "pause", seen)
       ELSE at' = [at EXCEPT ![c] = "takeover"] /\ healthy' = seen /\ UNCHANGED <<proc, pid>>

\* takeOverAttachedServer: only what answers as an opencode server is killed.
TakeOver(c) ==
    /\ at[c] = "takeover" /\ at' = [at EXCEPT ![c] = "pause"]
    /\ IF Answering
       THEN /\ proc' = Killed(Holders)
            /\ managed' = TRUE /\ pid' = NoProc /\ healthy' = FALSE
       ELSE UNCHANGED <<proc, flagVars>>
    /\ since' = [since EXCEPT ![c] = @ \/ ~ Answering]
    /\ UNCHANGED <<startVars, promise, joined, watching, failedOnce, exited, launched>>

\* restart(): joins a restart, waits for a start, or begins.
EnterRestart(c, seen) ==
    IF promise # NoOne
    THEN /\ at' = [at EXCEPT ![c] = "join"] /\ joined' = [joined EXCEPT ![c] = promise]
         /\ healthy' = seen /\ UNCHANGED <<proc, pid, promise>>
    ELSE IF starter # NoOne
    THEN at' = [at EXCEPT ![c] = "wait"] /\ healthy' = seen /\ UNCHANGED <<proc, pid, promise, joined>>
    ELSE EnterBody(c, seen)

RestartCall(c) ==
    /\ c \in Restarters /\ at[c] = "off"
    /\ since' = [since EXCEPT ![c] = FALSE]
    /\ EnterRestart(c, healthy)
    /\ UNCHANGED <<managed, startVars, watching, failedOnce, exited, launched>>

\* The start that restart() waited for: the server answers, or it did not for 90 s, and the
\* start may be booting still.  restartPromise is not looked at again.
WaitEnds(c) ==
    /\ at[c] = "wait"
    /\ IF Answering /\ c = Monitor
       THEN /\ at' = [at EXCEPT ![c] = "off"] /\ healthy' = TRUE
            /\ UNCHANGED <<proc, pid, promise, joined>>
       ELSE EnterBody(c, Answering)
    /\ UNCHANGED <<managed, startVars, watching, failedOnce, exited, since, launched>>

\* The second before start(), or the start() after stop() of a switch.
Go(c) ==
    /\ at[c] \in {"pause", "go"}
    /\ EnterStart(c, healthy)
    /\ UNCHANGED <<proc, flagVars, watching, failedOnce, exited, since, launched>>

SwitchCall(c) ==
    /\ c \in Switchers /\ at[c] = "off"
    /\ since' = [since EXCEPT ![c] = FALSE]
    /\ EnterStop(c, "go", healthy)
    /\ UNCHANGED <<managed, startVars, promise, joined, watching, failedOnce, exited, launched>>

-----------------------------------------------------------------------------
(* ensureRunning() and the health monitor *)

EnsureCall(c) ==
    /\ c \in Ensurers /\ at[c] = "off"
    /\ IF promise # NoOne
       THEN at' = [at EXCEPT ![c] = "join"] /\ joined' = [joined EXCEPT ![c] = promise]
       ELSE at' = [at EXCEPT ![c] = "probe"] /\ UNCHANGED joined
    /\ UNCHANGED <<proc, flagVars, startVars, promise, watching, failedOnce, exited, since, launched>>

EnsureProbed(c) ==
    /\ c \in Ensurers /\ at[c] = "probe"
    /\ healthy' = Answering
    /\ IF Answering THEN at' = [at EXCEPT ![c] = "off"] /\ UNCHANGED <<startVars, promise, joined>>
       ELSE EnterStart(c, FALSE)
    /\ UNCHANGED <<proc, pid, managed, watching, failedOnce, exited, since, launched>>

\* The 8 s interval; nothing is judged while a start or a restart is under way.
MonitorTick ==
    /\ watching /\ at[Monitor] = "off" /\ starter = NoOne /\ promise = NoOne
    /\ at' = [at EXCEPT ![Monitor] = "probe"]
    /\ UNCHANGED <<proc, flagVars, startVars, promise, joined, watching, failedOnce, exited, since, launched>>

\* The second failure in a row restarts the server.
MonitorProbed ==
    /\ at[Monitor] = "probe"
    /\ IF Answering
       THEN /\ healthy' = TRUE /\ failedOnce' = FALSE
            /\ at' = [at EXCEPT ![Monitor] = "off"] /\ UNCHANGED <<proc, pid, promise, joined>>
       ELSE IF ~ failedOnce
       THEN /\ healthy' = FALSE /\ failedOnce' = TRUE
            /\ at' = [at EXCEPT ![Monitor] = "off"] /\ UNCHANGED <<proc, pid, promise, joined>>
       ELSE failedOnce' = FALSE /\ EnterRestart(Monitor, FALSE)
    /\ UNCHANGED <<managed, startVars, watching, exited, since, launched>>

-----------------------------------------------------------------------------
CallerStep(c) ==
    \/ StopEnds(c) \/ TakeOver(c) \/ WaitEnds(c) \/ Go(c) \/ EnsureProbed(c)
    \/ c = Monitor /\ MonitorProbed
NewCall(c) == RestartCall(c) \/ SwitchCall(c) \/ EnsureCall(c)

Next ==
    /\ ~ exited
    /\ \/ \E p \in Procs : ExitEvent(p) \/ Binds(p) \/ Crashes(p) \/ Hangs(p)
       \/ StartStep
       \/ \E c \in Callers : CallerStep(c) \/ NewCall(c)
       \/ MonitorTick

Spec == Init /\ [][Next]_vars

\* The timers of the process are fair: polls, probes, the monitor's and ensureRunning's
\* intervals.  Nobody has to ask for a restart, and a switch that has stopped goes on.
FairSpec ==
    /\ Spec
    /\ WF_vars(StartStep) /\ WF_vars(MonitorTick)
    /\ \A p \in Procs : WF_vars(ExitEvent(p)) /\ WF_vars(Binds(p))
    /\ \A c \in Callers : WF_vars(CallerStep(c)) /\ WF_vars(EnsureCall(c))

-----------------------------------------------------------------------------
(* Properties *)

\* The types, and who holds isStarting is the one caller inside start().
TypeOK ==
    /\ proc \in [Procs -> {"none", "booting", "up", "hung", "dead"}]
    /\ launched \subseteq Procs
    /\ pid \in Procs \cup {NoProc} /\ healthy \in BOOLEAN /\ managed \in BOOLEAN
    /\ starter \in Callers \cup {NoOne}
    /\ stage \in {"off", "health", "attach", "verify", "adopt", "port", "boot"}
    /\ (stage = "off") <=> (starter = NoOne)
    /\ promise \in Restarters \cup {Monitor, NoOne}
    /\ at \in [Callers -> {"off", "start", "stop", "pause", "go", "takeover", "join", "wait", "probe"}]
    /\ \A c \in Callers : at[c] = "start" <=> starter = c
    /\ joined \in [Callers -> Callers \cup {NoOne}]
    /\ watching \in BOOLEAN /\ failedOnce \in BOOLEAN /\ exited \in BOOLEAN
    /\ since \in [Callers -> BOOLEAN]

\* However starts, restarts, switches and the monitor overlap, there are never two opencode
\* processes (the process handle is shared, and each of them clears it).
OneServer == \A p, q \in Alive : p = q

\* The backend never exits while a server that it has launched itself lives, neither at the end of
\* its wait for the port nor when the second look at the answering server fails: what it exits
\* over then is a server it did not launch, hung or gone.
NoLockout == exited => Alive \cap launched = {}

\* A restart that runs its own body, whatever it overlaps with, returns only when a process
\* was launched after the request, so that it has read the new configuration; or it was
\* reported that it could not, or nothing answers.
OwnRestartApplies ==
    [][\A c \in Restarters :
          at[c] \notin {"off", "join"} /\ at'[c] = "off" => since[c] \/ ~ Answering]_vars

\* A crash, a process that hangs or answers again, a boot of more than 90 s.
Fault ==
    \/ \E p \in Procs : Crashes(p) \/ Hangs(p)
    \/ /\ \E p \in Procs : proc[p] = "booting"
       /\ BootTimesOut \/ HealthTimesOut \/ \E c \in Callers : WaitEnds(c) /\ starter # NoOne
Calm == ~ Fault /\ \A c \in Callers : ~ RestartCall(c) /\ ~ SwitchCall(c)

\* After the last fault and the last request the server comes to answer and stays: what is
\* left of starts and restarts, the monitor and ensureRunning do not kill it over and over.
ComesBack == <>[][Calm]_vars => <>[](Answering \/ exited)

=============================================================================
