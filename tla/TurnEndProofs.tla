---------------------------- MODULE TurnEndProofs ----------------------------
(***************************************************************************)
(* Theorems about TurnEnd, for any number of direct sends, outstanding at  *)
(* once or not, and whatever else happens in the instance.                 *)
(*                                                                         *)
(* The types, and what becomes of the release flag: every step leaves      *)
(* flag and cuts alone, or is a release, which sets the one with the       *)
(* other, or is the end of a send, which takes the flag with it.           *)
(***************************************************************************)
EXTENDS TurnEnd, TLAPS

\* Types.  A tick of the poller is one of three records.
TickType == {[at |-> "off"]} \cup [at : {"rows"}, dir : Answers, down : BOOLEAN]
              \cup [at : {"merge"}, dir : Answers]

\* The stages of a request.
Stages == {"new", "wire", "stream", "heal", "resent", "ok", "rejected", "error", "synthetic"}

\* The types of everything else.
FlagsTyped ==
    /\ reached \subseteq Sends /\ over \subseteq reached /\ cut \subseteq Sends
    /\ owner \in Sends \cup {NoSend}
    /\ aged \in BOOLEAN /\ busyObs \in BOOLEAN /\ released \in BOOLEAN
    /\ idleFor \in {"none", "short", "long"}
    /\ row \in {"none", "busy", "idle"} /\ snap \in {"busy", "idle", "unknown"}
    /\ sweep \in {"off", "none", "candidate"} /\ idleRec \in {"none", "once", "ripe"}
    /\ turn \in {"none", "unseen", "busy"}

LEMMA TypedParts ==
    /\ TypeOK <=> stage \in [Sends -> Stages] /\ tick \in TickType /\ FlagsTyped
    /\ TypeOK' <=> stage' \in [Sends -> Stages] /\ tick' \in TickType /\ FlagsTyped'
BY DEF TypeOK, Stages, TickType, FlagsTyped

\* The steps of proxy.ts, of the poller, and the rest keep the types.
LEMMA ProxyTyped ==
    ASSUME TypeOK, ProxyStep
    PROVE  TypeOK'
<1>0. stage \in [Sends -> Stages] /\ tick \in TickType /\ FlagsTyped
    BY TypedParts
<1>1. PICK s \in Sends :
          \/ Send(s) \/ Headers(s) \/ StreamEnds(s) \/ Rejected(s) \/ Refetch(s) \/ Throws(s)
          \/ Heals(s) \/ Resends(s) \/ HealEnds(s)
    BY DEF ProxyStep
<1>2. tick' = tick
    BY <1>1 DEF Send, Headers, StreamEnds, Rejected, Refetch, Throws, Heals, Resends, HealEnds, pollVars
<1>3. stage' = stage \/ \E at \in Stages : stage' = [stage EXCEPT ![s] = at]
    BY <1>1 DEF Send, Headers, StreamEnds, Rejected, Refetch, Throws, Heals, Resends, HealEnds, Stages
<1> SUFFICES FlagsTyped'
    BY <1>0, <1>2, <1>3, TypedParts
<1>4. CASE Send(s)
    BY <1>0, <1>2, <1>4 DEF FlagsTyped, Send, Track, pollVars, sweepVars
<1>5. CASE Headers(s)
    BY <1>0, <1>2, <1>5 DEF FlagsTyped, Headers, trackVars, pollVars, sweepVars
<1>6. CASE StreamEnds(s)
    <2>1. owner' = NoSend /\ aged' = FALSE /\ idleFor' = "none" /\ released' = FALSE
        BY <1>6 DEF StreamEnds, Untrack, Consume
    <2> QED
        BY <1>0, <1>2, <1>6, <2>1 DEF FlagsTyped, StreamEnds, Untrack, pollVars, sweepVars
<1>7. CASE Rejected(s)
    BY <1>0, <1>2, <1>7 DEF FlagsTyped, Rejected, trackVars, sweepVars
<1>8. CASE Throws(s)
    <2>1. owner' = NoSend /\ aged' = FALSE /\ idleFor' = "none" /\ released' = FALSE
        BY <1>8 DEF Throws, Untrack, Consume
    <2>2. UNCHANGED <<reached, over, cut, busyObs, pollVars, sweepVars, turn>>
        BY <1>8 DEF Throws, Untrack
    <2> QED
        BY <1>0, <1>2, <1>3, <2>1, <2>2 DEF FlagsTyped, pollVars, sweepVars
<1>9. CASE Refetch(s)
    BY <1>0, <1>2, <1>9 DEF FlagsTyped, Refetch, trackVars, pollVars, sweepVars
<1>10. CASE Heals(s) \/ HealEnds(s)
    BY <1>0, <1>2, <1>10 DEF FlagsTyped, Heals, HealEnds, trackVars, pollVars, sweepVars
<1>11. CASE Resends(s)
    BY <1>0, <1>2, <1>11 DEF FlagsTyped, Resends, trackVars, pollVars, sweepVars
<1> QED
    BY <1>1, <1>4, <1>5, <1>6, <1>7, <1>8, <1>9, <1>10, <1>11

LEMMA PollTyped ==
    ASSUME TypeOK, PollStep
    PROVE  TypeOK'
<1>0. stage \in [Sends -> Stages] /\ tick \in TickType /\ FlagsTyped
    BY TypedParts
<1> SUFFICES tick' \in TickType /\ stage' \in [Sends -> Stages] /\ FlagsTyped'
    BY TypedParts
<1>1. stage' = stage
    BY DEF PollStep, PollCollect, PollRows, PollServerDown, PollServerAlive, PollMerge, sendVars
<1>2. CASE PollCollect
    <2>1. tick' \in TickType
        BY <1>2 DEF PollCollect, TickType
    <2> QED
        BY <1>0, <1>1, <1>2, <2>1 DEF FlagsTyped, PollCollect, sendVars, trackVars, sweepVars
<1>3. CASE PollRows
    <2>1. tick.dir \in Answers /\ tick' \in TickType
        BY <1>0, <1>3 DEF PollRows, TickType, Answers
    <2>2. row' \in {"none", "busy", "idle"}
        BY <1>0, <1>3, <2>1 DEF PollRows, FlagsTyped, IdleRow, Answers
    <2>3. busyObs' \in BOOLEAN /\ idleFor' \in {"none", "short", "long"} /\ owner' = owner /\ aged' = aged
        BY <1>0, <1>3 DEF PollRows, NoteBusy, FlagsTyped, trackVars
    <2> QED
        BY <1>0, <1>1, <1>3, <2>1, <2>2, <2>3 DEF FlagsTyped, PollRows, sendVars, sweepVars
<1>4. CASE PollServerDown
    <2>1. tick' \in TickType
        BY <1>4 DEF PollServerDown, TickType
    <2> QED
        BY <1>0, <1>1, <1>4, <2>1 DEF FlagsTyped, PollServerDown, sendVars, trackVars, sweepVars
<1>5. CASE PollServerAlive
    <2>1. tick' \in TickType
        BY <1>5 DEF PollServerAlive, TickType, Answers
    <2> QED
        BY <1>0, <1>1, <1>5, <2>1 DEF FlagsTyped, PollServerAlive, sendVars, trackVars, sweepVars
<1>6. CASE PollMerge
    <2>1. snap' \in {"busy", "idle", "unknown"} /\ row' \in {"none", "busy", "idle"}
          /\ tick' = [at |-> "off"] /\ Pump(snap')
        BY <1>0, <1>6 DEF PollMerge, Verdict, FlagsTyped
    <2>2. tick' \in TickType
        BY <2>1 DEF TickType
    <2>3. /\ owner' = owner /\ aged' = aged
          /\ busyObs' \in BOOLEAN /\ idleFor' \in {"none", "short", "long"}
          /\ released' \in BOOLEAN /\ cut' \subseteq Sends
        <3>1. CASE snap' = "busy"
            BY <1>0, <2>1, <3>1 DEF Pump, NoteBusy, FlagsTyped
        <3>2. CASE snap' = "unknown"
            BY <1>0, <2>1, <3>2 DEF Pump, CancelGrace, FlagsTyped
        <3>3. CASE snap' = "idle"
            BY <1>0, <2>1, <3>3 DEF Pump, NoteIdle, FlagsTyped
        <3> QED
            BY <2>1, <3>1, <3>2, <3>3
    <2> QED
        BY <1>0, <1>1, <1>6, <2>1, <2>2, <2>3 DEF FlagsTyped, PollMerge, sendVars, sweepVars
<1> QED
    BY <1>2, <1>3, <1>4, <1>5, <1>6 DEF PollStep

LEMMA RestTyped ==
    ASSUME TypeOK, TurnEndAssumption, SweepStep \/ TimeStep \/ OpencodeStep
    PROVE  TypeOK'
<1>0. stage \in [Sends -> Stages] /\ tick \in TickType /\ FlagsTyped
    BY TypedParts
<1>1. stage' = stage /\ tick' = tick
    BY DEF SweepStep, SweepList, SweepRound, TimeStep, GracePasses, SnapshotExpires, ObservationRipens,
           DispatchAges, OpencodeStep, Deliver, ExternalTurn, TurnShows, TurnEnds, sendVars, pollVars
<1> SUFFICES FlagsTyped'
    BY <1>0, <1>1, TypedParts
<1>2. CASE SweepList
    BY <1>0, <1>2 DEF FlagsTyped, SweepList, sendVars, trackVars, pollVars
<1>3. CASE SweepRound
    <2>1. idleRec' \in {"none", "once", "ripe"}
        BY <1>0, <1>3 DEF FlagsTyped, SweepRound
    <2>2. row' \in {"none", "busy", "idle"} /\ released' \in BOOLEAN /\ cut' \subseteq Sends
        BY <1>0, <1>3 DEF FlagsTyped, SweepRound, SweepClears, IdleRow
    <2> QED
        BY <1>0, <1>3, <2>1, <2>2 DEF FlagsTyped, SweepRound, sendVars, trackVars
<1>4. CASE TimeStep
    <2>1. CASE GracePasses
        BY <1>0, <2>1 DEF FlagsTyped, GracePasses, sendVars, pollVars, sweepVars
    <2>2. CASE SnapshotExpires
        BY <1>0, <2>2 DEF FlagsTyped, SnapshotExpires, sendVars, trackVars, sweepVars
    <2>3. CASE ObservationRipens
        BY <1>0, <2>3 DEF FlagsTyped, ObservationRipens, sendVars, trackVars
    <2>4. CASE DispatchAges
        BY <1>0, <2>4 DEF FlagsTyped, DispatchAges, sendVars, sweepVars
    <2> QED
        BY <1>4, <2>1, <2>2, <2>3, <2>4 DEF TimeStep
<1>5. CASE OpencodeStep
    <2>1. ASSUME NEW s \in Sends, Deliver(s) PROVE FlagsTyped'
        BY <1>0, <2>1 DEF FlagsTyped, Deliver, trackVars, pollVars, sweepVars
    <2>2. CASE ExternalTurn \/ TurnShows
        BY <1>0, <2>2 DEF FlagsTyped, ExternalTurn, TurnShows, sendVars, trackVars, pollVars, sweepVars
    <2>3. CASE TurnEnds
        BY <1>0, <2>3 DEF FlagsTyped, TurnEnds, trackVars, pollVars, sweepVars
    <2> QED
        BY <1>5, <2>1, <2>2, <2>3 DEF OpencodeStep
<1> QED
    BY <1>2, <1>3, <1>4, <1>5 DEF SweepStep

\* Every state of every instance is typed.
THEOREM TurnTypeCorrect == Spec => []TypeOK
<1>1. Init => TypeOK
    BY DEF Init, TypeOK
<1>2. TypeOK /\ [Next]_vars => TypeOK'
    <2>1. ASSUME TypeOK, UNCHANGED vars PROVE TypeOK'
        BY <2>1 DEF TypeOK, vars, sendVars, trackVars, pollVars, sweepVars
    <2> QED
        BY <2>1, TurnEndAssumption, ProxyTyped, PollTyped, RestTyped DEF Next
<1> QED
    BY <1>1, <1>2, PTL DEF Spec

-----------------------------------------------------------------------------
\* Steps that release: the flag is set with the cut, or both are left alone.
Releases ==
    \/ UNCHANGED <<released, cut>>
    \/ released' = TRUE

\* Steps that take the flag: an open send other than those that still wait has ended.
EndsOf(s) ==
    /\ s \in Open /\ s \notin Open' /\ cut' = cut

\* What one step does to the flag of a request that waits.
FlagKept ==
    \A s \in cut' : stage'[s] = "wire" =>
        \/ released'
        \/ s \in cut /\ ~ released
        \/ \E t \in Open \ {s} : t \notin Open'

LEMMA ReleasesKeep == Releases => FlagKept
BY DEF Releases, FlagKept

LEMMA EndKeeps == ASSUME NEW s \in Sends, EndsOf(s) PROVE FlagKept
BY DEF EndsOf, FlagKept, Open

\* Only the two ends of a tracked send take the flag.
LEMMA FlagProxy == ASSUME TypeOK, ProxyStep PROVE FlagKept
<1> SUFFICES ASSUME NEW s \in Sends,
                    \/ Send(s) \/ Headers(s) \/ StreamEnds(s) \/ Rejected(s) \/ Refetch(s) \/ Throws(s)
                    \/ Heals(s) \/ Resends(s) \/ HealEnds(s)
             PROVE  FlagKept
    BY DEF ProxyStep
<1>1. stage \in [Sends -> Stages]
    BY TypedParts
<1>2. CASE StreamEnds(s)
    <2>1. EndsOf(s)
        BY <1>1, <1>2 DEF StreamEnds, EndsOf, Open
    <2> QED
        BY <2>1, EndKeeps
<1>3. CASE Throws(s)
    <2>1. stage'[s] \in {"synthetic", "error"} /\ stage[s] = "wire" /\ cut' = cut
        BY <1>1, <1>3 DEF Throws
    <2>2. EndsOf(s)
        BY <2>1 DEF EndsOf, Open
    <2> QED
        BY <2>2, EndKeeps
<1>4. CASE Send(s) \/ Headers(s) \/ Rejected(s) \/ Refetch(s) \/ Heals(s) \/ Resends(s) \/ HealEnds(s)
    <2>1. Releases
        BY <1>4 DEF Send, Headers, Rejected, Refetch, Heals, Resends, HealEnds, Releases
    <2> QED
        BY <2>1, ReleasesKeep
<1> QED
    BY <1>2, <1>3, <1>4

\* The poller and the sweep release the tracked request or nothing; the rest does neither.
LEMMA FlagRest ==
    ASSUME TypeOK, PollStep \/ SweepStep \/ TimeStep \/ OpencodeStep \/ UNCHANGED vars
    PROVE  FlagKept
<1>1. CASE PollMerge
    <2> SUFFICES Releases
        BY ReleasesKeep
    <2>1. Pump(snap')
        BY <1>1 DEF PollMerge
    <2>2. CASE snap' = "busy" \/ snap' = "unknown"
        <3>1. UNCHANGED <<released, cut>>
            BY <2>1, <2>2 DEF Pump
        <3> QED
            BY <3>1 DEF Releases
    <2>3. CASE snap' # "busy" /\ snap' # "unknown"
        <3>1. NoteIdle
            BY <2>1, <2>3 DEF Pump
        <3>2. idleFor \in {"none", "short", "long"}
            BY DEF TypeOK
        <3>3. CASE owner = NoSend \/ ~ busyObs \/ idleFor # "long"
            BY <3>1, <3>2, <3>3, Zenon DEF NoteIdle, Releases
        <3>4. CASE ~ (owner = NoSend \/ ~ busyObs) /\ idleFor = "long"
            BY <3>1, <3>4 DEF NoteIdle, Releases
        <3> QED
            BY <3>3, <3>4
    <2> QED
        BY <2>2, <2>3
<1>2. CASE SweepRound
    <2>1. Releases
        BY <1>2 DEF SweepRound, SweepClears, Releases
    <2> QED
        BY <2>1, ReleasesKeep
<1>3. CASE PollCollect \/ PollRows \/ PollServerDown \/ PollServerAlive \/ SweepList
    <2>1. Releases
        BY <1>3 DEF PollCollect, PollRows, PollServerDown, PollServerAlive, SweepList, Releases
    <2> QED
        BY <2>1, ReleasesKeep
<1>4. CASE TimeStep
    <2>1. Releases
        BY <1>4 DEF TimeStep, GracePasses, SnapshotExpires, ObservationRipens, DispatchAges, Releases
    <2> QED
        BY <2>1, ReleasesKeep
<1>5. CASE OpencodeStep
    <2>1. Releases
        BY <1>5 DEF OpencodeStep, Deliver, ExternalTurn, TurnShows, TurnEnds, Releases
    <2> QED
        BY <2>1, ReleasesKeep
<1>6. CASE UNCHANGED vars
    <2>1. Releases
        BY <1>6 DEF vars, Releases
    <2> QED
        BY <2>1, ReleasesKeep
<1> QED
    BY <1>1, <1>2, <1>3, <1>4, <1>5, <1>6 DEF PollStep, SweepStep

\* The catch block can tell a request that we cut from one that failed: as long as the cut
\* request waits, the release flag it will ask for is lost only to another send of the session
\* that ends (proxy.ts, the two places that consume the flag).
THEOREM CutAlwaysKnown == Spec => CutIsKnownAsReleased
<1>1. TypeOK /\ [Next]_vars => [FlagKept]_vars
    BY FlagProxy, FlagRest DEF Next
<1> QED
    BY <1>1, TurnTypeCorrect, PTL DEF Spec, CutIsKnownAsReleased, FlagKept
=============================================================================
