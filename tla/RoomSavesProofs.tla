-------------------------- MODULE RoomSavesProofs --------------------------
(***************************************************************************)
(* Proofs about RoomSaves, for every number of participants, edits, parts, *)
(* calls and room objects.                                                 *)
(*                                                                         *)
(* RoomInv adds to the types that a call which uses a room object's hash   *)
(* has one.  ChainInv adds what the chain of a file consists of: the calls *)
(* under way, each once, and whoever runs is its head, unless it is beside *)
(* the chain.  FlushInv is about the numbers of the flushes: a save that   *)
(* was made for the pending one has found it pending when it arrived.      *)
(***************************************************************************)
EXTENDS RoomSaves, SequenceTheorems, TLAPS

SaveStages == {"idle", "sent", "again", "turn", "read", "write", "landed", "ok", "refused"}
EmbedStages == {"off", "turn", "first", "firstHash", "put", "flush", "go", "hash", "check", "write",
                "landed", "answered"}

SaveCalls == [at : SaveStages, bytes : SUBSET Changes, base : SUBSET Changes, from : Nat, room : Nat,
              seen : SUBSET (Changes \cup {NoFile}), answers : Nat, bypass : BOOLEAN,
              again : BOOLEAN]
EmbedCalls == [at : EmbedStages, base : SUBSET Changes, before : SUBSET Changes, room : Nat,
               seen : SUBSET Changes, hash : SUBSET (Changes \cup {NoFile})]

\* The file, the room objects and what was told of the writes.
FileTypes ==
    /\ scene \in Scenes /\ disk \subseteq Changes
    /\ cur \in 1..scene.rooms /\ last \in [1..scene.rooms -> SUBSET Changes]
    /\ opening \in SUBSET (Changes \cup {NoFile})
    /\ told \in 0..scene.rooms
SwitchTypes ==
    /\ live \in BOOLEAN /\ open \in BOOLEAN /\ dropped \in BOOLEAN /\ dirty \in BOOLEAN
    /\ held \in BOOLEAN /\ unsaved \in BOOLEAN /\ torn \in BOOLEAN
\* What the participants hold.
ClientTypes == owner \in Savers /\ doc \subseteq Changes /\ known \in [Savers -> SUBSET Changes]
FlushTypes == flushes \in Nat /\ flush \in 0..flushes /\ asked \in 0..flushes
ChainType == chain \in Seq(Saves \cup Parts)
SaveTypes == save \in [Saves -> SaveCalls]
EmbedTypes == embed \in [Embeds -> EmbedCalls]
FlushIsAwaited == Flushing # {} => flush # 0

\* The type invariant is these.
LEMMA TypesAre ==
    TypeOK <=> /\ FileTypes /\ SwitchTypes /\ ClientTypes /\ FlushTypes /\ ChainType /\ SaveTypes
               /\ EmbedTypes /\ FlushIsAwaited
BY DEF TypeOK, FileTypes, SwitchTypes, ClientTypes, FlushTypes, ChainType, SaveTypes, EmbedTypes,
       FlushIsAwaited, SaveCalls, EmbedCalls, SaveStages, EmbedStages

\* A room object that is about to be made is one that there is, and so are those that the calls
\* write to.
NextIsKnown == opening = {NoFile} \/ (opening \subseteq Changes /\ cur < scene.rooms)
SaveRooms ==
    \A s \in Saves : save[s].at \in {"turn", "read", "write", "landed"} => save[s].room \in 1..scene.rooms
EmbedRooms == \A e \in Embeds : embed[e].room \in 0..scene.rooms

RoomInv == TypeOK /\ NextIsKnown /\ SaveRooms /\ EmbedRooms

\* What the invariant consists of, ...
LEMMA RoomInvParts ==
    RoomInv <=> /\ FileTypes /\ SwitchTypes /\ ClientTypes /\ FlushTypes /\ ChainType /\ SaveTypes
                /\ EmbedTypes /\ FlushIsAwaited /\ NextIsKnown /\ SaveRooms /\ EmbedRooms
BY TypesAre DEF RoomInv

\* ... and after a step.
LEMMA RoomInvPartsNext ==
    RoomInv' <=> /\ FileTypes' /\ SwitchTypes' /\ ClientTypes' /\ FlushTypes' /\ ChainType'
                 /\ SaveTypes' /\ EmbedTypes' /\ FlushIsAwaited' /\ NextIsKnown' /\ SaveRooms'
                 /\ EmbedRooms'
BY RoomInvParts, PTL

\* What a behaviour is given.
LEMMA SceneFacts ==
    ASSUME scene \in Scenes
    PROVE  /\ scene.rooms \in Nat /\ 1 \in 1..scene.rooms /\ scene.savers \subseteq Savers
           /\ scene.lib \in BOOLEAN
BY RoomAssumption

\* The rooms start with the types, and nobody has called.
LEMMA RoomInit == Init => RoomInv
<1> SUFFICES ASSUME Init PROVE RoomInv
    OBVIOUS
<1>1. /\ scene \in Scenes /\ scene.rooms \in Nat /\ 1 \in 1..scene.rooms
      /\ scene.savers \subseteq Savers
    BY SceneFacts DEF Init
<1>2. Idle \in SaveCalls /\ NotCalled \in EmbedCalls
    BY DEF Idle, NotCalled, SaveCalls, EmbedCalls, SaveStages, EmbedStages
<1>3. SaveTypes /\ EmbedTypes
    BY <1>2 DEF Init, SaveTypes, EmbedTypes
<1>4. FileTypes
    BY <1>1 DEF Init, FileTypes
<1>5. ClientTypes
    BY <1>1 DEF Init, ClientTypes
<1>6. SwitchTypes
    BY DEF Init, SwitchTypes
<1>7. FlushTypes /\ ChainType /\ NextIsKnown
    BY DEF Init, FlushTypes, ChainType, NextIsKnown
<1>8. FlushIsAwaited
    BY DEF Init, FlushIsAwaited, Flushing, NotCalled
<1>9. SaveRooms /\ EmbedRooms
    BY <1>1 DEF Init, SaveRooms, EmbedRooms, Idle, NotCalled
<1> QED
    BY <1>3, <1>4, <1>5, <1>6, <1>7, <1>8, <1>9, RoomInvParts

-----------------------------------------------------------------------------
(* Frames *)

\* The facts that the steps use.
LEMMA Facts ==
    ASSUME RoomInv
    PROVE  /\ scene \in Scenes /\ scene.rooms \in Nat /\ scene.savers \subseteq Savers
           /\ disk \subseteq Changes /\ cur \in 1..scene.rooms
           /\ last \in [1..scene.rooms -> SUBSET Changes] /\ last[cur] \subseteq Changes
           /\ owner \in Savers /\ doc \subseteq Changes /\ known \in [Savers -> SUBSET Changes]
           /\ flushes \in Nat /\ flush \in 0..flushes /\ asked \in 0..flushes
           /\ chain \in Seq(Saves \cup Parts)
           /\ save \in [Saves -> SaveCalls] /\ embed \in [Embeds -> EmbedCalls]
BY RoomInvParts, SceneFacts
   DEF FileTypes, ClientTypes, FlushTypes, ChainType, SaveTypes, EmbedTypes

\* A call that has ended is one.
LEMMA AnswerType == Answer \in EmbedCalls /\ Answer.at = "answered" /\ Answer.room = 0
BY DEF Answer, NotCalled, EmbedCalls, EmbedStages

\* The chain after calls ended is a chain.
LEMMA WithoutType == ASSUME ChainType, NEW who PROVE Without(who) \in Seq(Saves \cup Parts)
<1>1. CASE chain # <<>> /\ Head(chain) \in who
    BY <1>1, HeadTailProperties DEF Without, ChainType
<1>2. CASE ~ (chain # <<>> /\ Head(chain) \in who)
    BY <1>2 DEF Without, ChainType
<1> QED
    BY <1>1, <1>2

\* Calls that are answered, and those that go on after the flush.
LEMMA GivenEffect ==
    ASSUME RoomInv, NEW who
    PROVE  /\ Given(who) \in [Embeds -> EmbedCalls]
           /\ \A e \in Embeds : Given(who)[e] = IF e \in who THEN Answer ELSE embed[e]
           /\ \A e \in Embeds : Given(who)[e].room \in {0, embed[e].room}
BY Facts, AnswerType DEF Given

\* The same of those that go on.
LEMMA GoingEffect ==
    ASSUME RoomInv
    PROVE  /\ Going \in [Embeds -> EmbedCalls]
           /\ \A e \in Embeds : /\ Going[e].at = IF embed[e].at = "flush" THEN "go" ELSE embed[e].at
                                /\ Going[e].room = embed[e].room
<1>1. embed \in [Embeds -> EmbedCalls]
    BY Facts
<1>2. \A e \in Embeds : /\ [embed[e] EXCEPT !.at = "go"] \in EmbedCalls
                        /\ [embed[e] EXCEPT !.at = "go"].at = "go"
                        /\ [embed[e] EXCEPT !.at = "go"].room = embed[e].room
    BY <1>1 DEF EmbedCalls, EmbedStages
<1> QED
    BY <1>1, <1>2 DEF Going, Flushing

\* A flush that is settled, or whose answer is not taken, leaves nobody behind who waits for it.
LEMMA SettleTypes ==
    ASSUME RoomInv, UNCHANGED scene,
           SettleOk \/ SettleFailed \/ UNCHANGED <<flush, embed, chain>>
    PROVE  /\ flush' \in {0, flush} /\ ChainType' /\ EmbedTypes' /\ FlushIsAwaited' /\ EmbedRooms'
<1>0. ChainType /\ EmbedTypes /\ FlushIsAwaited /\ EmbedRooms /\ scene.rooms \in Nat
    BY RoomInvParts, Facts
<1>1. CASE SettleOk
    <2>1. \A e \in Embeds : embed'[e].at # "flush" /\ embed'[e].room = embed[e].room
        BY <1>1, GoingEffect DEF SettleOk
    <2>2. EmbedTypes' /\ ChainType' /\ flush' = 0
        BY <1>0, <1>1, GoingEffect DEF SettleOk, EmbedTypes, ChainType
    <2> QED
        BY <1>0, <2>1, <2>2 DEF FlushIsAwaited, Flushing, EmbedRooms
<1>2. CASE SettleFailed
    <2>1. \A e \in Embeds : embed'[e].at # "flush" /\ embed'[e].room \in {0, embed[e].room}
        BY <1>2, GivenEffect, AnswerType DEF SettleFailed, Flushing
    <2>2. EmbedTypes' /\ ChainType' /\ flush' = 0
        BY <1>0, <1>2, GivenEffect, WithoutType DEF SettleFailed, EmbedTypes, ChainType
    <2> QED
        BY <1>0, <2>1, <2>2 DEF FlushIsAwaited, Flushing, EmbedRooms
<1>3. CASE UNCHANGED <<flush, embed, chain>>
    BY <1>0, <1>3 DEF ChainType, EmbedTypes, FlushIsAwaited, Flushing, EmbedRooms
<1> QED
    BY <1>1, <1>2, <1>3

\* The answer to a flush.
LEMMA AckEffect ==
    ASSUME NEW id, NEW ok, Ack(id, ok)
    PROVE  SettleOk \/ SettleFailed \/ UNCHANGED <<flush, embed, chain>>
BY DEF Ack

\* A step that leaves the file, the room objects and the history of them alone.
LEMMA FileStays ==
    ASSUME RoomInv, UNCHANGED <<scene, disk, cur, last, opening>>, told' \in 0..scene.rooms
    PROVE  FileTypes' /\ NextIsKnown'
BY RoomInvParts DEF FileTypes, NextIsKnown

\* A step that leaves the saves alone.
LEMMA SavesStay ==
    ASSUME RoomInv, UNCHANGED <<scene, save>>
    PROVE  SaveTypes' /\ SaveRooms'
BY RoomInvParts DEF SaveTypes, SaveRooms

\* A step that leaves the calls that replace a part alone.
LEMMA EmbedsStay ==
    ASSUME RoomInv, UNCHANGED <<scene, embed, flush>>
    PROVE  EmbedTypes' /\ EmbedRooms' /\ FlushIsAwaited'
BY RoomInvParts DEF EmbedTypes, EmbedRooms, FlushIsAwaited, Flushing

\* A step that leaves participants, flushes and chain alone.
LEMMA RestStays ==
    ASSUME RoomInv
    PROVE  /\ UNCHANGED <<owner, doc, known>> => ClientTypes'
           /\ UNCHANGED flushVars => FlushTypes'
           /\ UNCHANGED chain => ChainType'
BY RoomInvParts DEF ClientTypes, FlushTypes, flushVars, ChainType

-----------------------------------------------------------------------------
(* The steps of the room, its participants and other programs *)

\* Entering, and coming back.
LEMMA EnterKeepsTypes == ASSUME RoomInv, (\E c \in Savers : Enter(c)) \/ Resume PROVE RoomInv'
<1> USE RoomInvPartsNext
<1>0. SwitchTypes /\ told \in 0..scene.rooms
    BY RoomInvParts DEF FileTypes
<1>1. UNCHANGED <<scene, disk, last, cur, opening, told, chain, save, embed, flushVars>>
    BY DEF Enter, Resume
<1>2. SwitchTypes'
    <2>1. CASE Resume
        BY <1>0, <2>1, Zenon DEF Resume, SwitchTypes, clientVars
    <2>2. CASE \E c \in Savers : Enter(c)
        BY <1>0, <2>2, Zenon DEF Enter, SwitchTypes
    <2> QED
        BY <2>1, <2>2
<1>3. ClientTypes'
    BY Facts DEF Enter, Resume, clientVars, ClientTypes
<1> QED
    BY <1>0, <1>1, <1>2, <1>3, FileStays, SavesStay, EmbedsStay, RestStays DEF flushVars

\* The connection breaks.
LEMMA DropKeepsTypes == ASSUME RoomInv, Drop PROVE RoomInv'
<1> USE RoomInvPartsNext
<1>0. SwitchTypes /\ told \in 0..scene.rooms /\ SaveRooms
    BY RoomInvParts DEF FileTypes
<1>1. /\ UNCHANGED <<scene, disk, last, cur, opening, told, chain, embed, owner, doc, known>>
      /\ UNCHANGED <<flush, flushes>> /\ asked' = 0
      /\ save' = [s \in Saves |-> [save[s] EXCEPT !.answers = 0]]
    BY DEF Drop, clientVars
<1>2. SwitchTypes'
    BY <1>0, Zenon DEF Drop, SwitchTypes, clientVars
<1>3. FlushTypes'
    BY <1>1, Facts DEF FlushTypes
<1>4. SaveTypes'
    <2>1. \A s \in Saves : [save[s] EXCEPT !.answers = 0] \in SaveCalls
        BY Facts DEF SaveCalls
    <2> QED
        BY <1>1, <2>1 DEF SaveTypes
<1>5. \A s \in Saves : save'[s].at = save[s].at /\ save'[s].room = save[s].room
    BY <1>1, Facts DEF SaveCalls
<1>6. SaveRooms'
    BY <1>0, <1>1, <1>5 DEF SaveRooms
<1> QED
    BY <1>0, <1>1, <1>2, <1>3, <1>4, <1>6, FileStays, EmbedsStay, RestStays

\* An edit, and a write by another program.
LEMMA ChangeKeepsTypes ==
    ASSUME RoomInv, (\E x \in Edits : Edit(x)) \/ (\E x \in Exts : External(x))
    PROVE  RoomInv'
<1> USE RoomInvPartsNext
<1>0. SwitchTypes /\ FileTypes /\ ClientTypes /\ NextIsKnown
    BY RoomInvParts
<1>1. UNCHANGED <<scene, last, cur, opening, told, chain, save, embed, owner, known, flushVars>>
    BY DEF Edit, External, roomVars, clientVars
<1>2. SwitchTypes'
    <2>1. ASSUME NEW x \in Edits, Edit(x) PROVE SwitchTypes'
        <3>1. UNCHANGED <<live, open, dropped, held, torn>>
            BY <2>1 DEF Edit
        <3>2. dirty' \in BOOLEAN
            BY <1>0, <2>1, Zenon DEF Edit, SwitchTypes
        <3>3. unsaved' \in BOOLEAN
            BY <2>1, Zenon DEF Edit
        <3> QED
            BY <1>0, <3>1, <3>2, <3>3 DEF SwitchTypes
    <2>2. ASSUME NEW x \in Exts, External(x) PROVE SwitchTypes'
        BY <1>0, <2>2 DEF External, SwitchTypes, roomVars, clientVars
    <2> QED
        BY <2>1, <2>2
<1>3. FileTypes' /\ ClientTypes'
    BY <1>0, <1>1 DEF Edit, External, FileTypes, ClientTypes, clientVars, Changes
<1>4. NextIsKnown'
    BY <1>0, <1>1 DEF NextIsKnown
<1> QED
    BY <1>1, <1>2, <1>3, <1>4, SavesStay, EmbedsStay, RestStays DEF flushVars

\* The room is disposed of, which settles the flush.
LEMMA DisposeKeepsTypes == ASSUME RoomInv, Dispose \/ OwnerResets PROVE RoomInv'
<1> USE RoomInvPartsNext
<1>0. SwitchTypes /\ told \in 0..scene.rooms
    BY RoomInvParts DEF FileTypes
<1>1. /\ UNCHANGED <<scene, disk, last, cur, opening, told, save, owner, doc, known, flushes>>
      /\ asked' = 0 /\ SettleFailed
    BY DEF Dispose, OwnerResets, clientVars
<1>2. SwitchTypes'
    <2>1. CASE Dispose
        BY <1>0, <2>1, Zenon DEF Dispose, SwitchTypes, clientVars
    <2>2. CASE OwnerResets
        BY <1>0, <2>2, Zenon DEF OwnerResets, SwitchTypes
    <2> QED
        BY <2>1, <2>2
<1>3. flush' \in {0, flush} /\ ChainType' /\ EmbedTypes' /\ FlushIsAwaited' /\ EmbedRooms'
    BY <1>1, SettleTypes
<1>4. FlushTypes'
    BY <1>1, <1>3, Facts DEF FlushTypes
<1> QED
    BY <1>0, <1>1, <1>2, <1>3, <1>4, FileStays, SavesStay, RestStays

\* The next room object is made.
LEMMA CreateKeepsTypes == ASSUME RoomInv, Opens \/ Recreate PROVE RoomInv'
<1> USE RoomInvPartsNext
<1>0. SwitchTypes /\ FileTypes /\ NextIsKnown /\ SaveRooms /\ EmbedRooms /\ scene.rooms \in Nat
    BY RoomInvParts, Facts
<1>1. UNCHANGED <<scene, disk, chain, save, embed, owner, doc, known, flushVars>>
    BY DEF Opens, Recreate, clientVars
<1>2. SwitchTypes'
    <2>1. CASE Opens
        BY <1>0, <2>1, Zenon DEF Opens, SwitchTypes, clientVars
    <2>2. CASE Recreate
        <3>1. UNCHANGED <<unsaved, torn>> /\ live' = TRUE /\ open' = FALSE /\ dropped' = FALSE
              /\ dirty' = FALSE
            BY <2>2 DEF Recreate
        <3>2. held' \in BOOLEAN
            BY <2>2, Zenon DEF Recreate
        <3> QED
            BY <1>0, <3>1, <3>2 DEF SwitchTypes
    <2> QED
        BY <2>1, <2>2
<1>3. FileTypes' /\ NextIsKnown'
    <2>1. CASE Opens
        BY <1>0, <1>1, <2>1 DEF Opens, FileTypes, NextIsKnown
    <2>2. CASE Recreate
        <3>1. opening \subseteq Changes /\ cur + 1 \in 1..scene.rooms
            BY <1>0, <2>2 DEF Recreate, NextIsKnown, FileTypes
        <3>2. /\ cur' = cur + 1 /\ last' = [last EXCEPT ![cur + 1] = opening]
              /\ opening' = {NoFile} /\ told' = told
            BY <2>2 DEF Recreate
        <3> QED
            BY <1>0, <1>1, <3>1, <3>2 DEF FileTypes, NextIsKnown
    <2> QED
        BY <2>1, <2>2
<1> QED
    BY <1>1, <1>2, <1>3, SavesStay, EmbedsStay, RestStays DEF flushVars

\* The owner has nothing to save, or nobody answers.
LEMMA FlushKeepsTypes == ASSUME RoomInv, CleanAck \/ FlushTimesOut PROVE RoomInv'
<1> USE RoomInvPartsNext
<1>0. SwitchTypes /\ told \in 0..scene.rooms
    BY RoomInvParts DEF FileTypes
<1>1. /\ UNCHANGED <<scene, disk, last, cur, opening, told, save, owner, doc, known, flushes>>
      /\ UNCHANGED <<live, open, dropped, dirty, held, unsaved, torn>> /\ asked' \in {0, asked}
      /\ SettleOk \/ SettleFailed \/ UNCHANGED <<flush, embed, chain>>
    <2>1. CASE CleanAck
        BY <2>1, AckEffect DEF CleanAck, roomVars, clientVars
    <2>2. CASE FlushTimesOut
        BY <2>2 DEF FlushTimesOut, roomVars, clientVars
    <2> QED
        BY <2>1, <2>2
<1>2. SwitchTypes'
    BY <1>0, <1>1 DEF SwitchTypes
<1>3. flush' \in {0, flush} /\ ChainType' /\ EmbedTypes' /\ FlushIsAwaited' /\ EmbedRooms'
    BY <1>1, SettleTypes
<1>4. FlushTypes'
    BY <1>1, <1>3, Facts DEF FlushTypes
<1> QED
    BY <1>0, <1>1, <1>2, <1>3, <1>4, FileStays, SavesStay, RestStays

-----------------------------------------------------------------------------
(* The steps of the saves *)

\* A step that gives the save s the record m.
LEMMA SaveBecomes ==
    ASSUME RoomInv, UNCHANGED scene, NEW s \in Saves, NEW m \in SaveCalls,
           m.at \in {"turn", "read", "write", "landed"} => m.room \in 1..scene.rooms,
           save' = [save EXCEPT ![s] = m]
    PROVE  /\ SaveTypes' /\ SaveRooms'
           /\ \A x \in Saves : save'[x] = IF x = s THEN m ELSE save[x]
<1>1. save \in [Saves -> SaveCalls] /\ SaveRooms
    BY Facts, RoomInvParts
<1>2. \A x \in Saves : save'[x] = IF x = s THEN m ELSE save[x]
    BY <1>1
<1>3. SaveTypes'
    BY <1>1 DEF SaveTypes
<1> QED
    BY <1>1, <1>2, <1>3 DEF SaveRooms

\* The fields of a save.
LEMMA SaveFields ==
    ASSUME RoomInv, NEW s \in Saves
    PROVE  /\ save[s] \in SaveCalls
           /\ save[s].at \in SaveStages /\ save[s].bytes \subseteq Changes /\ save[s].base \subseteq Changes
           /\ save[s].from \in Nat /\ save[s].room \in Nat
           /\ save[s].seen \subseteq Changes \cup {NoFile}
           /\ save[s].answers \in Nat /\ save[s].bypass \in BOOLEAN /\ save[s].again \in BOOLEAN
           /\ save[s].at \in {"turn", "read", "write", "landed"} => save[s].room \in 1..scene.rooms
<1>1. save[s] \in SaveCalls
    BY Facts
<1>2. save[s].at \in {"turn", "read", "write", "landed"} => save[s].room \in 1..scene.rooms
    BY RoomInvParts DEF SaveRooms
<1> QED
    BY <1>1, <1>2 DEF SaveCalls

\* A save that is moved to another stage.
LEMMA SaveMoves ==
    ASSUME RoomInv, NEW s \in Saves, NEW at \in SaveStages
    PROVE  /\ [save EXCEPT ![s].at = at] = [save EXCEPT ![s] = [save[s] EXCEPT !.at = at]]
           /\ [save[s] EXCEPT !.at = at] \in SaveCalls
           /\ [save[s] EXCEPT !.at = at].at = at
           /\ [save[s] EXCEPT !.at = at].room = save[s].room
           /\ [save[s] EXCEPT !.at = at].answers = save[s].answers
           /\ [save[s] EXCEPT !.at = at].bypass = save[s].bypass
BY SaveFields, Facts DEF SaveCalls

\* What the steps of a save before its end make of it.
SaveStage(s, m) ==
    /\ m \in SaveCalls /\ save' = [save EXCEPT ![s] = m]
    /\ m.at \in {"turn", "read", "write", "landed"} => m.room \in 1..scene.rooms

\* The bytes are taken.
LEMMA SerialiseEffect ==
    ASSUME RoomInv, NEW s \in Saves, Serialise(s)
    PROVE  \E m : SaveStage(s, m) /\ m.at = "sent" /\ m.answers \in {0, asked} /\ ~ m.bypass
<1> DEFINE m == [Idle EXCEPT !.at = "sent", !.bytes = doc, !.base = known[Client(s)], !.from = cur,
                            !.answers = IF s = ForFlush THEN asked ELSE 0]
<1>1. save' = [save EXCEPT ![s] = m]
    BY DEF Serialise
<1>2. Client(s) \in Savers
    BY Facts DEF Client, Saves
<1>3. m \in SaveCalls /\ m.at = "sent" /\ m.answers \in {0, asked} /\ ~ m.bypass
    <2> DEFINE base == known[Client(s)]
               answers == IF s = ForFlush THEN asked ELSE 0
    <2>1. /\ base \subseteq Changes /\ doc \subseteq Changes /\ cur \in Nat
          /\ answers \in Nat /\ answers \in {0, asked}
        BY <1>2, Facts
    <2>2. m = [Idle EXCEPT !.at = "sent", !.bytes = doc, !.base = base, !.from = cur,
                           !.answers = answers]
        OBVIOUS
    <2>3. Idle \in SaveCalls /\ Idle.bypass = FALSE
        BY DEF Idle, SaveCalls, SaveStages
    <2> HIDE DEF base, answers, m
    <2> QED
        BY <2>1, <2>2, <2>3 DEF SaveCalls, SaveStages
<1> HIDE DEF m
<1> QED
    BY <1>1, <1>3 DEF SaveStage

\* The retry.
LEMMA RetryEffect ==
    ASSUME RoomInv, NEW s \in Saves, Retry(s)
    PROVE  \E m : /\ SaveStage(s, m) /\ m.at = "sent" /\ m.answers = save[s].answers
                  /\ m.bypass = save[s].bypass
<1> DEFINE bytes == IF save[s].from = cur THEN doc ELSE save[s].bytes
           m == [save[s] EXCEPT !.at = "sent", !.bytes = bytes, !.again = TRUE]
<1>1. save' = [save EXCEPT ![s] = m]
    BY Facts DEF Retry
<1>2. bytes \subseteq Changes
    BY Facts, SaveFields
<1>3. m \in SaveCalls /\ m.at = "sent" /\ m.answers = save[s].answers /\ m.bypass = save[s].bypass
    BY <1>2, SaveFields DEF SaveCalls, SaveStages
<1> QED
    BY <1>1, <1>3 DEF SaveStage

\* The arrival: admitted, with a place in the chain unless a flush is pending, or refused.
LEMMA ArriveEffect ==
    ASSUME RoomInv, NEW s \in Saves, Arrive(s)
    PROVE  \E m : /\ SaveStage(s, m) /\ m.answers = save[s].answers /\ save[s].at = "sent"
                  /\ \/ /\ m.at = "turn" /\ m.bypass = (flush # 0)
                        /\ chain' = IF flush # 0 THEN chain ELSE Append(chain, s)
                     \/ m.at = "refused" /\ chain' = chain
<1>0. save[s].at = "sent"
    BY DEF Arrive
<1>1. CASE Admitted(s)
    <2> DEFINE base == IF scene.lib THEN save[s].base ELSE last[cur]
               m == [save[s] EXCEPT !.at = "turn", !.room = cur, !.bypass = (flush # 0), !.base = base]
    <2>1. save' = [save EXCEPT ![s] = m]
        BY <1>1, Facts DEF Arrive
    <2>2. base \subseteq Changes /\ (flush # 0) \in BOOLEAN /\ cur \in Nat
        BY Facts, SaveFields
    <2>3. m \in SaveCalls /\ m.at = "turn" /\ m.room = cur /\ m.answers = save[s].answers
          /\ m.bypass = (flush # 0)
        BY <2>2, SaveFields DEF SaveCalls, SaveStages
    <2>4. chain' = IF flush # 0 THEN chain ELSE Append(chain, s)
        BY <1>1 DEF Arrive
    <2>5. SaveStage(s, m)
        BY <2>1, <2>3, Facts DEF SaveStage
    <2> HIDE DEF m
    <2> QED
        BY <1>0, <2>3, <2>4, <2>5
<1>2. CASE ~ Admitted(s)
    <2> DEFINE m == [save[s] EXCEPT !.at = "refused"]
    <2>1. save' = [save EXCEPT ![s].at = "refused"] /\ chain' = chain
        BY <1>2 DEF Arrive
    <2>2. SaveStage(s, m) /\ m.at = "refused" /\ m.answers = save[s].answers
        BY <2>1, SaveMoves DEF SaveStage, SaveStages
    <2> HIDE DEF m
    <2> QED
        BY <1>0, <2>1, <2>2
<1> QED
    BY <1>1, <1>2

\* The file is read, when it is the save's turn.
LEMMA ReadEffect ==
    ASSUME RoomInv, NEW s \in Saves, ReadDisk(s)
    PROVE  /\ save[s].at = "turn" /\ (save[s].bypass \/ MyTurn(s)) /\ chain' = chain
           /\ \E m : /\ SaveStage(s, m) /\ m.at = "read" /\ m.answers = save[s].answers
                     /\ m.bypass = save[s].bypass
<1> DEFINE seen == IF live THEN disk ELSE {NoFile}
           m == [save[s] EXCEPT !.at = "read", !.seen = seen]
<1>1. save' = [save EXCEPT ![s] = m]
    BY Facts DEF ReadDisk
<1>2. seen \subseteq Changes \cup {NoFile} /\ save[s].at = "turn"
    BY Facts DEF ReadDisk
<1>3. /\ m \in SaveCalls /\ m.at = "read" /\ m.answers = save[s].answers
      /\ m.bypass = save[s].bypass /\ m.room \in 1..scene.rooms
    BY <1>2, SaveFields DEF SaveCalls, SaveStages
<1>4. SaveStage(s, m)
    BY <1>1, <1>3 DEF SaveStage
<1> HIDE DEF m
<1> QED
    BY <1>3, <1>4 DEF ReadDisk

\* The checks, the write and its failure.
LEMMA WriteEffect ==
    ASSUME RoomInv, NEW s \in Saves, Check(s) \/ Land(s) \/ WriteFails(s)
    PROVE  /\ save[s].at \in {"read", "write"}
           /\ \E m : /\ SaveStage(s, m) /\ m.answers = save[s].answers /\ m.bypass = save[s].bypass
                     /\ \/ m.at \in {"write", "landed"} /\ chain' = chain
                        \/ m.at \in {"again", "refused"} /\ chain' = Without({s})
<1>0. save[s].at \in {"read", "write"}
    BY DEF Check, Land, WriteFails
<1>1. ASSUME NEW at \in {"write", "landed", "refused"}, save' = [save EXCEPT ![s].at = at]
      PROVE  \E m : /\ SaveStage(s, m) /\ m.answers = save[s].answers /\ m.bypass = save[s].bypass
                    /\ m.at = at
    <2> DEFINE m == [save[s] EXCEPT !.at = at]
    <2>1. m \in SaveCalls /\ m.at = at /\ m.room = save[s].room /\ m.answers = save[s].answers
          /\ m.bypass = save[s].bypass /\ save' = [save EXCEPT ![s] = m]
        <3>1. at \in SaveStages
            BY DEF SaveStages
        <3>2. /\ [save EXCEPT ![s].at = at] = [save EXCEPT ![s] = m]
              /\ m \in SaveCalls /\ m.at = at /\ m.room = save[s].room /\ m.answers = save[s].answers
              /\ m.bypass = save[s].bypass
            BY <3>1, SaveMoves
        <3> HIDE DEF m
        <3> QED
            BY <1>1, <3>2
    <2>2. save[s].room \in 1..scene.rooms
        BY <1>0, SaveFields
    <2> HIDE DEF m
    <2> QED
        BY <2>1, <2>2 DEF SaveStage
<1>2. CASE Check(s)
    <2> DEFINE r == last[save[s].room]
               m == [save[s] EXCEPT !.at = "again", !.base = r]
    <2>1. r \subseteq Changes
        BY <1>0, SaveFields, Facts
    <2>2. CASE save[s].base = r /\ save[s].seen = r
        BY <1>0, <1>1, <1>2, <2>2 DEF Check
    <2>3. CASE ~ (save[s].base = r /\ save[s].seen = r)
        <3>1. chain' = Without({s})
            BY <1>2, <2>3 DEF Check
        <3>2. CASE save' = [save EXCEPT ![s] = m]
            <4> HIDE DEF r
            <4>1. m \in SaveCalls /\ m.at = "again" /\ m.answers = save[s].answers
                  /\ m.bypass = save[s].bypass
                BY <2>1, SaveFields DEF SaveCalls, SaveStages
            <4> HIDE DEF m
            <4> QED
                BY <1>0, <3>1, <3>2, <4>1 DEF SaveStage
        <3>3. CASE save' = [save EXCEPT ![s] = [save[s] EXCEPT !.at = "refused"]]
            <4>1. save' = [save EXCEPT ![s].at = "refused"]
                BY <3>3, SaveMoves DEF SaveStages
            <4> QED
                BY <1>0, <1>1, <3>1, <4>1
        <3> QED
            BY <1>2, <2>3, <3>2, <3>3 DEF Check
    <2> QED
        BY <2>2, <2>3
<1>3. CASE Land(s)
    BY <1>0, <1>1, <1>3 DEF Land
<1>4. CASE WriteFails(s)
    BY <1>0, <1>1, <1>4 DEF WriteFails
<1> QED
    BY <1>2, <1>3, <1>4

\* After the write: the chain goes on, and a flush that waits in the room is settled.
LEMMA FinishEffect ==
    ASSUME RoomInv, NEW s \in Saves, Finish(s)
    PROVE  /\ save[s].at = "landed" /\ chain' = Without({s})
           /\ \E m : /\ SaveStage(s, m) /\ m.at = "ok" /\ m.answers = save[s].answers
                     /\ m.bypass = save[s].bypass
           /\ (flush' = 0 /\ embed' = Going) \/ UNCHANGED <<flush, embed>>
<1> DEFINE m == [save[s] EXCEPT !.at = "ok"]
<1>1. save' = [save EXCEPT ![s].at = "ok"]
    BY DEF Finish
<1>2. SaveStage(s, m) /\ m.at = "ok" /\ m.answers = save[s].answers /\ m.bypass = save[s].bypass
    BY <1>1, SaveMoves DEF SaveStage, SaveStages
<1> HIDE DEF m
<1> QED
    BY <1>2 DEF Finish

\* The client has its answer, which may acknowledge the flush.
LEMMA AnsweredEffect ==
    ASSUME RoomInv, NEW s \in Saves, Answered(s)
    PROVE  /\ save[s].at \in {"ok", "refused"} /\ SaveStage(s, Idle)
           /\ SettleOk \/ SettleFailed \/ UNCHANGED <<flush, embed, chain>>
<1>1. Idle \in SaveCalls /\ Idle.at = "idle"
    BY DEF Idle, SaveCalls, SaveStages
<1> QED
    BY <1>1, AckEffect DEF Answered, SaveStage

\* The steps of a save that leave the room objects, the participants and the flushes alone.
LEMMA SaveMovesKeepTypes ==
    ASSUME RoomInv, NEW s \in Saves,
           \/ Serialise(s) \/ Retry(s) \/ Arrive(s) \/ ReadDisk(s) \/ Check(s) \/ Land(s)
           \/ WriteFails(s)
    PROVE  RoomInv'
<1> USE RoomInvPartsNext
<1>0. FileTypes /\ SwitchTypes /\ ClientTypes /\ ChainType /\ NextIsKnown
    BY RoomInvParts
<1>1. /\ UNCHANGED <<scene, last, cur, opening, told, embed, owner, doc, known, flush, flushes>>
      /\ UNCHANGED <<live, open, dropped, dirty, held, unsaved>> /\ asked' \in {0, asked}
      /\ disk' \in {disk, save[s].bytes}
    BY DEF Serialise, Retry, Arrive, ReadDisk, Check, Land, WriteFails, roomVars, clientVars,
           flushVars
<1>2. \E m : SaveStage(s, m) /\ chain' \in {chain, Without({s}), Append(chain, s)}
    <2>1. CASE Serialise(s)
        BY <2>1, SerialiseEffect DEF Serialise
    <2>2. CASE Retry(s)
        BY <2>2, RetryEffect DEF Retry
    <2>3. CASE Arrive(s)
        BY <2>3, ArriveEffect
    <2>4. CASE ReadDisk(s)
        BY <2>4, ReadEffect
    <2>5. CASE Check(s) \/ Land(s) \/ WriteFails(s)
        BY <2>5, WriteEffect
    <2> QED
        BY <2>1, <2>2, <2>3, <2>4, <2>5
<1>3. SaveTypes' /\ SaveRooms'
    BY <1>1, <1>2, SaveBecomes DEF SaveStage
<1>4. ChainType'
    <2>1. Append(chain, s) \in Seq(Saves \cup Parts)
        BY <1>0, AppendProperties DEF ChainType
    <2> QED
        BY <1>0, <1>2, <2>1, WithoutType DEF ChainType
<1>5. FlushTypes'
    BY <1>1, Facts DEF FlushTypes
<1>6. torn' \in BOOLEAN
    BY <1>0, Zenon DEF Serialise, Retry, Arrive, ReadDisk, Check, Land, WriteFails, Torn, SwitchTypes
<1>7. SwitchTypes'
    BY <1>0, <1>1, <1>6 DEF SwitchTypes
<1>8. FileTypes' /\ NextIsKnown'
    BY <1>0, <1>1, SaveFields DEF FileTypes, NextIsKnown
<1> QED
    BY <1>1, <1>3, <1>4, <1>5, <1>7, <1>8, EmbedsStay, RestStays

\* The end of a save.
LEMMA FinishKeepsTypes == ASSUME RoomInv, NEW s \in Saves, Finish(s) PROVE RoomInv'
<1> USE RoomInvPartsNext
<1>0. /\ FileTypes /\ SwitchTypes /\ EmbedTypes /\ EmbedRooms /\ FlushIsAwaited /\ NextIsKnown
      /\ ChainType
    BY RoomInvParts
<1>1. /\ UNCHANGED <<scene, disk, cur, opening, owner, doc, known, flushes, asked>>
      /\ UNCHANGED <<live, open, dropped, held, unsaved, torn>>
      /\ last' = [last EXCEPT ![save[s].room] = save[s].bytes] /\ told' = save[s].room
      /\ dirty' \in {FALSE, dirty}
    BY DEF Finish, clientVars
<1>2. save[s].room \in 1..scene.rooms /\ save[s].bytes \subseteq Changes
    BY FinishEffect, SaveFields
<1>3. FileTypes' /\ NextIsKnown'
    BY <1>0, <1>1, <1>2 DEF FileTypes, NextIsKnown
<1>4. SwitchTypes'
    BY <1>0, <1>1 DEF SwitchTypes
<1>5. SaveTypes' /\ SaveRooms'
    BY <1>1, FinishEffect, SaveBecomes DEF SaveStage
<1>6. ChainType'
    BY <1>0, FinishEffect, WithoutType DEF ChainType
<1>7. flush' \in {0, flush} /\ EmbedTypes' /\ EmbedRooms' /\ FlushIsAwaited'
    <2>1. CASE flush' = 0 /\ embed' = Going
        <3>1. \A e \in Embeds : embed'[e].at # "flush" /\ embed'[e].room = embed[e].room
            BY <2>1, GoingEffect
        <3> QED
            BY <1>0, <1>1, <2>1, <3>1, GoingEffect DEF EmbedTypes, EmbedRooms, FlushIsAwaited, Flushing
    <2>2. CASE UNCHANGED <<flush, embed>>
        BY <1>0, <1>1, <2>2 DEF EmbedTypes, EmbedRooms, FlushIsAwaited, Flushing
    <2> QED
        BY <2>1, <2>2, FinishEffect
<1>8. FlushTypes'
    BY <1>1, <1>7, Facts DEF FlushTypes
<1> QED
    BY <1>1, <1>3, <1>4, <1>5, <1>6, <1>7, <1>8, RestStays

\* The answer to the client.
LEMMA AnsweredKeepsTypes == ASSUME RoomInv, NEW s \in Saves, Answered(s) PROVE RoomInv'
<1> USE RoomInvPartsNext
<1>0. SwitchTypes /\ told \in 0..scene.rooms
    BY RoomInvParts DEF FileTypes
<1>1. /\ UNCHANGED <<scene, disk, last, cur, opening, told, owner, doc, flushes>>
      /\ UNCHANGED <<live, open, dropped, dirty, held, torn>> /\ asked' \in {0, asked}
      /\ known' \in {known, [known EXCEPT ![Client(s)] = save[s].bytes]}
    BY DEF Answered, roomVars
<1>2. ClientTypes'
    BY <1>1, Facts, SaveFields DEF ClientTypes
<1>3. unsaved' \in BOOLEAN
    BY Zenon DEF Answered
<1>4. SwitchTypes'
    BY <1>0, <1>1, <1>3 DEF SwitchTypes
<1>5. flush' \in {0, flush} /\ ChainType' /\ EmbedTypes' /\ FlushIsAwaited' /\ EmbedRooms'
    BY <1>1, AnsweredEffect, SettleTypes
<1>6. FlushTypes'
    BY <1>1, <1>5, Facts DEF FlushTypes
<1>7. SaveTypes' /\ SaveRooms'
    BY <1>1, AnsweredEffect, SaveBecomes DEF SaveStage
<1> QED
    BY <1>0, <1>1, <1>2, <1>4, <1>5, <1>6, <1>7, FileStays

-----------------------------------------------------------------------------
(* The steps of the calls that replace or add a part *)

\* What the steps of a call before its end make of it.
EmbedStage(e, m) ==
    /\ m \in EmbedCalls /\ m.room \in 0..scene.rooms /\ embed' = [embed EXCEPT ![e] = m]

\* The fields of a call.
LEMMA EmbedFields ==
    ASSUME RoomInv, NEW e \in Embeds
    PROVE  /\ embed[e] \in EmbedCalls /\ embed[e].at \in EmbedStages
           /\ embed[e].base \subseteq Changes /\ embed[e].before \subseteq Changes
           /\ embed[e].room \in 0..scene.rooms /\ embed[e].seen \subseteq Changes
           /\ embed[e].room # 0 => last[embed[e].room] \subseteq Changes
<1>1. embed[e] \in EmbedCalls /\ embed[e].room \in 0..scene.rooms
    BY Facts, RoomInvParts DEF EmbedRooms
<1>2. embed[e].room # 0 => embed[e].room \in 1..scene.rooms
    BY <1>1, Facts
<1> QED
    BY <1>1, <1>2, Facts DEF EmbedCalls

\* A call that is moved to another stage.
LEMMA EmbedMoves ==
    ASSUME RoomInv, NEW e \in Embeds, NEW at \in EmbedStages, embed' = [embed EXCEPT ![e].at = at]
    PROVE  \E m : EmbedStage(e, m) /\ m.at = at
<1> DEFINE m == [embed[e] EXCEPT !.at = at]
<1>1. embed' = [embed EXCEPT ![e] = m]
    BY Facts
<1>2. m \in EmbedCalls /\ m.at = at /\ m.room \in 0..scene.rooms
    BY EmbedFields DEF EmbedCalls
<1> HIDE DEF m
<1> QED
    BY <1>1, <1>2 DEF EmbedStage

\* A call that is answered.
LEMMA EmbedEnds ==
    ASSUME RoomInv, NEW e \in Embeds, embed' = Given({e})
    PROVE  EmbedStage(e, Answer)
<1>1. embed' \in [Embeds -> EmbedCalls] /\ embed \in [Embeds -> EmbedCalls]
    BY GivenEffect, Facts
<1>2. \A x \in Embeds : embed'[x] = IF x = e THEN Answer ELSE embed[x]
    BY GivenEffect
<1>3. embed' = [embed EXCEPT ![e] = Answer]
    BY <1>1, <1>2
<1>4. 0 \in 0..scene.rooms
    BY Facts
<1> QED
    BY <1>3, <1>4, AnswerType DEF EmbedStage

\* A call that joins the flush, which is pending then.
LEMMA JoinEffect ==
    ASSUME RoomInv, NEW e \in Embeds, NEW call \in EmbedCalls, call.room \in 0..scene.rooms,
           JoinFlush(call, e)
    PROVE  /\ \E m : EmbedStage(e, m) /\ m.at = "flush"
           /\ FlushTypes' /\ flush' # 0 /\ flushes' >= flushes
           /\ UNCHANGED flushVars \/ flush' = flushes + 1
<1> DEFINE m == [call EXCEPT !.at = "flush", !.seen = {}]
<1>1. EmbedStage(e, m) /\ m.at = "flush"
    BY DEF JoinFlush, EmbedStage, EmbedCalls, EmbedStages
<1>2. FlushTypes' /\ flush' # 0 /\ flushes' >= flushes
    BY Facts DEF JoinFlush, FlushTypes, flushVars
<1> HIDE DEF m
<1> QED
    BY <1>1, <1>2 DEF JoinFlush

\* A part has its turn: it waits for the flush, is answered dirty_room, or goes on.
LEMMA PartTurnEffect ==
    ASSUME RoomInv, NEW e \in Embeds, PartTurn(e)
    PROVE  /\ embed[e].at = "turn" /\ MyTurn(e)
           /\ \/ /\ JoinFlush(embed[e], e) /\ chain' = chain
                 /\ \E m : EmbedStage(e, m) /\ m.at = "flush"
              \/ /\ EmbedStage(e, Answer) /\ embed' = Given({e}) /\ chain' = Without({e})
                 /\ UNCHANGED flushVars
              \/ (\E m : EmbedStage(e, m) /\ m.at = "go") /\ chain' = chain /\ UNCHANGED flushVars
<1>1. embed[e].at = "turn" /\ MyTurn(e)
    BY DEF PartTurn
<1>2. CASE JoinFlush(embed[e], e) /\ chain' = chain
    BY <1>1, <1>2, JoinEffect, EmbedFields
<1>3. CASE embed' = Given({e}) /\ chain' = Without({e}) /\ UNCHANGED flushVars
    BY <1>1, <1>3, EmbedEnds
<1>4. CASE embed' = [embed EXCEPT ![e].at = "go"] /\ chain' = chain /\ UNCHANGED flushVars
    BY <1>1, <1>4, EmbedMoves DEF EmbedStages
<1> QED
    BY <1>2, <1>3, <1>4 DEF PartTurn

\* A PUT looks at the room: it waits for the flush, goes on, or is refused.
LEMMA PutTurnEffect ==
    ASSUME RoomInv, NEW e \in Embeds, PutTurn(e)
    PROVE  /\ embed[e].at = "put" /\ chain' = chain
           /\ \/ \E call \in EmbedCalls : call.room \in 0..scene.rooms /\ JoinFlush(call, e)
              \/ /\ UNCHANGED flushVars
                 /\ \E m : EmbedStage(e, m) /\ m.at \in {"write", "answered"}
<1> DEFINE before == IF embed[e].room = 0 THEN {} ELSE last[embed[e].room]
           m == [embed[e] EXCEPT !.before = before]
           w == [m EXCEPT !.at = "write"]
<1>1. before \subseteq Changes
    BY EmbedFields
<1>2. m \in EmbedCalls /\ m.room \in 0..scene.rooms
    <2> HIDE DEF before
    <2> QED
        BY <1>1, EmbedFields DEF EmbedCalls
<1>3. w \in EmbedCalls /\ w.room \in 0..scene.rooms /\ w.at = "write"
    <2> HIDE DEF m
    <2> QED
        BY <1>2 DEF EmbedCalls, EmbedStages
<1>4. \/ JoinFlush(m, e)
      \/ /\ UNCHANGED flushVars
         /\ embed' = [embed EXCEPT ![e] = w] \/ embed' = [embed EXCEPT ![e] = Answer]
    BY DEF PutTurn
<1> HIDE DEF m, w
<1>5. CASE JoinFlush(m, e)
    BY <1>2, <1>5 DEF PutTurn
<1>6. CASE UNCHANGED flushVars /\ embed' = [embed EXCEPT ![e] = w]
    BY <1>3, <1>6 DEF PutTurn, EmbedStage
<1>7. CASE UNCHANGED flushVars /\ embed' = [embed EXCEPT ![e] = Answer]
    <2>1. EmbedStage(e, Answer)
        BY <1>7, AnswerType, Facts DEF EmbedStage
    <2> QED
        BY <1>7, <2>1, AnswerType DEF PutTurn
<1> QED
    BY <1>4, <1>5, <1>6, <1>7

\* The call, the reads, the check and the write of PUT and POST, and those of a part.
LEMMA RouteEffect ==
    ASSUME RoomInv, NEW e \in Embeds,
           RouteCall(e) \/ EmbedRead(e) \/ EmbedHash(e) \/ RouteCheck(e) \/ EmbedLand(e)
    PROVE  /\ chain' = chain /\ UNCHANGED flushVars
           /\ \E m : /\ EmbedStage(e, m) /\ m.at \notin {"turn", "flush"}
                     /\ embed[e].at = "go" /\ e \in Parts => m.at = "write"
                     /\ embed[e].at = "write" => m.at = "landed"
           /\ \/ e \in Puts \cup Posts /\ embed[e].at = "off"
              \/ embed[e].at \in {"first", "firstHash", "hash", "check", "go", "write"}
<1>1. CASE RouteCall(e)
    <2> DEFINE at == IF e \in Puts THEN "first" ELSE "hash"
               room == IF live THEN cur ELSE 0
               base == IF live THEN last[cur] ELSE disk
               m == [embed[e] EXCEPT !.at = at, !.room = room, !.base = base]
    <2>1. room \in Nat /\ room \in 0..scene.rooms /\ base \subseteq Changes
        BY Facts
    <2>2. embed' = [embed EXCEPT ![e] = m]
        BY <1>1, Facts DEF RouteCall
    <2>3. m \in EmbedCalls /\ m.at = at /\ m.room = room
        <3> HIDE DEF room, base
        <3> QED
            BY <2>1, EmbedFields DEF EmbedCalls, EmbedStages
    <2>4. EmbedStage(e, m)
        BY <2>1, <2>2, <2>3 DEF EmbedStage
    <2> HIDE DEF m
    <2> QED
        BY <1>1, <2>3, <2>4 DEF RouteCall
<1>2. CASE EmbedRead(e)
    <2> DEFINE at == IF embed[e].at = "first" THEN "firstHash"
                     ELSE IF e \in Puts THEN "hash" ELSE "write"
               m == [embed[e] EXCEPT !.seen = disk, !.at = at]
    <2>1. embed' = [embed EXCEPT ![e] = m]
        BY <1>2, Facts DEF EmbedRead
    <2>2. m \in EmbedCalls /\ m.at = at /\ m.room = embed[e].room
        BY EmbedFields, Facts DEF EmbedCalls, EmbedStages
    <2>3. EmbedStage(e, m)
        BY <2>1, <2>2, EmbedFields DEF EmbedStage
    <2> HIDE DEF m
    <2>4. e \in Parts => e \notin Puts
        BY RoomAssumption
    <2> QED
        BY <1>2, <2>2, <2>3, <2>4 DEF EmbedRead
<1>3. CASE EmbedHash(e)
    <2> DEFINE at == IF embed[e].at = "firstHash" THEN "put" ELSE "check"
               hash == IF embed[e].room # 0 /\ ~ live THEN {NoFile} ELSE disk
               m == [embed[e] EXCEPT !.hash = hash, !.at = at]
    <2>1. embed' = [embed EXCEPT ![e] = m]
        BY <1>3, Facts DEF EmbedHash
    <2>2. hash \subseteq Changes \cup {NoFile}
        BY Facts
    <2>3. m \in EmbedCalls /\ m.at = at /\ m.room = embed[e].room
        <3> HIDE DEF hash
        <3> QED
            BY <2>2, EmbedFields DEF EmbedCalls, EmbedStages
    <2>4. EmbedStage(e, m)
        BY <2>1, <2>3, EmbedFields DEF EmbedStage
    <2> HIDE DEF m
    <2> QED
        BY <1>3, <2>3, <2>4 DEF EmbedHash
<1>4. CASE RouteCheck(e)
    <2>1. CASE embed' = [embed EXCEPT ![e] = Answer]
        <3>1. EmbedStage(e, Answer)
            BY <2>1, AnswerType, Facts DEF EmbedStage
        <3> QED
            BY <1>4, <3>1, AnswerType DEF RouteCheck
    <2>2. ASSUME NEW at \in {"write", "go"}, embed' = [embed EXCEPT ![e].at = at]
          PROVE  \E m : EmbedStage(e, m) /\ m.at \notin {"turn", "flush"}
        <3>1. at \in EmbedStages
            BY DEF EmbedStages
        <3> QED
            BY <2>2, <3>1, EmbedMoves
    <2>5. /\ embed[e].at = "check" /\ chain' = chain /\ UNCHANGED flushVars
        BY <1>4 DEF RouteCheck
    <2>3. \/ embed' = [embed EXCEPT ![e] = Answer]
          \/ \E at \in {"write", "go"} : embed' = [embed EXCEPT ![e] = [embed[e] EXCEPT !.at = at]]
        BY <1>4 DEF RouteCheck
    <2>4. \A at : [embed EXCEPT ![e].at = at] = [embed EXCEPT ![e] = [embed[e] EXCEPT !.at = at]]
        BY Facts
    <2> QED
        BY <2>1, <2>2, <2>3, <2>4, <2>5
<1>5. CASE EmbedLand(e)
    <2>1. \E m : EmbedStage(e, m) /\ m.at = "landed"
        BY <1>5, EmbedMoves DEF EmbedLand, EmbedStages
    <2> QED
        BY <1>5, <2>1 DEF EmbedLand
<1> QED
    BY <1>1, <1>2, <1>3, <1>4, <1>5

\* A step that gives the call e the record m.
LEMMA EmbedBecomes ==
    ASSUME RoomInv, UNCHANGED scene, NEW e \in Embeds, NEW m, EmbedStage(e, m),
           m.at = "flush" \/ flush # 0 => flush' # 0
    PROVE  EmbedTypes' /\ EmbedRooms' /\ FlushIsAwaited'
<1>1. embed \in [Embeds -> EmbedCalls] /\ EmbedRooms /\ FlushIsAwaited
    BY Facts, RoomInvParts
<1>2. \A x \in Embeds : embed'[x] = IF x = e THEN m ELSE embed[x]
    BY <1>1 DEF EmbedStage
<1>3. EmbedTypes'
    BY <1>1 DEF EmbedTypes, EmbedStage
<1> QED
    BY <1>1, <1>2, <1>3 DEF EmbedStage, EmbedRooms, FlushIsAwaited, Flushing

\* The steps of a call before its end.
LEMMA EmbedMovesKeepTypes ==
    ASSUME RoomInv, NEW e \in Embeds,
           \/ PartCall(e) \/ PartTurn(e) \/ PutTurn(e) \/ EmbedFails(e)
           \/ RouteCall(e) \/ EmbedRead(e) \/ EmbedHash(e) \/ RouteCheck(e) \/ EmbedLand(e)
    PROVE  RoomInv'
<1> USE RoomInvPartsNext
<1>0. FileTypes /\ SwitchTypes /\ ChainType /\ NextIsKnown
    BY RoomInvParts
<1>1. /\ UNCHANGED <<scene, save, last, cur, opening, told, owner, doc, known>>
      /\ UNCHANGED <<live, open, dropped, dirty, held, unsaved>>
      /\ disk' \in {disk, embed[e].seen \cup {e}}
    BY DEF PartCall, PartTurn, PutTurn, EmbedFails, RouteCall, EmbedRead, EmbedHash, RouteCheck,
           EmbedLand, roomVars, clientVars
<1>2. torn' \in BOOLEAN
    BY <1>0, Zenon DEF PartCall, PartTurn, PutTurn, EmbedFails, RouteCall, EmbedRead, EmbedHash,
           RouteCheck, EmbedLand, Torn, SwitchTypes
<1>3. SwitchTypes'
    BY <1>0, <1>1, <1>2 DEF SwitchTypes
<1>4. FileTypes' /\ NextIsKnown'
    BY <1>0, <1>1, EmbedFields DEF FileTypes, NextIsKnown, Changes
<1>5. ASSUME NEW m, EmbedStage(e, m), UNCHANGED flushVars, m.at # "flush"
      PROVE  EmbedTypes' /\ EmbedRooms' /\ FlushIsAwaited' /\ FlushTypes'
    BY <1>1, <1>5, EmbedBecomes, RestStays DEF flushVars
<1>6. ASSUME NEW call \in EmbedCalls, call.room \in 0..scene.rooms, JoinFlush(call, e)
      PROVE  EmbedTypes' /\ EmbedRooms' /\ FlushIsAwaited' /\ FlushTypes'
    BY <1>1, <1>6, JoinEffect, EmbedBecomes
<1>7. ChainType'
    <2>1. e \in Parts => Append(chain, e) \in Seq(Saves \cup Parts)
        BY <1>0, AppendProperties DEF ChainType
    <2>2. chain' \in {chain, Without({e})} \/ (e \in Parts /\ chain' = Append(chain, e))
        BY DEF PartCall, PartTurn, PutTurn, EmbedFails, RouteCall, EmbedRead, EmbedHash, RouteCheck,
               EmbedLand
    <2> QED
        BY <1>0, <2>1, <2>2, WithoutType DEF ChainType
<1>8. EmbedTypes' /\ EmbedRooms' /\ FlushIsAwaited' /\ FlushTypes'
    <2>1. CASE PartCall(e)
        BY <1>5, <2>1, EmbedMoves DEF PartCall, EmbedStages
    <2>2. CASE PartTurn(e)
        BY <1>5, <1>6, <2>2, PartTurnEffect, EmbedFields, AnswerType
    <2>3. CASE PutTurn(e)
        BY <1>5, <1>6, <2>3, PutTurnEffect
    <2>4. CASE EmbedFails(e)
        BY <1>5, <2>4, EmbedEnds, AnswerType DEF EmbedFails
    <2>5. CASE RouteCall(e) \/ EmbedRead(e) \/ EmbedHash(e) \/ RouteCheck(e) \/ EmbedLand(e)
        BY <1>5, <2>5, RouteEffect
    <2> QED
        BY <2>1, <2>2, <2>3, <2>4, <2>5
<1> QED
    BY <1>1, <1>3, <1>4, <1>7, <1>8, SavesStay, RestStays

\* What the end of a call does to the calls and the chain: it is answered, and with it, if the room
\* is reset, whoever waits for the flush.
LEMMA EmbedFinishEffect ==
    ASSUME RoomInv, NEW e \in Embeds, EmbedFinish(e)
    PROVE  /\ embed[e].at = "landed" /\ UNCHANGED <<save, flushes>>
           /\ \E failed \in {Flushing, {}} :
                  /\ embed' = Given(failed \cup {e}) /\ chain' = Without(failed \cup {e})
                  /\ (failed = Flushing /\ flush' = 0 /\ asked' = 0) \/ UNCHANGED <<flush, asked>>
BY DEF EmbedFinish

\* The end of a call, which may reset the room.
LEMMA EmbedFinishKeepsTypes == ASSUME RoomInv, NEW e \in Embeds, EmbedFinish(e) PROVE RoomInv'
<1> USE RoomInvPartsNext
<1>0. /\ FileTypes /\ SwitchTypes /\ ChainType /\ EmbedRooms /\ FlushIsAwaited /\ NextIsKnown
      /\ scene.rooms \in Nat /\ cur \in 1..scene.rooms
    BY RoomInvParts, Facts
<1> DEFINE adopting == IF e \notin Parts THEN embed[e].room ELSE IF live THEN cur ELSE 0
           content == embed[e].seen \cup {e}
<1>1. /\ last' = IF adopting = 0 THEN last ELSE [last EXCEPT ![adopting] = content]
      /\ told' = adopting
      /\ UNCHANGED <<scene, disk, cur, opening, dropped, dirty, owner, doc, known, unsaved, flushes,
                     save, torn>>
    BY DEF EmbedFinish
<1>2. adopting \in 0..scene.rooms /\ content \subseteq Changes
    BY <1>0, EmbedFields DEF Changes
<1> HIDE DEF adopting, content
<1>3. FileTypes' /\ NextIsKnown'
    BY <1>0, <1>1, <1>2 DEF FileTypes, NextIsKnown
<1>4. live' \in BOOLEAN /\ open' \in BOOLEAN /\ held' \in BOOLEAN
    BY Zenon DEF EmbedFinish
<1>5. SwitchTypes'
    BY <1>0, <1>1, <1>4 DEF SwitchTypes
<1>6. ClientTypes'
    BY <1>1, RestStays
<1>7. PICK failed \in {Flushing, {}} :
          /\ embed' = Given(failed \cup {e}) /\ chain' = Without(failed \cup {e})
          /\ (failed = Flushing /\ flush' = 0 /\ asked' = 0) \/ UNCHANGED <<flush, asked>>
    BY EmbedFinishEffect
<1>8. FlushTypes'
    BY <1>1, <1>7, Facts DEF FlushTypes
<1>9. ChainType'
    BY <1>0, <1>7, WithoutType DEF ChainType
<1> DEFINE who == failed \cup {e}
<1>10. embed' = Given(who) /\ e \in who /\ (failed = Flushing => Flushing \subseteq who)
    BY <1>7
<1> HIDE DEF who
<1>11. \A x \in Embeds : Given(who)[x] = IF x \in who THEN Answer ELSE embed[x]
    BY GivenEffect
<1>12. \A x \in Embeds : Given(who)[x].room \in {0, embed[x].room}
    BY GivenEffect
<1>13. EmbedTypes'
    BY <1>10, GivenEffect DEF EmbedTypes
<1>14. EmbedRooms'
    BY <1>0, <1>1, <1>10, <1>12 DEF EmbedRooms
<1>15. \A x \in Embeds : embed'[x].at = "flush" => embed[x].at = "flush" /\ x \notin who
    BY <1>10, <1>11, AnswerType
<1>16. FlushIsAwaited'
    <2>1. CASE failed = Flushing
        <3>1. \A x \in Embeds : embed'[x].at # "flush"
            BY <1>10, <1>15, <2>1 DEF Flushing
        <3> QED
            BY <3>1 DEF FlushIsAwaited, Flushing
    <2>2. CASE UNCHANGED <<flush, asked>>
        BY <1>0, <1>15, <2>2 DEF FlushIsAwaited, Flushing
    <2> QED
        BY <1>7, <2>1, <2>2
<1> QED
    BY <1>1, <1>3, <1>5, <1>6, <1>8, <1>9, <1>13, <1>14, <1>16, SavesStay

\* A step of nobody.
LEMMA StutterKeepsTypes == ASSUME RoomInv, UNCHANGED vars PROVE RoomInv'
<1> USE RoomInvPartsNext
<1>1. SwitchTypes /\ told \in 0..scene.rooms
    BY RoomInvParts DEF FileTypes
<1>2. /\ UNCHANGED <<scene, disk, last, cur, opening, told, owner, doc, known, flushVars>>
      /\ UNCHANGED <<live, open, dropped, dirty, held, unsaved, torn, chain, save, embed>>
    BY DEF vars, roomVars, clientVars
<1>3. SwitchTypes'
    BY <1>1, <1>2 DEF SwitchTypes
<1> QED
    BY <1>1, <1>2, <1>3, FileStays, SavesStay, EmbedsStay, RestStays DEF flushVars

\* Every step keeps the types.
LEMMA RoomTypeStep == ASSUME RoomInv, [Next]_vars PROVE RoomInv'
<1>1. ASSUME NEW s \in Saves, Serialise(s) \/ SaveStep(s) PROVE RoomInv'
    BY <1>1, SaveMovesKeepTypes, FinishKeepsTypes, AnsweredKeepsTypes DEF SaveStep
<1>2. ASSUME NEW e \in Embeds, PartCall(e) \/ RouteCall(e) \/ EmbedStep(e) PROVE RoomInv'
    BY <1>2, EmbedMovesKeepTypes, EmbedFinishKeepsTypes DEF EmbedStep
<1>3. CASE \/ Resume \/ Drop \/ Dispose \/ OwnerResets \/ Opens \/ Recreate
           \/ \E c \in Savers : Enter(c)
           \/ \E x \in Edits : Edit(x)
           \/ \E x \in Exts : External(x)
    BY <1>3, EnterKeepsTypes, DropKeepsTypes, DisposeKeepsTypes, CreateKeepsTypes, ChangeKeepsTypes
<1>4. CASE CleanAck \/ FlushTimesOut
    BY <1>4, FlushKeepsTypes
<1>5. CASE UNCHANGED vars
    BY <1>5, StutterKeepsTypes
<1> QED
    BY <1>1, <1>2, <1>3, <1>4, <1>5 DEF Next

\* The types of the file, its room objects, the saves and the calls that replace a part; and whoever
\* waits for a flush waits for one that is pending: settlePendingFlush leaves nobody behind, and a
\* disposed room settles its flush.
THEOREM RoomTypeCorrect == Spec => []TypeOK
<1>1. RoomInv => TypeOK
    BY DEF RoomInv
<1> QED
    BY RoomInit, RoomTypeStep, <1>1, PTL DEF Spec

-----------------------------------------------------------------------------
(* The flush *)

\* The save that was made for the pending flush has arrived while it was pending, if at all.
FlushInv ==
    /\ \A s \in Saves : save[s].answers <= flushes
    /\ \A s \in Saves :
           save[s].at = "turn" /\ flush # 0 /\ save[s].answers = flush => save[s].bypass

\* A step in which a save keeps its number, or takes that of the request at hand, and arrives at its
\* turn beside the chain only, and the flush that is pending is the same, none or a new one.
LEMMA FlushInvKept ==
    ASSUME RoomInv, RoomInv', FlushInv,
           \A s \in Saves :
               \/ /\ save'[s].answers \in {0, save[s].answers} /\ save'[s].at = save[s].at
                  /\ save'[s].bypass = save[s].bypass
               \/ /\ save'[s].answers \in {0, asked, save[s].answers}
                  /\ save'[s].at # "turn" \/ save'[s].bypass = (flush' # 0),
           flush' \in {0, flush} \/ flush' = flushes + 1, flushes' >= flushes
    PROVE  FlushInv'
<1>1. /\ flush \in 0..flushes /\ asked \in 0..flushes /\ flushes \in Nat /\ flushes' \in Nat
      /\ \A s \in Saves : save[s].answers \in Nat /\ save'[s].answers \in Nat
    <2>1. FlushTypes' /\ SaveTypes'
        BY RoomInvPartsNext
    <2>2. \A s \in Saves : save'[s] \in SaveCalls
        BY <2>1 DEF SaveTypes
    <2> QED
        BY <2>1, <2>2, Facts, SaveFields DEF FlushTypes, SaveCalls
<1>2. \A s \in Saves : save'[s].answers <= flushes'
    BY <1>1 DEF FlushInv
<1>3. ASSUME NEW s \in Saves, save'[s].at = "turn", flush' # 0, save'[s].answers = flush'
      PROVE  save'[s].bypass
    <2>1. save'[s].answers <= flushes
        BY <1>1 DEF FlushInv
    <2>2. flush' = flush
        BY <1>1, <1>3, <2>1
    <2> QED
        BY <1>3, <2>2, Zenon DEF FlushInv
<1> QED
    BY <1>2, <1>3 DEF FlushInv

\* What FlushInvKept asks of the saves.
SavesKeepNumbers ==
    \A s \in Saves :
        \/ /\ save'[s].answers \in {0, save[s].answers} /\ save'[s].at = save[s].at
           /\ save'[s].bypass = save[s].bypass
        \/ /\ save'[s].answers \in {0, asked, save[s].answers}
           /\ save'[s].at # "turn" \/ save'[s].bypass = (flush' # 0)

\* A step of one save.
LEMMA OneSaveMoves ==
    ASSUME RoomInv, UNCHANGED scene, NEW s \in Saves, NEW m, SaveStage(s, m),
           m.answers \in {0, asked, save[s].answers},
           m.at # "turn" \/ m.bypass = (flush' # 0)
    PROVE  SavesKeepNumbers
<1>1. \A x \in Saves : save'[x] = IF x = s THEN m ELSE save[x]
    BY SaveBecomes DEF SaveStage
<1> QED
    BY <1>1 DEF SavesKeepNumbers

\* A step of no save.
LEMMA NoSaveMoves == ASSUME save' = save PROVE SavesKeepNumbers
BY DEF SavesKeepNumbers

\* The steps of the saves.
LEMMA SaveKeepsNumbers ==
    ASSUME RoomInv, NEW s \in Saves, Serialise(s) \/ SaveStep(s)
    PROVE  SavesKeepNumbers /\ flush' \in {0, flush} /\ flushes' = flushes
<1>1. CASE Serialise(s)
    <2>1. SavesKeepNumbers
        BY <1>1, SerialiseEffect, OneSaveMoves DEF Serialise
    <2> QED
        BY <1>1, <2>1 DEF Serialise
<1>2. CASE Retry(s)
    <2>1. SavesKeepNumbers
        BY <1>2, RetryEffect, OneSaveMoves DEF Retry
    <2> QED
        BY <1>2, <2>1 DEF Retry, flushVars
<1>3. CASE Arrive(s)
    <2>1. UNCHANGED <<scene, flush, flushes>>
        BY <1>3 DEF Arrive, flushVars
    <2>2. SavesKeepNumbers
        BY <1>3, <2>1, ArriveEffect, OneSaveMoves
    <2> QED
        BY <2>1, <2>2
<1>4. CASE ReadDisk(s)
    <2>1. SavesKeepNumbers
        BY <1>4, ReadEffect, OneSaveMoves DEF ReadDisk
    <2> QED
        BY <1>4, <2>1 DEF ReadDisk, flushVars
<1>5. CASE Check(s) \/ Land(s) \/ WriteFails(s)
    <2>1. UNCHANGED <<scene, flush, flushes>>
        BY <1>5 DEF Check, Land, WriteFails, flushVars
    <2>2. SavesKeepNumbers
        BY <1>5, <2>1, WriteEffect, OneSaveMoves
    <2> QED
        BY <2>1, <2>2
<1>6. CASE Finish(s)
    <2>1. UNCHANGED <<scene, flushes>>
        BY <1>6 DEF Finish
    <2>2. SavesKeepNumbers
        BY <1>6, <2>1, FinishEffect, OneSaveMoves
    <2> QED
        BY <1>6, <2>1, <2>2, FinishEffect
<1>7. CASE Answered(s)
    <2>1. UNCHANGED <<scene, flushes>>
        BY <1>7 DEF Answered
    <2>2. SavesKeepNumbers
        BY <1>7, <2>1, AnsweredEffect, OneSaveMoves DEF Idle
    <2>3. flush' \in {0, flush}
        BY <1>7, AnsweredEffect DEF SettleOk, SettleFailed
    <2> QED
        BY <2>1, <2>2, <2>3
<1> QED
    BY <1>1, <1>2, <1>3, <1>4, <1>5, <1>6, <1>7 DEF SaveStep

\* The steps of the calls, of the room and of the flush.
LEMMA RestKeepsNumbers ==
    ASSUME RoomInv,
           \/ Resume \/ Drop \/ Dispose \/ OwnerResets \/ Opens \/ Recreate \/ CleanAck
           \/ FlushTimesOut
           \/ \E c \in Savers : Enter(c)
           \/ \E x \in Edits : Edit(x)
           \/ \E x \in Exts : External(x)
           \/ \E e \in Embeds : PartCall(e) \/ RouteCall(e) \/ EmbedStep(e)
           \/ UNCHANGED vars
    PROVE  /\ SavesKeepNumbers
           /\ flush' \in {0, flush} \/ flush' = flushes + 1
           /\ flushes' >= flushes
<1>0. flushes \in Nat
    BY Facts
<1>1. CASE Drop
    <2>1. \A s \in Saves : /\ save'[s].answers = 0 /\ save'[s].at = save[s].at
                           /\ save'[s].bypass = save[s].bypass
        BY <1>1, Facts DEF Drop, SaveCalls
    <2> QED
        BY <1>0, <1>1, <2>1 DEF SavesKeepNumbers, Drop
<1>2. CASE Dispose \/ OwnerResets \/ FlushTimesOut \/ CleanAck
    <2>1. save' = save /\ flushes' = flushes
        BY <1>2 DEF Dispose, OwnerResets, FlushTimesOut, CleanAck
    <2>2. flush' \in {0, flush}
        BY <1>2 DEF Dispose, OwnerResets, FlushTimesOut, CleanAck, Ack, SettleOk, SettleFailed
    <2> QED
        BY <1>0, <2>1, <2>2, NoSaveMoves
<1>3. CASE UNCHANGED <<flush, flushes, save>>
    BY <1>0, <1>3, NoSaveMoves
<1>4. ASSUME NEW e \in Embeds, PartCall(e) \/ RouteCall(e) \/ EmbedStep(e)
      PROVE  /\ save' = save /\ flushes' >= flushes
             /\ flush' \in {0, flush} \/ flush' = flushes + 1
    <2>1. save' = save
        BY <1>4 DEF PartCall, RouteCall, EmbedStep, PartTurn, PutTurn, EmbedRead, EmbedHash,
                    RouteCheck, EmbedLand, EmbedFails, EmbedFinish
    <2>2. CASE EmbedFinish(e)
        BY <1>0, <2>1, <2>2 DEF EmbedFinish
    <2>3. CASE UNCHANGED flushVars
        BY <1>0, <2>1, <2>3 DEF flushVars
    <2>4. ASSUME NEW call, JoinFlush(call, e) PROVE flushes' >= flushes /\ flush' \in {flush, flushes + 1}
        BY <1>0, <2>4 DEF JoinFlush, flushVars
    <2>5. EmbedFinish(e) \/ UNCHANGED flushVars \/ \E call : JoinFlush(call, e)
        BY <1>4, PutTurnEffect
        DEF PartCall, RouteCall, EmbedStep, PartTurn, EmbedRead, EmbedHash, RouteCheck, EmbedLand,
            EmbedFails
    <2> QED
        BY <2>1, <2>2, <2>3, <2>4, <2>5
<1>5. CASE \E e \in Embeds : PartCall(e) \/ RouteCall(e) \/ EmbedStep(e)
    BY <1>4, <1>5, NoSaveMoves
<1>6. CASE \/ Resume \/ Opens \/ Recreate \/ UNCHANGED vars
           \/ \E c \in Savers : Enter(c)
           \/ \E x \in Edits : Edit(x)
           \/ \E x \in Exts : External(x)
    BY <1>3, <1>6 DEF Resume, Opens, Recreate, Enter, Edit, External, vars, flushVars
<1> QED
    BY <1>1, <1>2, <1>5, <1>6

\* Every step keeps the numbers.
LEMMA FlushStep == ASSUME RoomInv, FlushInv, [Next]_vars PROVE RoomInv' /\ FlushInv'
<1>1. RoomInv'
    BY RoomTypeStep
<1>2. /\ SavesKeepNumbers
      /\ flush' \in {0, flush} \/ flush' = flushes + 1
      /\ flushes' >= flushes
    <2>1. flushes \in Nat
        BY Facts
    <2>2. CASE \E s \in Saves : Serialise(s) \/ SaveStep(s)
        BY <2>1, <2>2, SaveKeepsNumbers
    <2>3. CASE ~ \E s \in Saves : Serialise(s) \/ SaveStep(s)
        BY <2>3, RestKeepsNumbers DEF Next
    <2> QED
        BY <2>2, <2>3
<1> QED
    BY <1>1, <1>2, FlushInvKept DEF SavesKeepNumbers

\* Nobody waits in a circle: the save that the owner makes for a flush is never in the chain behind
\* the call that waits for this flush, because every save that arrives while one is pending goes
\* beside the chain, whatever was saved, refused, retried or reset before.
THEOREM NeverACircularWait == Spec => []NoCircularWait
<1>1. Init => FlushInv
    BY DEF Init, FlushInv, Idle
<1>2. FlushInv => NoCircularWait
    BY DEF FlushInv, NoCircularWait
<1> QED
    BY RoomInit, FlushStep, <1>1, <1>2, PTL DEF Spec

-----------------------------------------------------------------------------
(* The chain *)

\* Who is in the chain, and who should be: the calls under way that took a place.
Holds(x) == \E i \in 1..Len(chain) : chain[i] = x
Held(x) == IF x \in Saves
           THEN save[x].at \in {"turn", "read", "write", "landed"} /\ ~ save[x].bypass
           ELSE embed[x].at \in {"turn", "flush", "go", "write", "landed"}

\* Those of them whose turn has come.
Runs(x) == IF x \in Saves
           THEN save[x].at \in {"read", "write", "landed"} /\ ~ save[x].bypass
           ELSE embed[x].at \in {"flush", "go", "write", "landed"}

\* Part rooms have their turn and then wait for the flush at most; the routes have no turn.
OwnStages ==
    /\ \A e \in Parts : embed[e].at \notin {"first", "firstHash", "put", "hash", "check"}
    /\ \A e \in Puts \cup Posts : embed[e].at # "turn"
ChainOnce == \A i, j \in 1..Len(chain) : chain[i] = chain[j] => i = j
ChainIsCalls == \A x \in Saves \cup Parts : Holds(x) <=> Held(x)
HeadRuns == \A x \in Saves \cup Parts : Runs(x) => MyTurn(x)
ChainParts == ChainOnce /\ ChainIsCalls /\ HeadRuns

ChainInv == RoomInv /\ OwnStages /\ ChainParts

\* Saves, parts and the calls of the routes are different kinds of callers.
LEMMA Kinds ==
    /\ \A s \in Saves : s \notin Embeds /\ s \notin Parts
    /\ \A e \in Parts : e \notin Saves /\ e \notin Puts \cup Posts /\ e \in Embeds
    /\ \A e \in Puts \cup Posts : e \notin Saves /\ e \notin Parts /\ e \in Embeds
    /\ \A e \in Embeds : e \in Parts \/ e \in Puts \cup Posts
BY RoomAssumption DEF Embeds

\* A call is in the chain when it is the head.
LEMMA HeadIsHeld ==
    ASSUME ChainType, NEW x, MyTurn(x)
    PROVE  Holds(x) /\ x \in Saves \cup Parts
<1>1. chain # <<>> /\ Head(chain) = x
    BY DEF MyTurn
<1>2. Len(chain) \in Nat /\ Len(chain) >= 1 /\ Head(chain) = chain[1] /\ Head(chain) \in Saves \cup Parts
    BY <1>1, EmptySeq, HeadTailProperties DEF ChainType
<1> QED
    BY <1>1, <1>2 DEF Holds

\* Nothing enters or leaves the chain.
LEMMA ChainStays ==
    ASSUME ChainInv, chain' = chain,
           \A x \in Saves \cup Parts : (Held(x)' <=> Held(x)) /\ (Runs(x)' => Runs(x) \/ MyTurn(x))
    PROVE  ChainParts'
BY DEF ChainInv, ChainParts, ChainOnce, ChainIsCalls, HeadRuns, Holds, MyTurn

\* A call takes its place at the end.
LEMMA ChainGrows ==
    ASSUME ChainInv, NEW x \in Saves \cup Parts, chain' = Append(chain, x), ~ Held(x), Held(x)',
           \A y \in Saves \cup Parts : /\ y # x => (Held(y)' <=> Held(y))
                                       /\ Runs(y)' => Runs(y)
    PROVE  ChainParts'
<1>0. chain \in Seq(Saves \cup Parts) /\ Len(chain) \in Nat
    BY RoomInvParts DEF ChainInv, ChainType
<1>1. /\ Len(chain') = Len(chain) + 1
      /\ \A i \in 1..Len(chain) : chain'[i] = chain[i]
      /\ chain'[Len(chain) + 1] = x
    BY <1>0, AppendProperties
<1>2. \A i \in 1..Len(chain') : i \in 1..Len(chain) \/ i = Len(chain) + 1
    BY <1>0, <1>1
<1>3. \A i \in 1..Len(chain) : chain[i] # x
    BY DEF ChainInv, ChainParts, ChainIsCalls, Holds
<1>4. ChainOnce'
    BY <1>1, <1>2, <1>3 DEF ChainInv, ChainParts, ChainOnce
<1>5. \A y : Holds(y)' <=> Holds(y) \/ y = x
    <2>1. 1..Len(chain) \subseteq 1..Len(chain') /\ Len(chain) + 1 \in 1..Len(chain')
        BY <1>0, <1>1
    <2> QED
        BY <1>1, <1>2, <2>1 DEF Holds
<1>6. ChainIsCalls'
    BY <1>5 DEF ChainInv, ChainParts, ChainIsCalls
<1>7. \A y : MyTurn(y) => MyTurn(y)'
    <2> SUFFICES ASSUME NEW y, MyTurn(y) PROVE MyTurn(y)'
        OBVIOUS
    <2>1. chain # <<>> /\ Len(chain) >= 1 /\ Head(chain) = chain[1] /\ Head(chain) = y
        BY <1>0, EmptySeq, HeadTailProperties DEF MyTurn
    <2>2. chain' \in Seq(Saves \cup Parts) /\ chain' # <<>> /\ Head(chain') = chain'[1]
        BY <1>0, AppendProperties, HeadTailProperties
    <2> QED
        BY <1>0, <1>1, <2>1, <2>2 DEF MyTurn
<1>8. HeadRuns'
    BY <1>7 DEF ChainInv, ChainParts, HeadRuns
<1> QED
    BY <1>4, <1>6, <1>8 DEF ChainParts

\* The call at the head has ended.
LEMMA ChainMovesOn ==
    ASSUME ChainInv, NEW x, MyTurn(x), chain' = Tail(chain), ~ Held(x)',
           \A y \in Saves \cup Parts : y # x => (Held(y)' <=> Held(y)) /\ (Runs(y)' => Runs(y)),
           Runs(x)' => Held(x)'
    PROVE  ChainParts'
<1>0. /\ chain \in Seq(Saves \cup Parts) /\ Len(chain) \in Nat /\ chain # <<>>
      /\ Head(chain) = x /\ x \in Saves \cup Parts
    BY RoomInvParts, HeadIsHeld DEF ChainInv, ChainType, MyTurn
<1>1. /\ Len(chain) >= 1 /\ Head(chain) = chain[1] /\ Len(chain') = Len(chain) - 1
      /\ \A i \in 1..(Len(chain) - 1) : chain'[i] = chain[i + 1]
    BY <1>0, EmptySeq, HeadTailProperties
<1>2. \A i \in 1..Len(chain') : i + 1 \in 1..Len(chain) /\ i + 1 # 1 /\ chain'[i] = chain[i + 1]
    BY <1>0, <1>1
<1>3. ChainOnce'
    <2> SUFFICES ASSUME NEW i \in 1..Len(chain'), NEW j \in 1..Len(chain'), chain'[i] = chain'[j]
                 PROVE  i = j
        BY DEF ChainOnce
    <2>1. chain[i + 1] = chain[j + 1] /\ i + 1 \in 1..Len(chain) /\ j + 1 \in 1..Len(chain)
        BY <1>2
    <2>2. i + 1 = j + 1
        BY <2>1 DEF ChainInv, ChainParts, ChainOnce
    <2> QED
        BY <2>2
<1>4. ASSUME NEW y PROVE Holds(y)' <=> Holds(y) /\ y # x
    <2>1. ASSUME NEW i \in 1..Len(chain'), chain'[i] = y PROVE Holds(y) /\ y # x
        <3>1. chain[i + 1] = y /\ i + 1 \in 1..Len(chain) /\ i + 1 # 1
            BY <1>2, <2>1
        <3>2. 1 \in 1..Len(chain) /\ chain[1] = x
            BY <1>0, <1>1
        <3>3. y # x
            BY <3>1, <3>2 DEF ChainInv, ChainParts, ChainOnce
        <3> QED
            BY <3>1, <3>3 DEF Holds
    <2>2. ASSUME NEW i \in 1..Len(chain), chain[i] = y, y # x PROVE Holds(y)'
        <3>1. i # 1
            BY <1>0, <1>1, <2>2
        <3>2. i - 1 \in 1..Len(chain') /\ chain'[i - 1] = chain[i]
            BY <1>0, <1>1, <3>1
        <3> QED
            BY <2>2, <3>2 DEF Holds
    <2> QED
        BY <2>1, <2>2 DEF Holds
<1>5. ChainIsCalls'
    BY <1>4 DEF ChainInv, ChainParts, ChainIsCalls
<1>6. HeadRuns'
    <2>1. \A y \in Saves \cup Parts : y # x => ~ Runs(y)
        BY <1>0 DEF ChainInv, ChainParts, HeadRuns, MyTurn
    <2> QED
        BY <2>1 DEF HeadRuns
<1> QED
    BY <1>3, <1>5, <1>6 DEF ChainParts

\* Calls have ended.  Of those in the chain only the head can be one of them.
LEMMA SomeEnd ==
    ASSUME ChainInv, NEW who, chain' = Without(who),
           \A y \in Saves \cup Parts :
               y \in who => MyTurn(y) /\ ~ Held(y)' /\ ~ Runs(y)',
           \A y \in Saves \cup Parts :
               y \notin who => (Held(y)' <=> Held(y)) /\ (Runs(y)' => Runs(y))
    PROVE  ChainParts'
<1>1. CASE chain # <<>> /\ Head(chain) \in who
    <2> DEFINE x == Head(chain)
    <2>1. MyTurn(x) /\ chain' = Tail(chain) /\ x \in who
        BY <1>1 DEF MyTurn, Without
    <2>2. x \in Saves \cup Parts
        BY <2>1, HeadIsHeld, RoomInvParts DEF ChainInv
    <2>3. \A y \in Saves \cup Parts : y # x => y \notin who
        BY DEF MyTurn
    <2> HIDE DEF x
    <2> QED
        BY <2>1, <2>2, <2>3, ChainMovesOn
<1>2. CASE ~ (chain # <<>> /\ Head(chain) \in who)
    <2>1. chain' = chain
        BY <1>2 DEF Without
    <2>2. \A y \in Saves \cup Parts : y \notin who
        BY <1>2 DEF MyTurn
    <2> QED
        BY <2>1, <2>2, ChainStays
<1> QED
    BY <1>1, <1>2

\* The saves that a step does not move, and the calls that it does not or that go on.
SameSave(s) == save'[s].at = save[s].at /\ save'[s].bypass = save[s].bypass
SameCall(e) == embed'[e].at = embed[e].at \/ (embed[e].at = "flush" /\ embed'[e].at = "go")

\* They hold what they held.
LEMMA SameHold ==
    /\ \A s \in Saves : SameSave(s) => (Held(s)' <=> Held(s)) /\ (Runs(s)' <=> Runs(s))
    /\ \A e \in Parts : SameCall(e) => (Held(e)' <=> Held(e)) /\ (Runs(e)' <=> Runs(e))
BY Kinds DEF SameSave, SameCall, Held, Runs

\* A step that leaves the stages of the calls alone, or lets them go on.
LEMMA StagesStay ==
    ASSUME OwnStages, \A e \in Embeds : SameCall(e) \/ embed'[e].at = "answered"
    PROVE  OwnStages'
BY Kinds DEF OwnStages, SameCall

\* What a settled flush does to the chain: those that are given up are the head of it at most.
LEMMA SettleKeepsChain ==
    ASSUME ChainInv, SettleOk \/ SettleFailed \/ UNCHANGED <<flush, embed, chain>>,
           \A s \in Saves : SameSave(s) \/ (~ Held(s) /\ ~ Held(s)' /\ ~ Runs(s)')
    PROVE  ChainParts' /\ OwnStages'
<1>0. RoomInv /\ OwnStages /\ HeadRuns
    BY DEF ChainInv, ChainParts
<1>1. \A s \in Saves : (Held(s)' <=> Held(s)) /\ (Runs(s)' => Runs(s))
    BY SameHold
<1>2. CASE SettleOk
    <2>1. \A e \in Embeds : SameCall(e)
        BY <1>0, <1>2, GoingEffect DEF SettleOk, SameCall
    <2>2. \A e \in Parts : (Held(e)' <=> Held(e)) /\ (Runs(e)' => Runs(e))
        BY <2>1, SameHold, Kinds
    <2>3. chain' = chain
        BY <1>2 DEF SettleOk
    <2> QED
        BY <1>0, <1>1, <2>1, <2>2, <2>3, StagesStay, ChainStays
<1>3. CASE SettleFailed
    <2>1. \A e \in Embeds : embed'[e] = IF e \in Flushing THEN Answer ELSE embed[e]
        BY <1>0, <1>3, GivenEffect DEF SettleFailed
    <2>2. \A e \in Embeds : IF e \in Flushing THEN embed'[e].at = "answered" ELSE SameCall(e)
        BY <2>1, AnswerType DEF SameCall
    <2>3. \A e \in Parts : e \in Flushing => MyTurn(e) /\ ~ Held(e)' /\ ~ Runs(e)'
        BY <1>0, <2>2, Kinds DEF Held, Runs, Flushing, HeadRuns
    <2>4. \A e \in Parts : e \notin Flushing => (Held(e)' <=> Held(e)) /\ (Runs(e)' => Runs(e))
        BY <2>2, SameHold, Kinds
    <2>5. \A s \in Saves : s \notin Flushing
        BY Kinds DEF Flushing
    <2>6. chain' = Without(Flushing)
        BY <1>3 DEF SettleFailed
    <2>7. ChainParts'
        BY <1>1, <2>3, <2>4, <2>5, <2>6, SomeEnd
    <2> QED
        BY <1>0, <2>2, <2>7, StagesStay
<1>4. CASE UNCHANGED <<flush, embed, chain>>
    <2>1. \A e \in Embeds : SameCall(e)
        BY <1>4 DEF SameCall
    <2>2. \A e \in Parts : (Held(e)' <=> Held(e)) /\ (Runs(e)' => Runs(e))
        BY <2>1, SameHold, Kinds
    <2> QED
        BY <1>0, <1>1, <1>4, <2>1, <2>2, StagesStay, ChainStays
<1> QED
    BY <1>2, <1>3, <1>4

\* A step of one save, and calls that go on with it at most.
LEMMA SaveChanges ==
    ASSUME ChainInv, UNCHANGED scene, NEW s \in Saves, NEW m, SaveStage(s, m),
           \A e \in Embeds : SameCall(e)
    PROVE  /\ OwnStages' /\ save'[s] = m
           /\ \A y \in Saves \cup Parts : y # s => (Held(y)' <=> Held(y)) /\ (Runs(y)' <=> Runs(y))
<1>0. RoomInv /\ OwnStages
    BY DEF ChainInv
<1>1. \A x \in Saves : save'[x] = IF x = s THEN m ELSE save[x]
    BY <1>0, SaveBecomes DEF SaveStage
<1>2. \A x \in Saves : x # s => SameSave(x)
    BY <1>1 DEF SameSave
<1>3. OwnStages'
    BY <1>0, StagesStay
<1> QED
    BY <1>1, <1>2, <1>3, SameHold, Kinds

\* A save leaves its place in the chain, if it has one.
LEMMA SaveLeaves ==
    ASSUME ChainInv, UNCHANGED scene, NEW s \in Saves, NEW m, SaveStage(s, m),
           save[s].at \in {"read", "write", "landed"}, m.at \in {"again", "refused", "ok"},
           chain' = Without({s}), \A e \in Embeds : SameCall(e)
    PROVE  ChainParts' /\ OwnStages'
<1>1. /\ OwnStages' /\ save'[s] = m
      /\ \A y \in Saves \cup Parts : y # s => (Held(y)' <=> Held(y)) /\ (Runs(y)' <=> Runs(y))
    BY SaveChanges
<1>2. ~ Held(s)' /\ ~ Runs(s)'
    BY <1>1 DEF Held, Runs
<1>3. CASE save[s].bypass
    <2>1. ~ Held(s) /\ ~ Runs(s)
        BY <1>3 DEF Held, Runs
    <2>2. ~ MyTurn(s)
        BY <2>1, HeadIsHeld, RoomInvParts DEF ChainInv, ChainParts, ChainIsCalls
    <2>3. chain' = chain
        BY <2>2 DEF Without, MyTurn
    <2>4. \A y \in Saves \cup Parts : (Held(y)' <=> Held(y)) /\ (Runs(y)' => Runs(y) \/ MyTurn(y))
        BY <1>1, <1>2, <2>1
    <2> QED
        BY <1>1, <2>3, <2>4, ChainStays
<1>4. CASE ~ save[s].bypass
    <2>1. MyTurn(s)
        BY <1>4 DEF ChainInv, ChainParts, HeadRuns, Runs
    <2>2. \A y \in Saves \cup Parts : y \in {s} => MyTurn(y) /\ ~ Held(y)' /\ ~ Runs(y)'
        BY <1>2, <2>1
    <2>3. \A y \in Saves \cup Parts : y \notin {s} => (Held(y)' <=> Held(y)) /\ (Runs(y)' => Runs(y))
        BY <1>1
    <2> QED
        BY <1>1, <2>2, <2>3, SomeEnd
<1> QED
    BY <1>3, <1>4

\* A save that goes on where it is.
LEMMA SaveGoesOn ==
    ASSUME ChainInv, UNCHANGED <<scene, chain, embed>>, NEW s \in Saves, NEW m, SaveStage(s, m),
           Held(s)' <=> Held(s), Runs(s)' => Runs(s) \/ MyTurn(s)
    PROVE  ChainParts' /\ OwnStages'
<1>1. \A e \in Embeds : SameCall(e)
    BY DEF SameCall
<1>2. /\ OwnStages'
      /\ \A y \in Saves \cup Parts : y # s => (Held(y)' <=> Held(y)) /\ (Runs(y)' <=> Runs(y))
    BY <1>1, SaveChanges
<1>3. \A y \in Saves \cup Parts : (Held(y)' <=> Held(y)) /\ (Runs(y)' => Runs(y) \/ MyTurn(y))
    BY <1>2
<1> QED
    BY <1>2, <1>3, ChainStays

\* The steps of a save.
LEMMA SaveKeepsChain ==
    ASSUME ChainInv, NEW s \in Saves, Serialise(s) \/ SaveStep(s)
    PROVE  ChainParts' /\ OwnStages'
<1>0. RoomInv
    BY DEF ChainInv
<1>1. UNCHANGED embed => \A e \in Embeds : SameCall(e)
    BY DEF SameCall
<1>2. ASSUME NEW m, SaveStage(s, m), UNCHANGED <<scene, embed>> PROVE save'[s] = m
    BY <1>1, <1>2, SaveChanges
<1>3. CASE Serialise(s)
    <2>1. UNCHANGED <<scene, chain, embed>> /\ save[s].at = "idle"
        BY <1>3 DEF Serialise
    <2>2. PICK m : SaveStage(s, m) /\ m.at = "sent"
        BY <1>0, <1>3, SerialiseEffect
    <2>3. save'[s] = m
        BY <1>2, <2>1, <2>2
    <2> QED
        BY <2>1, <2>2, <2>3, SaveGoesOn DEF Held, Runs
<1>4. CASE Retry(s)
    <2>1. UNCHANGED <<scene, chain, embed>> /\ save[s].at = "again"
        BY <1>4 DEF Retry
    <2>2. PICK m : SaveStage(s, m) /\ m.at = "sent"
        BY <1>0, <1>4, RetryEffect
    <2>3. save'[s] = m
        BY <1>2, <2>1, <2>2
    <2> QED
        BY <2>1, <2>2, <2>3, SaveGoesOn DEF Held, Runs
<1>5. CASE Arrive(s)
    <2>1. UNCHANGED <<scene, embed>>
        BY <1>5 DEF Arrive
    <2>2. PICK m : /\ SaveStage(s, m) /\ save[s].at = "sent"
                   /\ \/ /\ m.at = "turn" /\ m.bypass = (flush # 0)
                         /\ chain' = IF flush # 0 THEN chain ELSE Append(chain, s)
                      \/ m.at = "refused" /\ chain' = chain
        BY <1>0, <1>5, ArriveEffect
    <2>3. save'[s] = m
        BY <1>2, <2>1, <2>2
    <2>4. ~ Held(s) /\ ~ Runs(s) /\ ~ Runs(s)'
        BY <2>2, <2>3 DEF Held, Runs
    <2>5. CASE m.at = "turn" /\ m.bypass = TRUE /\ chain' = chain
        <3>1. ~ Held(s)'
            BY <2>3, <2>5 DEF Held
        <3> QED
            BY <2>1, <2>2, <2>4, <2>5, <3>1, SaveGoesOn
    <2>6. CASE m.at = "turn" /\ m.bypass = FALSE /\ chain' = Append(chain, s)
        <3>1. Held(s)'
            BY <2>3, <2>6 DEF Held
        <3>2. /\ OwnStages'
              /\ \A y \in Saves \cup Parts : y # s => (Held(y)' <=> Held(y)) /\ (Runs(y)' <=> Runs(y))
            BY <1>1, <2>1, <2>2, SaveChanges
        <3>3. \A y \in Saves \cup Parts : /\ y # s => (Held(y)' <=> Held(y))
                                          /\ Runs(y)' => Runs(y)
            BY <2>4, <3>2
        <3> QED
            BY <2>4, <2>6, <3>1, <3>2, <3>3, ChainGrows
    <2>7. CASE m.at = "refused" /\ chain' = chain
        <3>1. ~ Held(s)'
            BY <2>3, <2>7 DEF Held
        <3> QED
            BY <2>1, <2>2, <2>4, <2>7, <3>1, SaveGoesOn
    <2> QED
        BY <2>2, <2>5, <2>6, <2>7
<1>6. CASE ReadDisk(s)
    <2>1. UNCHANGED <<scene, chain, embed>> /\ save[s].at = "turn" /\ (save[s].bypass \/ MyTurn(s))
        BY <1>6 DEF ReadDisk
    <2>2. PICK m : SaveStage(s, m) /\ m.at = "read" /\ m.bypass = save[s].bypass
        BY <1>0, <1>6, ReadEffect
    <2>3. save'[s] = m
        BY <1>2, <2>1, <2>2
    <2>4. (Held(s)' <=> Held(s)) /\ (Runs(s)' => Runs(s) \/ MyTurn(s))
        BY <2>1, <2>2, <2>3 DEF Held, Runs
    <2> QED
        BY <2>1, <2>2, <2>4, SaveGoesOn
<1>7. CASE Check(s) \/ Land(s) \/ WriteFails(s)
    <2>1. UNCHANGED <<scene, embed>> /\ save[s].at \in {"read", "write"}
        BY <1>7 DEF Check, Land, WriteFails
    <2>2. PICK m : /\ SaveStage(s, m) /\ m.bypass = save[s].bypass
                   /\ \/ m.at \in {"write", "landed"} /\ chain' = chain
                      \/ m.at \in {"again", "refused"} /\ chain' = Without({s})
        BY <1>0, <1>7, WriteEffect
    <2>3. CASE m.at \in {"write", "landed"} /\ chain' = chain
        <3>1. save'[s] = m
            BY <1>2, <2>1, <2>2
        <3>2. (Held(s)' <=> Held(s)) /\ (Runs(s)' => Runs(s))
            BY <2>1, <2>2, <2>3, <3>1 DEF Held, Runs
        <3> QED
            BY <2>1, <2>2, <2>3, <3>2, SaveGoesOn
    <2>4. CASE m.at \in {"again", "refused"} /\ chain' = Without({s})
        BY <1>1, <2>1, <2>2, <2>4, SaveLeaves
    <2> QED
        BY <2>2, <2>3, <2>4
<1>8. CASE Finish(s)
    <2>1. scene' = scene
        BY <1>8 DEF Finish
    <2>2. PICK m : SaveStage(s, m) /\ m.at = "ok"
        BY <1>0, <1>8, FinishEffect
    <2>3. \A e \in Embeds : SameCall(e)
        BY <1>0, <1>8, FinishEffect, GoingEffect DEF SameCall
    <2> QED
        BY <1>0, <1>8, <2>1, <2>2, <2>3, FinishEffect, SaveLeaves
<1>9. CASE Answered(s)
    <2>1. /\ save[s].at \in {"ok", "refused"} /\ SaveStage(s, Idle) /\ scene' = scene
          /\ SettleOk \/ SettleFailed \/ UNCHANGED <<flush, embed, chain>>
        BY <1>0, <1>9, AnsweredEffect DEF Answered
    <2>2. \A x \in Saves : save'[x] = IF x = s THEN Idle ELSE save[x]
        BY <1>0, <2>1, SaveBecomes DEF SaveStage
    <2>3. ~ Held(s) /\ ~ Held(s)' /\ ~ Runs(s)'
        BY <2>1, <2>2 DEF Held, Runs, Idle
    <2>4. \A x \in Saves : SameSave(x) \/ (~ Held(x) /\ ~ Held(x)' /\ ~ Runs(x)')
        BY <2>2, <2>3 DEF SameSave
    <2> QED
        BY <2>1, <2>4, SettleKeepsChain
<1> QED
    BY <1>3, <1>4, <1>5, <1>6, <1>7, <1>8, <1>9 DEF SaveStep

\* The steps of the room, of the flush and of other programs.
LEMMA RoomKeepsChain ==
    ASSUME ChainInv,
           \/ Resume \/ Drop \/ Dispose \/ OwnerResets \/ Opens \/ Recreate \/ CleanAck
           \/ FlushTimesOut
           \/ \E c \in Savers : Enter(c)
           \/ \E x \in Edits : Edit(x)
           \/ \E x \in Exts : External(x)
           \/ UNCHANGED vars
    PROVE  ChainParts' /\ OwnStages'
<1>1. save \in [Saves -> SaveCalls]
    BY Facts DEF ChainInv
<1>2. CASE Drop
    <2>1. UNCHANGED <<flush, embed, chain>> /\ \A s \in Saves : SameSave(s)
        BY <1>1, <1>2 DEF Drop, SaveCalls, SameSave
    <2> QED
        BY <2>1, SettleKeepsChain
<1>3. CASE save' = save /\ (SettleOk \/ SettleFailed \/ UNCHANGED <<flush, embed, chain>>)
    <2>1. \A s \in Saves : SameSave(s)
        BY <1>3 DEF SameSave
    <2> QED
        BY <1>3, <2>1, SettleKeepsChain
<1>4. CASE Dispose \/ OwnerResets \/ FlushTimesOut \/ CleanAck
    BY <1>3, <1>4, AckEffect DEF Dispose, OwnerResets, FlushTimesOut, CleanAck
<1> QED
    BY <1>2, <1>3, <1>4 DEF Resume, Opens, Recreate, Enter, Edit, External, vars, flushVars

\* A step of one call that replaces a part.
LEMMA CallChanges ==
    ASSUME ChainInv, save' = save, NEW e \in Embeds, NEW m, EmbedStage(e, m)
    PROVE  /\ embed'[e] = m
           /\ \A x \in Embeds : x # e => SameCall(x)
           /\ \A y \in Saves \cup Parts : y # e => (Held(y)' <=> Held(y)) /\ (Runs(y)' <=> Runs(y))
<1>1. \A x \in Embeds : embed'[x] = IF x = e THEN m ELSE embed[x]
    BY Facts DEF ChainInv, EmbedStage
<1>2. \A x \in Embeds : x # e => SameCall(x)
    BY <1>1 DEF SameCall
<1>3. \A s \in Saves : SameSave(s)
    BY DEF SameSave
<1> QED
    BY <1>1, <1>2, <1>3, SameHold, Kinds

\* A part whose turn it is goes on, or a call of a route does.
LEMMA CallGoesOn ==
    ASSUME ChainInv, UNCHANGED <<save, chain>>, NEW e \in Embeds, NEW m, EmbedStage(e, m),
           e \in Parts => MyTurn(e) /\ Held(e) /\ m.at \in {"flush", "go", "write", "landed"},
           e \in Puts \cup Posts => m.at # "turn"
    PROVE  ChainParts' /\ OwnStages'
<1>1. /\ embed'[e] = m
      /\ \A x \in Embeds : x # e => SameCall(x)
      /\ \A y \in Saves \cup Parts : y # e => (Held(y)' <=> Held(y)) /\ (Runs(y)' <=> Runs(y))
    BY CallChanges
<1>2. OwnStages'
    BY <1>1, Kinds DEF ChainInv, OwnStages, SameCall
<1>3. e \in Parts => Held(e)'
    BY <1>1, Kinds DEF Held
<1>4. \A y \in Saves \cup Parts : (Held(y)' <=> Held(y)) /\ (Runs(y)' => Runs(y) \/ MyTurn(y))
    BY <1>1, <1>3, Kinds
<1> QED
    BY <1>2, <1>4, ChainStays

\* Calls are answered: one that runs or whose turn it is, and those that wait for the flush.
LEMMA CallsEnd ==
    ASSUME ChainInv, save' = save, NEW e \in Embeds, NEW failed \in {Flushing, {}},
           e \in Parts => MyTurn(e),
           embed' = Given(failed \cup {e}), chain' = Without(failed \cup {e})
    PROVE  ChainParts' /\ OwnStages'
<1>0. RoomInv /\ OwnStages /\ HeadRuns
    BY DEF ChainInv, ChainParts
<1> DEFINE who == failed \cup {e}
<1>1. /\ embed' = Given(who) /\ chain' = Without(who)
      /\ \A x \in who : x = e \/ x \in Flushing
    OBVIOUS
<1> HIDE DEF who
<1>2. \A x \in Embeds : IF x \in who THEN embed'[x].at = "answered" ELSE SameCall(x)
    BY <1>0, <1>1, GivenEffect, AnswerType DEF SameCall
<1>3. \A s \in Saves : s \notin who /\ SameSave(s)
    BY <1>1, Kinds DEF Flushing, SameSave
<1>4. ASSUME NEW x \in Parts, x \in who PROVE MyTurn(x) /\ ~ Held(x)' /\ ~ Runs(x)'
    <2>1. ~ Held(x)' /\ ~ Runs(x)'
        BY <1>2, <1>4, Kinds DEF Held, Runs
    <2>2. x \in Flushing => Runs(x)
        BY Kinds DEF Flushing, Runs
    <2> QED
        BY <1>0, <1>1, <1>4, <2>1, <2>2 DEF HeadRuns
<1>5. \A y \in Saves \cup Parts : y \in who => MyTurn(y) /\ ~ Held(y)' /\ ~ Runs(y)'
    BY <1>3, <1>4
<1>6. \A y \in Saves \cup Parts : y \notin who => (Held(y)' <=> Held(y)) /\ (Runs(y)' => Runs(y))
    BY <1>2, <1>3, SameHold, Kinds
<1>7. OwnStages'
    BY <1>0, <1>2, StagesStay
<1> QED
    BY <1>1, <1>5, <1>6, <1>7, SomeEnd

\* The steps of the calls.
LEMMA EmbedKeepsChain ==
    ASSUME ChainInv, NEW e \in Embeds, PartCall(e) \/ RouteCall(e) \/ EmbedStep(e)
    PROVE  ChainParts' /\ OwnStages'
<1>0. RoomInv /\ OwnStages /\ HeadRuns
    BY DEF ChainInv, ChainParts
<1>1. save' = save
    BY DEF PartCall, RouteCall, EmbedStep, PartTurn, PutTurn, EmbedRead, EmbedHash, RouteCheck,
           EmbedLand, EmbedFails, EmbedFinish
<1>2. e \in Parts /\ embed[e].at \in {"flush", "go", "write", "landed"} => MyTurn(e) /\ Held(e)
    BY <1>0, Kinds DEF HeadRuns, Runs, Held
<1>3. CASE PartCall(e)
    <2>1. e \in Parts /\ embed[e].at = "off" /\ chain' = Append(chain, e)
        BY <1>3 DEF PartCall
    <2>2. PICK m : EmbedStage(e, m) /\ m.at = "turn"
        BY <1>0, <1>3, EmbedMoves DEF PartCall, EmbedStages
    <2>3. /\ embed'[e] = m
          /\ \A x \in Embeds : x # e => SameCall(x)
          /\ \A y \in Saves \cup Parts : y # e => (Held(y)' <=> Held(y)) /\ (Runs(y)' <=> Runs(y))
        BY <1>1, <2>2, CallChanges
    <2>4. ~ Held(e) /\ Held(e)' /\ ~ Runs(e)'
        BY <2>1, <2>2, <2>3, Kinds DEF Held, Runs
    <2>5. OwnStages'
        BY <1>0, <2>1, <2>2, <2>3, Kinds DEF OwnStages, SameCall
    <2>6. \A y \in Saves \cup Parts : /\ y # e => (Held(y)' <=> Held(y))
                                      /\ Runs(y)' => Runs(y)
        BY <2>3, <2>4
    <2>7. e \in Saves \cup Parts
        BY <2>1
    <2> QED
        BY <2>1, <2>4, <2>5, <2>6, <2>7, ChainGrows
<1>4. CASE PartTurn(e)
    <2>1. embed[e].at = "turn" /\ MyTurn(e)
        BY <1>4 DEF PartTurn
    <2>2. e \in Parts /\ e \notin Puts \cup Posts /\ Held(e)
        BY <1>0, <2>1, Kinds DEF OwnStages, Held
    <2>3. CASE \E m : EmbedStage(e, m) /\ m.at \in {"flush", "go"} /\ chain' = chain
        BY <1>1, <2>1, <2>2, <2>3, CallGoesOn
    <2>4. CASE embed' = Given({e}) /\ chain' = Without({e})
        <3>1. embed' = Given({} \cup {e}) /\ chain' = Without({} \cup {e})
            BY <2>4
        <3> QED
            BY <1>1, <2>1, <3>1, CallsEnd
    <2> QED
        BY <1>0, <1>4, <2>3, <2>4, PartTurnEffect
<1>5. CASE PutTurn(e)
    <2>1. embed[e].at = "put" /\ chain' = chain
        BY <1>0, <1>5, PutTurnEffect
    <2>2. e \notin Parts
        BY <1>0, <2>1 DEF OwnStages
    <2>3. \E m : EmbedStage(e, m) /\ m.at # "turn"
        BY <1>0, <1>5, PutTurnEffect, JoinEffect
    <2> QED
        BY <1>1, <2>1, <2>2, <2>3, CallGoesOn
<1>6. CASE RouteCall(e) \/ EmbedRead(e) \/ EmbedHash(e) \/ RouteCheck(e) \/ EmbedLand(e)
    <2>1. chain' = chain
        BY <1>0, <1>6, RouteEffect
    <2>2. PICK m : /\ EmbedStage(e, m) /\ m.at \notin {"turn", "flush"}
                   /\ embed[e].at = "go" /\ e \in Parts => m.at = "write"
                   /\ embed[e].at = "write" => m.at = "landed"
        BY <1>0, <1>6, RouteEffect
    <2>3. e \in Parts => embed[e].at \in {"go", "write"}
        BY <1>0, <1>6, RouteEffect, Kinds DEF OwnStages
    <2>4. e \in Parts => MyTurn(e) /\ Held(e) /\ m.at \in {"flush", "go", "write", "landed"}
        BY <1>2, <2>2, <2>3
    <2> QED
        BY <1>1, <2>1, <2>2, <2>4, CallGoesOn
<1>7. CASE EmbedFails(e)
    <2>1. e \in Parts => MyTurn(e)
        BY <1>2, <1>7 DEF EmbedFails
    <2>2. embed' = Given({} \cup {e}) /\ chain' = Without({} \cup {e})
        BY <1>7 DEF EmbedFails
    <2> QED
        BY <1>1, <2>1, <2>2, CallsEnd
<1>8. CASE EmbedFinish(e)
    <2>1. e \in Parts => MyTurn(e)
        BY <1>2, <1>8 DEF EmbedFinish
    <2>2. PICK failed \in {Flushing, {}} :
              embed' = Given(failed \cup {e}) /\ chain' = Without(failed \cup {e})
        BY <1>0, <1>8, EmbedFinishEffect
    <2> QED
        BY <1>1, <2>1, <2>2, CallsEnd
<1> QED
    BY <1>3, <1>4, <1>5, <1>6, <1>7, <1>8 DEF EmbedStep

\* Every step keeps the chain.
LEMMA ChainStep == ASSUME ChainInv, [Next]_vars PROVE ChainInv'
<1>1. RoomInv'
    BY RoomTypeStep DEF ChainInv
<1>2. ChainParts' /\ OwnStages'
    BY RoomKeepsChain, SaveKeepsChain, EmbedKeepsChain DEF Next
<1> QED
    BY <1>1, <1>2 DEF ChainInv

\* The chain starts empty, with nobody under way.
LEMMA ChainInit == Init => ChainInv
<1> SUFFICES ASSUME Init PROVE ChainInv
    OBVIOUS
<1>1. RoomInv
    BY RoomInit
<1>2. chain = <<>> /\ Len(chain) = 0
    BY DEF Init
<1>3. \A x \in Saves \cup Parts : ~ Held(x) /\ ~ Runs(x)
    BY Kinds DEF Init, Held, Runs, Idle, NotCalled
<1>4. OwnStages
    BY Kinds DEF Init, OwnStages, NotCalled
<1>5. ChainParts
    BY <1>2, <1>3 DEF ChainParts, ChainOnce, ChainIsCalls, HeadRuns, Holds
<1> QED
    BY <1>1, <1>4, <1>5 DEF ChainInv

\* saveChains holds exactly the calls under way, in any room, with any number of participants, parts
\* and calls of the routes, whether or not room objects are disposed of, reset and made in between:
\* nothing waits for a call that is gone.
THEOREM ChainAlwaysHoldsCalls == Spec => []ChainHoldsCalls
<1>1. ChainInv => ChainHoldsCalls
    BY DEF ChainInv, ChainParts, ChainOnce, ChainIsCalls, Holds, Held, ChainHoldsCalls
<1> QED
    BY ChainInit, ChainStep, <1>1, PTL DEF Spec
=============================================================================
