----------------------------- MODULE RoomSaves -----------------------------
(***************************************************************************)
(* What writes the file of a collaboration room: the saves of its          *)
(* participants (applySave in backend/src/services/collab-rooms.ts), the   *)
(* saves of the rooms of its embedded parts, PUT and POST /embed           *)
(* (backend/src/routes/collab.ts) and programs outside; and the flush that *)
(* asks the owner to save before a part is replaced.                       *)
(*                                                                         *)
(* A content is the set of the changes it holds, and stands for its hash.  *)
(* An action is the code between two awaits.  A room object that was       *)
(* disposed of is still written to by the calls that hold it.              *)
(*                                                                         *)
(* Left out: the watcher and the externalChanged banner, the image guard,  *)
(* the embed lock, saves without a base hash, the owner's election: owner  *)
(* is the participant that flush requests reach, from the first entry into *)
(* a room object on; the connections break together.  A participant has    *)
(* one save under way at a time, beside the one that it makes for a flush. *)
(***************************************************************************)
EXTENDS Naturals, Sequences, FiniteSets

CONSTANTS
    Edits,      \* updates of the shared document
    Parts,      \* saves of part rooms, each of its own part
    Puts,       \* calls of PUT /embed, each for its own part
    Posts,      \* calls of POST /embed, which add a part
    Exts,       \* writes by programs outside
    Savers,     \* the participants
    ForFlush,   \* the owner's save for a flush request
    Scenes,     \* what a behaviour is given, see scene
    NoFile      \* currentDiskHash = null; nobody is creating a room

Embeds == Parts \cup Puts \cup Posts
Changes == Edits \cup Embeds \cup Exts
Saves == Savers \cup {ForFlush}

ASSUME RoomAssumption ==
    /\ Savers # {} /\ ForFlush \notin Savers /\ Saves \cap Embeds = {}
    /\ Parts \cap (Puts \cup Posts) = {} /\ Puts \cap Posts = {}
    /\ Edits \cap Embeds = {} /\ Exts \cap (Edits \cup Embeds) = {} /\ NoFile \notin Changes
    /\ Scenes \subseteq [lib : BOOLEAN, savers : SUBSET Savers \ {{}},
                        calls : SUBSET (Embeds \cup Exts), rooms : Nat \ {0}]

VARIABLES
    scene,      \* what this behaviour is given: lib is TRUE for xlsx and docx, where everybody
                \* saves, and FALSE for pptx, where only the owner does; who takes part; the calls
                \* and the outside writes that are made; how many room objects there are
    disk,       \* the file
    last,       \* lastHash of each room object
    cur,        \* the newest room object
    live,       \* it is in the map
    opening,    \* the hash that createSession has read for the next one, or NoFile
    open,       \* an editing participant is connected
    dropped,    \* lastEditorDropAt > 0
    dirty,      \* docDirty
    owner,      \* the owner of the current room object
    doc,        \* what the participants have in memory: the file as loaded and the edits
    held,       \* they have it still, and come back with it
    known,      \* the content each participant has loaded or saved last, its base hash if lib
    unsaved,    \* the owner's dirtyRef
    flush,      \* the number of the pendingFlush, 0 when there is none
    flushes,    \* how many were requested
    asked,      \* the flush request the owner has received and not acted upon, or 0
    chain,      \* saveChains: who runs and who waits
    save,       \* the requests of the participants
    embed,      \* each call that replaces a part
    told,       \* history: the room object that was told of the last write, 0 if none was
    torn        \* history: two calls, not both of the chain, were between reading the file and
                \* telling of the write at a time, the participants have come back with a
                \* document that lacks a change of the file, or a retry took the hash of a
                \* content that its bytes lack

roomVars   == <<last, cur, live, opening, open, dropped, dirty>>
clientVars == <<owner, doc, held, known, unsaved>>
flushVars  == <<flush, flushes, asked>>
vars == <<scene, disk, roomVars, clientVars, flushVars, chain, save, embed, told, torn>>

Idle == [at |-> "idle", bytes |-> {}, base |-> {}, from |-> 0, room |-> 0, seen |-> {},
         answers |-> 0, bypass |-> FALSE, again |-> FALSE]
NotCalled == [at |-> "off", base |-> {}, before |-> {}, room |-> 0, seen |-> {}, hash |-> {}]
Answer == [NotCalled EXCEPT !.at = "answered"]

Init ==
    /\ scene \in Scenes /\ owner \in scene.savers
    /\ disk = {} /\ doc = {} /\ last = [r \in 1..scene.rooms |-> {}] /\ cur = 1 /\ live = TRUE
    /\ opening = {NoFile} /\ open = FALSE /\ dropped = FALSE /\ dirty = FALSE
    /\ held = FALSE /\ unsaved = FALSE
    /\ flush = 0 /\ flushes = 0 /\ asked = 0 /\ chain = <<>>
    /\ known = [c \in Savers |-> {}]
    /\ save = [s \in Saves |-> Idle]
    /\ embed = [e \in Embeds |-> NotCalled]
    /\ told = 1 /\ torn = FALSE

\* The chain is one of promises: these calls have ended, and the one behind the head goes on if it
\* was the head.
Without(who) == IF chain # <<>> /\ Head(chain) \in who THEN Tail(chain) ELSE chain
Flushing == {e \in Embeds : embed[e].at = "flush"}
Given(who) == [e \in Embeds |-> IF e \in who THEN Answer ELSE embed[e]]
Going == [e \in Embeds |-> IF e \in Flushing THEN [embed[e] EXCEPT !.at = "go"] ELSE embed[e]]

\* Whoever waits for the flush goes on, or answers dirty_room.
SettleOk == flush' = 0 /\ embed' = Going /\ UNCHANGED chain
SettleFailed ==
    flush' = 0 /\ embed' = Given(Flushing) /\ chain' = Without(Flushing)

-----------------------------------------------------------------------------
(* The room and its participants *)

\* A participant enters a room object that nobody has entered, and loads the file; an xlsx or docx
\* room has to be that of the file.
Enter(c) ==
    /\ c \in scene.savers /\ live /\ ~ open /\ ~ held /\ save[c].at = "idle"
    /\ scene.lib => disk = last[cur]
    /\ open' = TRUE /\ held' = TRUE /\ owner' = c
    /\ doc' = disk /\ known' = [x \in Savers |-> disk] /\ unsaved' = FALSE
    /\ UNCHANGED <<scene, disk, last, cur, live, opening, dropped, dirty, flushVars,
                   chain, save, embed, told, torn>>

\* The participants come back with the document they had, unless the file is another one.
Resume ==
    /\ live /\ ~ open /\ held /\ disk = last[cur]
    /\ open' = TRUE /\ torn' = (torn \/ ~ (disk \subseteq doc))
    /\ UNCHANGED <<scene, disk, last, cur, live, opening, dropped, dirty, clientVars,
                   flushVars, chain, save, embed, told>>

\* The connection breaks, or is closed: the record is cleared before it is made, so it stays.
\* Only the connection that was asked may acknowledge a flush.
Drop ==
    /\ live /\ open /\ open' = FALSE /\ dropped' = TRUE /\ asked' = 0
    /\ save' = [s \in Saves |-> [save[s] EXCEPT !.answers = 0]]
    /\ UNCHANGED <<scene, disk, last, cur, live, opening, dirty, clientVars, flush,
                   flushes, chain, embed, told, torn>>

\* An update, which does not make a room dirty in its first 10 s; a pptx viewer counts its own
\* updates only.
Edit(x) ==
    /\ live /\ open /\ x \in Edits \ doc
    /\ doc' = doc \cup {x} /\ dirty' \in {dirty, TRUE}
    /\ unsaved' \in {TRUE, scene.lib \/ unsaved}
    /\ UNCHANGED <<scene, disk, last, cur, live, opening, open, dropped, owner, held,
                   known, flushVars, chain, save, embed, told, torn>>

\* Mutant of Dispose: the calls that wait for the flush are not told.
DisposeSilently ==
    /\ live /\ ~ open
    /\ live' = FALSE /\ asked' = 0 /\ flush' = 0
    /\ UNCHANGED <<scene, disk, last, cur, opening, open, dropped, dirty, clientVars,
                   flushes, chain, save, embed, told, torn>>

\* An empty room is disposed of: by the sweep, 30 s later, or by a session that starts anew.
Dispose ==
    /\ live /\ ~ open
    /\ live' = FALSE /\ asked' = 0 /\ SettleFailed
    /\ UNCHANGED <<scene, disk, last, cur, opening, open, dropped, dirty, clientVars,
                   flushes, save, told, torn>>

\* The owner has the room disposed of: everybody is sent away and loads the file again.
OwnerResets ==
    /\ live /\ open
    /\ live' = FALSE /\ open' = FALSE /\ held' = FALSE /\ asked' = 0
    /\ SettleFailed
    /\ UNCHANGED <<scene, disk, last, cur, opening, dropped, dirty, owner, doc, known, unsaved,
                   flushes, save, told, torn>>

\* createSession: the file is hashed, ...
Opens ==
    /\ ~ live /\ opening = {NoFile} /\ cur < scene.rooms
    /\ opening' = disk /\ told' = cur + 1
    /\ UNCHANGED <<scene, disk, last, cur, live, open, dropped, dirty, clientVars,
                   flushVars, chain, save, embed, torn>>

\* ... and the room object made, for participants that load the file, or for those that come back
\* to an expired room with the content they know.
Recreate ==
    /\ opening # {NoFile} /\ opening' = {NoFile}
    /\ live' = TRUE /\ cur' = cur + 1 /\ last' = [last EXCEPT ![cur + 1] = opening]
    /\ open' = FALSE /\ dropped' = FALSE /\ dirty' = FALSE
    /\ held' \in {FALSE, held /\ opening = known[owner]}
    /\ UNCHANGED <<scene, disk, owner, doc, known, unsaved, flushVars, chain, save, embed,
                   told, torn>>

External(x) ==
    /\ x \in (Exts \cap scene.calls) \ disk /\ disk' = disk \cup {x}
    /\ UNCHANGED <<scene, roomVars, clientVars, flushVars, chain, save, embed, told, torn>>

-----------------------------------------------------------------------------
(* Saves of participants *)

Client(s) == IF s = ForFlush THEN owner ELSE s

\* The bytes are taken, for a debounced save or for the flush request at hand.
Serialise(s) ==
    /\ save[s].at = "idle" /\ live /\ open /\ Client(s) \in scene.savers
    /\ scene.lib \/ Client(s) = owner
    /\ IF s = ForFlush THEN asked # 0 /\ unsaved ELSE doc # known[s]
    /\ save' = [save EXCEPT ![s] =
          [Idle EXCEPT !.at = "sent", !.bytes = doc, !.base = known[Client(s)], !.from = cur,
                       !.answers = IF s = ForFlush THEN asked ELSE 0]]
    /\ asked' = IF s = ForFlush /\ ~ scene.lib THEN 0 ELSE asked
    /\ UNCHANGED <<scene, disk, roomVars, clientVars, flush, flushes, chain, embed, told, torn>>

\* The one retry after conflict_room: new bytes on the hash that the server told.
Retry(s) ==
    /\ save[s].at = "again"
    /\ LET bytes == IF save[s].from = cur THEN doc ELSE save[s].bytes
       IN  /\ save' = [save EXCEPT ![s].at = "sent", ![s].bytes = bytes, ![s].again = TRUE]
           /\ torn' = (torn \/ ~ (save[s].base \subseteq bytes))
    /\ UNCHANGED <<scene, disk, roomVars, clientVars, flushVars, chain, embed, told>>

\* checkSave: a participant of an earlier room object does not own this one.
Admitted(s) == live /\ (scene.lib \/ (open /\ save[s].from = cur))

\* Mutant of Arrive: a save that may answer a flush takes its place in the chain.
ArriveChained(s) ==
    /\ save[s].at = "sent"
    /\ IF Admitted(s)
       THEN /\ save' = [save EXCEPT ![s].at = "turn", ![s].room = cur,
                                    ![s].base = IF scene.lib THEN @ ELSE last[cur]]
            /\ chain' = Append(chain, s)
       ELSE save' = [save EXCEPT ![s].at = "refused"] /\ UNCHANGED chain
    /\ UNCHANGED <<scene, disk, roomVars, clientVars, flushVars, embed, told, torn>>

\* The place in the chain, which a save that may answer a flush does not take.  The client of a
\* pptx room sends the hash that the room has broadcast last, with bytes that may be older.
Arrive(s) ==
    /\ save[s].at = "sent"
    /\ IF Admitted(s)
       THEN /\ save' = [save EXCEPT ![s].at = "turn", ![s].room = cur, ![s].bypass = (flush # 0),
                                    ![s].base = IF scene.lib THEN @ ELSE last[cur]]
            /\ chain' = IF flush # 0 THEN chain ELSE Append(chain, s)
       ELSE save' = [save EXCEPT ![s].at = "refused"] /\ UNCHANGED chain
    /\ UNCHANGED <<scene, disk, roomVars, clientVars, flushVars, embed, told, torn>>

MyTurn(x) == chain # <<>> /\ Head(chain) = x

\* Those that have read the file and not told of their write.
Writers ==
    {s \in Saves : save[s].at \in {"read", "write", "landed"}}
        \cup {e \in Embeds : embed[e].at \in {"hash", "check", "write", "landed"}}

\* Those that the chain does not keep apart.
OffChain(x) == IF x \in Saves THEN save[x].bypass ELSE x \notin Parts
Torn(x) ==
    torn' = (torn \/ \E w \in Writers \ {x} : OffChain(x) \/ OffChain(w))

\* Mutant of ReadDisk: the chain is not waited for.
ReadDiskAtOnce(s) ==
    /\ save[s].at = "turn"
    /\ save' = [save EXCEPT ![s].at = "read", ![s].seen = IF live THEN disk ELSE {NoFile}]
    /\ Torn(s)
    /\ UNCHANGED <<scene, disk, roomVars, clientVars, flushVars, chain, embed, told>>

\* currentDiskHash: nothing when the room is not in the map.
ReadDisk(s) ==
    /\ save[s].at = "turn" /\ (save[s].bypass \/ MyTurn(s))
    /\ save' = [save EXCEPT ![s].at = "read", ![s].seen = IF live THEN disk ELSE {NoFile}]
    /\ Torn(s)
    /\ UNCHANGED <<scene, disk, roomVars, clientVars, flushVars, chain, embed, told>>

\* Mutant of Check: the file itself is not compared.
CheckBaseOnly(s) ==
    /\ save[s].at = "read"
    /\ IF save[s].base = last[save[s].room]
       THEN save' = [save EXCEPT ![s].at = "write"] /\ UNCHANGED chain
       ELSE save' = [save EXCEPT ![s].at = "refused"] /\ chain' = Without({s})
    /\ UNCHANGED <<scene, disk, roomVars, clientVars, flushVars, embed, told, torn>>

\* The optimistic locks: the client's base and the file against the room object's lastHash.
Check(s) ==
    /\ save[s].at = "read"
    /\ LET m == save[s]
           r == last[m.room]
       IN  IF m.base = r /\ m.seen = r
           THEN save' = [save EXCEPT ![s].at = "write"] /\ UNCHANGED chain
           ELSE /\ chain' = Without({s})
                /\ save' = [save EXCEPT
                      ![s] = IF scene.lib /\ m.base # r /\ ~ m.again
                             THEN [m EXCEPT !.at = "again", !.base = r]
                             ELSE [m EXCEPT !.at = "refused"]]
    /\ UNCHANGED <<scene, disk, roomVars, clientVars, flushVars, embed, told, torn>>

Land(s) ==
    /\ save[s].at = "write"
    /\ save' = [save EXCEPT ![s].at = "landed"] /\ disk' = save[s].bytes
    /\ UNCHANGED <<scene, roomVars, clientVars, flushVars, chain, embed, told, torn>>

\* Mutant of WriteFails: the chain goes on with a promise that was rejected.
WriteFailsBlocking(s) ==
    /\ save[s].at = "write"
    /\ save' = [save EXCEPT ![s].at = "refused"]
    /\ UNCHANGED <<scene, disk, roomVars, clientVars, flushVars, chain, embed, told, torn>>

WriteFails(s) ==
    /\ save[s].at = "write"
    /\ save' = [save EXCEPT ![s].at = "refused"] /\ chain' = Without({s})
    /\ UNCHANGED <<scene, disk, roomVars, clientVars, flushVars, embed, told, torn>>

\* After the write.  lastSaveAt has just become now, so the comparison with
\* lastRemoteUpdateAt holds whatever arrived since the bytes were taken.
Finish(s) ==
    /\ save[s].at = "landed"
    /\ save' = [save EXCEPT ![s].at = "ok"] /\ chain' = Without({s})
    /\ last' = [last EXCEPT ![save[s].room] = save[s].bytes] /\ told' = save[s].room
    /\ IF live /\ save[s].room = cur
       THEN /\ dirty' = FALSE
            /\ flush' = 0 /\ embed' = Going
       ELSE UNCHANGED <<dirty, flush, embed>>
    /\ UNCHANGED <<scene, disk, cur, live, opening, open, dropped, clientVars, flushes,
                   asked, torn>>

\* MSG_FLUSHED: an answer to the flush that waits; "ok" is not enough in a dirty room.
Ack(id, ok) ==
    IF id = 0 \/ id # flush \/ ~ live \/ ~ open \/ (ok /\ dirty)
    THEN UNCHANGED <<flush, embed, chain>>
    ELSE IF ok THEN SettleOk ELSE SettleFailed

\* The client has its answer: a save that was stored clears its dirty flag, whatever was edited
\* since, and in an xlsx or docx room any save of the owner answers the flush at hand.
Answered(s) ==
    /\ save[s].at \in {"ok", "refused"}
    /\ save' = [save EXCEPT ![s] = Idle]
    /\ LET here == save[s].from = cur
           mine == here /\ Client(s) = owner
           ok   == save[s].at = "ok"
           id   == IF ~ scene.lib THEN save[s].answers ELSE IF mine THEN asked ELSE 0
       IN  /\ known' = IF ok /\ here THEN [known EXCEPT ![Client(s)] = save[s].bytes] ELSE known
           /\ unsaved' = (unsaved /\ ~ (ok /\ mine))
           /\ asked' = IF id = asked THEN 0 ELSE asked
           /\ Ack(id, ok)
    /\ UNCHANGED <<scene, disk, roomVars, owner, doc, held, flushes, told, torn>>

\* The owner has nothing to save.
CleanAck ==
    /\ asked # 0 /\ live /\ open /\ ~ unsaved
    /\ asked' = 0 /\ Ack(asked, TRUE)
    /\ UNCHANGED <<scene, disk, roomVars, clientVars, flushes, save, told, torn>>

\* Nobody has answered in 8 s.
FlushTimesOut ==
    /\ flush # 0 /\ SettleFailed
    /\ UNCHANGED <<scene, disk, roomVars, clientVars, flushes, asked, save, told, torn>>

-----------------------------------------------------------------------------
(* Replacing and adding a part *)

\* requestParentFlush: joins the one that is pending.
JoinFlush(call, e) ==
    /\ embed' = [embed EXCEPT ![e] = [call EXCEPT !.at = "flush", !.seen = {}]]
    /\ IF flush # 0 THEN UNCHANGED flushVars
       ELSE /\ flush' = flushes + 1 /\ flushes' = flushes + 1 /\ asked' = flushes + 1

PartCall(e) ==
    /\ e \in Parts \cap scene.calls /\ embed[e].at = "off"
    /\ embed' = [embed EXCEPT ![e].at = "turn"] /\ chain' = Append(chain, e)
    /\ UNCHANGED <<scene, disk, roomVars, clientVars, flushVars, save, told, torn>>

\* applySave of a part room: the parent has to be clean first.
PartTurn(e) ==
    /\ embed[e].at = "turn" /\ MyTurn(e)
    /\ IF live /\ open THEN JoinFlush(embed[e], e) /\ UNCHANGED chain
       ELSE IF live /\ (dirty \/ dropped)
       THEN /\ embed' = Given({e}) /\ chain' = Without({e})
            /\ UNCHANGED flushVars
       ELSE embed' = [embed EXCEPT ![e].at = "go"] /\ UNCHANGED <<chain, flushVars>>
    /\ UNCHANGED <<scene, disk, roomVars, clientVars, save, told, torn>>

\* PUT and POST up to their first read: the room object is taken here.  Room 0: there is none.
RouteCall(e) ==
    /\ e \in (Puts \cup Posts) \cap scene.calls /\ embed[e].at = "off"
    /\ embed' = [embed EXCEPT ![e].at = IF e \in Puts THEN "first" ELSE "hash",
                              ![e].room = IF live THEN cur ELSE 0,
                              ![e].base = IF live THEN last[cur] ELSE disk]
    /\ UNCHANGED <<scene, disk, roomVars, clientVars, flushVars, chain, save, told, torn>>

\* The bytes that the part is put into.  A PUT has read them before it looks at the room, and
\* reads them again after a flush.
EmbedRead(e) ==
    /\ embed[e].at \in {"first", "go"}
    /\ embed' = [embed EXCEPT ![e].seen = disk,
                              ![e].at = IF @ = "first" THEN "firstHash"
                                        ELSE IF e \in Puts THEN "hash" ELSE "write"]
    /\ IF embed[e].at = "first" THEN UNCHANGED torn ELSE Torn(e)
    /\ UNCHANGED <<scene, disk, roomVars, clientVars, flushVars, chain, save, told>>

\* The hash of the file is read after the bytes by a PUT, and before them by a POST.
EmbedHash(e) ==
    /\ embed[e].at \in {"firstHash", "hash"}
    /\ embed' = [embed EXCEPT ![e].hash = IF embed[e].room # 0 /\ ~ live THEN {NoFile} ELSE disk,
                              ![e].at = IF @ = "firstHash" THEN "put" ELSE "check"]
    /\ IF embed[e].at = "firstHash" THEN UNCHANGED torn ELSE Torn(e)
    /\ UNCHANGED <<scene, disk, roomVars, clientVars, flushVars, chain, save, told>>

\* The base of the client, or the hash before the flush, and the file against lastHash.
Fits(e, before) ==
    LET m == embed[e]
    IN  IF m.room = 0 THEN m.hash = m.base
        ELSE m.hash = last[m.room] /\ m.base \in {last[m.room], before}

\* Without participants a PUT goes on at once.
PutTurn(e) ==
    /\ embed[e].at = "put"
    /\ LET m == [embed[e] EXCEPT !.before = IF embed[e].room = 0 THEN {} ELSE last[embed[e].room]]
           fits == Fits(e, m.before) /\ ~ (m.room # 0 /\ live /\ (dirty \/ dropped))
       IN  IF m.room # 0 /\ live /\ open THEN JoinFlush(m, e) /\ UNCHANGED torn
           ELSE /\ embed' = [embed EXCEPT ![e] = IF fits THEN [m EXCEPT !.at = "write"] ELSE Answer]
                /\ torn' = (torn \/ (fits /\ (Writers \ {e} # {} \/ m.seen # disk)))
                /\ UNCHANGED flushVars
    /\ UNCHANGED <<scene, disk, roomVars, clientVars, chain, save, told>>

RouteCheck(e) ==
    /\ embed[e].at = "check"
    /\ LET fits == Fits(e, IF e \in Puts THEN embed[e].before ELSE embed[e].base)
       IN  embed' = [embed EXCEPT ![e] =
              IF fits THEN [@ EXCEPT !.at = IF e \in Puts THEN "write" ELSE "go"] ELSE Answer]
    /\ UNCHANGED <<scene, disk, roomVars, clientVars, flushVars, chain, save, told, torn>>

EmbedLand(e) ==
    /\ embed[e].at = "write"
    /\ disk' = embed[e].seen \cup {e} /\ embed' = [embed EXCEPT ![e].at = "landed"]
    /\ UNCHANGED <<scene, roomVars, clientVars, flushVars, chain, save, told, torn>>

EmbedFails(e) ==
    /\ embed[e].at = "write"
    /\ embed' = Given({e}) /\ chain' = Without({e})
    /\ UNCHANGED <<scene, disk, roomVars, clientVars, flushVars, save, told, torn>>


\* The room adopts the new hash and is reset when somebody is in it.
EmbedFinish(e) ==
    /\ embed[e].at = "landed"
    /\ LET adopting == IF e \notin Parts THEN embed[e].room ELSE IF live THEN cur ELSE 0
           reset == adopting # 0 /\ live /\ open
           failed == IF reset THEN Flushing ELSE {}
       IN  /\ last' = IF adopting = 0 THEN last
                      ELSE [last EXCEPT ![adopting] = embed[e].seen \cup {e}]
           /\ told' = adopting
           /\ live' = (live /\ ~ reset) /\ open' = (open /\ ~ reset) /\ held' = (held /\ ~ reset)
           /\ flush' = (IF reset THEN 0 ELSE flush) /\ asked' = (IF reset THEN 0 ELSE asked)
           /\ embed' = Given(failed \cup {e})
           /\ chain' = Without(failed \cup {e})
    /\ UNCHANGED <<scene, disk, cur, opening, dropped, dirty, owner, doc, known, unsaved,
                   flushes, save, torn>>

-----------------------------------------------------------------------------
SaveStep(s) ==
    \/ Arrive(s) \/ ReadDisk(s) \/ Check(s) \/ Land(s) \/ WriteFails(s) \/ Finish(s) \/ Answered(s)
    \/ Retry(s)
EmbedStep(e) ==
    \/ PartTurn(e) \/ PutTurn(e) \/ EmbedRead(e) \/ EmbedHash(e) \/ RouteCheck(e) \/ EmbedLand(e)
    \/ EmbedFails(e) \/ EmbedFinish(e)

Next ==
    \/ Resume \/ Drop \/ Dispose \/ OwnerResets \/ Opens \/ Recreate \/ CleanAck
    \/ FlushTimesOut
    \/ \E c \in Savers : Enter(c)
    \/ \E x \in Edits : Edit(x)
    \/ \E x \in Exts : External(x)
    \/ \E s \in Saves : Serialise(s) \/ SaveStep(s)
    \/ \E e \in Embeds : PartCall(e) \/ RouteCall(e) \/ EmbedStep(e)

Spec == Init /\ [][Next]_vars

-----------------------------------------------------------------------------
(* Properties *)

\* The types, and that whoever waits for a flush waits for one that is pending.
TypeOK ==
    /\ scene \in Scenes /\ disk \subseteq Changes /\ doc \subseteq Changes
    /\ cur \in 1..scene.rooms /\ last \in [1..scene.rooms -> SUBSET Changes]
    /\ live \in BOOLEAN /\ open \in BOOLEAN /\ dropped \in BOOLEAN
    /\ opening \in SUBSET (Changes \cup {NoFile})
    /\ dirty \in BOOLEAN
    /\ owner \in Savers /\ held \in BOOLEAN /\ unsaved \in BOOLEAN
    /\ flushes \in Nat /\ flush \in 0..flushes /\ asked \in 0..flushes
    /\ chain \in Seq(Saves \cup Parts)
    /\ known \in [Savers -> SUBSET Changes]
    /\ save \in [Saves ->
          [at : {"idle", "sent", "again", "turn", "read", "write", "landed", "ok", "refused"},
           bytes : SUBSET Changes, base : SUBSET Changes, from : Nat, room : Nat,
           seen : SUBSET (Changes \cup {NoFile}), answers : Nat, bypass : BOOLEAN, again : BOOLEAN]]
    /\ embed \in [Embeds ->
          [at : {"off", "turn", "first", "firstHash", "put", "flush", "go", "hash", "check", "write",
                 "landed", "answered"},
           base : SUBSET Changes, before : SUBSET Changes, room : Nat,
           seen : SUBSET Changes, hash : SUBSET (Changes \cup {NoFile})]]
    /\ told \in 0..scene.rooms /\ torn \in BOOLEAN
    /\ Flushing # {} => flush # 0

\* The chain of a file holds exactly the calls that are under way, each once: a save that bypasses
\* it, is refused or fails, or waits for a flush that is given up, leaves nothing behind that the
\* later ones would wait for.
ChainHoldsCalls ==
    /\ \A i, j \in 1..Len(chain) : chain[i] = chain[j] => i = j
    /\ \A x \in Saves \cup Parts : (\E i \in 1..Len(chain) : chain[i] = x) <=>
          IF x \in Saves
          THEN save[x].at \in {"turn", "read", "write", "landed"} /\ ~ save[x].bypass
          ELSE embed[x].at \in {"turn", "flush", "go", "write", "landed"}

\* The save that was made for a flush never waits for the call that waits for this flush.
NoCircularWait ==
    \A s \in Saves, e \in Flushing :
        flush # 0 /\ save[s].answers = flush /\ save[s].at = "turn" /\ ~ save[s].bypass =>
            ~ \E i, j \in 1..Len(chain) : i < j /\ chain[i] = e /\ chain[j] = s


\* A write keeps what was saved before it, unless calls that the chain does not keep apart overlap,
\* or a document is saved that was loaded before a part was replaced.
NoUpdateIsOverwritten == [][~ torn => disk \ Exts \subseteq disk']_vars

\* A save never overwrites an outside change that was in the file when the save looked at it.
ExternalSurvives ==
    [][\A s \in Saves : save[s].at = "write" /\ save'[s].at = "landed" /\ ~ torn =>
          save[s].seen \cap Exts \subseteq disk']_vars
=============================================================================
