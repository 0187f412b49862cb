---------------------------- MODULE SheetObjects ----------------------------
(***************************************************************************)
(* The pictures, shapes and charts of a sheet that several people edit.    *)
(* They are not part of the shared document: the server keeps a table with *)
(* a place, a version and a lock (backend/src/services/collab-rooms.ts),   *)
(* and each editor (frontend DocumentPreview.tsx) keeps its own model, the *)
(* state it last agreed on with the server, and the version that goes with *)
(* it.  The server broadcasts the whole table after every change; editors  *)
(* also GET it, over HTTP, where answers may overtake broadcasts.          *)
(*                                                                         *)
(* The objects are registered and tagged, there is no embedded document    *)
(* among them, and the room is not reset.  Objects are numbered in the     *)
(* order of the drawings.  Editors send their changes without a lockId.    *)
(* Left out: that the editor forgets its own copy of a lock after the      *)
(* answer to its unlock (the broadcast of the release tells it here), that *)
(* the guard is not installed while one person is in the room, and that an *)
(* object is dragged or undone back to a place where it stood before.      *)
(***************************************************************************)
EXTENDS Integers, Sequences, FiniteSets

CONSTANTS
    Clients,
    NumKeys,    \* number of objects
    Home,       \* place an object has in the file
    Moves,      \* places an object can be dragged to; bound: one drag to each
    Budgets,    \* bounds: how often each kind of event may happen in a behaviour
    None,       \* no object, no change on the wire
    Unmoved, Gone, Absent, Blurred, Nobody

Events == {"move", "delete", "type", "grab", "drop", "expire", "lose"}
Keys == 1..NumKeys
Places == Moves \cup {Home}

ASSUME SheetAssumption ==
    /\ NumKeys \in Nat /\ Budgets \subseteq [Events -> Nat]
    /\ Home \notin Moves
    /\ {Unmoved, Gone, Absent, Blurred} \cap Places = {}
    /\ Unmoved # Gone /\ Absent # Gone /\ Absent # Unmoved
    /\ Nobody \notin Clients

VARIABLES
    \* the server
    version,    \* room.objects.version
    place,      \* anchor (Unmoved while it is null) or deleted, of each object
    lock,       \* clientId and lockId of each object's lock
    expired,    \* locks whose expiresAt has passed and that were not swept yet
    issued,     \* lockIds given out
    ghost,      \* clients with a connection the server has not noticed is dead
    chan,       \* of each client: the broadcasts on the way to it
    \* the editors
    online,     \* clients whose socket is connected
    model,      \* the drawings
    undo,       \* the user's deletions: what undo would bring back; None for any other edits
    sent,       \* objLastSentRef
    ver,        \* objVersionRef
    locks,      \* the locks in objTableRef
    active,     \* objActiveKeyRef
    timer,      \* clients whose debounce timer runs
    todo,       \* objChainRef: sets of keys, in the order they are still to be looked at
    change,     \* objChainRef: the request it waits for
    asks,       \* other requests on the way to the server
    answers,    \* their answers on the way back
    \* bounds and history
    fresh,      \* places nothing was dragged to yet
    budget,     \* what may still happen
    told,       \* the highest version a client was told of
    blurred,    \* clients that were set back: shown an older table than they were told of
    astray      \* <<client, key>>: the user's change of the object was dropped unsent, or a
                \* refused move of it came back when a deletion was undone

serverVars == <<version, place, lock, expired, issued, chan>>
knownVars  == <<sent, ver, told, blurred, astray>>
viewVars   == <<model, undo, locks, knownVars>>
chainVars  == <<timer, todo, change>>
netVars    == <<asks, answers>>
boundVars  == <<fresh, budget>>
vars == <<serverVars, ghost, online, viewVars, active, chainVars, netVars, boundVars>>

NoLock == [who |-> Nobody, id |-> 0]

Init ==
    /\ version = 0 /\ issued = 0
    /\ place = [k \in Keys |-> Unmoved]
    /\ lock = [k \in Keys |-> NoLock] /\ expired = {}
    /\ ghost = {} /\ online = Clients
    /\ chan = [c \in Clients |-> <<>>]
    /\ model = [c \in Clients |-> [k \in Keys |-> Home]] /\ sent = model
    /\ undo = [c \in Clients |-> <<>>]
    /\ ver = [c \in Clients |-> 0]
    /\ locks = [c \in Clients |-> lock]
    /\ active = [c \in Clients |-> None]
    /\ timer = {} /\ todo = [c \in Clients |-> <<>>]
    /\ change = [c \in Clients |-> [at |-> "none"]]
    /\ asks = {} /\ answers = {}
    /\ fresh = Moves /\ budget \in Budgets
    /\ told = ver /\ blurred = {} /\ astray = {}

Spend(e) == budget[e] > 0 /\ budget' = [budget EXCEPT ![e] = @ - 1]

-----------------------------------------------------------------------------
(* The server's table *)

\* sweepObjectLocks: the locks without those that have expired.
Swept == [k \in Keys |-> IF k \in expired THEN NoLock ELSE lock[k]]

Snapshot == [version |-> version, place |-> place, lock |-> Swept]

\* broadcastObjects: the table with the given contents is kept and sent to everybody.
Publish(v, p, l) ==
    /\ version' = v /\ place' = p /\ lock' = l /\ expired' = {}
    /\ chan' = [c \in Clients |->
                  IF c \in online
                  THEN Append(chan[c], [version |-> v, place |-> p, lock |-> l])
                  ELSE chan[c]]

Sweep == lock' = Swept /\ expired' = {} /\ UNCHANGED <<version, place, chan>>

\* A new lock.
NewLock(c) == [who |-> c, id |-> issued + 1]
Grant(l, k, c) == IF l[k] = NoLock THEN [l EXCEPT ![k] = NewLock(c)] ELSE l
\* Mutant of Count: the next lock gets the same id.
CountNever(l, k) == issued' = issued
Count(l, k) == issued' = IF l[k] = NoLock THEN issued + 1 ELSE issued

\* acquireObjectLock: granted, renewed, or refused.
ServeLock(r) ==
    /\ r \in asks /\ r.kind = "lock"
    /\ asks' = asks \ {r}
    /\ UNCHANGED <<ghost, online, viewVars, active, chainVars, answers, boundVars>>
    /\ IF place[r.key] = Gone THEN UNCHANGED serverVars
       ELSE IF Swept[r.key].who \in {Nobody, r.from}
            THEN Publish(version, place, Grant(Swept, r.key, r.from)) /\ Count(Swept, r.key)
       ELSE /\ issued' = issued
            /\ IF expired # {} THEN Publish(version, place, Swept)
               ELSE UNCHANGED <<version, place, lock, expired, chan>>

\* Mutant of MayRelease: the lockId is not compared.
MayReleaseAny(r) == lock[r.key] # NoLock

\* releaseObjectLock frees a lock only for its own lockId.
MayRelease(r) == lock[r.key] # NoLock /\ lock[r.key].id = r.id

ServeUnlock(r) ==
    /\ r \in asks /\ r.kind = "unlock"
    /\ asks' = asks \ {r}
    /\ issued' = issued
    /\ IF MayRelease(r)
       THEN Publish(version, place, [Swept EXCEPT ![r.key] = NoLock])
       ELSE UNCHANGED <<version, place, lock, expired, chan>>
    /\ UNCHANGED <<ghost, online, viewVars, active, chainVars, answers, boundVars>>

\* GET /objects/:room.
ServeGet(r) ==
    /\ r \in asks /\ r.kind = "get"
    /\ asks' = asks \ {r}
    /\ Sweep
    /\ answers' = answers \cup
                   {[from |-> r.from, for |-> r.for, data |-> Snapshot]}
    /\ UNCHANGED <<issued, ghost, online, viewVars, active, chainVars, boundVars>>

\* Mutant of Outdated: the version is not compared.
OutdatedNever(r) == FALSE

\* checkObjectVersion.
Outdated(r) == r.base # version

\* checkObjectWrite: without a lockId, the lock of another client refuses the change.
Foreign(c, k) == Swept[k].who \notin {Nobody, c}

Answered(c, r) == change' = [change EXCEPT ![c] = r]

\* moveObject, deleteObject: refused, or done, and then the object is locked as well.
ServeChange(c) ==
    LET r == change[c] IN
    /\ r.at = "change"
    /\ UNCHANGED <<ghost, online, viewVars, active, timer, todo, netVars, boundVars>>
    /\ IF (place[r.key] = Gone /\ r.to # Gone) \/ Outdated(r)
       THEN UNCHANGED serverVars /\ Answered(c, [r EXCEPT !.at = "refused"])
       ELSE IF Foreign(c, r.key)
       THEN Sweep /\ issued' = issued /\ Answered(c, [r EXCEPT !.at = "refused"])
       ELSE /\ Publish(version + 1, [place EXCEPT ![r.key] = r.to], Grant(Swept, r.key, c))
            /\ Count(Swept, r.key)
            /\ Answered(c, [r EXCEPT !.at = "done"])

\* The GET after a refusal.
ServeCatchUp(c) ==
    /\ change[c].at = "get"
    /\ Sweep
    /\ Answered(c, [at |-> "got", key |-> change[c].key, to |-> change[c].to, data |-> Snapshot])
    /\ UNCHANGED <<issued, ghost, online, viewVars, active, timer, todo, netVars, boundVars>>

\* Ten seconds pass without a renewal; nobody is told.
LeaseExpires(k) ==
    /\ Spend("expire")
    /\ lock[k] # NoLock /\ k \notin expired
    /\ expired' = expired \cup {k}
    /\ UNCHANGED <<version, place, lock, issued, chan, ghost, online, viewVars, active, chainVars,
                   netVars, fresh>>

\* dropConnFromRoom: the client's awareness state goes, and with it all locks in its name.
ServerDrops(c) ==
    /\ c \in ghost /\ ghost' = ghost \ {c}
    /\ issued' = issued
    /\ IF \E k \in Keys : lock[k].who = c
       THEN Publish(version, place,
                    [k \in Keys |-> IF Swept[k].who = c THEN NoLock ELSE Swept[k]])
       ELSE UNCHANGED <<version, place, lock, expired, chan>>
    /\ UNCHANGED <<online, viewVars, active, chainVars, netVars, boundVars>>

-----------------------------------------------------------------------------
(* What an editor is told *)

\* Its model differs from what it agreed on with the server.
Changed(m, s, c, k) == m[c][k] # s[c][k]

Where(p) == IF p = Unmoved THEN Home ELSE p

\* The model after a table was applied: an object whose place is not known stays where it
\* is, one that the editor removed is not put back.
Applied(c, d) ==
    [k \in Keys |->
        IF d.place[k] = Gone THEN Gone
        ELSE IF d.place[k] = Unmoved \/ model[c][k] = Gone THEN model[c][k]
        ELSE d.place[k]]

\* objSnapshotAll: from now on this is what was agreed on, whether it was sent or not.
Baseline(m) == [k \in Keys |-> IF m[k] = Gone THEN Absent ELSE m[k]]

Larger(m, n) == IF m < n THEN n ELSE m

\* The model still shows a move that was refused.
Refused(c, k) ==
    /\ change[c].at \in {"get", "got"} /\ change[c].key = k
    /\ change[c].to # Gone /\ change[c].to = model[c][k]

\* History: what the user did to these objects is not in the table d, and is not sent.
Dropped(c, d) ==
    {k \in Keys : /\ Applied(c, d)[k] # Where(d.place[k])
                  /\ \/ Changed(model, sent, c, k) /\ ~ Refused(c, k)
                     \/ <<c, k>> \in astray}

\* objApplyServerState and objOnMessage: the table d is taken over.
TakeOver(c, d) ==
    /\ model' = [model EXCEPT ![c] = Applied(c, d)]
    /\ sent' = [sent EXCEPT ![c] = Baseline(Applied(c, d))]
    /\ ver' = [ver EXCEPT ![c] = d.version]
    /\ locks' = [locks EXCEPT ![c] = d.lock]
    /\ told' = [told EXCEPT ![c] = Larger(@, d.version)]
    /\ blurred' = IF d.version < told[c] THEN blurred \cup {c} ELSE blurred \ {c}
    /\ astray' = {p \in astray : p[1] # c} \cup ({c} \X Dropped(c, d))

\* A client asks with the view it has.
View(s, b, c) == IF c \in b THEN Blurred ELSE s[c]

\* The chain goes on with the passes q: the first object that changed is sent.
Pump(c, q) ==
    LET Due(i) == {k \in q[i] : Changed(model', sent', c, k)} IN
    \/ /\ \A i \in 1..Len(q) : Due(i) = {}
       /\ todo' = [todo EXCEPT ![c] = <<>>]
       /\ Answered(c, [at |-> "none"])
    \/ \E i \in 1..Len(q) : \E k \in Due(i) :
       /\ \A h \in 1..(i - 1) : Due(h) = {}
       /\ \A j \in Due(i) : k <= j
       /\ todo' = [todo EXCEPT ![c] = <<{j \in q[i] : j > k}>> \o SubSeq(q, i + 1, Len(q))]
       /\ Answered(c, [at |-> "change", key |-> k, to |-> model'[c][k], base |-> ver'[c],
                       seen |-> View(sent', blurred', c)])

\* A broadcast arrives.
ReceiveTable(c) ==
    /\ chan[c] # <<>>
    /\ chan' = [chan EXCEPT ![c] = Tail(chan[c])]
    /\ TakeOver(c, Head(chan[c]))
    /\ UNCHANGED <<version, place, lock, expired, issued, ghost, online, undo, active, chainVars,
                   netVars, boundVars>>

\* The answer to the GET of a (re)connection arrives.
ReceiveAnswer(r) ==
    /\ r \in answers /\ r.for = None
    /\ answers' = answers \ {r}
    /\ TakeOver(r.from, r.data)
    /\ UNCHANGED <<serverVars, ghost, online, undo, active, chainVars, asks, boundVars>>

-----------------------------------------------------------------------------
(* What an editor asks for *)

\* objReleaseLock: the lock in the editor's table is given back if it is its own; if it
\* knows of none it asks for the table first.
Release(l, c, k) ==
    IF k = None THEN {}
    ELSE IF l[k] = NoLock THEN {[kind |-> "get", from |-> c, for |-> k]}
    ELSE IF l[k].who = c THEN {[kind |-> "unlock", from |-> c, key |-> k, id |-> l[k].id]}
    ELSE {}

\* Mutant of ReceiveLocks: the version is taken as well.
ReceiveLocksWithVersion(r) ==
    /\ r \in answers /\ r.for # None
    /\ answers' = answers \ {r}
    /\ locks' = [locks EXCEPT ![r.from] = r.data.lock]
    /\ ver' = [ver EXCEPT ![r.from] = r.data.version]
    /\ UNCHANGED <<serverVars, ghost, online, model, undo, sent, told, blurred, astray, active,
                   chainVars, asks, boundVars>>

\* The table that objReleaseLock asked for arrives: only the locks are taken from it.
ReceiveLocks(r) ==
    /\ r \in answers /\ r.for # None
    /\ answers' = answers \ {r}
    /\ locks' = [locks EXCEPT ![r.from] = r.data.lock]
    /\ asks' = IF r.data.lock[r.for] = NoLock THEN asks
               ELSE asks \cup Release(r.data.lock, r.from, r.for)
    /\ UNCHANGED <<serverVars, ghost, online, model, undo, knownVars, active, chainVars,
                   boundVars>>

\* The editor's table shows the lock of another.
Held(c, k) == locks[c][k].who \notin {Nobody, c}

\* pointerdown on an object: the one clicked before is let go of, a lock is asked for.
Grab(c, k) ==
    /\ Spend("grab")
    /\ model[c][k] # Gone
    /\ active' = [active EXCEPT ![c] = k]
    /\ asks' = asks \cup (IF active[c] = k THEN {} ELSE Release(locks[c], c, active[c]))
                    \cup (IF Held(c, k) THEN {} ELSE {[kind |-> "lock", from |-> c, key |-> k]})
    /\ UNCHANGED <<serverVars, ghost, online, viewVars, chainVars, answers, fresh>>

\* A click on a cell, or Escape.
LetGo(c) ==
    /\ active[c] # None
    /\ active' = [active EXCEPT ![c] = None]
    /\ asks' = asks \cup Release(locks[c], c, active[c])
    /\ UNCHANGED <<serverVars, ghost, online, viewVars, chainVars, answers, boundVars>>

\* __ooxmlEditGuard, as installed with two people in the room: no changes without a connection,
\* nor while another holds the object that was clicked.
Allowed(c) == c \in online /\ (active[c] # None => ~ Held(c, active[c]))

\* An edit that is not a deletion comes on top of the undo stack.
Buried(u) == IF u = <<>> \/ Head(u) = None THEN u ELSE <<None>> \o u

\* The user moves an object to a place of its own; objSendSweep starts the timer.
Move(c, k, to) ==
    /\ Spend("move") /\ to \in fresh /\ fresh' = fresh \ {to}
    /\ Allowed(c) /\ model[c][k] # Gone
    /\ model' = [model EXCEPT ![c][k] = to]
    /\ undo' = [undo EXCEPT ![c] = Buried(@)]
    /\ timer' = timer \cup {c}
    /\ UNCHANGED <<serverVars, ghost, online, locks, knownVars, active, todo,
                   change, netVars>>

Delete(c, k) ==
    /\ Spend("delete")
    /\ Allowed(c) /\ model[c][k] # Gone
    /\ model' = [model EXCEPT ![c][k] = Gone]
    /\ undo' = [undo EXCEPT ![c] = <<[key |-> k, place |-> model[c][k]]>> \o @]
    /\ timer' = timer \cup {c}
    /\ UNCHANGED <<serverVars, ghost, online, locks, knownVars, active, todo,
                   change, netVars, fresh>>

\* Any other change of the workbook, of the user or another, starts the timer as well.
Type(c) ==
    /\ Spend("type")
    /\ timer' = timer \cup {c}
    /\ undo' \in {undo, [undo EXCEPT ![c] = Buried(@)]}
    /\ UNCHANGED <<serverVars, ghost, online, model, locks, knownVars, active, todo,
                   change, netVars, fresh>>

\* objFlushChanged goes through the changed objects in the model, and then through those removed;
\* within each, the code goes in the order of the drawings or of lastSent, this by number.
Queue(c) ==
    <<{k \in Keys : model[c][k] # Gone},
      {k \in Keys : model[c][k] = Gone /\ sent[c][k] \notin {Gone, Absent}}>>

\* 500 ms of quiet.
TimerFires(c) ==
    /\ c \in timer /\ timer' = timer \ {c}
    /\ UNCHANGED <<serverVars, ghost, online, viewVars, active, netVars, boundVars>>
    /\ IF change[c].at = "none" THEN Pump(c, Queue(c))
       ELSE todo' = [todo EXCEPT ![c] = @ \o Queue(c)] /\ UNCHANGED change

\* objFlushKey learns that the change was made.
ReceiveDone(c) ==
    LET r == change[c] IN
    /\ r.at = "done"
    /\ ver' = [ver EXCEPT ![c] = r.base + 1]
    /\ sent' = [sent EXCEPT ![c][r.key] = r.to]
    /\ astray' = IF model[c][r.key] = r.to THEN astray \ {<<c, r.key>>} ELSE astray
    /\ told' = [told EXCEPT ![c] = Larger(@, r.base + 1)]
    /\ IF r.to = Gone
       THEN /\ asks' = asks \cup Release(locks[c], c, r.key)
            /\ active' = [active EXCEPT ![c] = IF @ = r.key THEN None ELSE @]
       ELSE UNCHANGED <<asks, active>>
    /\ UNCHANGED <<serverVars, ghost, online, model, undo, locks, blurred, timer, answers,
                   boundVars>>
    /\ Pump(c, todo[c])

\* Mutant of Reverted: the refused move stays in the model.
RevertedNever(c, k) == model[c]

\* objRevertKeyToLastSent, for an object that is still in the model.
Reverted(c, k) ==
    IF sent[c][k] \in {Gone, Absent} THEN model[c] ELSE [model[c] EXCEPT ![k] = sent[c][k]]

\* A refused move is taken back.  A refused deletion is undone if a deletion (of whatever
\* object) is on top of the undo stack.
ReceiveRefused(c) ==
    LET k == change[c].key
        top == Head(undo[c])
    IN
    /\ change[c].at = "refused"
    /\ IF model[c][k] # Gone
       THEN model' = [model EXCEPT ![c] = Reverted(c, k)] /\ UNCHANGED <<undo, astray>>
       ELSE IF sent[c][k] \notin {Gone, Absent} /\ undo[c] # <<>> /\ top # None
       THEN /\ model' = [model EXCEPT ![c][top.key] = top.place]
            /\ undo' = [undo EXCEPT ![c] = Tail(@)]
            /\ astray' = IF top = [key |-> k, place |-> change[c].to]
                         THEN astray \cup {<<c, k>>} ELSE astray
       ELSE UNCHANGED <<model, undo, astray>>
    /\ Answered(c, [at |-> "get", key |-> k, to |-> change[c].to])
    /\ UNCHANGED <<serverVars, ghost, online, locks, sent, ver, told, blurred, active, timer, todo,
                   netVars, boundVars>>

\* The table that was asked for after a refusal; then the chain goes on.
ReceiveCatchUp(c) ==
    /\ change[c].at = "got"
    /\ TakeOver(c, change[c].data)
    /\ UNCHANGED <<serverVars, ghost, online, undo, active, timer, netVars, boundVars>>
    /\ Pump(c, todo[c])

-----------------------------------------------------------------------------
(* The network *)

\* A request of the chain, or its answer, is lost; the chain goes on, nothing is retried.  (Of
\* the other requests, one that is lost is one that is never served.)
LoseChange(c) ==
    /\ Spend("lose") /\ change[c].at # "none"
    /\ astray' = astray \cup {<<c, k>> : k \in {k \in Keys : Changed(model, sent, c, k)}}
    /\ UNCHANGED <<serverVars, ghost, online, model, undo, sent, ver, locks, told, blurred, active,
                   timer, netVars, fresh>>
    /\ Pump(c, todo[c])

\* The socket of a client closes; the server may not have noticed.
Disconnect(c) ==
    /\ Spend("drop")
    /\ c \in online /\ online' = online \ {c}
    /\ ghost' = ghost \cup {c}
    /\ chan' = [chan EXCEPT ![c] = <<>>]
    /\ UNCHANGED <<version, place, lock, expired, issued, viewVars, active, chainVars, netVars,
                   fresh>>

\* addConn sends the table, and the client asks for it.
Reconnect(c) ==
    /\ c \notin online /\ online' = online \cup {c}
    /\ lock' = Swept /\ expired' = {}
    /\ chan' = [chan EXCEPT ![c] = Append(@, Snapshot)]
    /\ asks' = asks \cup {[kind |-> "get", from |-> c, for |-> None]}
    /\ UNCHANGED <<version, place, issued, ghost, viewVars, active, chainVars, answers, boundVars>>

-----------------------------------------------------------------------------
UserStep(c) ==
    \/ LetGo(c) \/ Type(c)
    \/ \E k \in Keys : Grab(c, k) \/ Delete(c, k) \/ \E to \in Moves : Move(c, k, to)
EditorStep(c) ==
    ReceiveTable(c) \/ TimerFires(c) \/ ReceiveDone(c) \/ ReceiveRefused(c) \/ ReceiveCatchUp(c)
AnswerStep == \E r \in answers : ReceiveAnswer(r) \/ ReceiveLocks(r)
ServerStep ==
    \/ \E r \in asks : ServeLock(r) \/ ServeUnlock(r) \/ ServeGet(r)
    \/ \E c \in Clients : ServeChange(c) \/ ServeCatchUp(c) \/ ServerDrops(c)
NetworkStep ==
    \/ \E c \in Clients : LoseChange(c) \/ Disconnect(c) \/ Reconnect(c)

Next ==
    \/ \E c \in Clients : UserStep(c) \/ EditorStep(c)
    \/ AnswerStep \/ ServerStep \/ NetworkStep
    \/ \E k \in Keys : LeaseExpires(k)

Spec == Init /\ [][Next]_vars

-----------------------------------------------------------------------------
(* Properties *)

Locks == [who : Clients, id : Nat \ {0}] \cup {NoLock}
Tables == [version : Nat, place : [Keys -> Places \cup {Unmoved, Gone}], lock : [Keys -> Locks]]
Agreed == [Keys -> Places \cup {Gone, Absent}]
Changes ==
    [at : {"none"}]
    \cup [at : {"change", "done", "refused"}, key : Keys, to : Places \cup {Gone}, base : Nat,
          seen : Agreed \cup {Blurred}]
    \cup [at : {"get"}, key : Keys, to : Places \cup {Gone}]
    \cup [at : {"got"}, key : Keys, to : Places \cup {Gone}, data : Tables]
Asks ==
    [kind : {"lock"}, from : Clients, key : Keys]
    \cup [kind : {"unlock"}, from : Clients, key : Keys, id : Nat \ {0}]
    \cup [kind : {"get"}, from : Clients, for : Keys \cup {None}]

ServerTypeOK ==
    /\ version \in Nat /\ issued \in Nat
    /\ place \in [Keys -> Places \cup {Unmoved, Gone}] /\ lock \in [Keys -> Locks]
    /\ expired \subseteq {k \in Keys : lock[k] # NoLock}
    /\ \A k \in Keys : lock[k].id <= issued
    /\ ghost \subseteq Clients /\ chan \in [Clients -> Seq(Tables)]
EditorTypeOK ==
    /\ online \subseteq Clients
    /\ model \in [Clients -> [Keys -> Places \cup {Gone}]]
    /\ undo \in [Clients -> Seq([key : Keys, place : Places] \cup {None})]
    /\ sent \in [Clients -> Agreed] /\ ver \in [Clients -> Nat]
    /\ locks \in [Clients -> [Keys -> Locks]]
    /\ active \in [Clients -> Keys \cup {None}]
    /\ timer \subseteq Clients /\ todo \in [Clients -> Seq(SUBSET Keys)]
    /\ change \in [Clients -> Changes]
NetTypeOK ==
    /\ asks \subseteq Asks
    /\ answers \subseteq [from : Clients, for : Keys \cup {None}, data : Tables]
    /\ fresh \subseteq Moves /\ budget \in [Events -> Nat]
    /\ told \in [Clients -> Nat] /\ blurred \subseteq Clients /\ astray \subseteq Clients \X Keys
TypeOK == ServerTypeOK /\ EditorTypeOK /\ NetTypeOK

\* What an editor with the current version takes for agreed is what the server has, unless
\* a change of its own was dropped.
AgreedIsTheTable ==
    \A c \in Clients : ver[c] = version /\ c \notin blurred =>
        \A k \in Keys :
            \/ sent[c][k] = Where(place[k]) \/ (sent[c][k] = Absent /\ place[k] = Gone)
            \/ <<c, k>> \in astray

\* Nothing is on the way to or from the editor.
Quiet(c) ==
    /\ c \in online /\ chan[c] = <<>> /\ c \notin timer /\ change[c].at = "none"

\* Once things are quiet an editor with the current version shows what the server has.
Converges ==
    \A c \in Clients : Quiet(c) /\ ver[c] = version /\ c \notin blurred =>
        \A k \in Keys : model[c][k] = Where(place[k]) \/ <<c, k>> \in astray

\* A lock ends when its lease has run out, when the server notices that its holder's
\* connection is gone, or when its holder gives back this very lock; an unlock that comes
\* late never ends the lease of whoever took the object since.
HoldersKeepTheirLocks ==
    [][\A c \in Clients, k \in Keys :
        lock[k].who = c /\ lock'[k].who # c =>
            \/ k \in expired \/ c \in ghost \ ghost'
            \/ [kind |-> "unlock", from |-> c, key |-> k, id |-> lock[k].id] \in asks \ asks'
    ]_vars

\* "Trailing debounce: direct Yjs changes and server broadcasts arrive mixed, so judge once
\* when it is quiet (prevents echoes)" (DocumentPreview.tsx 3727-3728).  An echo is a change
\* that no user asked for: as long as no answer is lost there are never more changes than
\* drags and deletions.
NoEcho == version <= Cardinality(Moves \ fresh) + Cardinality({k \in Keys : place[k] = Gone})

Table == INSTANCE ObjectTable WITH
    table <- place,
    holder <- [k \in Keys |-> Swept[k].who],
    proposal <- [c \in Clients |->
        IF change[c].at = "change"
        THEN [kind |-> "change", key |-> change[c].key, to |-> change[c].to,
              seen |-> change[c].seen]
        ELSE [kind |-> "none"]]

\* The object table keeps what it promises to the editors.
KeepsPromise == Table!Spec
=============================================================================
