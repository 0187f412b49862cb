------------------------- MODULE SheetObjectsProofs -------------------------
(***************************************************************************)
(* For any number of editors, objects and events: the server's table and   *)
(* the editors of collab-rooms.ts and DocumentPreview.tsx implement        *)
(* ObjectTable.                                                            *)
(*                                                                         *)
(* The hard part is that a change is accepted only if its author saw the   *)
(* table: the server compares a number, and answers overtake broadcasts.   *)
(* What makes the number good enough is said of each version: a table on   *)
(* its way with the current version is the server's, and one with the      *)
(* version before differs from it in the object that was changed only.     *)
(***************************************************************************)
EXTENDS SheetObjects, SequenceTheorems, TLAPS

\* The types, in the order of the groups of variables.
ViewTypeOK ==
    /\ model \in [Clients -> [Keys -> Places \cup {Gone}]]
    /\ undo \in [Clients -> Seq([key : Keys, place : Places] \cup {None})]
    /\ sent \in [Clients -> Agreed] /\ ver \in [Clients -> Nat]
    /\ locks \in [Clients -> [Keys -> Locks]]
    /\ told \in [Clients -> Nat] /\ blurred \subseteq Clients /\ astray \subseteq Clients \X Keys

ChainTypeOK ==
    /\ timer \subseteq Clients /\ todo \in [Clients -> Seq(SUBSET Keys)]
    /\ change \in [Clients -> Changes]

AskTypeOK ==
    /\ online \subseteq Clients /\ active \in [Clients -> Keys \cup {None}]
    /\ asks \subseteq Asks
    /\ answers \subseteq [from : Clients, for : Keys \cup {None}, data : Tables]

BoundTypeOK == fresh \subseteq Moves /\ budget \in [Events -> Nat]

TypeInv == ServerTypeOK /\ ViewTypeOK /\ ChainTypeOK /\ AskTypeOK /\ BoundTypeOK

LEMMA TypeParts == TypeInv <=> TypeOK
BY DEF TypeInv, TypeOK, EditorTypeOK, NetTypeOK, ViewTypeOK, ChainTypeOK, AskTypeOK, BoundTypeOK

-----------------------------------------------------------------------------
(* Types *)

LEMMA NoLockIsALock == NoLock \in Locks /\ NoLock.id = 0 /\ NoLock.who = Nobody
BY DEF NoLock, Locks

LEMMA TypeInit == Init => TypeInv
<1> SUFFICES ASSUME Init PROVE TypeInv
    OBVIOUS
<1> USE DEF Init
<1>1. ServerTypeOK
    BY NoLockIsALock, EmptySeq DEF ServerTypeOK
<1>2. ViewTypeOK
    BY NoLockIsALock, EmptySeq DEF ViewTypeOK, Agreed, Places
<1>3. ChainTypeOK
    BY EmptySeq DEF ChainTypeOK, Changes
<1>4. AskTypeOK
    BY DEF AskTypeOK
<1>5. BoundTypeOK
    BY SheetAssumption DEF BoundTypeOK, SheetAssumption
<1> QED
    BY <1>1, <1>2, <1>3, <1>4, <1>5 DEF TypeInv

\* A group of variables that a step leaves alone keeps its types.
LEMMA Untouched ==
    /\ ServerTypeOK /\ UNCHANGED <<serverVars, ghost>> => ServerTypeOK'
    /\ ViewTypeOK /\ UNCHANGED viewVars => ViewTypeOK'
    /\ ChainTypeOK /\ UNCHANGED chainVars => ChainTypeOK'
    /\ AskTypeOK /\ UNCHANGED <<online, active, netVars>> => AskTypeOK'
    /\ BoundTypeOK /\ UNCHANGED boundVars => BoundTypeOK'
<1>1. ServerTypeOK /\ UNCHANGED <<serverVars, ghost>> => ServerTypeOK'
    BY DEF ServerTypeOK, serverVars
<1>2. ViewTypeOK /\ UNCHANGED viewVars => ViewTypeOK'
    BY DEF ViewTypeOK, viewVars, knownVars
<1>3. ChainTypeOK /\ UNCHANGED chainVars => ChainTypeOK'
    BY DEF ChainTypeOK, chainVars
<1>4. AskTypeOK /\ UNCHANGED <<online, active, netVars>> => AskTypeOK'
    BY DEF AskTypeOK, netVars
<1>5. BoundTypeOK /\ UNCHANGED boundVars => BoundTypeOK'
    BY DEF BoundTypeOK, boundVars
<1> QED
    BY <1>1, <1>2, <1>3, <1>4, <1>5

LEMMA SpendTypes ==
    ASSUME BoundTypeOK, NEW e \in Events, Spend(e) PROVE budget' \in [Events -> Nat]
BY DEF BoundTypeOK, Spend

\* The locks without those that expired.
LEMMA SweptTypes ==
    ASSUME ServerTypeOK
    PROVE  Swept \in [Keys -> Locks] /\ \A k \in Keys : Swept[k].id <= issued
BY NoLockIsALock DEF ServerTypeOK, Swept

LEMMA SnapshotTypes == ASSUME ServerTypeOK PROVE Snapshot \in Tables
BY SweptTypes DEF ServerTypeOK, Snapshot, Tables

LEMMA PublishTypes ==
    ASSUME ServerTypeOK, NEW v \in Nat, NEW p \in [Keys -> Places \cup {Unmoved, Gone}],
           NEW l \in [Keys -> Locks], Publish(v, p, l), issued' \in Nat,
           \A k \in Keys : l[k].id <= issued', ghost' \subseteq Clients
    PROVE  ServerTypeOK'
<1> DEFINE d == [version |-> v, place |-> p, lock |-> l]
<1>1. d \in Tables
    BY DEF Tables
<1>2. chan' \in [Clients -> Seq(Tables)]
    BY <1>1, AppendProperties DEF Publish, ServerTypeOK
<1> QED
    BY <1>2 DEF Publish, ServerTypeOK

LEMMA SweepTypes ==
    ASSUME ServerTypeOK, Sweep, UNCHANGED <<issued, ghost>> PROVE ServerTypeOK'
BY SweptTypes DEF ServerTypeOK, Sweep

\* A lock that is granted has a number that was never given out.
LEMMA GrantTypes ==
    ASSUME ServerTypeOK, NEW k \in Keys, NEW c \in Clients, Count(Swept, k)
    PROVE  /\ Grant(Swept, k, c) \in [Keys -> Locks] /\ issued' \in Nat
           /\ \A j \in Keys : Grant(Swept, k, c)[j].id <= issued'
<1>1. NewLock(c) \in Locks /\ NewLock(c).id = issued + 1
    BY DEF NewLock, Locks, ServerTypeOK
<1>2. issued \in Nat /\ issued' = IF Swept[k] = NoLock THEN issued + 1 ELSE issued
    BY DEF Count, ServerTypeOK
<1>3. \A j \in Keys : Swept[j].id \in Nat
    BY SweptTypes DEF Locks, NoLock
<1> QED
    BY <1>1, <1>2, <1>3, SweptTypes DEF Grant

\* A table that is taken over replaces the view of one editor.
LEMMA AppliedTypes ==
    ASSUME ViewTypeOK, NEW c \in Clients, NEW d \in Tables
    PROVE  /\ Applied(c, d) \in [Keys -> Places \cup {Gone}]
           /\ Baseline(Applied(c, d)) \in Agreed
<1>1. d.place \in [Keys -> Places \cup {Unmoved, Gone}]
    BY DEF Tables
<1>2. model[c] \in [Keys -> Places \cup {Gone}]
    BY DEF ViewTypeOK
<1>3. Applied(c, d) \in [Keys -> Places \cup {Gone}]
    BY <1>1, <1>2 DEF Applied
<1> QED
    BY <1>3 DEF Baseline, Agreed

LEMMA TakeOverTypes ==
    ASSUME ViewTypeOK, NEW c \in Clients, NEW d \in Tables, TakeOver(c, d), UNCHANGED undo
    PROVE  ViewTypeOK'
<1>1. d.version \in Nat /\ d.lock \in [Keys -> Locks]
    BY DEF Tables
<1>2. model' \in [Clients -> [Keys -> Places \cup {Gone}]] /\ sent' \in [Clients -> Agreed]
    BY AppliedTypes DEF TakeOver, ViewTypeOK
<1>3. ver' \in [Clients -> Nat] /\ locks' \in [Clients -> [Keys -> Locks]]
    BY <1>1 DEF TakeOver, ViewTypeOK
<1>4. told' \in [Clients -> Nat]
    BY <1>1 DEF TakeOver, ViewTypeOK, Larger
<1>5. blurred' \subseteq Clients
    BY DEF TakeOver, ViewTypeOK
<1>6. astray' \subseteq Clients \X Keys
    BY DEF TakeOver, ViewTypeOK, Dropped
<1> QED
    BY <1>2, <1>3, <1>4, <1>5, <1>6 DEF ViewTypeOK

\* A request of the chain carries where the object is and what its author saw.
LEMMA PumpTypes ==
    ASSUME ChainTypeOK, ViewTypeOK', timer' \subseteq Clients,
           NEW c \in Clients, NEW q \in Seq(SUBSET Keys), Pump(c, q)
    PROVE  ChainTypeOK'
<1> DEFINE Rest(i, k) == <<{j \in q[i] : j > k}>> \o SubSeq(q, i + 1, Len(q))
           Request(k) == [at |-> "change", key |-> k, to |-> model'[c][k], base |-> ver'[c],
                          seen |-> View(sent', blurred', c)]
<1>1. [at |-> "none"] \in Changes
    BY DEF Changes
<1>2. CASE todo' = [todo EXCEPT ![c] = <<>>] /\ Answered(c, [at |-> "none"])
    BY <1>1, <1>2, EmptySeq DEF ChainTypeOK, Answered
<1>3. ASSUME NEW i \in 1..Len(q), NEW k \in q[i],
             todo' = [todo EXCEPT ![c] = Rest(i, k)], Answered(c, Request(k))
      PROVE  ChainTypeOK'
    <2>1. k \in Keys /\ {j \in q[i] : j > k} \in SUBSET Keys
        BY ElementOfSeq
    <2>2. SubSeq(q, i + 1, Len(q)) \in Seq(SUBSET Keys)
        BY LenProperties, SubSeqProperties
    <2>3. Rest(i, k) \in Seq(SUBSET Keys)
        BY <2>1, <2>2, ConcatProperties
    <2>4. Request(k) \in Changes
        <3>1. model'[c][k] \in Places \cup {Gone} /\ ver'[c] \in Nat
            BY <2>1 DEF ViewTypeOK
        <3>2. View(sent', blurred', c) \in Agreed \cup {Blurred}
            BY DEF ViewTypeOK, View
        <3> QED
            BY <2>1, <3>1, <3>2 DEF Changes
    <2> HIDE DEF Rest, Request
    <2> QED
        BY <1>3, <2>3, <2>4 DEF ChainTypeOK, Answered
<1> QED
    BY <1>2, <1>3 DEF Pump

LEMMA ReleaseTypes ==
    ASSUME NEW c \in Clients, NEW l \in [Keys -> Locks], NEW k \in Keys \cup {None}
    PROVE  Release(l, c, k) \subseteq Asks
<1>1. CASE k = None
    BY <1>1 DEF Release
<1>2. CASE k # None
    <2>1. k \in Keys
        BY <1>2
    <2>2. [kind |-> "get", from |-> c, for |-> k] \in Asks
        BY DEF Asks
    <2>3. l[k] # NoLock => [kind |-> "unlock", from |-> c, key |-> k, id |-> l[k].id] \in Asks
        BY <2>1 DEF Asks, Locks
    <2> QED
        BY <1>2, <2>2, <2>3 DEF Release
<1> QED
    BY <1>1, <1>2

\* What a request of the chain is made of.
LEMMA ChangeFields ==
    ASSUME NEW r \in Changes
    PROVE  /\ r.at \in {"change", "done", "refused"} =>
                /\ r.key \in Keys /\ r.to \in Places \cup {Gone} /\ r.base \in Nat
                /\ r.seen \in Agreed \cup {Blurred}
                /\ r \in [at : {"change", "done", "refused"}, key : Keys,
                          to : Places \cup {Gone}, base : Nat, seen : Agreed \cup {Blurred}]
           /\ r.at \in {"get", "got"} => r.key \in Keys /\ r.to \in Places \cup {Gone}
           /\ r.at = "got" => r.data \in Tables
BY DEF Changes

LEMMA TypeLocks ==
    ASSUME TypeInv, NEW r \in asks, ServeLock(r) \/ ServeUnlock(r) \/ ServeGet(r)
    PROVE  TypeInv'
<1> USE DEF TypeInv
<1>1. CASE ServeLock(r)
    <2>1. r.key \in Keys /\ r.from \in Clients
        BY <1>1 DEF ServeLock, AskTypeOK, Asks
    <2>2. ServerTypeOK'
        <3>1. CASE UNCHANGED serverVars
            BY <1>1, <3>1, Untouched DEF ServeLock
        <3>2. CASE Publish(version, place, Grant(Swept, r.key, r.from)) /\ Count(Swept, r.key)
            BY <1>1, <2>1, <3>2, GrantTypes, PublishTypes DEF ServeLock, ServerTypeOK
        <3>3. CASE issued' = issued /\ Publish(version, place, Swept)
            BY <1>1, <3>3, SweptTypes, PublishTypes DEF ServeLock, ServerTypeOK
        <3>4. CASE UNCHANGED <<version, place, lock, expired, chan, issued>>
            BY <1>1, <3>4, Untouched DEF ServeLock, serverVars
        <3> QED
            BY <1>1, <3>1, <3>2, <3>3, <3>4 DEF ServeLock
    <2>3. AskTypeOK'
        BY <1>1 DEF ServeLock, AskTypeOK
    <2> QED
        BY <1>1, <2>2, <2>3, Untouched DEF ServeLock
<1>2. CASE ServeUnlock(r)
    <2>1. r.key \in Keys
        BY <1>2 DEF ServeUnlock, AskTypeOK, Asks
    <2>2. ServerTypeOK'
        <3>1. CASE UNCHANGED <<version, place, lock, expired, chan>>
            BY <1>2, <3>1, Untouched DEF ServeUnlock, serverVars
        <3>2. CASE Publish(version, place, [Swept EXCEPT ![r.key] = NoLock])
            <4> DEFINE l == [Swept EXCEPT ![r.key] = NoLock]
            <4>1. l \in [Keys -> Locks] /\ \A k \in Keys : l[k] \in {NoLock, Swept[k]}
                BY SweptTypes, NoLockIsALock
            <4> HIDE DEF l
            <4>2. \A k \in Keys : l[k].id <= issued
                BY <4>1, SweptTypes, NoLockIsALock DEF ServerTypeOK
            <4> QED
                BY <1>2, <3>2, <4>2, <4>1, PublishTypes DEF ServeUnlock, ServerTypeOK, l
        <3> QED
            BY <1>2, <3>1, <3>2 DEF ServeUnlock
    <2>3. AskTypeOK'
        BY <1>2 DEF ServeUnlock, AskTypeOK
    <2> QED
        BY <1>2, <2>2, <2>3, Untouched DEF ServeUnlock
<1>3. CASE ServeGet(r)
    <2>1. ServerTypeOK'
        BY <1>3, SweepTypes DEF ServeGet
    <2>2. r.from \in Clients /\ r.for \in Keys \cup {None}
        BY <1>3 DEF ServeGet, AskTypeOK, Asks
    <2>3. AskTypeOK'
        BY <1>3, <2>2, SnapshotTypes DEF ServeGet, AskTypeOK
    <2> QED
        BY <1>3, <2>1, <2>3, Untouched DEF ServeGet
<1> QED
    BY <1>1, <1>2, <1>3

LEMMA TypeServer ==
    ASSUME TypeInv, NEW c \in Clients, ServeChange(c) \/ ServeCatchUp(c) \/ ServerDrops(c)
    PROVE  TypeInv'
<1> USE DEF TypeInv
<1>0. change[c] \in Changes /\ change \in [Clients -> Changes]
    BY DEF ChainTypeOK
<1>1. CASE ServeChange(c)
    <2> DEFINE r == change[c]
    <2>1. r.at = "change" /\ r.key \in Keys /\ r.to \in Places \cup {Gone} /\ r.base \in Nat
        BY <1>0, <1>1, ChangeFields DEF ServeChange
    <2>2. \A at \in {"done", "refused"} : [r EXCEPT !.at = at] \in Changes
        <3>1. r \in [at : {"change", "done", "refused"}, key : Keys, to : Places \cup {Gone},
                     base : Nat, seen : Agreed \cup {Blurred}]
            BY <1>0, <2>1, ChangeFields
        <3> QED
            BY <3>1 DEF Changes
    <2>3. ChainTypeOK'
        BY <1>0, <1>1, <2>2 DEF ServeChange, Answered, ChainTypeOK
    <2>4. ServerTypeOK'
        <3>1. CASE UNCHANGED serverVars
            BY <1>1, <3>1, Untouched DEF ServeChange
        <3>2. CASE Sweep /\ issued' = issued
            BY <1>1, <3>2, SweepTypes DEF ServeChange
        <3>3. CASE /\ Publish(version + 1, [place EXCEPT ![r.key] = r.to], Grant(Swept, r.key, c))
                   /\ Count(Swept, r.key)
            <4>1. version + 1 \in Nat
                BY DEF ServerTypeOK
            <4>2. [place EXCEPT ![r.key] = r.to] \in [Keys -> Places \cup {Unmoved, Gone}]
                BY <2>1 DEF ServerTypeOK
            <4>3. ghost' \subseteq Clients
                BY <1>1 DEF ServeChange, ServerTypeOK
            <4> QED
                BY <2>1, <3>3, <4>1, <4>2, <4>3, GrantTypes, PublishTypes
        <3> QED
            BY <1>1, <3>1, <3>2, <3>3 DEF ServeChange
    <2> QED
        BY <1>1, <2>3, <2>4, Untouched DEF ServeChange
<1>2. CASE ServeCatchUp(c)
    <2>1. [at |-> "got", key |-> change[c].key, to |-> change[c].to, data |-> Snapshot] \in Changes
        <3>1. change[c].key \in Keys /\ change[c].to \in Places \cup {Gone}
            BY <1>0, <1>2, ChangeFields DEF ServeCatchUp
        <3> QED
            BY <3>1, SnapshotTypes DEF Changes
    <2>2. ChainTypeOK'
        BY <1>2, <2>1 DEF ServeCatchUp, Answered, ChainTypeOK
    <2>3. ServerTypeOK'
        BY <1>2, SweepTypes DEF ServeCatchUp
    <2> QED
        BY <1>2, <2>2, <2>3, Untouched DEF ServeCatchUp
<1>3. CASE ServerDrops(c)
    <2>1. ghost' \subseteq Clients
        BY <1>3 DEF ServerDrops, ServerTypeOK
    <2>2. ServerTypeOK'
        <3>1. CASE UNCHANGED <<version, place, lock, expired, chan>>
            BY <1>3, <2>1, <3>1 DEF ServerDrops, ServerTypeOK
        <3> DEFINE l == [k \in Keys |-> IF Swept[k].who = c THEN NoLock ELSE Swept[k]]
        <3>2. CASE Publish(version, place, l)
            <4>1. l \in [Keys -> Locks] /\ \A k \in Keys : l[k].id <= issued
                BY SweptTypes, NoLockIsALock DEF ServerTypeOK
            <4> QED
                BY <1>3, <2>1, <3>2, <4>1, PublishTypes DEF ServerDrops, ServerTypeOK
        <3> QED
            BY <1>3, <3>1, <3>2 DEF ServerDrops
    <2> QED
        BY <1>3, <2>2, Untouched DEF ServerDrops
<1> QED
    BY <1>1, <1>2, <1>3

LEMMA TypeEditor ==
    ASSUME TypeInv, NEW c \in Clients, EditorStep(c) PROVE TypeInv'
<1> USE DEF TypeInv
<1>0. change[c] \in Changes /\ todo[c] \in Seq(SUBSET Keys)
    BY DEF ChainTypeOK
<1>1. CASE ReceiveTable(c)
    <2>1. Head(chan[c]) \in Tables /\ Tail(chan[c]) \in Seq(Tables)
        BY <1>1, HeadTailProperties DEF ReceiveTable, ServerTypeOK
    <2>2. ViewTypeOK'
        BY <1>1, <2>1, TakeOverTypes DEF ReceiveTable
    <2>3. ServerTypeOK'
        BY <1>1, <2>1 DEF ReceiveTable, ServerTypeOK
    <2> QED
        BY <1>1, <2>2, <2>3, Untouched DEF ReceiveTable
<1>2. CASE TimerFires(c)
    <2>1. Queue(c) \in Seq(SUBSET Keys)
        BY DEF Queue
    <2>2. timer' \subseteq Clients /\ ViewTypeOK'
        BY <1>2, Untouched DEF TimerFires, ChainTypeOK
    <2>3. CASE change[c].at = "none"
        BY <1>2, <2>1, <2>2, <2>3, PumpTypes, Untouched DEF TimerFires
    <2>4. CASE change[c].at # "none"
        <3>1. todo[c] \o Queue(c) \in Seq(SUBSET Keys)
            BY <1>0, <2>1, ConcatProperties
        <3>2. ChainTypeOK'
            BY <1>2, <2>2, <2>4, <3>1 DEF TimerFires, ChainTypeOK
        <3> QED
            BY <1>2, <3>2, Untouched DEF TimerFires
    <2> QED
        BY <2>3, <2>4
<1>3. CASE ReceiveDone(c)
    <2> DEFINE r == change[c]
    <2>1. r.at = "done" /\ r.key \in Keys /\ r.to \in Places \cup {Gone} /\ r.base \in Nat
        BY <1>0, <1>3, ChangeFields DEF ReceiveDone
    <2>2. ver' \in [Clients -> Nat] /\ told' \in [Clients -> Nat] /\ r.base + 1 \in Nat
        BY <1>3, <2>1 DEF ReceiveDone, ViewTypeOK, Larger
    <2>3. sent' \in [Clients -> Agreed]
        BY <1>3, <2>1 DEF ReceiveDone, ViewTypeOK, Agreed
    <2>4. ViewTypeOK'
        BY <1>3, <2>2, <2>3 DEF ReceiveDone, ViewTypeOK
    <2>5. ChainTypeOK'
        BY <1>0, <1>3, <2>4, PumpTypes DEF ReceiveDone, ChainTypeOK
    <2>6. AskTypeOK'
        <3>1. Release(locks[c], c, r.key) \subseteq Asks
            BY <2>1, ReleaseTypes DEF ViewTypeOK
        <3> QED
            BY <1>3, <3>1 DEF ReceiveDone, AskTypeOK
    <2> QED
        BY <1>3, <2>4, <2>5, <2>6, Untouched DEF ReceiveDone
<1>4. CASE ReceiveRefused(c)
    <2> DEFINE k == change[c].key
               top == Head(undo[c])
    <2>1. k \in Keys /\ change[c].to \in Places \cup {Gone}
        BY <1>0, <1>4, ChangeFields DEF ReceiveRefused
    <2>2. ChainTypeOK'
        <3>1. [at |-> "get", key |-> k, to |-> change[c].to] \in Changes
            BY <2>1 DEF Changes
        <3> QED
            BY <1>4, <3>1 DEF ReceiveRefused, Answered, ChainTypeOK
    <2>3. model' \in [Clients -> [Keys -> Places \cup {Gone}]]
             /\ undo' \in [Clients -> Seq([key : Keys, place : Places] \cup {None})]
        <3>1. CASE model' = [model EXCEPT ![c] = Reverted(c, k)] /\ UNCHANGED undo
            <4>1. Reverted(c, k) \in [Keys -> Places \cup {Gone}]
                BY <2>1 DEF Reverted, ViewTypeOK, Agreed
            <4> QED
                BY <3>1, <4>1 DEF ViewTypeOK
        <3>2. CASE /\ undo[c] # <<>> /\ top # None
                   /\ model' = [model EXCEPT ![c][top.key] = top.place]
                   /\ undo' = [undo EXCEPT ![c] = Tail(@)]
            <4>1. undo[c] \in Seq([key : Keys, place : Places] \cup {None})
                BY DEF ViewTypeOK
            <4>2. top \in [key : Keys, place : Places] /\ Tail(undo[c]) \in Seq([key : Keys, place : Places] \cup {None})
                BY <3>2, <4>1, HeadTailProperties
            <4> HIDE DEF top
            <4> QED
                BY <3>2, <4>2 DEF ViewTypeOK
        <3> QED
            BY <1>4, <3>1, <3>2 DEF ReceiveRefused, ViewTypeOK
    <2>5. astray' \subseteq Clients \X Keys
        BY <1>4, <2>1 DEF ReceiveRefused, ViewTypeOK
    <2>4. ViewTypeOK'
        BY <1>4, <2>3, <2>5 DEF ReceiveRefused, ViewTypeOK
    <2> QED
        BY <1>4, <2>2, <2>4, Untouched DEF ReceiveRefused
<1>5. CASE ReceiveCatchUp(c)
    <2>1. change[c].data \in Tables
        BY <1>0, <1>5, ChangeFields DEF ReceiveCatchUp
    <2>2. ViewTypeOK'
        BY <1>5, <2>1, TakeOverTypes DEF ReceiveCatchUp
    <2>3. ChainTypeOK'
        BY <1>0, <1>5, <2>2, PumpTypes DEF ReceiveCatchUp, ChainTypeOK
    <2> QED
        BY <1>5, <2>2, <2>3, Untouched DEF ReceiveCatchUp
<1> QED
    BY <1>1, <1>2, <1>3, <1>4, <1>5 DEF EditorStep

LEMMA TypeAnswer == ASSUME TypeInv, AnswerStep PROVE TypeInv'
<1> USE DEF TypeInv
<1>1. ASSUME NEW r \in answers, ReceiveAnswer(r) PROVE TypeInv'
    <2>1. r.from \in Clients /\ r.data \in Tables
        BY DEF AskTypeOK
    <2>2. ViewTypeOK'
        BY <1>1, <2>1, TakeOverTypes DEF ReceiveAnswer
    <2>3. AskTypeOK'
        BY <1>1 DEF ReceiveAnswer, AskTypeOK
    <2> QED
        BY <1>1, <2>2, <2>3, Untouched DEF ReceiveAnswer
<1>2. ASSUME NEW r \in answers, ReceiveLocks(r) PROVE TypeInv'
    <2>1. r.from \in Clients /\ r.data \in Tables /\ r.for \in Keys
        BY <1>2 DEF AskTypeOK, ReceiveLocks
    <2>2. r.data.lock \in [Keys -> Locks]
        BY <2>1 DEF Tables
    <2>3. ViewTypeOK'
        BY <1>2, <2>1, <2>2 DEF ReceiveLocks, ViewTypeOK, knownVars
    <2>4. AskTypeOK'
        <3>1. Release(r.data.lock, r.from, r.for) \subseteq Asks
            BY <2>1, <2>2, ReleaseTypes
        <3> QED
            BY <1>2, <3>1 DEF ReceiveLocks, AskTypeOK
    <2> QED
        BY <1>2, <2>3, <2>4, Untouched DEF ReceiveLocks
<1> QED
    BY <1>1, <1>2 DEF AnswerStep

LEMMA TypeUser == ASSUME TypeInv, NEW c \in Clients, UserStep(c) PROVE TypeInv'
<1> USE DEF TypeInv
<1>0. \A l \in Keys \cup {None} : Release(locks[c], c, l) \subseteq Asks
    BY ReleaseTypes DEF ViewTypeOK
<1>1. ASSUME NEW k \in Keys, Grab(c, k) PROVE TypeInv'
    <2>1. BoundTypeOK'
        BY <1>1, SpendTypes DEF Grab, BoundTypeOK, Events
    <2>2. [kind |-> "lock", from |-> c, key |-> k] \in Asks
        BY DEF Asks
    <2>3. AskTypeOK'
        <3>1. Release(locks[c], c, active[c]) \subseteq Asks
            BY <1>0 DEF AskTypeOK
        <3> QED
            BY <1>1, <2>2, <3>1 DEF Grab, AskTypeOK
    <2> QED
        BY <1>1, <2>1, <2>3, Untouched DEF Grab
<1>2. CASE LetGo(c)
    <2>1. AskTypeOK'
        <3>1. Release(locks[c], c, active[c]) \subseteq Asks
            BY <1>0 DEF AskTypeOK
        <3> QED
            BY <1>2, <3>1 DEF LetGo, AskTypeOK
    <2> QED
        BY <1>2, <2>1, Untouched DEF LetGo
<1> DEFINE Entries == [key : Keys, place : Places] \cup {None}
<1>3. undo[c] \in Seq(Entries) /\ Buried(undo[c]) \in Seq(Entries)
    <2>1. undo[c] \in Seq(Entries) /\ <<None>> \in Seq(Entries)
        BY DEF ViewTypeOK
    <2> QED
        BY <2>1, ConcatProperties DEF Buried
<1>4. ASSUME NEW k \in Keys, NEW to \in Moves, Move(c, k, to) PROVE TypeInv'
    <2>1. BoundTypeOK'
        BY <1>4, SpendTypes DEF Move, BoundTypeOK, Events
    <2>2. /\ model' \in [Clients -> [Keys -> Places \cup {Gone}]]
          /\ undo' \in [Clients -> Seq(Entries)]
        BY <1>3, <1>4 DEF Move, ViewTypeOK, Places
    <2>3. ViewTypeOK'
        BY <1>4, <2>2 DEF Move, ViewTypeOK, knownVars
    <2>4. ChainTypeOK'
        BY <1>4 DEF Move, ChainTypeOK
    <2> QED
        BY <1>4, <2>1, <2>3, <2>4, Untouched DEF Move
<1>5. ASSUME NEW k \in Keys, Delete(c, k) PROVE TypeInv'
    <2>1. BoundTypeOK'
        BY <1>5, SpendTypes DEF Delete, BoundTypeOK, Events
    <2>2. model' \in [Clients -> [Keys -> Places \cup {Gone}]]
        BY <1>5 DEF Delete, ViewTypeOK
    <2>3. undo' \in [Clients -> Seq(Entries)]
        <3>1. [key |-> k, place |-> model[c][k]] \in Entries
            BY <1>5 DEF Delete, ViewTypeOK
        <3>2. <<[key |-> k, place |-> model[c][k]]>> \o undo[c] \in Seq(Entries)
            BY <1>3, <3>1, ConcatProperties
        <3> QED
            BY <1>5, <3>2 DEF Delete, ViewTypeOK
    <2>4. ViewTypeOK'
        BY <1>5, <2>2, <2>3 DEF Delete, ViewTypeOK, knownVars
    <2>5. ChainTypeOK'
        BY <1>5 DEF Delete, ChainTypeOK
    <2> QED
        BY <1>5, <2>1, <2>4, <2>5, Untouched DEF Delete
<1>6. CASE Type(c)
    <2>1. BoundTypeOK'
        BY <1>6, SpendTypes DEF Type, BoundTypeOK, Events
    <2>2. undo' \in [Clients -> Seq(Entries)]
        BY <1>3, <1>6 DEF Type, ViewTypeOK
    <2>3. ViewTypeOK'
        BY <1>6, <2>2 DEF Type, ViewTypeOK, knownVars
    <2>4. ChainTypeOK'
        BY <1>6 DEF Type, ChainTypeOK
    <2> QED
        BY <1>6, <2>1, <2>3, <2>4, Untouched DEF Type
<1> QED
    BY <1>1, <1>2, <1>4, <1>5, <1>6 DEF UserStep

LEMMA TypeNetwork == ASSUME TypeInv, NetworkStep PROVE TypeInv'
<1> USE DEF TypeInv
<1>1. ASSUME NEW c \in Clients, LoseChange(c) PROVE TypeInv'
    <2>1. BoundTypeOK'
        BY <1>1, SpendTypes DEF LoseChange, BoundTypeOK, Events
    <2>2. ViewTypeOK'
        BY <1>1 DEF LoseChange, ViewTypeOK
    <2>3. ChainTypeOK'
        BY <1>1, <2>2, PumpTypes DEF LoseChange, ChainTypeOK
    <2> QED
        BY <1>1, <2>1, <2>2, <2>3, Untouched DEF LoseChange
<1>2. ASSUME NEW c \in Clients, Disconnect(c) PROVE TypeInv'
    <2>1. BoundTypeOK'
        BY <1>2, SpendTypes DEF Disconnect, BoundTypeOK, Events
    <2>2. ServerTypeOK'
        BY <1>2, EmptySeq DEF Disconnect, ServerTypeOK
    <2>3. AskTypeOK'
        BY <1>2 DEF Disconnect, AskTypeOK, netVars
    <2> QED
        BY <1>2, <2>1, <2>2, <2>3, Untouched DEF Disconnect
<1>3. ASSUME NEW c \in Clients, Reconnect(c) PROVE TypeInv'
    <2>1. chan' \in [Clients -> Seq(Tables)]
        BY <1>3, SnapshotTypes, AppendProperties DEF Reconnect, ServerTypeOK
    <2>2. ServerTypeOK'
        BY <1>3, <2>1, SweptTypes DEF Reconnect, ServerTypeOK
    <2>3. AskTypeOK'
        BY <1>3 DEF Reconnect, AskTypeOK, Asks
    <2> QED
        BY <1>3, <2>2, <2>3, Untouched DEF Reconnect
<1> QED
    BY <1>1, <1>2, <1>3 DEF NetworkStep

LEMMA TypeNext == ASSUME TypeInv, [Next]_vars PROVE TypeInv'
<1>1. ASSUME NEW k \in Keys, LeaseExpires(k) PROVE TypeInv'
    <2>1. BoundTypeOK'
        BY <1>1, SpendTypes DEF LeaseExpires, BoundTypeOK, Events, TypeInv
    <2>2. ServerTypeOK'
        BY <1>1 DEF LeaseExpires, ServerTypeOK, TypeInv
    <2> QED
        BY <1>1, <2>1, <2>2, Untouched DEF LeaseExpires, TypeInv
<1>2. CASE UNCHANGED vars
    BY <1>2, Untouched DEF vars, TypeInv, netVars
<1> QED
    BY <1>1, <1>2, TypeUser, TypeEditor, TypeAnswer, TypeServer, TypeLocks, TypeNetwork
       DEF Next, ServerStep

\* For any number of editors, objects and events, the server and the editors keep their types;
\* above all, no lock has a number that was not given out (acquireObjectLock, LeaseExpires).
THEOREM SheetTypeCorrect == Spec => []TypeOK
<1> QED
    BY TypeInit, TypeNext, TypeParts, PTL DEF Spec

-----------------------------------------------------------------------------
(* What a version says *)

\* The tables that an editor may take over: broadcasts, answers, and what it asked for after
\* a refusal.
Sent(c) == {chan[c][i] : i \in 1..Len(chan[c])}
InAnswers == {r.data : r \in answers}
CaughtUp == {change[c].data : c \in {e \in Clients : change[e].at = "got"}}
Broadcasts == UNION {Sent(c) : c \in Clients}
OnTheWay == Broadcasts \cup InAnswers \cup CaughtUp

\* What they say of the current version is the server's table.
TablesAreOld ==
    \A d \in OnTheWay : d.version <= version /\ (d.version = version => d.place = place)

\* Whether a view shows the object k of the server's table.
ShowsKey(view, k) == place[k] = Unmoved \/ view[k] = place[k] \/ view[k] = Absent

\* An editor with the current version that was not set back has agreed on the server's table.
ViewIsOld(c) ==
    /\ ver[c] <= told[c] /\ told[c] <= version
    /\ c \notin blurred /\ ver[c] = version => \A k \in Keys : ShowsKey(sent[c], k)

\* A request that the server has not seen, with the current version, is about its table.
AskedOnView(c) ==
    change[c].at = "change" =>
        /\ change[c].base <= told[c]
        /\ change[c].base = version =>
            /\ c \in blurred \/ ver[c] = version
            /\ change[c].seen = Blurred \/ \A k \in Keys : ShowsKey(change[c].seen, k)

\* While nobody has changed the table since, a change whose author has not heard of it is
\* all that the table differs in from the author's view, and from the tables one version older.
DoneOnView(c) ==
    LET r == change[c] IN
    r.at = "done" =>
        /\ r.base <= told[c] /\ r.base + 1 <= version
        /\ r.base + 1 = version =>
            /\ place[r.key] = r.to
            /\ \A k \in Keys \ {r.key} :
                /\ c \notin blurred => ShowsKey(sent[c], k)
                /\ \A d \in OnTheWay : d.version = r.base => d.place[k] = place[k]

SheetInv ==
    /\ TablesAreOld
    /\ \A c \in Clients : ViewIsOld(c) /\ AskedOnView(c) /\ DoneOnView(c)

\* A table that was sent by this step.
IsCurrent(d) == d.version = version' /\ d.place = place' /\ d.lock = lock'

\* Nothing is on its way but what was before, and what the server sent by this step.
FewTables == \A d \in OnTheWay' : d \in OnTheWay \/ IsCurrent(d)

\* What it means to be on the way, before and after a step.
LEMMA OnTheWayMembers ==
    ASSUME NEW d
    PROVE  d \in OnTheWay <=>
             \/ \E c \in Clients : \E i \in 1..Len(chan[c]) : d = chan[c][i]
             \/ \E r \in answers : d = r.data
             \/ \E c \in Clients : change[c].at = "got" /\ d = change[c].data
<1>1. d \in OnTheWay <=> d \in Broadcasts \/ d \in InAnswers \/ d \in CaughtUp
    BY DEF OnTheWay
<1>5. d \in Broadcasts <=> \E c \in Clients : d \in Sent(c)
    BY DEF Broadcasts
<1>2. \A c \in Clients : d \in Sent(c) <=> \E i \in 1..Len(chan[c]) : d = chan[c][i]
    BY DEF Sent
<1>3. d \in InAnswers <=> \E r \in answers : d = r.data
    BY DEF InAnswers
<1>4. d \in CaughtUp <=> \E c \in Clients : change[c].at = "got" /\ d = change[c].data
    BY DEF CaughtUp
<1> QED
    BY <1>1, <1>2, <1>3, <1>4, <1>5

LEMMA SheetInit == Init => SheetInv
<1> SUFFICES ASSUME Init PROVE SheetInv
    OBVIOUS
<1>1. OnTheWay = {}
    BY OnTheWayMembers DEF Init
<1>2. TablesAreOld
    BY <1>1 DEF TablesAreOld
<1>3. ASSUME NEW c \in Clients PROVE ViewIsOld(c) /\ AskedOnView(c) /\ DoneOnView(c)
    BY DEF Init, ViewIsOld, AskedOnView, DoneOnView, ShowsKey
<1> QED
    BY <1>2, <1>3 DEF SheetInv

LEMMA TablesTypes == ASSUME TypeInv PROVE OnTheWay \subseteq Tables
<1>1. \A c \in Clients : \A i \in 1..Len(chan[c]) : chan[c][i] \in Tables
    BY ElementOfSeq DEF TypeInv, ServerTypeOK
<1>2. \A r \in answers : r.data \in Tables
    BY DEF TypeInv, AskTypeOK
<1>3. \A c \in Clients : change[c].at = "got" => change[c].data \in Tables
    BY ChangeFields DEF TypeInv, ChainTypeOK
<1> QED
    BY <1>1, <1>2, <1>3, OnTheWayMembers

LEMMA FewTablesByPart ==
    ASSUME \A c \in Clients : \A i \in 1..Len(chan'[c]) :
               chan'[c][i] \in OnTheWay \/ IsCurrent(chan'[c][i]),
           \A r \in answers' : r \in answers \/ IsCurrent(r.data),
           \A c \in Clients : change'[c].at = "got" =>
               change'[c] = change[c] \/ IsCurrent(change'[c].data)
    PROVE  FewTables
<1> SUFFICES ASSUME NEW d, d \in OnTheWay' PROVE d \in OnTheWay \/ IsCurrent(d)
    BY DEF FewTables
<1>1. \/ \E c \in Clients : \E i \in 1..Len(chan'[c]) : d = chan'[c][i]
      \/ \E r \in answers' : d = r.data
      \/ \E c \in Clients : change'[c].at = "got" /\ d = change'[c].data
    <2>1. d \in OnTheWay' <=> d \in Broadcasts' \/ d \in InAnswers' \/ d \in CaughtUp'
        BY DEF OnTheWay
    <2>5. d \in Broadcasts' <=> \E c \in Clients : d \in Sent(c)'
        BY DEF Broadcasts
    <2>2. \A c \in Clients : d \in Sent(c)' <=> \E i \in 1..Len(chan'[c]) : d = chan'[c][i]
        BY DEF Sent
    <2>3. d \in InAnswers' <=> \E r \in answers' : d = r.data
        BY DEF InAnswers
    <2>4. d \in CaughtUp' <=> \E c \in Clients : change'[c].at = "got" /\ d = change'[c].data
        BY DEF CaughtUp
    <2> QED
        BY <2>1, <2>2, <2>3, <2>4, <2>5
<1> QED
    BY <1>1, OnTheWayMembers

\* The broadcasts on the way, when the server publishes, and when it does not.
LEMMA PublishChan ==
    ASSUME TypeInv, NEW v, NEW p, NEW l, Publish(v, p, l),
           [version |-> v, place |-> p, lock |-> l] \in Tables,
           NEW c \in Clients, NEW i \in 1..Len(chan'[c])
    PROVE  chan'[c][i] \in OnTheWay \/ IsCurrent(chan'[c][i])
<1> DEFINE d == [version |-> v, place |-> p, lock |-> l]
<1>1. chan[c] \in Seq(Tables) /\ chan \in [Clients -> Seq(Tables)]
    BY DEF TypeInv, ServerTypeOK
<1>2. IsCurrent(d) /\ d \in Tables
    BY DEF IsCurrent, Publish
<1>3. chan'[c] = chan[c] \/ chan'[c] = Append(chan[c], d)
    BY DEF Publish
<1> HIDE DEF d
<1>4. (i \in 1..Len(chan[c]) /\ chan'[c][i] = chan[c][i]) \/ chan'[c][i] = d
    <2>0. chan[c] \in Seq(Tables) /\ Len(chan[c]) \in Nat /\ d \in Tables
        BY <1>1, <1>2, LenProperties
    <2>1. CASE chan'[c] = chan[c]
        BY <2>1
    <2>2. CASE chan'[c] = Append(chan[c], d)
        BY <2>0, <2>2, AppendProperties
    <2> QED
        BY <1>3, <2>1, <2>2
<1> QED
    BY <1>2, <1>4, OnTheWayMembers

LEMMA SameChan ==
    ASSUME UNCHANGED chan, NEW c \in Clients, NEW i \in 1..Len(chan'[c])
    PROVE  chan'[c][i] \in OnTheWay
BY OnTheWayMembers

LEMMA SameTables == ASSUME UNCHANGED <<chan, answers, change>> PROVE FewTables
BY FewTablesByPart, SameChan

LEMMA PumpChange ==
    ASSUME NEW c \in Clients, NEW q, Pump(c, q), TypeInv
    PROVE  /\ \A e \in Clients \ {c} : change'[e] = change[e]
           /\ change'[c].at \in {"none", "change"}
BY DEF Pump, Answered, TypeInv, ChainTypeOK

\* Requests of the chain that begin take no table with them.
LEMMA PumpTables ==
    ASSUME TypeInv, NEW c \in Clients, NEW q, Pump(c, q), UNCHANGED <<chan, answers>>
    PROVE  FewTables
BY PumpChange, FewTablesByPart, SameChan

\* What accepting a change does.
Accepts(c) ==
    LET r == change[c] IN
    /\ r.at = "change" /\ r.base = version /\ Swept[r.key].who \in {Nobody, c}
    /\ place[r.key] = Gone => r.to = Gone
    /\ Publish(version + 1, [place EXCEPT ![r.key] = r.to], Grant(Swept, r.key, c))
    /\ Count(Swept, r.key)
    /\ Answered(c, [r EXCEPT !.at = "done"])

\* What refusing it does.
Refuses(c) ==
    LET r == change[c] IN
    /\ r.at = "change"
    /\ Answered(c, [r EXCEPT !.at = "refused"])
    /\ UNCHANGED <<version, place, chan>>
    /\ (lock' = lock /\ expired' = expired) \/ (lock' = Swept /\ expired' = {})

LEMMA ServeChangeCases ==
    ASSUME NEW c \in Clients, ServeChange(c)
    PROVE  /\ Accepts(c) \/ Refuses(c)
           /\ UNCHANGED <<answers, ver, told, sent, blurred>>
BY DEF ServeChange, Accepts, Refuses, Foreign, Outdated, Sweep, serverVars, viewVars, knownVars, netVars

LEMMA TablesEditor == ASSUME TypeInv, NEW c \in Clients, EditorStep(c) PROVE FewTables
<1>1. CASE ReceiveTable(c)
    <2>1. chan[c] \in Seq(Tables) /\ chan[c] # <<>> /\ chan \in [Clients -> Seq(Tables)]
        BY <1>1 DEF ReceiveTable, TypeInv, ServerTypeOK
    <2>2. ASSUME NEW e \in Clients, NEW i \in 1..Len(chan'[e]) PROVE chan'[e][i] \in OnTheWay
        <3>1. CASE e # c
            BY <1>1, <2>1, <3>1, OnTheWayMembers DEF ReceiveTable
        <3>2. CASE e = c
            <4>1. chan'[c] = Tail(chan[c])
                BY <1>1, <2>1 DEF ReceiveTable
            <4>2. i + 1 \in 1..Len(chan[c]) /\ chan'[c][i] = chan[c][i + 1]
                BY <2>1, <2>2, <3>2, <4>1, HeadTailProperties, LenProperties
            <4> QED
                BY <3>2, <4>2, OnTheWayMembers
        <3> QED
            BY <3>1, <3>2
    <2> QED
        BY <1>1, <2>2, FewTablesByPart DEF ReceiveTable, netVars, chainVars
<1>2. CASE TimerFires(c)
    <2>1. UNCHANGED <<chan, answers>>
        BY <1>2 DEF TimerFires, serverVars, netVars
    <2> QED
        BY <1>2, <2>1, PumpTables, SameTables DEF TimerFires
<1>3. CASE ReceiveDone(c)
    BY <1>3, PumpTables DEF ReceiveDone, serverVars
<1>4. CASE ReceiveRefused(c)
    <2>1. UNCHANGED <<chan, answers>> /\ change \in [Clients -> Changes]
        BY <1>4 DEF ReceiveRefused, serverVars, netVars, TypeInv, ChainTypeOK
    <2>2. \A e \in Clients : change'[e] = change[e] \/ change'[e].at = "get"
        BY <1>4, <2>1 DEF ReceiveRefused, Answered
    <2> QED
        BY <2>1, <2>2, FewTablesByPart, SameChan
<1>5. CASE ReceiveCatchUp(c)
    BY <1>5, PumpTables DEF ReceiveCatchUp, serverVars, netVars
<1> QED
    BY <1>1, <1>2, <1>3, <1>4, <1>5 DEF EditorStep

LEMMA TablesAnswer == ASSUME TypeInv, AnswerStep PROVE FewTables
<1>1. \A r \in answers : ReceiveAnswer(r) \/ ReceiveLocks(r) =>
          UNCHANGED <<chan, change>> /\ answers' \subseteq answers
    BY DEF ReceiveAnswer, ReceiveLocks, serverVars, chainVars
<1> QED
    BY <1>1, FewTablesByPart, SameChan DEF AnswerStep

\* The server publishes a table, or answers with one, or neither.
LEMMA TablesLocks ==
    ASSUME TypeInv, NEW r \in asks, ServeLock(r) \/ ServeUnlock(r) \/ ServeGet(r)
    PROVE  FewTables
<1>1. UNCHANGED change
    BY DEF ServeLock, ServeUnlock, ServeGet, chainVars
<1>2. version \in Nat /\ place \in [Keys -> Places \cup {Unmoved, Gone}]
    BY DEF TypeInv, ServerTypeOK
<1>3. (r.key \in Keys /\ (r.kind = "lock" => r.from \in Clients)) \/ r.kind = "get"
    BY DEF TypeInv, AskTypeOK, Asks
<1>4. ASSUME NEW l \in [Keys -> Locks], Publish(version, place, l), UNCHANGED answers
      PROVE  FewTables
    <2>1. [version |-> version, place |-> place, lock |-> l] \in Tables
        BY <1>2 DEF Tables
    <2> QED
        BY <1>1, <1>4, <2>1, FewTablesByPart, PublishChan
<1>5. CASE ServeLock(r) \/ ServeUnlock(r)
    <2>1. UNCHANGED answers /\ r.key \in Keys
        BY <1>3, <1>5 DEF ServeLock, ServeUnlock
    <2>2. Swept \in [Keys -> Locks] /\ [Swept EXCEPT ![r.key] = NoLock] \in [Keys -> Locks]
        BY SweptTypes, NoLockIsALock DEF TypeInv
    <2>3. Count(Swept, r.key) /\ ServeLock(r) => Grant(Swept, r.key, r.from) \in [Keys -> Locks]
        BY <1>3, <2>1, GrantTypes DEF TypeInv, ServeLock
    <2>4. CASE UNCHANGED chan
        BY <1>1, <2>1, <2>4, SameTables
    <2>5. \/ \E l \in [Keys -> Locks] : Publish(version, place, l)
          \/ UNCHANGED chan
        <3>1. CASE ServeUnlock(r)
            BY <2>2, <3>1 DEF ServeUnlock
        <3>2. CASE ServeLock(r)
            BY <2>2, <2>3, <3>2 DEF ServeLock, serverVars
        <3> QED
            BY <1>5, <3>1, <3>2
    <2> QED
        BY <1>4, <2>1, <2>4, <2>5
<1>6. CASE ServeGet(r)
    <2>1. UNCHANGED <<version, place, chan>> /\ lock' = Swept
        BY <1>6 DEF ServeGet, Sweep
    <2>2. IsCurrent(Snapshot)
        BY <2>1 DEF Snapshot, IsCurrent
    <2>3. \A a \in answers' : a \in answers \/ a.data = Snapshot
        BY <1>6 DEF ServeGet
    <2> QED
        BY <1>1, <2>1, <2>2, <2>3, FewTablesByPart, SameChan
<1> QED
    BY <1>5, <1>6

LEMMA TablesServer ==
    ASSUME TypeInv, NEW c \in Clients, ServeChange(c) \/ ServeCatchUp(c) \/ ServerDrops(c)
    PROVE  FewTables
<1>0. /\ change \in [Clients -> Changes] /\ change[c] \in Changes
      /\ version \in Nat /\ place \in [Keys -> Places \cup {Unmoved, Gone}]
      /\ UNCHANGED answers
    BY DEF TypeInv, ChainTypeOK, ServerTypeOK, ServeChange, ServeCatchUp, ServerDrops, netVars
<1>1. CASE ServeChange(c)
    <2> DEFINE r == change[c]
    <2>1. /\ r.at = "change" /\ r.key \in Keys /\ r.to \in Places \cup {Gone}
          /\ r \in [at : {"change", "done", "refused"}, key : Keys, to : Places \cup {Gone},
                    base : Nat, seen : Agreed \cup {Blurred}]
        BY <1>0, <1>1, ChangeFields DEF ServeChange
    <2>2. \A e \in Clients : change'[e] = change[e] \/ change'[e].at \in {"done", "refused"}
        <3>1. \E at \in {"done", "refused"} : change' = [change EXCEPT ![c] = [r EXCEPT !.at = at]]
            BY <1>1, ServeChangeCases DEF Accepts, Refuses, Answered
        <3>2. \A at \in {"done", "refused"} : [r EXCEPT !.at = at].at = at
            BY <2>1
        <3> HIDE DEF r
        <3> QED
            BY <1>0, <3>1, <3>2
    <2>3. CASE Refuses(c)
        BY <1>0, <2>2, <2>3, FewTablesByPart, SameChan DEF Refuses
    <2>4. CASE Accepts(c)
        <3>1. [version |-> version + 1, place |-> [place EXCEPT ![r.key] = r.to],
               lock |-> Grant(Swept, r.key, c)] \in Tables
            BY <1>0, <2>1, <2>4, GrantTypes DEF Accepts, TypeInv, Tables
        <3> QED
            BY <1>0, <2>2, <2>4, <3>1, FewTablesByPart, PublishChan DEF Accepts
    <2> QED
        BY <1>1, <2>3, <2>4, ServeChangeCases
<1>2. CASE ServeCatchUp(c)
    <2>1. UNCHANGED <<version, place, chan>> /\ lock' = Swept
        BY <1>2 DEF ServeCatchUp, Sweep
    <2>2. IsCurrent(Snapshot)
        BY <2>1 DEF Snapshot, IsCurrent
    <2>3. \A e \in Clients : change'[e] = change[e] \/ change'[e].data = Snapshot
        BY <1>0, <1>2 DEF ServeCatchUp, Answered
    <2> QED
        BY <1>0, <2>1, <2>2, <2>3, FewTablesByPart, SameChan
<1>3. CASE ServerDrops(c)
    <2> DEFINE l == [k \in Keys |-> IF Swept[k].who = c THEN NoLock ELSE Swept[k]]
    <2>1. UNCHANGED change
        BY <1>3 DEF ServerDrops, chainVars
    <2>2. l \in [Keys -> Locks]
        BY SweptTypes, NoLockIsALock DEF TypeInv
    <2>3. CASE Publish(version, place, l)
        <3> HIDE DEF l
        <3>1. [version |-> version, place |-> place, lock |-> l] \in Tables
            BY <1>0, <2>2 DEF Tables
        <3> QED
            BY <1>0, <2>1, <2>3, <3>1, FewTablesByPart, PublishChan
    <2>4. CASE UNCHANGED chan
        BY <1>0, <2>1, <2>4, SameTables
    <2> QED
        BY <1>3, <2>3, <2>4 DEF ServerDrops
<1> QED
    BY <1>1, <1>2, <1>3

LEMMA TablesNetwork == ASSUME TypeInv, NetworkStep PROVE FewTables
<1>1. ASSUME NEW c \in Clients, LoseChange(c) PROVE FewTables
    BY <1>1, PumpTables DEF LoseChange, serverVars, netVars
<1>2. ASSUME NEW c \in Clients, Disconnect(c) \/ Reconnect(c) PROVE FewTables
    <2>1. UNCHANGED <<version, place, answers, change>> /\ (Reconnect(c) => lock' = Swept)
        BY <1>2 DEF Disconnect, Reconnect, chainVars, netVars
    <2>2. chan \in [Clients -> Seq(Tables)] /\ chan[c] \in Seq(Tables) /\ Snapshot \in Tables
        BY SnapshotTypes DEF TypeInv, ServerTypeOK
    <2>3. ASSUME NEW e \in Clients, NEW i \in 1..Len(chan'[e])
          PROVE  chan'[e][i] \in OnTheWay \/ (chan'[e][i] = Snapshot /\ Reconnect(c))
        <3>1. CASE e # c
            BY <1>2, <2>2, <3>1, OnTheWayMembers DEF Disconnect, Reconnect
        <3>2. CASE e = c /\ Disconnect(c)
            BY <2>2, <2>3, <3>2, EmptySeq DEF Disconnect
        <3>3. CASE e = c /\ Reconnect(c)
            <4>1. chan'[c] = Append(chan[c], Snapshot)
                BY <2>2, <3>3 DEF Reconnect
            <4>2. Len(chan[c]) \in Nat
                BY <2>2, LenProperties
            <4>3. (i \in 1..Len(chan[c]) /\ chan'[c][i] = chan[c][i]) \/ chan'[c][i] = Snapshot
                BY <2>2, <2>3, <3>3, <4>1, <4>2, AppendProperties
            <4> QED
                BY <3>3, <4>3, OnTheWayMembers
        <3> QED
            BY <1>2, <3>1, <3>2, <3>3
    <2>4. Reconnect(c) => IsCurrent(Snapshot)
        BY <2>1 DEF Snapshot, IsCurrent
    <2> QED
        BY <2>1, <2>3, <2>4, FewTablesByPart
<1> QED
    BY <1>1, <1>2 DEF NetworkStep

LEMMA TablesNext == ASSUME TypeInv, [Next]_vars PROVE FewTables
<1>1. ASSUME NEW c \in Clients, UserStep(c) PROVE FewTables
    <2>1. UNCHANGED <<chan, answers, change>>
        BY <1>1 DEF UserStep, Grab, LetGo, Move, Delete, Type, serverVars, chainVars, netVars
    <2> QED
        BY <2>1, SameTables
<1>2. ASSUME NEW k \in Keys, LeaseExpires(k) PROVE FewTables
    BY <1>2, SameTables DEF LeaseExpires, chainVars, netVars
<1>3. CASE UNCHANGED vars
    BY <1>3, SameTables DEF vars, serverVars, chainVars, netVars
<1> QED
    BY <1>1, <1>2, <1>3, TablesEditor, TablesAnswer, TablesServer, TablesLocks, TablesNetwork
       DEF Next, ServerStep

-----------------------------------------------------------------------------
(* Steps that leave the table *)

LEMMA TablesStayOld ==
    ASSUME TypeInv, TablesAreOld, FewTables, UNCHANGED <<version, place>>
    PROVE  TablesAreOld'
BY DEF TablesAreOld, FewTables, IsCurrent, TypeInv, ServerTypeOK

\* An editor that nothing happens to, or whose request ends.
LEMMA Rests ==
    ASSUME TypeInv, SheetInv, FewTables, UNCHANGED <<version, place>>, NEW c \in Clients,
           ver'[c] = ver[c], told'[c] = told[c], sent'[c] = sent[c],
           c \in blurred' <=> c \in blurred,
           change'[c] = change[c] \/ change'[c].at \notin {"change", "done"}
    PROVE  ViewIsOld(c)' /\ AskedOnView(c)' /\ DoneOnView(c)'
<1>1. ViewIsOld(c)'
    BY DEF SheetInv, ViewIsOld, ShowsKey
<1>2. AskedOnView(c)'
    BY DEF SheetInv, AskedOnView, ShowsKey
<1>3. DoneOnView(c)'
    <2> SUFFICES ASSUME change'[c].at = "done" PROVE DoneOnView(c)'
        BY DEF DoneOnView
    <2>1. change'[c] = change[c] /\ change[c].at = "done"
        OBVIOUS
    <2>2. change[c].base \in Nat /\ version \in Nat
        BY <2>1, ChangeFields DEF TypeInv, ChainTypeOK, ServerTypeOK
    <2>3. \A d \in OnTheWay' : d.version = change[c].base /\ change[c].base + 1 = version => d \in OnTheWay
        BY <2>2 DEF FewTables, IsCurrent
    <2> QED
        BY <2>1, <2>2, <2>3 DEF SheetInv, DoneOnView, ShowsKey
<1> QED
    BY <1>1, <1>2, <1>3

LEMMA AllRest ==
    ASSUME TypeInv, SheetInv, UNCHANGED <<version, place, ver, told, sent, blurred>>, FewTables,
           \A c \in Clients : change'[c] = change[c] \/ change'[c].at \notin {"change", "done"}
    PROVE  SheetInv'
BY Rests, TablesStayOld DEF SheetInv

\* An editor takes over a table.
LEMMA TakeOverView ==
    ASSUME TypeInv, SheetInv, UNCHANGED <<version, place>>, NEW c \in Clients,
           NEW d \in OnTheWay, TakeOver(c, d)
    PROVE  ViewIsOld(c)'
<1>1. d \in Tables /\ d.version \in Nat /\ version \in Nat /\ told[c] \in Nat
    BY TablesTypes DEF Tables, TypeInv, ServerTypeOK, ViewTypeOK
<1>2. ver'[c] = d.version /\ told'[c] = Larger(told[c], d.version)
    BY DEF TakeOver, TypeInv, ViewTypeOK
<1>3. ver'[c] <= told'[c] /\ told'[c] <= version
    BY <1>1, <1>2 DEF Larger, SheetInv, TablesAreOld, ViewIsOld
<1>4. ASSUME ver'[c] = version, NEW k \in Keys PROVE ShowsKey(sent[c], k)'
    <2>1. d.place = place
        BY <1>2, <1>4 DEF SheetInv, TablesAreOld
    <2>2. sent'[c][k] = IF Applied(c, d)[k] = Gone THEN Absent ELSE Applied(c, d)[k]
        BY DEF TakeOver, TypeInv, ViewTypeOK, Baseline
    <2>3. Applied(c, d)[k] = IF place[k] = Gone THEN Gone
                             ELSE IF place[k] = Unmoved \/ model[c][k] = Gone THEN model[c][k]
                             ELSE place[k]
        BY <2>1 DEF Applied
    <2> QED
        BY <2>2, <2>3 DEF ShowsKey
<1> QED
    BY <1>3, <1>4 DEF ViewIsOld

\* A table that does not set the editor back is no older than its request.
LEMMA TakeOverRequest ==
    ASSUME TypeInv, SheetInv, UNCHANGED <<version, place, change>>, FewTables, NEW c \in Clients,
           NEW d \in OnTheWay, TakeOver(c, d)
    PROVE  AskedOnView(c)' /\ DoneOnView(c)'
<1> DEFINE r == change[c]
<1>1. d \in Tables /\ d.version \in Nat /\ version \in Nat /\ told[c] \in Nat
    BY TablesTypes DEF Tables, TypeInv, ServerTypeOK, ViewTypeOK
<1>2. ver'[c] = d.version /\ told'[c] = Larger(told[c], d.version)
    BY DEF TakeOver, TypeInv, ViewTypeOK
<1>3. d.version <= version /\ told[c] <= told'[c] /\ told[c] <= version
    BY <1>1, <1>2 DEF Larger, SheetInv, TablesAreOld, ViewIsOld
<1>4. c \notin blurred' => told[c] <= d.version
    BY <1>1 DEF TakeOver
<1>5. r.at \in {"change", "done"} => r.base \in Nat /\ r.key \in Keys
    BY ChangeFields DEF TypeInv, ChainTypeOK
<1>6. AskedOnView(c)'
    <2> SUFFICES ASSUME r.at = "change" PROVE AskedOnView(c)'
        BY DEF AskedOnView
    <2>1. /\ r.base <= told[c]
          /\ r.base = version => r.seen = Blurred \/ \A k \in Keys : ShowsKey(r.seen, k)
        BY DEF SheetInv, AskedOnView
    <2>2. told'[c] \in Nat
        BY <1>1, <1>2 DEF Larger
    <2>3. r.base <= told'[c] /\ (r.base = version => c \in blurred' \/ ver'[c] = version)
        BY <1>1, <1>2, <1>3, <1>4, <1>5, <2>1, <2>2
    <2> QED
        BY <2>1, <2>3 DEF AskedOnView, ShowsKey
<1>7. DoneOnView(c)'
    <2> SUFFICES ASSUME r.at = "done" PROVE DoneOnView(c)'
        BY DEF DoneOnView
    <2>1. r.base <= told[c] /\ r.base + 1 <= version
        BY DEF SheetInv, DoneOnView
    <2>2. told'[c] \in Nat
        BY <1>1, <1>2 DEF Larger
    <2>3. r.base <= told'[c]
        BY <1>1, <1>3, <1>5, <2>1, <2>2
    <2>4. ASSUME r.base + 1 = version, NEW k \in Keys \ {r.key}, NEW e \in OnTheWay',
                 e.version = r.base
          PROVE  e.place[k] = place[k]
        <3>1. e \in OnTheWay
            BY <1>1, <1>5, <2>4 DEF FewTables, IsCurrent
        <3> QED
            BY <2>4, <3>1 DEF SheetInv, DoneOnView
    <2>5. ASSUME r.base + 1 = version, c \notin blurred', NEW k \in Keys \ {r.key}
          PROVE  ShowsKey(sent[c], k)'
        <3>1. d.version = version \/ d.version = r.base
            BY <1>1, <1>3, <1>4, <1>5, <2>1, <2>5
        <3>2. d.place[k] = place[k]
            BY <2>5, <3>1 DEF SheetInv, TablesAreOld, DoneOnView
        <3>3. sent'[c][k] = IF Applied(c, d)[k] = Gone THEN Absent ELSE Applied(c, d)[k]
            BY DEF TakeOver, TypeInv, ViewTypeOK, Baseline
        <3>4. Applied(c, d)[k] = IF place[k] = Gone THEN Gone
                                 ELSE IF place[k] = Unmoved \/ model[c][k] = Gone THEN model[c][k]
                                 ELSE place[k]
            BY <3>2 DEF Applied
        <3> QED
            BY <3>3, <3>4 DEF ShowsKey
    <2>6. r.base + 1 = version => place[r.key] = r.to
        BY DEF SheetInv, DoneOnView
    <2> QED
        BY <2>1, <2>3, <2>4, <2>5, <2>6 DEF DoneOnView
<1> QED
    BY <1>6, <1>7

\* An editor that has agreed on what it may, asks with what it has agreed on.
LEMMA PumpAsks ==
    ASSUME TypeInv', NEW c \in Clients, NEW q \in Seq(SUBSET Keys), ViewIsOld(c)', Pump(c, q),
           change \in [Clients -> Changes]
    PROVE  AskedOnView(c)' /\ DoneOnView(c)'
<1>1. CASE change'[c] = [at |-> "none"]
    BY <1>1 DEF AskedOnView, DoneOnView
<1>2. ASSUME NEW k \in Keys,
             change'[c] = [at |-> "change", key |-> k, to |-> model'[c][k], base |-> ver'[c],
                           seen |-> View(sent', blurred', c)]
      PROVE  AskedOnView(c)' /\ DoneOnView(c)'
    <2>1. /\ change'[c].at = "change" /\ change'[c].base = ver'[c]
          /\ change'[c].seen = IF c \in blurred' THEN Blurred ELSE sent'[c]
        BY <1>2 DEF View
    <2> QED
        BY <2>1 DEF AskedOnView, DoneOnView, ViewIsOld, ShowsKey
<1>3. \A i \in 1..Len(q) : q[i] \subseteq Keys
    BY ElementOfSeq
<1> QED
    BY <1>1, <1>2, <1>3 DEF Pump, Answered

\* The other editors, when one takes over a table or goes on with its chain.
LEMMA OthersRest ==
    ASSUME TypeInv, SheetInv, FewTables, UNCHANGED <<version, place>>, NEW c \in Clients,
           \A e \in Clients \ {c} :
               /\ ver'[e] = ver[e] /\ told'[e] = told[e] /\ sent'[e] = sent[e]
               /\ e \in blurred' <=> e \in blurred
               /\ change'[e] = change[e],
           ViewIsOld(c)', AskedOnView(c)', DoneOnView(c)'
    PROVE  SheetInv'
<1>1. ASSUME NEW e \in Clients \ {c} PROVE ViewIsOld(e)' /\ AskedOnView(e)' /\ DoneOnView(e)'
    BY <1>1, Rests
<1>2. TablesAreOld'
    BY TablesStayOld DEF SheetInv
<1> QED
    BY <1>1, <1>2 DEF SheetInv

LEMMA TakeOverOthers ==
    ASSUME TypeInv, NEW c \in Clients, NEW d, TakeOver(c, d), NEW e \in Clients \ {c}
    PROVE  /\ ver'[e] = ver[e] /\ told'[e] = told[e] /\ sent'[e] = sent[e]
           /\ e \in blurred' <=> e \in blurred
BY DEF TakeOver, TypeInv, ViewTypeOK

LEMMA SheetTakesOver ==
    ASSUME TypeInv, SheetInv, UNCHANGED <<version, place, change>>, FewTables, NEW c \in Clients,
           NEW d \in OnTheWay, TakeOver(c, d)
    PROVE  SheetInv'
BY TakeOverView, TakeOverRequest, TakeOverOthers, OthersRest

LEMMA SheetEditor ==
    ASSUME TypeInv, TypeInv', SheetInv, FewTables, NEW c \in Clients, EditorStep(c)
    PROVE  SheetInv'
<1>0. /\ change[c] \in Changes /\ todo[c] \in Seq(SUBSET Keys)
      /\ change \in [Clients -> Changes]
    BY DEF TypeInv, ChainTypeOK
<1>1. CASE ReceiveTable(c)
    <2>1. chan[c] \in Seq(Tables) /\ chan[c] # <<>> /\ chan \in [Clients -> Seq(Tables)]
        BY <1>1 DEF ReceiveTable, TypeInv, ServerTypeOK
    <2>2. Head(chan[c]) = chan[c][1] /\ 1 \in 1..Len(chan[c])
        BY <2>1, HeadTailProperties, LenProperties
    <2>3. Head(chan[c]) \in OnTheWay
        BY <2>2, OnTheWayMembers
    <2> QED
        BY <1>1, <2>3, SheetTakesOver DEF ReceiveTable, chainVars
<1>2. CASE TimerFires(c)
    <2>1. /\ Queue(c) \in Seq(SUBSET Keys)
          /\ UNCHANGED <<version, place, chan, answers, ver, told, sent, blurred>>
        BY <1>2 DEF TimerFires, Queue, serverVars, viewVars, knownVars, netVars
    <2>2. CASE Pump(c, Queue(c))
        <3>1. ViewIsOld(c)'
            BY <2>1 DEF SheetInv, ViewIsOld, ShowsKey
        <3> QED
            BY <1>0, <2>1, <2>2, <3>1, PumpAsks, PumpChange, OthersRest
    <2>3. CASE UNCHANGED change
        BY <2>1, <2>3, AllRest
    <2> QED
        BY <1>2, <2>2, <2>3 DEF TimerFires
<1>3. CASE ReceiveDone(c)
    <2> DEFINE r == change[c]
    <2>1. r.at = "done" /\ r.key \in Keys /\ r.base \in Nat /\ version \in Nat /\ told[c] \in Nat
        BY <1>0, <1>3, ChangeFields DEF ReceiveDone, TypeInv, ServerTypeOK, ViewTypeOK
    <2>2. /\ UNCHANGED <<version, place, chan, answers, blurred>>
          /\ Pump(c, todo[c])
        BY <1>3 DEF ReceiveDone, serverVars
    <2>3. /\ ver'[c] = r.base + 1 /\ told'[c] = Larger(told[c], r.base + 1)
          /\ sent'[c] = [sent[c] EXCEPT ![r.key] = r.to]
        BY <1>3 DEF ReceiveDone, TypeInv, ViewTypeOK
    <2>4. /\ told[c] <= version /\ r.base + 1 <= version
          /\ r.base + 1 = version =>
                /\ place[r.key] = r.to
                /\ \A k \in Keys \ {r.key} : c \notin blurred => ShowsKey(sent[c], k)
        BY <2>1 DEF SheetInv, ViewIsOld, DoneOnView
    <2>5. ver'[c] <= told'[c] /\ told'[c] <= version
        BY <2>1, <2>3, <2>4 DEF Larger
    <2>6. ASSUME c \notin blurred, r.base + 1 = version, NEW k \in Keys PROVE ShowsKey(sent[c], k)'
        <3>1. sent[c] \in Agreed
            BY DEF TypeInv, ViewTypeOK
        <3> QED
            BY <2>1, <2>2, <2>3, <2>4, <2>6, <3>1 DEF ShowsKey, Agreed
    <2>7. ViewIsOld(c)'
        BY <2>2, <2>3, <2>5, <2>6 DEF ViewIsOld
    <2>8. AskedOnView(c)' /\ DoneOnView(c)'
        BY <1>0, <2>2, <2>7, PumpAsks
    <2>9. ASSUME NEW e \in Clients \ {c}
          PROVE  ver'[e] = ver[e] /\ told'[e] = told[e] /\ sent'[e] = sent[e]
        BY <1>3 DEF ReceiveDone, TypeInv, ViewTypeOK
    <2> QED
        BY <2>2, <2>7, <2>8, <2>9, PumpChange, OthersRest
<1>4. CASE ReceiveRefused(c)
    <2>1. /\ UNCHANGED <<version, place, chan, answers, ver, told, sent, blurred>>
          /\ \A e \in Clients : change'[e] = change[e] \/ change'[e].at = "get"
        BY <1>0, <1>4 DEF ReceiveRefused, Answered, serverVars, knownVars, netVars
    <2> QED
        BY <2>1, AllRest
<1>5. CASE ReceiveCatchUp(c)
    <2>1. /\ change[c].at = "got" /\ TakeOver(c, change[c].data) /\ Pump(c, todo[c])
          /\ UNCHANGED <<version, place, chan, answers>>
        BY <1>5 DEF ReceiveCatchUp, serverVars, netVars
    <2>2. change[c].data \in OnTheWay
        BY <2>1, OnTheWayMembers
    <2>3. ViewIsOld(c)'
        BY <2>1, <2>2, TakeOverView
    <2>4. AskedOnView(c)' /\ DoneOnView(c)'
        BY <1>0, <2>1, <2>3, PumpAsks
    <2> QED
        BY <2>1, <2>3, <2>4, TakeOverOthers, PumpChange, OthersRest
<1> QED
    BY <1>1, <1>2, <1>3, <1>4, <1>5 DEF EditorStep

LEMMA SheetAnswer == ASSUME TypeInv, SheetInv, FewTables, AnswerStep PROVE SheetInv'
<1>1. ASSUME NEW r \in answers, ReceiveAnswer(r) PROVE SheetInv'
    <2>1. r.from \in Clients /\ r.data \in OnTheWay
        BY OnTheWayMembers DEF TypeInv, AskTypeOK
    <2> QED
        BY <1>1, <2>1, SheetTakesOver DEF ReceiveAnswer, serverVars, chainVars
<1>2. ASSUME NEW r \in answers, ReceiveLocks(r) PROVE SheetInv'
    BY <1>2, AllRest DEF ReceiveLocks, serverVars, knownVars, chainVars
<1> QED
    BY <1>1, <1>2 DEF AnswerStep

LEMMA SheetLocks ==
    ASSUME TypeInv, SheetInv, FewTables, NEW r \in asks,
           ServeLock(r) \/ ServeUnlock(r) \/ ServeGet(r)
    PROVE  SheetInv'
<1>1. UNCHANGED <<version, place, change, ver, told, sent, blurred>>
    BY DEF ServeLock, ServeUnlock, ServeGet, Publish, Sweep, serverVars, viewVars, knownVars,
           chainVars
<1> QED
    BY <1>1, AllRest

LEMMA SheetAccepts ==
    ASSUME TypeInv, SheetInv, FewTables, NEW c \in Clients, Accepts(c),
           UNCHANGED <<answers, ver, told, sent, blurred>>
    PROVE  SheetInv'
<1> DEFINE r == change[c]
<1>0. /\ version \in Nat /\ place \in [Keys -> Places \cup {Unmoved, Gone}]
      /\ r \in Changes /\ change \in [Clients -> Changes]
    BY DEF TypeInv, ServerTypeOK, ChainTypeOK
<1>1. r.key \in Keys /\ r.to \in Places \cup {Gone} /\ r.base = version /\ r.at = "change"
    BY <1>0, ChangeFields DEF Accepts
<1>2. version' = version + 1 /\ place' = [place EXCEPT ![r.key] = r.to]
    BY DEF Accepts, Publish
<1>3. change'[c] = [r EXCEPT !.at = "done"] /\ \A e \in Clients \ {c} : change'[e] = change[e]
    BY <1>0 DEF Accepts, Answered
<1>4. /\ change'[c].at = "done" /\ change'[c].key = r.key /\ change'[c].to = r.to
      /\ change'[c].base = version
    <2>1. r \in [at : {"change", "done", "refused"}, key : Keys, to : Places \cup {Gone},
                 base : Nat, seen : Agreed \cup {Blurred}]
        BY <1>0, <1>1, ChangeFields
    <2> QED
        BY <1>1, <1>3, <2>1
<1>7. \A d \in OnTheWay : d.version \in Nat /\ d.version <= version
    BY TablesTypes DEF Tables, SheetInv, TablesAreOld
<1>8. TablesAreOld'
    <2>1. ASSUME NEW d \in OnTheWay'
          PROVE  d.version <= version' /\ (d.version = version' => d.place = place')
        <3>1. CASE IsCurrent(d)
            BY <1>0, <1>2, <3>1 DEF IsCurrent
        <3>2. CASE d \in OnTheWay
            BY <1>0, <1>2, <1>7, <3>2
        <3> QED
            BY <3>1, <3>2 DEF FewTables
    <2> QED
        BY <2>1 DEF TablesAreOld
<1>9. \A e \in Clients :
          /\ ver[e] \in Nat /\ told[e] \in Nat /\ ver[e] <= told[e] /\ told[e] <= version
    BY DEF SheetInv, ViewIsOld, TypeInv, ViewTypeOK
<1>10. ASSUME NEW e \in Clients PROVE ViewIsOld(e)'
    BY <1>0, <1>2, <1>9 DEF ViewIsOld
<1>11. ASSUME NEW e \in Clients \ {c} PROVE AskedOnView(e)' /\ DoneOnView(e)'
    <2>1. /\ change[e].at = "change" => change[e].base \in Nat /\ change[e].base <= version
          /\ change[e].at = "done" => change[e].base \in Nat /\ change[e].base + 1 <= version
        BY <1>0, <1>9, ChangeFields DEF SheetInv, AskedOnView, DoneOnView
    <2>2. AskedOnView(e)'
        BY <1>0, <1>2, <1>3, <2>1 DEF SheetInv, AskedOnView
    <2>3. DoneOnView(e)'
        BY <1>0, <1>2, <1>3, <2>1 DEF SheetInv, DoneOnView
    <2> QED
        BY <2>2, <2>3
<1>12. AskedOnView(c)'
    BY <1>4 DEF AskedOnView
<1>13. DoneOnView(c)'
    <2>1. version <= told[c]
        BY <1>1 DEF SheetInv, AskedOnView
    <2>2. place'[r.key] = r.to
        BY <1>0, <1>1, <1>2
    <2>3. ASSUME NEW k \in Keys \ {r.key}, c \notin blurred PROVE ShowsKey(sent[c], k)'
        <3>1. ShowsKey(sent[c], k)
            BY <1>1, <2>3 DEF SheetInv, AskedOnView, ViewIsOld
        <3> QED
            BY <1>0, <1>2, <2>3, <3>1 DEF ShowsKey
    <2>4. ASSUME NEW k \in Keys \ {r.key}, NEW d \in OnTheWay', d.version = version
          PROVE  d.place[k] = place'[k]
        <3>1. d \in OnTheWay
            BY <1>0, <1>2, <2>4 DEF FewTables, IsCurrent
        <3>2. d.place = place
            BY <2>4, <3>1 DEF SheetInv, TablesAreOld
        <3> QED
            BY <1>0, <1>2, <2>4, <3>2
    <2> QED
        BY <1>0, <1>2, <1>4, <2>1, <2>2, <2>3, <2>4 DEF DoneOnView
<1> QED
    BY <1>8, <1>10, <1>11, <1>12, <1>13 DEF SheetInv

LEMMA SheetServer ==
    ASSUME TypeInv, SheetInv, FewTables, NEW c \in Clients,
           ServeChange(c) \/ ServeCatchUp(c) \/ ServerDrops(c)
    PROVE  SheetInv'
<1>0. change \in [Clients -> Changes] /\ change[c] \in Changes
    BY DEF TypeInv, ChainTypeOK
<1>1. CASE ServeChange(c)
    <2>1. CASE Refuses(c)
        <3>1. change[c] \in [at : {"change", "done", "refused"}, key : Keys,
                             to : Places \cup {Gone}, base : Nat, seen : Agreed \cup {Blurred}]
            BY <1>0, <2>1, ChangeFields DEF Refuses
        <3>2. \A e \in Clients : change'[e] = change[e] \/ change'[e].at = "refused"
            BY <1>0, <2>1, <3>1 DEF Refuses, Answered
        <3> QED
            BY <1>1, <2>1, <3>2, ServeChangeCases, AllRest DEF Refuses
    <2> QED
        BY <1>1, <2>1, ServeChangeCases, SheetAccepts
<1>2. CASE ServeCatchUp(c)
    <2>1. /\ UNCHANGED <<version, place, ver, told, sent, blurred>>
          /\ Answered(c, [at |-> "got", key |-> change[c].key, to |-> change[c].to,
                          data |-> Snapshot])
        BY <1>2 DEF ServeCatchUp, Sweep, viewVars, knownVars
    <2>2. \A e \in Clients : change'[e] = change[e] \/ change'[e].at = "got"
        BY <1>0, <2>1 DEF Answered
    <2> QED
        BY <2>1, <2>2, AllRest
<1>3. CASE ServerDrops(c)
    <2>1. UNCHANGED <<version, place, change, ver, told, sent, blurred>>
        BY <1>3 DEF ServerDrops, Publish, viewVars, knownVars, chainVars
    <2> QED
        BY <2>1, AllRest
<1> QED
    BY <1>1, <1>2, <1>3

LEMMA SheetNetwork ==
    ASSUME TypeInv, TypeInv', SheetInv, FewTables, NetworkStep PROVE SheetInv'
<1>1. ASSUME NEW c \in Clients, LoseChange(c) PROVE SheetInv'
    <2>1. /\ todo[c] \in Seq(SUBSET Keys) /\ change \in [Clients -> Changes]
          /\ UNCHANGED <<version, place, ver, told, sent, blurred>>
          /\ Pump(c, todo[c])
        BY <1>1 DEF LoseChange, TypeInv, ChainTypeOK, serverVars
    <2>2. ViewIsOld(c)'
        BY <2>1 DEF SheetInv, ViewIsOld, ShowsKey
    <2> QED
        BY <2>1, <2>2, PumpAsks, PumpChange, OthersRest
<1>2. ASSUME NEW c \in Clients, Disconnect(c) \/ Reconnect(c) PROVE SheetInv'
    <2>1. UNCHANGED <<version, place, change, ver, told, sent, blurred>>
        BY <1>2 DEF Disconnect, Reconnect, viewVars, knownVars, chainVars
    <2> QED
        BY <2>1, AllRest
<1> QED
    BY <1>1, <1>2 DEF NetworkStep

LEMMA SheetNext == ASSUME TypeInv, TypeInv', SheetInv, [Next]_vars PROVE SheetInv'
<1>0. FewTables
    BY TablesNext
<1>1. ASSUME NEW c \in Clients, UserStep(c) PROVE SheetInv'
    <2>1. UNCHANGED <<version, place, change, ver, told, sent, blurred>>
        BY <1>1 DEF UserStep, Grab, LetGo, Move, Delete, Type, serverVars, viewVars, knownVars,
                    chainVars
    <2> QED
        BY <1>0, <2>1, AllRest
<1>2. ASSUME NEW k \in Keys, LeaseExpires(k) PROVE SheetInv'
    BY <1>0, <1>2, AllRest DEF LeaseExpires, viewVars, knownVars, chainVars
<1>3. CASE UNCHANGED vars
    BY <1>0, <1>3, AllRest DEF vars, serverVars, viewVars, knownVars, chainVars
<1> QED
    BY <1>0, <1>1, <1>2, <1>3, SheetEditor, SheetAnswer, SheetServer, SheetLocks, SheetNetwork
       DEF Next, ServerStep

LEMMA SheetAlways == Spec => [](TypeInv /\ SheetInv)
<1>1. Init => TypeInv /\ SheetInv
    BY TypeInit, SheetInit
<1>2. TypeInv /\ SheetInv /\ [Next]_vars => (TypeInv /\ SheetInv)'
    BY TypeNext, SheetNext
<1> QED
    BY <1>1, <1>2, PTL DEF Spec

-----------------------------------------------------------------------------
(* The refinement *)

holderBar == [k \in Keys |-> Swept[k].who]
proposalBar ==
    [c \in Clients |->
        IF change[c].at = "change"
        THEN [kind |-> "change", key |-> change[c].key, to |-> change[c].to,
              seen |-> change[c].seen]
        ELSE [kind |-> "none"]]

LEMMA RefinesInit == Init => Table!Init
<1> SUFFICES ASSUME Init PROVE Table!Init
    OBVIOUS
<1>1. \A k \in Keys : Swept[k].who = Nobody
    BY DEF Init, Swept, NoLock
<1>2. \A c \in Clients : change[c].at = "none"
    BY DEF Init
<1> QED
    BY <1>1, <1>2 DEF Init, Table!Init, Table!NoProposal

\* The steps of ObjectTable, said of what its variables are mapped to.
Stutters == UNCHANGED <<place, holderBar, proposalBar>>
Implements == [Table!Next]_(Table!tableVars)

LEMMA AsStutter == Stutters => Implements
BY DEF Stutters, Implements, Table!tableVars, holderBar, proposalBar

LEMMA AsTake ==
    ASSUME NEW c \in Clients, NEW k \in Keys, holderBar[k] = Nobody,
           holderBar' = [holderBar EXCEPT ![k] = c], UNCHANGED <<place, proposalBar>>
    PROVE  Implements
BY DEF Implements, Table!Next, Table!Take, holderBar, proposalBar

LEMMA AsFree ==
    ASSUME NEW c \in Clients, NEW ks \in SUBSET {k \in Keys : holderBar[k] = c},
           holderBar' = [k \in Keys |-> IF k \in ks THEN Nobody ELSE holderBar[k]],
           UNCHANGED <<place, proposalBar>>
    PROVE  Implements
BY DEF Implements, Table!Next, Table!Free, holderBar, proposalBar

LEMMA AsPropose ==
    ASSUME NEW c \in Clients, NEW p \in Table!Proposals,
           proposalBar' = [proposalBar EXCEPT ![c] = p], UNCHANGED <<place, holderBar>>
    PROVE  Implements
BY DEF Implements, Table!Next, Table!Propose, holderBar, proposalBar

LEMMA AsWithdraw ==
    ASSUME NEW c \in Clients, proposalBar' = [proposalBar EXCEPT ![c] = [kind |-> "none"]],
           UNCHANGED <<place, holderBar>>
    PROVE  Implements
BY DEF Implements, Table!Next, Table!Withdraw, Table!NoProposal, holderBar, proposalBar

LEMMA AsAccept ==
    ASSUME NEW c \in Clients, proposalBar[c].kind = "change",
           holderBar[proposalBar[c].key] \in {c, Nobody},
           proposalBar[c].seen = Blurred \/ Table!Shows(proposalBar[c].seen, place),
           place' = [place EXCEPT ![proposalBar[c].key] = proposalBar[c].to],
           holderBar' = [holderBar EXCEPT ![proposalBar[c].key] = c],
           proposalBar' = [proposalBar EXCEPT ![c] = [kind |-> "none"]]
    PROVE  Implements
<1>1. proposalBar[c] # [kind |-> "none"]
    OBVIOUS
<1>2. Table!Accept(c)
    BY <1>1 DEF Table!Accept, Table!NoProposal, holderBar, proposalBar
<1> QED
    BY <1>2 DEF Implements, Table!Next

\* What becomes of the holders.
LEMMA SameHolders ==
    ASSUME (lock' = lock /\ expired' = expired) \/ (lock' = Swept /\ expired' = {})
    PROVE  UNCHANGED holderBar
BY DEF holderBar, Swept

LEMMA PublishedHolders ==
    ASSUME NEW v, NEW p, NEW l, Publish(v, p, l) PROVE holderBar' = [k \in Keys |-> l[k].who]
BY DEF Publish, holderBar, Swept

LEMMA SameProposals == ASSUME UNCHANGED change PROVE UNCHANGED proposalBar
BY DEF proposalBar

\* A lock whose holder is nobody is no lock.
LEMMA HeldByNobody ==
    ASSUME TypeInv, NEW k \in Keys
    PROVE  /\ Swept[k].who = Nobody <=> Swept[k] = NoLock
           /\ Swept[k].who \in Clients \cup {Nobody}
           /\ holderBar[k] = Swept[k].who
BY SweptTypes, SheetAssumption DEF TypeInv, Locks, NoLock, SheetAssumption, holderBar

\* Whoever is granted a lock is its holder.
LEMMA GrantedHolders ==
    ASSUME TypeInv, NEW k \in Keys, NEW c \in Clients, Swept[k].who \in {Nobody, c},
           NEW v, NEW p, Publish(v, p, Grant(Swept, k, c))
    PROVE  holderBar' = [holderBar EXCEPT ![k] = c]
<1>1. NewLock(c).who = c
    BY DEF NewLock
<1>2. Swept \in [Keys -> Locks]
    BY SweptTypes DEF TypeInv
<1>3. \A j \in Keys : Grant(Swept, k, c)[j].who = IF j = k THEN c ELSE Swept[j].who
    BY <1>1, <1>2, HeldByNobody DEF Grant
<1>4. holderBar' = [j \in Keys |-> Grant(Swept, k, c)[j].who]
    BY PublishedHolders
<1> QED
    BY <1>3, <1>4 DEF holderBar

LEMMA RefinesLocks ==
    ASSUME TypeInv, NEW r \in asks, ServeLock(r) \/ ServeUnlock(r) \/ ServeGet(r)
    PROVE  Implements
<1>0. UNCHANGED proposalBar
    BY SameProposals DEF ServeLock, ServeUnlock, ServeGet, chainVars
<1>1. CASE ServeLock(r)
    <2>1. r.key \in Keys /\ r.from \in Clients
        BY <1>1 DEF ServeLock, TypeInv, AskTypeOK, Asks
    <2>2. CASE UNCHANGED <<place, lock, expired>>
        BY <1>0, <2>2, SameHolders, AsStutter DEF Stutters
    <2>3. CASE Publish(version, place, Swept)
        <3>1. UNCHANGED <<place, holderBar>>
            BY <2>3, SameHolders DEF Publish
        <3> QED
            BY <1>0, <3>1, AsStutter DEF Stutters
    <2>4. CASE /\ Swept[r.key].who \in {Nobody, r.from}
               /\ Publish(version, place, Grant(Swept, r.key, r.from))
        <3>1. holderBar' = [holderBar EXCEPT ![r.key] = r.from] /\ UNCHANGED place
            BY <2>1, <2>4, GrantedHolders DEF Publish
        <3>2. CASE holderBar[r.key] = Nobody
            BY <1>0, <2>1, <3>1, <3>2, AsTake
        <3>3. CASE holderBar[r.key] = r.from
            BY <1>0, <3>1, <3>3, AsStutter DEF Stutters, holderBar
        <3> QED
            BY <2>1, <2>4, <3>2, <3>3, HeldByNobody
    <2> QED
        BY <1>1, <2>2, <2>3, <2>4 DEF ServeLock, serverVars
<1>2. CASE ServeUnlock(r)
    <2>1. r.key \in Keys
        BY <1>2 DEF ServeUnlock, TypeInv, AskTypeOK, Asks
    <2>2. CASE UNCHANGED <<place, lock, expired>>
        BY <1>0, <2>2, SameHolders, AsStutter DEF Stutters
    <2> DEFINE l == [Swept EXCEPT ![r.key] = NoLock]
               c == Swept[r.key].who
    <2>3. CASE Publish(version, place, l)
        <3> HIDE DEF l
        <3>1. holderBar' = [k \in Keys |-> l[k].who] /\ UNCHANGED place
            BY <2>3, PublishedHolders DEF Publish
        <3>2. \A k \in Keys : l[k].who = IF k = r.key THEN Nobody ELSE holderBar[k]
            BY <2>1, SweptTypes DEF TypeInv, NoLock, holderBar, l
        <3>3. holderBar' = [k \in Keys |-> IF k \in {r.key} THEN Nobody ELSE holderBar[k]]
            BY <3>1, <3>2
        <3>4. CASE c = Nobody
            BY <1>0, <2>1, <3>1, <3>3, <3>4, HeldByNobody, AsStutter DEF Stutters, holderBar
        <3>5. CASE c \in Clients
            <4>1. {r.key} \in SUBSET {k \in Keys : holderBar[k] = c}
                BY <2>1, HeldByNobody
            <4> HIDE DEF c
            <4> QED
                BY <1>0, <3>1, <3>3, <3>5, <4>1, AsFree
        <3> QED
            BY <2>1, <3>4, <3>5, HeldByNobody
    <2> QED
        BY <1>2, <2>2, <2>3 DEF ServeUnlock
<1>3. CASE ServeGet(r)
    BY <1>0, <1>3, SameHolders, AsStutter DEF ServeGet, Sweep, Stutters
<1> QED
    BY <1>1, <1>2, <1>3

\* An editor's chain proposes what its next request asks for, or nothing.
LEMMA RefinesPump ==
    ASSUME TypeInv, TypeInv', NEW c \in Clients, NEW q, Pump(c, q), UNCHANGED <<place, lock, expired>>
    PROVE  Implements
<1> DEFINE p == [kind |-> "change", key |-> change'[c].key, to |-> change'[c].to,
                 seen |-> change'[c].seen]
<1>1. change \in [Clients -> Changes] /\ change' \in [Clients -> Changes] /\ change'[c] \in Changes
    BY DEF TypeInv, ChainTypeOK
<1>2. \A e \in Clients \ {c} : change'[e] = change[e]
    BY PumpChange
<1>3. UNCHANGED <<place, holderBar>>
    BY SameHolders
<1>4. CASE change'[c].at = "change"
    <2>1. p \in Table!Proposals
        BY <1>1, <1>4, ChangeFields DEF Table!Proposals, Table!Views, Agreed
    <2>2. proposalBar' = [proposalBar EXCEPT ![c] = p]
        BY <1>2, <1>4 DEF proposalBar
    <2> HIDE DEF p
    <2> QED
        BY <1>3, <2>1, <2>2, AsPropose
<1>5. CASE change'[c].at # "change"
    <2>1. proposalBar' = [proposalBar EXCEPT ![c] = [kind |-> "none"]]
        BY <1>2, <1>5 DEF proposalBar
    <2> QED
        BY <1>3, <2>1, AsWithdraw
<1> QED
    BY <1>4, <1>5

\* The server accepts a change only if its author saw the table.
LEMMA RefinesAccept ==
    ASSUME TypeInv, SheetInv, NEW c \in Clients, Accepts(c) PROVE Implements
<1> DEFINE r == change[c]
<1>0. /\ change \in [Clients -> Changes] /\ r \in Changes /\ r.at = "change"
      /\ place \in [Keys -> Places \cup {Unmoved, Gone}]
    BY DEF Accepts, TypeInv, ChainTypeOK, ServerTypeOK
<1>1. r.key \in Keys /\ r.base = version /\ Swept[r.key].who \in {Nobody, c}
    BY <1>0, ChangeFields DEF Accepts
<1>2. /\ proposalBar[c].kind = "change" /\ proposalBar[c].key = r.key
      /\ proposalBar[c].to = r.to /\ proposalBar[c].seen = r.seen
    BY <1>0 DEF proposalBar
<1>3. r.seen = Blurred \/ Table!Shows(r.seen, place)
    BY <1>0, <1>1 DEF SheetInv, AskedOnView, ShowsKey, Table!Shows
<1>4. place' = [place EXCEPT ![r.key] = r.to]
    BY DEF Accepts, Publish
<1>5. holderBar' = [holderBar EXCEPT ![r.key] = c]
    BY <1>1, GrantedHolders DEF Accepts
<1>6. proposalBar' = [proposalBar EXCEPT ![c] = [kind |-> "none"]]
    <2>1. change'[c].at = "done" /\ \A e \in Clients \ {c} : change'[e] = change[e]
        <3>1. r \in [at : {"change", "done", "refused"}, key : Keys, to : Places \cup {Gone},
                     base : Nat, seen : Agreed \cup {Blurred}]
            BY <1>0, ChangeFields
        <3> QED
            BY <1>0, <3>1 DEF Accepts, Answered
    <2> QED
        BY <2>1 DEF proposalBar
<1>7. holderBar[r.key] \in {c, Nobody}
    BY <1>1, HeldByNobody
<1> HIDE DEF r
<1> QED
    BY <1>2, <1>3, <1>4, <1>5, <1>6, <1>7, AsAccept

LEMMA RefinesServer ==
    ASSUME TypeInv, SheetInv, NEW c \in Clients,
           ServeChange(c) \/ ServeCatchUp(c) \/ ServerDrops(c)
    PROVE  Implements
<1>0. change \in [Clients -> Changes] /\ change[c] \in Changes
    BY DEF TypeInv, ChainTypeOK
<1>1. CASE ServeChange(c)
    <2>1. CASE Refuses(c)
        <3>1. change[c] \in [at : {"change", "done", "refused"}, key : Keys,
                             to : Places \cup {Gone}, base : Nat, seen : Agreed \cup {Blurred}]
            BY <1>0, <2>1, ChangeFields DEF Refuses
        <3>2. change'[c].at = "refused" /\ \A e \in Clients \ {c} : change'[e] = change[e]
            BY <1>0, <2>1, <3>1 DEF Refuses, Answered
        <3>3. proposalBar' = [proposalBar EXCEPT ![c] = [kind |-> "none"]]
            BY <3>2 DEF proposalBar
        <3>4. UNCHANGED <<place, holderBar>>
            BY <2>1, SameHolders DEF Refuses
        <3> QED
            BY <3>3, <3>4, AsWithdraw
    <2> QED
        BY <1>1, <2>1, ServeChangeCases, RefinesAccept
<1>2. CASE ServeCatchUp(c)
    <2>1. change[c].at = "get" /\ change'[c].at = "got" /\ \A e \in Clients \ {c} : change'[e] = change[e]
        BY <1>0, <1>2 DEF ServeCatchUp, Answered
    <2>2. UNCHANGED proposalBar
        BY <2>1 DEF proposalBar
    <2>3. UNCHANGED <<place, holderBar>>
        BY <1>2, SameHolders DEF ServeCatchUp, Sweep
    <2> QED
        BY <2>2, <2>3, AsStutter DEF Stutters
<1>3. CASE ServerDrops(c)
    <2>0. UNCHANGED proposalBar
        BY <1>3, SameProposals DEF ServerDrops, chainVars
    <2> DEFINE l == [k \in Keys |-> IF Swept[k].who = c THEN NoLock ELSE Swept[k]]
               ks == {k \in Keys : holderBar[k] = c}
    <2>1. CASE UNCHANGED <<place, lock, expired>>
        BY <2>0, <2>1, SameHolders, AsStutter DEF Stutters
    <2>2. CASE Publish(version, place, l)
        <3> HIDE DEF l
        <3>1. holderBar' = [k \in Keys |-> l[k].who] /\ UNCHANGED place
            BY <2>2, PublishedHolders DEF Publish
        <3>2. \A k \in Keys : l[k].who = IF k \in ks THEN Nobody ELSE holderBar[k]
            BY DEF NoLock, holderBar, l
        <3>3. holderBar' = [k \in Keys |-> IF k \in ks THEN Nobody ELSE holderBar[k]]
            BY <3>1, <3>2
        <3>4. ks \in SUBSET {k \in Keys : holderBar[k] = c}
            OBVIOUS
        <3> HIDE DEF ks
        <3> QED
            BY <2>0, <3>1, <3>3, <3>4, AsFree
    <2> QED
        BY <1>3, <2>1, <2>2 DEF ServerDrops
<1> QED
    BY <1>1, <1>2, <1>3

LEMMA RefinesEditor ==
    ASSUME TypeInv, TypeInv', NEW c \in Clients, EditorStep(c) \/ LoseChange(c) PROVE Implements
<1>0. change \in [Clients -> Changes]
    BY DEF TypeInv, ChainTypeOK
<1>1. UNCHANGED <<place, lock, expired>>
    BY DEF EditorStep, LoseChange, ReceiveTable, TimerFires, ReceiveDone, ReceiveRefused,
           ReceiveCatchUp, serverVars
<1>2. CASE \E q : Pump(c, q)
    BY <1>1, <1>2, RefinesPump
<1>3. CASE UNCHANGED change
    BY <1>1, <1>3, SameHolders, SameProposals, AsStutter DEF Stutters
<1>4. CASE ReceiveRefused(c)
    <2>1. /\ change[c].at = "refused" /\ change'[c].at = "get"
          /\ \A e \in Clients \ {c} : change'[e] = change[e]
        BY <1>0, <1>4 DEF ReceiveRefused, Answered
    <2>2. UNCHANGED proposalBar
        BY <2>1 DEF proposalBar
    <2> QED
        BY <1>1, <2>2, SameHolders, AsStutter DEF Stutters
<1> QED
    BY <1>2, <1>3, <1>4 DEF EditorStep, LoseChange, ReceiveTable, TimerFires, ReceiveDone,
                            ReceiveCatchUp, chainVars

\* A lease that runs out frees one object.
LEMMA RefinesExpiry ==
    ASSUME TypeInv, NEW k \in Keys, LeaseExpires(k) PROVE Implements
<1>1. UNCHANGED place /\ UNCHANGED proposalBar
    BY SameProposals DEF LeaseExpires, chainVars
<1>2. lock[k] # NoLock /\ k \notin expired /\ lock' = lock /\ expired' = expired \cup {k}
    BY DEF LeaseExpires
<1>3. holderBar' = [j \in Keys |-> IF j \in {k} THEN Nobody ELSE holderBar[j]]
    BY <1>2 DEF holderBar, Swept, NoLock
<1>4. Swept[k] = lock[k]
    BY <1>2 DEF Swept
<1>5. holderBar[k] \in Clients
    BY <1>2, <1>4, HeldByNobody
<1>6. {k} \in SUBSET {j \in Keys : holderBar[j] = holderBar[k]}
    OBVIOUS
<1> QED
    BY <1>1, <1>3, <1>5, <1>6, AsFree

LEMMA RefinesNext ==
    ASSUME TypeInv, TypeInv', SheetInv, [Next]_vars PROVE Implements
<1>1. CASE /\ UNCHANGED <<place, change>>
           /\ (lock' = lock /\ expired' = expired) \/ (lock' = Swept /\ expired' = {})
    BY <1>1, SameHolders, SameProposals, AsStutter DEF Stutters
<1>2. ASSUME NEW c \in Clients, UserStep(c) \/ Disconnect(c) \/ Reconnect(c) PROVE Implements
    BY <1>1, <1>2 DEF UserStep, Grab, LetGo, Move, Delete, Type, Disconnect, Reconnect,
                      serverVars, chainVars
<1>3. CASE AnswerStep
    BY <1>1, <1>3 DEF AnswerStep, ReceiveAnswer, ReceiveLocks, serverVars, chainVars
<1>4. CASE UNCHANGED vars
    BY <1>1, <1>4 DEF vars, serverVars, chainVars
<1> QED
    BY <1>2, <1>3, <1>4, RefinesEditor, RefinesServer, RefinesLocks, RefinesExpiry
       DEF Next, ServerStep, NetworkStep

\* Whatever is lost, late or overtaken between collab-rooms.ts and the editors: an object has
\* one holder, nobody else changes it, and a change is accepted only if the table is still what
\* its author had agreed on (checkObjectVersion, checkObjectWrite), or if its author was set back.
THEOREM SheetKeepsPromise == Spec => KeepsPromise
<1>1. Init => Table!Init
    BY RefinesInit
<1>2. TypeInv /\ SheetInv /\ TypeInv' /\ [Next]_vars => [Table!Next]_(Table!tableVars)
    BY RefinesNext DEF Implements
<1> QED
    BY <1>1, <1>2, SheetAlways, PTL DEF Spec, KeepsPromise, Table!Spec
=============================================================================
