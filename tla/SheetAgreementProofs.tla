------------------------ MODULE SheetAgreementProofs ------------------------
(***************************************************************************)
(* For any number of editors, objects and events: nobody loses the lock of *)
(* an object to a late unlock, what an editor with the current version has *)
(* agreed on is the server's table, and at rest it shows it.               *)
(*                                                                         *)
(* The steps of SheetObjects are said by their effect first: on locks, on  *)
(* the server's table, and on the view of one editor.  Each invariant then *)
(* needs a few effects only.                                               *)
(***************************************************************************)
EXTENDS SheetObjectsProofs

-----------------------------------------------------------------------------
(* Locks *)

\* What somebody knows of the lock of k: if the number is still that of the lock, then so is
\* the holder.
Genuine(l, k) == l = NoLock \/ (l.id <= issued /\ (lock[k].id = l.id => lock[k].who = l.who))

\* The lock that a request would release.
Named(r) == [who |-> r.from, id |-> r.id]

LocksAreGenuine == \A c \in Clients, k \in Keys : Genuine(locks[c][k], k)
TablesAreGenuine == \A d \in OnTheWay, k \in Keys : Genuine(d.lock[k], k)
UnlocksAreGenuine == \A r \in asks : r.kind = "unlock" => Genuine(Named(r), r.key)
LockInv == LocksAreGenuine /\ TablesAreGenuine /\ UnlocksAreGenuine

LEMMA LockInit == Init => LockInv
<1> SUFFICES ASSUME Init PROVE LockInv
    OBVIOUS
<1>1. OnTheWay = {}
    BY OnTheWayMembers DEF Init
<1> QED
    BY <1>1 DEF Init, LockInv, LocksAreGenuine, TablesAreGenuine, UnlocksAreGenuine, Genuine

\* A lock is kept, freed, or has a new number.
LockStep ==
    /\ issued <= issued'
    /\ \A k \in Keys : lock'[k] \in {lock[k], NoLock} \/ lock'[k].id = issued + 1

LEMMA SweepLockStep ==
    ASSUME TypeInv, UNCHANGED issued, NEW l \in [Keys -> Locks],
           \A k \in Keys : l[k] \in {lock[k], NoLock}, lock' = l
    PROVE  LockStep
BY DEF LockStep, TypeInv, ServerTypeOK

LEMMA SweptLocks == ASSUME NEW k \in Keys PROVE Swept[k] \in {lock[k], NoLock}
BY DEF Swept

LEMMA GrantLockStep ==
    ASSUME TypeInv, NEW k \in Keys, NEW c \in Clients, lock' = Grant(Swept, k, c), Count(Swept, k)
    PROVE  LockStep
<1>1. Swept \in [Keys -> Locks] /\ issued \in Nat
    BY SweptTypes DEF TypeInv, ServerTypeOK
<1>2. issued <= issued'
    BY <1>1 DEF Count
<1>3. \A j \in Keys : Grant(Swept, k, c)[j] = Swept[j] \/ Grant(Swept, k, c)[j] = NewLock(c)
    BY <1>1 DEF Grant
<1> QED
    BY <1>2, <1>3, SweptLocks DEF LockStep, NewLock

LEMMA LocksNext == ASSUME TypeInv, [Next]_vars PROVE LockStep
<1>0. issued \in Nat
    BY DEF TypeInv, ServerTypeOK
<1>1. CASE UNCHANGED <<lock, issued>>
    BY <1>0, <1>1 DEF LockStep
<1>2. CASE lock' = Swept /\ UNCHANGED issued
    BY <1>2, SweptTypes, SweptLocks, SweepLockStep DEF TypeInv
<1>3. ASSUME NEW r \in asks, ServeLock(r) PROVE LockStep
    <2>1. r.key \in Keys /\ r.from \in Clients
        BY <1>3 DEF ServeLock, TypeInv, AskTypeOK, Asks
    <2> QED
        BY <1>1, <1>2, <1>3, <2>1, GrantLockStep DEF ServeLock, Publish, serverVars
<1>4. ASSUME NEW r \in asks, ServeUnlock(r) PROVE LockStep
    <2>1. Swept \in [Keys -> Locks]
        BY SweptTypes DEF TypeInv
    <2> DEFINE l == [Swept EXCEPT ![r.key] = NoLock]
    <2>2. l \in [Keys -> Locks] /\ \A k \in Keys : l[k] \in {lock[k], NoLock}
        BY <2>1, SweptLocks, NoLockIsALock
    <2>3. lock' = l \/ UNCHANGED lock
        BY <1>4 DEF ServeUnlock, Publish
    <2> HIDE DEF l
    <2> QED
        BY <1>1, <1>4, <2>2, <2>3, SweepLockStep DEF ServeUnlock
<1>5. ASSUME NEW c \in Clients, ServeChange(c) PROVE LockStep
    <2>1. change[c].key \in Keys
        BY <1>5, ChangeFields DEF ServeChange, TypeInv, ChainTypeOK
    <2> QED
        BY <1>1, <1>2, <1>5, <2>1, GrantLockStep DEF ServeChange, Publish, Sweep, serverVars
<1>6. ASSUME NEW c \in Clients, ServerDrops(c) PROVE LockStep
    <2>1. Swept \in [Keys -> Locks]
        BY SweptTypes DEF TypeInv
    <2> DEFINE l == [k \in Keys |-> IF Swept[k].who = c THEN NoLock ELSE Swept[k]]
    <2>2. l \in [Keys -> Locks] /\ \A k \in Keys : l[k] \in {lock[k], NoLock}
        BY <2>1, SweptLocks, NoLockIsALock
    <2>3. lock' = l \/ UNCHANGED lock
        BY <1>6 DEF ServerDrops, Publish
    <2> HIDE DEF l
    <2> QED
        BY <1>1, <1>6, <2>2, <2>3, SweepLockStep DEF ServerDrops
<1>7. ASSUME NEW r \in asks, ServeGet(r) PROVE LockStep
    BY <1>2, <1>7 DEF ServeGet, Sweep
<1>8. ASSUME NEW c \in Clients, ServeCatchUp(c) \/ Reconnect(c) PROVE LockStep
    BY <1>2, <1>8 DEF ServeCatchUp, Reconnect, Sweep
<1>9. ASSUME NEW c \in Clients, UserStep(c) \/ EditorStep(c) \/ LoseChange(c) \/ Disconnect(c)
      PROVE  UNCHANGED <<lock, issued>>
    BY <1>9 DEF UserStep, Grab, LetGo, Move, Delete, Type, EditorStep, ReceiveTable, TimerFires,
                ReceiveDone, ReceiveRefused, ReceiveCatchUp, LoseChange, Disconnect, serverVars
<1>10. AnswerStep => UNCHANGED <<lock, issued>>
    BY DEF AnswerStep, ReceiveAnswer, ReceiveLocks, serverVars
<1>11. ASSUME NEW k \in Keys, LeaseExpires(k) PROVE UNCHANGED <<lock, issued>>
    BY <1>11 DEF LeaseExpires
<1>12. UNCHANGED vars => UNCHANGED <<lock, issued>>
    BY DEF vars, serverVars
<1> QED
    BY <1>1, <1>3, <1>4, <1>5, <1>6, <1>7, <1>8, <1>9, <1>10, <1>11, <1>12
       DEF Next, ServerStep, NetworkStep

\* A number is never given out again.
LEMMA GenuineStays ==
    ASSUME TypeInv, TypeInv', LockStep, NEW k \in Keys, NEW l \in Locks, Genuine(l, k)
    PROVE  Genuine(l, k)'
<1>1. issued \in Nat /\ issued' \in Nat /\ lock[k] \in Locks
    BY DEF TypeInv, ServerTypeOK
<1>2. CASE l = NoLock
    BY <1>2 DEF Genuine
<1>3. CASE l # NoLock
    <2>1. l.id \in Nat \ {0} /\ l.id <= issued /\ (lock[k].id = l.id => lock[k].who = l.who)
        BY <1>3 DEF Locks, Genuine
    <2>2. l.id <= issued'
        BY <1>1, <2>1 DEF LockStep
    <2>3. CASE lock'[k] = lock[k]
        BY <2>1, <2>2, <2>3 DEF Genuine
    <2>4. CASE lock'[k] = NoLock
        BY <2>1, <2>2, <2>4, NoLockIsALock DEF Genuine
    <2>5. CASE lock'[k].id = issued + 1
        BY <1>1, <2>1, <2>2, <2>5 DEF Genuine
    <2> QED
        BY <2>3, <2>4, <2>5 DEF LockStep
<1> QED
    BY <1>2, <1>3

\* A lock that is known somewhere.
Known(l, k) == (\E c \in Clients : l = locks[c][k]) \/ \E d \in OnTheWay : l = d.lock[k]

LEMMA KnownIsGenuine ==
    ASSUME LockInv, NEW k \in Keys, NEW l, Known(l, k) PROVE Genuine(l, k)
BY DEF LockInv, LocksAreGenuine, TablesAreGenuine, Known

\* What editors know of locks is from a table; what they give back is a lock they know.
LearnStep ==
    /\ \A c \in Clients : locks'[c] = locks[c] \/ \E d \in OnTheWay : locks'[c] = d.lock
    /\ \A r \in asks' : r.kind = "unlock" => r \in asks \/ Known(Named(r), r.key)

LEMMA ReleasesKnown ==
    ASSUME NEW c \in Clients, NEW l \in [Keys -> Locks], \A k \in Keys : Known(l[k], k),
           NEW j \in Keys \cup {None}, NEW r \in Release(l, c, j), r.kind = "unlock"
    PROVE  Known(Named(r), r.key)
<1>1. j # None /\ l[j] # NoLock /\ l[j].who = c
    BY DEF Release
<1>2. r = [kind |-> "unlock", from |-> c, key |-> j, id |-> l[j].id]
    BY <1>1 DEF Release
<1>3. j \in Keys /\ r.key = j
    BY <1>1, <1>2
<1>4. l[j] \in [who : Clients, id : Nat \ {0}]
    BY <1>1, <1>3 DEF Locks
<1>5. Named(r) = l[j]
    BY <1>1, <1>2, <1>4 DEF Named
<1> QED
    BY <1>3, <1>5

LEMMA TakesLocks ==
    ASSUME TypeInv, NEW c \in Clients, NEW d \in OnTheWay, locks' = [locks EXCEPT ![c] = d.lock]
    PROVE  \A e \in Clients : locks'[e] = locks[e] \/ \E t \in OnTheWay : locks'[e] = t.lock
BY DEF TypeInv, ViewTypeOK

LEMMA KnowsItsLocks ==
    ASSUME TypeInv, NEW c \in Clients, NEW j \in Keys \cup {None},
           NEW r \in Release(locks[c], c, j), r.kind = "unlock"
    PROVE  Known(Named(r), r.key)
<1>1. locks[c] \in [Keys -> Locks] /\ \A k \in Keys : Known(locks[c][k], k)
    BY DEF TypeInv, ViewTypeOK, Known
<1> QED
    BY <1>1, ReleasesKnown

LEMMA LearnEditor == ASSUME TypeInv, NEW c \in Clients, EditorStep(c) PROVE LearnStep
<1>1. CASE ReceiveTable(c)
    <2>1. chan[c] \in Seq(Tables) /\ chan[c] # <<>>
        BY <1>1 DEF ReceiveTable, TypeInv, ServerTypeOK
    <2>2. Head(chan[c]) = chan[c][1] /\ 1 \in 1..Len(chan[c])
        BY <2>1, HeadTailProperties, LenProperties
    <2>3. Head(chan[c]) \in OnTheWay
        BY <2>2, OnTheWayMembers
    <2> QED
        BY <1>1, <2>3, TakesLocks DEF ReceiveTable, TakeOver, netVars, LearnStep
<1>2. CASE TimerFires(c) \/ ReceiveRefused(c)
    BY <1>2 DEF TimerFires, ReceiveRefused, viewVars, netVars, LearnStep
<1>3. CASE ReceiveDone(c)
    <2>1. change[c].key \in Keys \cup {None}
        BY <1>3, ChangeFields DEF ReceiveDone, TypeInv, ChainTypeOK
    <2>2. UNCHANGED locks
        BY <1>3 DEF ReceiveDone
    <2>3. asks' = asks \/ asks' = asks \cup Release(locks[c], c, change[c].key)
        BY <1>3 DEF ReceiveDone
    <2> QED
        BY <2>1, <2>2, <2>3, KnowsItsLocks DEF LearnStep
<1>4. CASE ReceiveCatchUp(c)
    <2>1. change[c].data \in OnTheWay
        BY <1>4, OnTheWayMembers DEF ReceiveCatchUp
    <2> QED
        BY <1>4, <2>1, TakesLocks DEF ReceiveCatchUp, TakeOver, netVars, LearnStep
<1> QED
    BY <1>1, <1>2, <1>3, <1>4 DEF EditorStep

LEMMA LearnAnswer == ASSUME TypeInv, AnswerStep PROVE LearnStep
<1>1. ASSUME NEW r \in answers, ReceiveAnswer(r) PROVE LearnStep
    <2>1. r.data \in OnTheWay /\ r.from \in Clients
        BY OnTheWayMembers DEF TypeInv, AskTypeOK
    <2> QED
        BY <1>1, <2>1, TakesLocks DEF ReceiveAnswer, TakeOver, LearnStep
<1>2. ASSUME NEW r \in answers, ReceiveLocks(r) PROVE LearnStep
    <2>1. r.data \in OnTheWay /\ r.from \in Clients /\ r.for \in Keys /\ r.data.lock \in [Keys -> Locks]
        BY <1>2, OnTheWayMembers DEF ReceiveLocks, TypeInv, AskTypeOK, Tables
    <2>2. \A k \in Keys : Known(r.data.lock[k], k)
        BY <2>1 DEF Known
    <2>3. asks' \subseteq asks \cup Release(r.data.lock, r.from, r.for)
        BY <1>2 DEF ReceiveLocks
    <2>4. ASSUME NEW a \in asks', a.kind = "unlock" PROVE a \in asks \/ Known(Named(a), a.key)
        BY <2>1, <2>2, <2>3, <2>4, ReleasesKnown
    <2>5. \A e \in Clients : locks'[e] = locks[e] \/ \E t \in OnTheWay : locks'[e] = t.lock
        BY <1>2, <2>1, TakesLocks DEF ReceiveLocks
    <2> QED
        BY <2>4, <2>5 DEF LearnStep
<1> QED
    BY <1>1, <1>2 DEF AnswerStep

LEMMA LearnNext == ASSUME TypeInv, [Next]_vars PROVE LearnStep
<1>1. CASE UNCHANGED locks /\ \A r \in asks' : r.kind = "unlock" => r \in asks
    BY <1>1 DEF LearnStep
<1>2. ASSUME NEW c \in Clients, UserStep(c) PROVE LearnStep
    <2>1. CASE LetGo(c) \/ \E k \in Keys : Grab(c, k)
        <3>1. active[c] \in Keys \cup {None} /\ UNCHANGED locks
            BY <2>1 DEF TypeInv, AskTypeOK, LetGo, Grab, viewVars
        <3>2. \A r \in asks' : r.kind = "unlock" => r \in asks \/ r \in Release(locks[c], c, active[c])
            BY <2>1 DEF LetGo, Grab
        <3> QED
            BY <3>1, <3>2, KnowsItsLocks DEF LearnStep
    <2>2. CASE Type(c) \/ \E k \in Keys : Delete(c, k) \/ \E to \in Moves : Move(c, k, to)
        BY <1>1, <2>2 DEF Type, Delete, Move, netVars
    <2> QED
        BY <1>2, <2>1, <2>2 DEF UserStep
<1>3. CASE ServerStep
    BY <1>1, <1>3 DEF ServerStep, ServeLock, ServeUnlock, ServeGet, ServeChange, ServeCatchUp,
                      ServerDrops, viewVars, netVars
<1>4. CASE NetworkStep
    BY <1>1, <1>4 DEF NetworkStep, LoseChange, Disconnect, Reconnect, viewVars, netVars
<1>5. ASSUME NEW k \in Keys, LeaseExpires(k) PROVE LearnStep
    BY <1>1, <1>5 DEF LeaseExpires, viewVars, netVars
<1>6. CASE UNCHANGED vars
    BY <1>1, <1>6 DEF vars, viewVars, netVars
<1> QED
    BY <1>2, <1>3, <1>4, <1>5, <1>6, LearnEditor, LearnAnswer DEF Next

LEMMA LockNext == ASSUME TypeInv, TypeInv', LockInv, [Next]_vars PROVE LockInv'
<1>1. LockStep /\ LearnStep /\ FewTables
    BY LocksNext, LearnNext, TablesNext
<1>2. ASSUME NEW k \in Keys, NEW l \in Locks, Known(l, k) PROVE Genuine(l, k)'
    BY <1>1, <1>2, KnownIsGenuine, GenuineStays
<1>3. LocksAreGenuine'
    <2> SUFFICES ASSUME NEW c \in Clients, NEW k \in Keys PROVE Genuine(locks[c][k], k)'
        BY DEF LocksAreGenuine
    <2>1. Known(locks'[c][k], k) /\ locks'[c][k] \in Locks
        BY <1>1, ZenonT(40) DEF LearnStep, Known, TypeInv, ViewTypeOK
    <2> QED
        BY <1>2, <2>1 DEF Genuine
<1>4. TablesAreGenuine'
    <2> SUFFICES ASSUME NEW d \in OnTheWay', NEW k \in Keys PROVE Genuine(d.lock[k], k)'
        BY DEF TablesAreGenuine
    <2>1. CASE d \in OnTheWay
        <3>1. d.lock[k] \in Locks /\ Known(d.lock[k], k)
            BY <2>1, TablesTypes DEF Tables, Known
        <3> QED
            BY <1>2, <3>1
    <2>2. CASE IsCurrent(d)
        BY <2>2 DEF IsCurrent, Genuine, TypeInv, ServerTypeOK
    <2> QED
        BY <1>1, <2>1, <2>2 DEF FewTables
<1>5. UnlocksAreGenuine'
    <2> SUFFICES ASSUME NEW r \in asks', r.kind = "unlock" PROVE Genuine(Named(r), r.key)'
        BY DEF UnlocksAreGenuine, Named
    <2>1. r.key \in Keys /\ Named(r) \in Locks
        BY DEF TypeInv, AskTypeOK, Asks, Named, Locks
    <2>2. Genuine(Named(r), r.key)
        <3>1. r \in asks \/ Known(Named(r), r.key)
            BY <1>1 DEF LearnStep
        <3> QED
            BY <2>1, <3>1, KnownIsGenuine DEF LockInv, UnlocksAreGenuine
    <2> QED
        BY <1>1, <2>1, <2>2, GenuineStays
<1> QED
    BY <1>3, <1>4, <1>5 DEF LockInv

\* Whose lock ends by a step, and why.
EndsWell(c, k) ==
    \/ k \in expired \/ c \in ghost \ ghost'
    \/ [kind |-> "unlock", from |-> c, key |-> k, id |-> lock[k].id] \in asks \ asks'

LEMMA SweptKeeps ==
    ASSUME TypeInv, NEW k \in Keys, k \notin expired PROVE Swept[k] = lock[k]
BY DEF Swept

LEMMA LockEnds ==
    ASSUME TypeInv, LockInv, [Next]_vars, NEW c \in Clients, NEW k \in Keys,
           lock[k].who = c, lock'[k].who # c
    PROVE  EndsWell(c, k)
<1> SUFFICES ASSUME k \notin expired PROVE EndsWell(c, k)
    BY DEF EndsWell
<1>0. lock[k] \in Locks /\ lock[k] # NoLock /\ Swept[k] = lock[k] /\ Swept \in [Keys -> Locks]
    BY SweptKeeps, SweptTypes, NoLockIsALock, SheetAssumption
       DEF SheetAssumption, TypeInv, ServerTypeOK
<1>1. lock'[k] # Swept[k] /\ lock'[k] # lock[k]
    BY <1>0
<1>2. ASSUME NEW r \in asks, ServeUnlock(r) PROVE EndsWell(c, k)
    <2>1. r \in [kind : {"unlock"}, from : Clients, key : Keys, id : Nat \ {0}]
        BY <1>2 DEF ServeUnlock, TypeInv, AskTypeOK, Asks
    <2>2. r.key = k /\ lock[k].id = r.id
        BY <1>0, <1>1, <1>2, <2>1 DEF ServeUnlock, Publish, MayRelease
    <2>3. Named(r) # NoLock
        BY <2>1 DEF Named, NoLock
    <2>4. Genuine(Named(r), k)
        BY <2>1, <2>2 DEF LockInv, UnlocksAreGenuine
    <2>5. r.from = c
        BY <2>2, <2>3, <2>4 DEF Genuine, Named
    <2>6. r = [kind |-> "unlock", from |-> c, key |-> k, id |-> lock[k].id]
        BY <2>1, <2>2, <2>5
    <2> QED
        BY <1>2, <2>6 DEF ServeUnlock, EndsWell
<1>3. ASSUME NEW e \in Clients, ServerDrops(e) PROVE EndsWell(c, k)
    <2>1. lock'[k] = IF Swept[k].who = e THEN NoLock ELSE Swept[k]
        BY <1>1, <1>3 DEF ServerDrops, Publish
    <2> QED
        BY <1>0, <1>1, <1>3, <2>1 DEF ServerDrops, EndsWell
<1>4. ASSUME NEW j, NEW e, lock' = Grant(Swept, j, e) PROVE FALSE
    BY <1>0, <1>1, <1>4 DEF Grant
<1>5. ASSUME NEW r \in asks, ServeLock(r) PROVE FALSE
    BY <1>1, <1>4, <1>5 DEF ServeLock, Publish, serverVars
<1>6. ASSUME NEW e \in Clients, ServeChange(e) PROVE FALSE
    BY <1>1, <1>4, <1>6 DEF ServeChange, Publish, Sweep, serverVars
<1>7. ASSUME NEW r \in asks, ServeGet(r) PROVE FALSE
    BY <1>1, <1>7 DEF ServeGet, Sweep
<1>8. ASSUME NEW e \in Clients, ServeCatchUp(e) \/ Reconnect(e) PROVE FALSE
    BY <1>1, <1>8 DEF ServeCatchUp, Reconnect, Sweep
<1>9. ASSUME NEW e \in Clients, UserStep(e) \/ EditorStep(e) \/ LoseChange(e) \/ Disconnect(e)
      PROVE  FALSE
    BY <1>1, <1>9 DEF UserStep, Grab, LetGo, Move, Delete, Type, EditorStep, ReceiveTable,
                      TimerFires, ReceiveDone, ReceiveRefused, ReceiveCatchUp, LoseChange,
                      Disconnect, serverVars
<1>10. ~ AnswerStep
    BY <1>1 DEF AnswerStep, ReceiveAnswer, ReceiveLocks, serverVars
<1>11. ASSUME NEW j \in Keys, LeaseExpires(j) PROVE FALSE
    BY <1>1, <1>11 DEF LeaseExpires
<1>12. vars' # vars
    BY <1>1 DEF vars, serverVars
<1> QED
    BY <1>2, <1>3, <1>5, <1>6, <1>7, <1>8, <1>9, <1>10, <1>11, <1>12
       DEF Next, ServerStep, NetworkStep

LEMMA LocksAlways == Spec => [](TypeInv /\ LockInv)
<1>1. Init => TypeInv /\ LockInv
    BY TypeInit, LockInit
<1>2. TypeInv /\ LockInv /\ [Next]_vars => (TypeInv /\ LockInv)'
    BY TypeNext, LockNext
<1> QED
    BY <1>1, <1>2, PTL DEF Spec

\* For any number of editors, objects and events: a lock ends when its lease has run out, when
\* the server notices that its holder's connection is gone, or when its holder gives back this
\* very lock (releaseObjectLock, objReleaseLock); late unlocks end nothing.
THEOREM LocksAreKept == Spec => HoldersKeepTheirLocks
<1> DEFINE Ends == \A c \in Clients, k \in Keys :
               lock[k].who = c /\ lock'[k].who # c =>
                   \/ k \in expired \/ c \in ghost \ ghost'
                   \/ [kind |-> "unlock", from |-> c, key |-> k, id |-> lock[k].id] \in asks \ asks'
<1>1. TypeInv /\ LockInv /\ [Next]_vars => [Ends]_vars
    BY LockEnds DEF EndsWell
<1> QED
    BY <1>1, LocksAlways, PTL DEF Spec, HoldersKeepTheirLocks

-----------------------------------------------------------------------------
(* Places nothing was dragged to yet *)

FreshAtServer ==
    /\ \A k \in Keys : place[k] \notin fresh
    /\ \A d \in OnTheWay, k \in Keys : d.place[k] \notin fresh

FreshInViews == \A c \in Clients, k \in Keys : model[c][k] \notin fresh /\ sent[c][k] \notin fresh

FreshInUndo ==
    \A c \in Clients : \A i \in 1..Len(undo[c]) :
        undo[c][i] # None => undo[c][i].place \notin fresh

FreshInChanges == \A c \in Clients : change[c].at # "none" => change[c].to \notin fresh

\* A place that nobody dragged an object to is nowhere.
FreshInv == FreshAtServer /\ FreshInViews /\ FreshInUndo /\ FreshInChanges

LEMMA NoMarkerIsFresh ==
    ASSUME TypeInv PROVE {Home, Unmoved, Gone, Absent, Blurred} \cap fresh = {}
BY SheetAssumption DEF SheetAssumption, TypeInv, BoundTypeOK, Places

LEMMA FreshInit == Init => FreshInv
<1> SUFFICES ASSUME Init PROVE FreshInv
    OBVIOUS
<1>1. OnTheWay = {}
    BY OnTheWayMembers DEF Init
<1>2. Home \notin fresh /\ Unmoved \notin fresh
    BY TypeInit, NoMarkerIsFresh
<1> QED
    BY <1>1, <1>2 DEF Init, FreshInv, FreshAtServer, FreshInViews, FreshInUndo, FreshInChanges

LEMMA FreshServer ==
    ASSUME TypeInv, FreshInv, FewTables, fresh' \subseteq fresh,
           \A k \in Keys : \/ place'[k] = place[k]
                           \/ \E c \in Clients : change[c].at = "change" /\ place'[k] = change[c].to
    PROVE  FreshAtServer'
<1>1. \A k \in Keys : place'[k] \notin fresh'
    BY DEF FreshInv, FreshAtServer, FreshInChanges
<1>2. ASSUME NEW d \in OnTheWay', NEW k \in Keys PROVE d.place[k] \notin fresh'
    BY <1>1, <1>2 DEF FewTables, IsCurrent, FreshInv, FreshAtServer
<1> QED
    BY <1>1, <1>2 DEF FreshAtServer

LEMMA FreshTakeOver ==
    ASSUME TypeInv, FreshInv, NEW c \in Clients, NEW d \in OnTheWay, TakeOver(c, d),
           fresh' \subseteq fresh
    PROVE  FreshInViews'
<1>1. \A k \in Keys : Applied(c, d)[k] \in {Gone, model[c][k], d.place[k]}
    BY DEF Applied
<1>2. \A k \in Keys : Applied(c, d)[k] \notin fresh
    BY <1>1, NoMarkerIsFresh DEF FreshInv, FreshAtServer, FreshInViews
<1>3. \A k \in Keys : Baseline(Applied(c, d))[k] \notin fresh
    BY <1>2, NoMarkerIsFresh DEF Baseline
<1>4. /\ model' = [model EXCEPT ![c] = Applied(c, d)]
      /\ sent' = [sent EXCEPT ![c] = Baseline(Applied(c, d))]
      /\ model \in [Clients -> [Keys -> Places \cup {Gone}]] /\ sent \in [Clients -> Agreed]
    BY DEF TakeOver, TypeInv, ViewTypeOK
<1> QED
    BY <1>2, <1>3, <1>4 DEF FreshInv, FreshInViews

\* What a pump makes of the chain of its editor.
LEMMA PumpMakes ==
    ASSUME TypeInv, NEW c \in Clients, NEW q \in Seq(SUBSET Keys), Pump(c, q)
    PROVE  \/ change'[c] = [at |-> "none"]
           \/ \E k \in Keys :
                  change'[c] = [at |-> "change", key |-> k, to |-> model'[c][k], base |-> ver'[c],
                                seen |-> View(sent', blurred', c)]
<1>1. \A i \in 1..Len(q) : q[i] \subseteq Keys
    BY ElementOfSeq
<1> QED
    BY <1>1 DEF Pump, Answered, TypeInv, ChainTypeOK

LEMMA FreshPump ==
    ASSUME TypeInv, FreshInv, FreshInViews', fresh' \subseteq fresh,
           NEW c \in Clients, NEW q \in Seq(SUBSET Keys), Pump(c, q)
    PROVE  FreshInChanges'
<1>1. \A e \in Clients \ {c} : change'[e] = change[e]
    BY PumpChange
<1>2. CASE change'[c] = [at |-> "none"]
    BY <1>1, <1>2 DEF FreshInv, FreshInChanges
<1>3. CASE change'[c] # [at |-> "none"]
    <2>1. PICK k \in Keys :
              change'[c] = [at |-> "change", key |-> k, to |-> model'[c][k], base |-> ver'[c],
                            seen |-> View(sent', blurred', c)]
        BY <1>3, PumpMakes
    <2>2. change'[c].to = model'[c][k]
        BY <2>1
    <2> QED
        BY <1>1, <2>2 DEF FreshInv, FreshInViews, FreshInChanges
<1> QED
    BY <1>2, <1>3

LEMMA FreshSame ==
    ASSUME FreshInv, fresh' \subseteq fresh
    PROVE  /\ UNCHANGED <<model, sent>> => FreshInViews'
           /\ UNCHANGED undo => FreshInUndo'
           /\ UNCHANGED change => FreshInChanges'
BY DEF FreshInv, FreshInViews, FreshInUndo, FreshInChanges

LEMMA FreshEditor ==
    ASSUME TypeInv, FreshInv, NEW c \in Clients, EditorStep(c)
    PROVE  FreshInViews' /\ FreshInUndo' /\ FreshInChanges'
<1>0. /\ change[c] \in Changes /\ todo[c] \in Seq(SUBSET Keys) /\ fresh' \subseteq fresh
      /\ change \in [Clients -> Changes]
      /\ model \in [Clients -> [Keys -> Places \cup {Gone}]] /\ sent \in [Clients -> Agreed]
      /\ undo[c] \in Seq([key : Keys, place : Places] \cup {None})
    BY DEF TypeInv, ChainTypeOK, ViewTypeOK, EditorStep, ReceiveTable, TimerFires, ReceiveDone,
           ReceiveRefused, ReceiveCatchUp, boundVars
<1>1. CASE ReceiveTable(c)
    <2>1. chan[c] \in Seq(Tables) /\ chan[c] # <<>>
        BY <1>1 DEF ReceiveTable, TypeInv, ServerTypeOK
    <2>2. Head(chan[c]) = chan[c][1] /\ 1 \in 1..Len(chan[c])
        BY <2>1, HeadTailProperties, LenProperties
    <2>3. Head(chan[c]) \in OnTheWay
        BY <2>2, OnTheWayMembers
    <2>4. FreshInViews'
        BY <1>0, <1>1, <2>3, FreshTakeOver DEF ReceiveTable
    <2> QED
        BY <1>0, <1>1, <2>4, FreshSame DEF ReceiveTable, chainVars
<1>2. CASE TimerFires(c)
    <2>1. FreshInViews' /\ FreshInUndo'
        BY <1>0, <1>2, FreshSame DEF TimerFires, viewVars, knownVars
    <2>2. Queue(c) \in Seq(SUBSET Keys)
        BY DEF Queue
    <2> QED
        BY <1>0, <1>2, <2>1, <2>2, FreshPump, FreshSame DEF TimerFires
<1>3. CASE ReceiveDone(c)
    <2>1. change[c].to \notin fresh
        BY <1>3 DEF ReceiveDone, FreshInv, FreshInChanges
    <2>2. FreshInViews'
        BY <1>0, <1>3, <2>1 DEF ReceiveDone, FreshInv, FreshInViews
    <2> QED
        BY <1>0, <1>3, <2>2, FreshPump, FreshSame DEF ReceiveDone
<1>4. CASE ReceiveRefused(c)
    <2> DEFINE k == change[c].key
               top == Head(undo[c])
    <2>1. k \in Keys /\ change[c].to \notin fresh
        BY <1>0, <1>4, ChangeFields DEF ReceiveRefused, FreshInv, FreshInChanges
    <2>2. FreshInChanges'
        BY <1>0, <1>4, <2>1 DEF ReceiveRefused, Answered, FreshInv, FreshInChanges
    <2>3. UNCHANGED sent
        BY <1>4 DEF ReceiveRefused
    <2>4. CASE model' = [model EXCEPT ![c] = Reverted(c, k)] /\ UNCHANGED undo
        <3>1. \A j \in Keys : Reverted(c, k)[j] \in {model[c][j], sent[c][j]}
            BY <1>0 DEF Reverted
        <3>2. FreshInViews'
            BY <1>0, <2>3, <2>4, <3>1 DEF FreshInv, FreshInViews
        <3> QED
            BY <1>0, <2>2, <2>4, <3>2, FreshSame
    <2>5. CASE /\ undo[c] # <<>> /\ top # None
               /\ model' = [model EXCEPT ![c][top.key] = top.place]
               /\ undo' = [undo EXCEPT ![c] = Tail(@)]
        <3>1. top = undo[c][1] /\ 1 \in 1..Len(undo[c])
            BY <1>0, <2>5, HeadTailProperties, LenProperties
        <3>2. top.place \notin fresh
            BY <2>5, <3>1 DEF FreshInv, FreshInUndo
        <3>3. \A i \in 1..Len(Tail(undo[c])) :
                  i + 1 \in 1..Len(undo[c]) /\ Tail(undo[c])[i] = undo[c][i + 1]
            BY <1>0, <2>5, HeadTailProperties, LenProperties
        <3> HIDE DEF top
        <3>4. FreshInViews'
            BY <1>0, <2>3, <2>5, <3>2 DEF FreshInv, FreshInViews
        <3>5. FreshInUndo'
            BY <1>0, <2>5, <3>3 DEF FreshInv, FreshInUndo, TypeInv, ViewTypeOK
        <3> QED
            BY <2>2, <3>4, <3>5
    <2>6. CASE UNCHANGED <<model, undo>>
        BY <1>0, <2>2, <2>3, <2>6, FreshSame
    <2> QED
        BY <1>4, <2>4, <2>5, <2>6 DEF ReceiveRefused
<1>5. CASE ReceiveCatchUp(c)
    <2>1. change[c].data \in OnTheWay
        BY <1>5, OnTheWayMembers DEF ReceiveCatchUp
    <2>2. FreshInViews'
        BY <1>0, <1>5, <2>1, FreshTakeOver DEF ReceiveCatchUp
    <2> QED
        BY <1>0, <1>5, <2>2, FreshPump, FreshSame DEF ReceiveCatchUp
<1> QED
    BY <1>1, <1>2, <1>3, <1>4, <1>5 DEF EditorStep

\* An edit on top of the undo stack.
LEMMA FreshPush ==
    ASSUME TypeInv, FreshInv, fresh' \subseteq fresh, NEW c \in Clients,
           NEW x \in [key : Keys, place : Places] \cup {None},
           x = None \/ x.place \notin fresh, undo' = [undo EXCEPT ![c] = <<x>> \o @]
    PROVE  FreshInUndo'
<1>1. undo[c] \in Seq([key : Keys, place : Places] \cup {None}) /\ Len(undo[c]) \in Nat
    BY LenProperties DEF TypeInv, ViewTypeOK
<1>2. <<x>> \in Seq([key : Keys, place : Places] \cup {None}) /\ Len(<<x>>) = 1 /\ <<x>>[1] = x
    OBVIOUS
<1>3. undo'[c] = <<x>> \o undo[c] /\ \A e \in Clients \ {c} : undo'[e] = undo[e]
    BY DEF TypeInv, ViewTypeOK
<1>4. \A i \in 1..Len(undo'[c]) :
          undo'[c][i] = x \/ (i - 1 \in 1..Len(undo[c]) /\ undo'[c][i] = undo[c][i - 1])
    BY <1>1, <1>2, <1>3, ConcatProperties
<1> QED
    BY <1>3, <1>4 DEF FreshInv, FreshInUndo

LEMMA FreshBuried ==
    ASSUME TypeInv, FreshInv, fresh' \subseteq fresh, NEW c \in Clients,
           undo' = [undo EXCEPT ![c] = Buried(@)]
    PROVE  FreshInUndo'
<1>1. CASE undo' = [undo EXCEPT ![c] = <<None>> \o @]
    BY <1>1, FreshPush
<1>2. CASE undo' = [undo EXCEPT ![c] = @]
    BY <1>2 DEF FreshInv, FreshInUndo, TypeInv, ViewTypeOK
<1> QED
    BY <1>1, <1>2 DEF Buried

LEMMA FreshUser ==
    ASSUME TypeInv, FreshInv, NEW c \in Clients, UserStep(c)
    PROVE  FreshInViews' /\ FreshInUndo' /\ FreshInChanges' /\ fresh' \subseteq fresh
<1>0. UNCHANGED <<sent, change>> /\ model \in [Clients -> [Keys -> Places \cup {Gone}]]
    BY DEF UserStep, Grab, LetGo, Move, Delete, Type, viewVars, knownVars, chainVars, TypeInv,
           ViewTypeOK
<1>1. fresh' \subseteq fresh
    BY DEF UserStep, Grab, LetGo, Move, Delete, Type, boundVars
<1>2. CASE LetGo(c) \/ Type(c) \/ \E k \in Keys : Grab(c, k)
    <2>1. UNCHANGED model /\ (UNCHANGED undo \/ undo' = [undo EXCEPT ![c] = Buried(@)])
        BY <1>2 DEF LetGo, Type, Grab, viewVars
    <2> QED
        BY <1>0, <1>1, <2>1, FreshSame, FreshBuried
<1>3. ASSUME NEW k \in Keys, NEW to \in Moves, Move(c, k, to) PROVE FreshInViews' /\ FreshInUndo'
    <2>1. to \notin fresh' /\ model' = [model EXCEPT ![c][k] = to]
          /\ undo' = [undo EXCEPT ![c] = Buried(@)]
        BY <1>3 DEF Move
    <2>2. FreshInViews'
        BY <1>0, <1>1, <2>1 DEF FreshInv, FreshInViews
    <2> QED
        BY <1>1, <2>1, <2>2, FreshBuried
<1>4. ASSUME NEW k \in Keys, Delete(c, k) PROVE FreshInViews' /\ FreshInUndo'
    <2> DEFINE x == [key |-> k, place |-> model[c][k]]
    <2>1. /\ model' = [model EXCEPT ![c][k] = Gone] /\ model[c][k] # Gone
          /\ undo' = [undo EXCEPT ![c] = <<x>> \o @]
        BY <1>4 DEF Delete
    <2>2. FreshInViews'
        BY <1>0, <1>1, <2>1, NoMarkerIsFresh DEF FreshInv, FreshInViews
    <2>3. x \in [key : Keys, place : Places] \cup {None} /\ x.place \notin fresh
        BY <1>0, <2>1 DEF FreshInv, FreshInViews
    <2> HIDE DEF x
    <2> QED
        BY <1>1, <2>1, <2>2, <2>3, FreshPush
<1> QED
    BY <1>0, <1>1, <1>2, <1>3, <1>4, FreshSame DEF UserStep

\* The server's places change only when it accepts a change.
LEMMA PlacesStep ==
    ASSUME TypeInv, [Next]_vars
    PROVE  UNCHANGED <<version, place>> \/ \E c \in Clients : Accepts(c)
<1>1. ASSUME NEW r \in asks, ServeLock(r) \/ ServeUnlock(r) \/ ServeGet(r)
      PROVE  UNCHANGED <<version, place>>
    BY <1>1 DEF ServeLock, ServeUnlock, ServeGet, Publish, Sweep, serverVars
<1>2. ASSUME NEW c \in Clients, ServeCatchUp(c) \/ ServerDrops(c)
      PROVE  UNCHANGED <<version, place>>
    BY <1>2 DEF ServeCatchUp, ServerDrops, Publish, Sweep
<1>3. ASSUME NEW c \in Clients, ServeChange(c) PROVE UNCHANGED <<version, place>> \/ Accepts(c)
    BY <1>3, ServeChangeCases DEF Refuses
<1>4. ASSUME NEW c \in Clients, UserStep(c) \/ EditorStep(c)
      PROVE  UNCHANGED <<version, place>>
    BY <1>4 DEF UserStep, Grab, LetGo, Move, Delete, Type, EditorStep, ReceiveTable, TimerFires,
                ReceiveDone, ReceiveRefused, ReceiveCatchUp, serverVars
<1>5. AnswerStep \/ NetworkStep => UNCHANGED <<version, place>>
    BY DEF AnswerStep, ReceiveAnswer, ReceiveLocks, NetworkStep, LoseChange, Disconnect, Reconnect,
           serverVars
<1>6. ASSUME NEW k \in Keys, LeaseExpires(k) PROVE UNCHANGED <<version, place>>
    BY <1>6 DEF LeaseExpires
<1>7. UNCHANGED vars => UNCHANGED <<version, place>>
    BY DEF vars, serverVars
<1> QED
    BY <1>1, <1>2, <1>3, <1>4, <1>5, <1>6, <1>7 DEF Next, ServerStep

LEMMA AcceptedPlaces ==
    ASSUME TypeInv, NEW c \in Clients, Accepts(c)
    PROVE  /\ change[c].at = "change" /\ change[c].key \in Keys /\ change[c].to \in Places \cup {Gone}
           /\ change[c].base = version /\ version' = version + 1
           /\ place' = [place EXCEPT ![change[c].key] = change[c].to]
           /\ place[change[c].key] = Gone => change[c].to = Gone
BY ChangeFields DEF Accepts, Publish, TypeInv, ChainTypeOK

LEMMA FreshNext == ASSUME TypeInv, FreshInv, [Next]_vars PROVE FreshInv'
<1>0. FewTables /\ change \in [Clients -> Changes]
    BY TablesNext DEF TypeInv, ChainTypeOK
<1>1. \A k \in Keys : \/ place'[k] = place[k]
                      \/ \E c \in Clients : change[c].at = "change" /\ place'[k] = change[c].to
    <2>1. ASSUME NEW c \in Clients, Accepts(c), NEW k \in Keys
          PROVE  place'[k] = place[k] \/ (change[c].at = "change" /\ place'[k] = change[c].to)
        BY <2>1, AcceptedPlaces DEF TypeInv, ServerTypeOK
    <2> QED
        BY <2>1, PlacesStep
<1>2. CASE fresh' \subseteq fresh /\ UNCHANGED <<model, sent, undo, change>>
    BY <1>0, <1>1, <1>2, FreshServer, FreshSame DEF FreshInv
<1>3. ASSUME NEW c \in Clients, UserStep(c) PROVE FreshInv'
    BY <1>0, <1>1, <1>3, FreshUser, FreshServer DEF FreshInv
<1>4. ASSUME NEW c \in Clients, EditorStep(c) PROVE FreshInv'
    <2>1. fresh' \subseteq fresh
        BY <1>4 DEF EditorStep, ReceiveTable, TimerFires, ReceiveDone, ReceiveRefused,
                    ReceiveCatchUp, boundVars
    <2> QED
        BY <1>0, <1>1, <1>4, <2>1, FreshEditor, FreshServer DEF FreshInv
<1>5. ASSUME NEW r \in answers, ReceiveAnswer(r) PROVE FreshInv'
    <2>1. r.from \in Clients /\ r.data \in OnTheWay
        BY OnTheWayMembers DEF TypeInv, AskTypeOK
    <2>2. fresh' \subseteq fresh /\ UNCHANGED <<undo, change>>
        BY <1>5 DEF ReceiveAnswer, chainVars, boundVars
    <2>3. FreshInViews'
        BY <1>5, <2>1, <2>2, FreshTakeOver DEF ReceiveAnswer
    <2> QED
        BY <1>0, <1>1, <2>2, <2>3, FreshServer, FreshSame DEF FreshInv
<1>6. ASSUME NEW r \in answers, ReceiveLocks(r) PROVE FreshInv'
    BY <1>2, <1>6 DEF ReceiveLocks, knownVars, chainVars, boundVars
<1>7. ASSUME NEW c \in Clients, ServeChange(c) \/ ServeCatchUp(c) PROVE FreshInv'
    <2>1. /\ fresh' \subseteq fresh /\ UNCHANGED <<model, sent, undo>>
          /\ change[c].at # "none" /\ \A e \in Clients \ {c} : change'[e] = change[e]
        BY <1>0, <1>7 DEF ServeChange, ServeCatchUp, Answered, viewVars, knownVars, boundVars
    <2>2. change'[c].to = change[c].to
        <3>1. CASE ServeCatchUp(c)
            BY <1>0, <3>1 DEF ServeCatchUp, Answered
        <3>2. CASE ServeChange(c)
            <4>1. change[c] \in [at : {"change", "done", "refused"}, key : Keys,
                                 to : Places \cup {Gone}, base : Nat, seen : Agreed \cup {Blurred}]
                BY <1>0, <3>2, ChangeFields DEF ServeChange
            <4> QED
                BY <1>0, <3>2, <4>1 DEF ServeChange, Answered
        <3> QED
            BY <1>7, <3>1, <3>2
    <2>3. FreshInChanges'
        BY <2>1, <2>2 DEF FreshInv, FreshInChanges
    <2> QED
        BY <1>0, <1>1, <2>1, <2>3, FreshServer, FreshSame DEF FreshInv
<1>8. ASSUME NEW r \in asks, ServeLock(r) \/ ServeUnlock(r) \/ ServeGet(r) PROVE FreshInv'
    BY <1>2, <1>8 DEF ServeLock, ServeUnlock, ServeGet, viewVars, knownVars, chainVars, boundVars
<1>9. ASSUME NEW c \in Clients, ServerDrops(c) \/ Disconnect(c) \/ Reconnect(c) PROVE FreshInv'
    BY <1>2, <1>9 DEF ServerDrops, Disconnect, Reconnect, viewVars, knownVars, chainVars, boundVars
<1>10. ASSUME NEW c \in Clients, LoseChange(c) PROVE FreshInv'
    <2>1. fresh' \subseteq fresh /\ UNCHANGED <<model, sent, undo>> /\ Pump(c, todo[c])
          /\ todo[c] \in Seq(SUBSET Keys)
        BY <1>10 DEF LoseChange, TypeInv, ChainTypeOK
    <2>2. FreshInViews' /\ FreshInUndo'
        BY <2>1, FreshSame
    <2> QED
        BY <1>0, <1>1, <2>1, <2>2, FreshServer, FreshPump DEF FreshInv
<1>11. ASSUME NEW k \in Keys, LeaseExpires(k) PROVE FreshInv'
    BY <1>2, <1>11 DEF LeaseExpires, viewVars, knownVars, chainVars
<1>12. CASE UNCHANGED vars
    BY <1>2, <1>12 DEF vars, viewVars, knownVars, chainVars, boundVars
<1> QED
    BY <1>3, <1>4, <1>5, <1>6, <1>7, <1>8, <1>9, <1>10, <1>11, <1>12
       DEF Next, AnswerStep, ServerStep, NetworkStep

-----------------------------------------------------------------------------
(* What is agreed on is the table *)

\* The editor takes for agreed what the server has, or its user's change was dropped.
AgreedOn(c, k) ==
    \/ sent[c][k] = Where(place[k]) \/ (sent[c][k] = Absent /\ place[k] = Gone)
    \/ <<c, k>> \in astray

Agrees(c) == ver[c] = version /\ c \notin blurred => \A k \in Keys : AgreedOn(c, k)

\* The same of an editor that has not heard yet that its change was made.
AgreesAside(c) ==
    LET r == change[c] IN
    r.at = "done" /\ r.base + 1 = version /\ c \notin blurred =>
        \A k \in Keys \ {r.key} : AgreedOn(c, k)

\* What holds of every version: a drawing that nobody moved is agreed to be at home, and only
\* what is gone is agreed to be.
StartsAtHome(c) == \A k \in Keys : place[k] = Unmoved => AgreedOn(c, k)
GoneIsGone(c) == \A k \in Keys : sent[c][k] = Gone => place[k] = Gone

\* A refused move that the drawing still shows came back with an undone deletion.
ShownIsAstray(c) ==
    \A k \in Keys :
        Refused(c, k) /\ Changed(model, sent, c, k) /\ sent[c][k] \notin {Gone, Absent} =>
            <<c, k>> \in astray

\* What was done stays done.
DoneLasts(c) ==
    LET r == change[c] IN
    r.at = "done" => place[r.key] # Unmoved /\ (r.to = Gone => place[r.key] = Gone)

UnmovedInTables == \A d \in OnTheWay, k \in Keys : place[k] = Unmoved => d.place[k] = Unmoved

AgreeOf(c) ==
    /\ Agrees(c) /\ AgreesAside(c) /\ StartsAtHome(c) /\ GoneIsGone(c) /\ ShownIsAstray(c)
    /\ DoneLasts(c)

AgreeInv == UnmovedInTables /\ \A c \in Clients : AgreeOf(c)

LEMMA AgreeInit == Init => AgreeInv
<1> SUFFICES ASSUME Init PROVE AgreeInv
    OBVIOUS
<1>1. OnTheWay = {}
    BY OnTheWayMembers DEF Init
<1>2. Home # Gone
    BY SheetAssumption DEF SheetAssumption, Places
<1> USE DEF Init
<1>3. \A c \in Clients, k \in Keys : AgreedOn(c, k)
    BY DEF AgreedOn, Where
<1>4. ASSUME NEW c \in Clients PROVE AgreeOf(c)
    <2>1. Agrees(c) /\ AgreesAside(c) /\ StartsAtHome(c)
        BY <1>3 DEF Agrees, AgreesAside, StartsAtHome
    <2>2. GoneIsGone(c) /\ ShownIsAstray(c) /\ DoneLasts(c)
        BY <1>2 DEF GoneIsGone, ShownIsAstray, DoneLasts, Refused
    <2> QED
        BY <2>1, <2>2 DEF AgreeOf
<1> QED
    BY <1>1, <1>4 DEF AgreeInv, UnmovedInTables

LEMMA UnmovedStays ==
    ASSUME TypeInv, UnmovedInTables, FewTables, [Next]_vars PROVE UnmovedInTables'
<1>1. \A k \in Keys : place'[k] = Unmoved => place[k] = Unmoved
    <2>1. ASSUME NEW c \in Clients, Accepts(c), NEW k \in Keys, place'[k] = Unmoved
          PROVE  place[k] = Unmoved
        <3>1. change[c].to # Unmoved
            BY <2>1, AcceptedPlaces, SheetAssumption DEF SheetAssumption
        <3> QED
            BY <2>1, <3>1, AcceptedPlaces DEF TypeInv, ServerTypeOK
    <2> QED
        BY <2>1, PlacesStep
<1> QED
    BY <1>1 DEF UnmovedInTables, FewTables, IsCurrent

\* An editor that nothing happens to, or whose request goes on.
LEMMA AgreeRests ==
    ASSUME TypeInv, UNCHANGED <<version, place>>, NEW c \in Clients, AgreeOf(c),
           ver'[c] = ver[c], sent'[c] = sent[c], model'[c] = model[c],
           c \in blurred' <=> c \in blurred, \A k \in Keys : <<c, k>> \in astray => <<c, k>> \in astray',
           \/ change'[c] = change[c]
           \/ change'[c].at \in {"none", "change", "refused"}
           \/ /\ change'[c].at = "got" /\ change[c].at = "get"
              /\ change'[c].key = change[c].key /\ change'[c].to = change[c].to
    PROVE  AgreeOf(c)'
<1>1. \A k \in Keys : AgreedOn(c, k) => AgreedOn(c, k)'
    BY DEF AgreedOn
<1>2. Agrees(c)' /\ StartsAtHome(c)' /\ GoneIsGone(c)'
    BY <1>1 DEF AgreeOf, Agrees, StartsAtHome, GoneIsGone
<1>3. AgreesAside(c)'
    BY <1>1 DEF AgreeOf, AgreesAside
<1>4. ShownIsAstray(c)'
    BY DEF AgreeOf, ShownIsAstray, Refused, Changed
<1>5. DoneLasts(c)'
    BY DEF AgreeOf, DoneLasts
<1> QED
    BY <1>2, <1>3, <1>4, <1>5 DEF AgreeOf

LEMMA AllAgree ==
    ASSUME TypeInv, AgreeInv, UNCHANGED <<version, place, ver, sent, model, blurred, change>>,
           astray \subseteq astray'
    PROVE  \A c \in Clients : AgreeOf(c)'
BY AgreeRests DEF AgreeInv

\* Which changes were dropped, after a table was taken over.
LEMMA TakeOverAstray ==
    ASSUME TypeInv, NEW c \in Clients, NEW d, TakeOver(c, d)
    PROVE  /\ \A k \in Keys : <<c, k>> \in astray' <=> k \in Dropped(c, d)
           /\ \A e \in Clients \ {c}, k \in Keys : <<e, k>> \in astray' <=> <<e, k>> \in astray
<1>1. astray' = {p \in astray : p[1] # c} \cup ({c} \X Dropped(c, d)) /\ Dropped(c, d) \subseteq Keys
    BY DEF TakeOver, Dropped
<1>2. \A e \in Clients, k \in Keys : <<e, k>>[1] = e
    OBVIOUS
<1> QED
    BY <1>1, <1>2

\* Where the table shows what the server has, the editor takes over just that.
LEMMA TakeOverAgrees ==
    ASSUME TypeInv, UNCHANGED place, NEW c \in Clients, AgreeOf(c), NEW d \in OnTheWay,
           TakeOver(c, d), NEW k \in Keys, d.place[k] = place[k]
    PROVE  AgreedOn(c, k)'
<1>1. /\ sent'[c][k] = IF Applied(c, d)[k] = Gone THEN Absent ELSE Applied(c, d)[k]
      /\ place[k] \in Places \cup {Unmoved, Gone} /\ model[c][k] \in Places \cup {Gone}
    BY DEF TakeOver, TypeInv, ViewTypeOK, ServerTypeOK, Baseline
<1>2. Applied(c, d)[k] = IF place[k] = Gone THEN Gone
                         ELSE IF place[k] = Unmoved \/ model[c][k] = Gone THEN model[c][k]
                         ELSE place[k]
    BY DEF Applied
<1>3. <<c, k>> \in astray' <=>
          /\ Applied(c, d)[k] # Where(place[k])
          /\ (Changed(model, sent, c, k) /\ ~ Refused(c, k)) \/ <<c, k>> \in astray
    BY TakeOverAstray DEF Dropped
<1>4. Gone \notin Places /\ Unmoved \notin Places /\ Absent \notin Places /\ Unmoved # Gone
      /\ Absent # Gone /\ Home \in Places
    BY SheetAssumption DEF SheetAssumption, Places
<1>5. CASE place[k] = Gone
    BY <1>1, <1>2, <1>5 DEF AgreedOn
<1>6. CASE place[k] # Gone /\ model[c][k] = Gone
    <2>1. sent[c][k] # Gone
        BY <1>6 DEF AgreeOf, GoneIsGone
    <2>2. Changed(model, sent, c, k) /\ ~ Refused(c, k)
        BY <1>6, <2>1 DEF Changed, Refused
    <2>3. Where(place[k]) # Gone
        BY <1>4, <1>6 DEF Where
    <2> QED
        BY <1>2, <1>3, <1>6, <2>2, <2>3 DEF AgreedOn
<1>7. CASE place[k] = Unmoved /\ model[c][k] # Gone
    <2>1. Applied(c, d)[k] = model[c][k] /\ Where(place[k]) = Home
        BY <1>2, <1>4, <1>7 DEF Where
    <2>2. CASE model[c][k] = Home
        BY <1>1, <1>4, <2>1, <2>2 DEF AgreedOn
    <2>3. CASE model[c][k] # Home
        <3>1. AgreedOn(c, k)
            BY <1>7 DEF AgreeOf, StartsAtHome
        <3>2. sent[c][k] = Home \/ <<c, k>> \in astray
            BY <1>4, <1>7, <2>1, <3>1 DEF AgreedOn
        <3>3. CASE sent[c][k] = Home
            <4>1. Changed(model, sent, c, k) /\ sent[c][k] \notin {Gone, Absent}
                BY <1>4, <2>3, <3>3 DEF Changed
            <4>2. Refused(c, k) => <<c, k>> \in astray
                BY <4>1 DEF AgreeOf, ShownIsAstray
            <4> QED
                BY <1>3, <2>1, <2>3, <4>1, <4>2 DEF AgreedOn
        <3> QED
            BY <1>3, <2>1, <2>3, <3>2, <3>3 DEF AgreedOn
    <2> QED
        BY <2>2, <2>3
<1>8. CASE place[k] \in Places /\ model[c][k] # Gone
    BY <1>1, <1>2, <1>4, <1>8 DEF AgreedOn, Where
<1> QED
    BY <1>1, <1>5, <1>6, <1>7, <1>8

LEMMA AgreeTakesOver ==
    ASSUME TypeInv, SheetInv, AgreeInv, UNCHANGED <<version, place>>, NEW c \in Clients,
           NEW d \in OnTheWay, TakeOver(c, d)
    PROVE  Agrees(c)' /\ StartsAtHome(c)' /\ GoneIsGone(c)' /\ ShownIsAstray(c)'
<1>1. AgreeOf(c)
    BY DEF AgreeInv
<1>2. \A k \in Keys : d.place[k] = place[k] => AgreedOn(c, k)'
    BY <1>1, TakeOverAgrees
<1>3. ver'[c] = d.version
    BY DEF TakeOver, TypeInv, ViewTypeOK
<1>4. \A k \in Keys : sent'[c][k] = IF model'[c][k] = Gone THEN Absent ELSE model'[c][k]
    BY DEF TakeOver, TypeInv, ViewTypeOK, Baseline
<1>5. Agrees(c)'
    BY <1>2, <1>3 DEF Agrees, SheetInv, TablesAreOld
<1>6. StartsAtHome(c)'
    BY <1>2 DEF StartsAtHome, AgreeInv, UnmovedInTables
<1>7. GoneIsGone(c)'
    BY <1>4, SheetAssumption DEF GoneIsGone, SheetAssumption
<1>8. ShownIsAstray(c)'
    BY <1>4 DEF ShownIsAstray, Refused, Changed
<1> QED
    BY <1>5, <1>6, <1>7, <1>8

\* An editor whose change was made, and that takes over a table before it hears of it.
LEMMA AgreeTakesOverAside ==
    ASSUME TypeInv, SheetInv, AgreeInv, UNCHANGED <<version, place, change>>, NEW c \in Clients,
           NEW d \in OnTheWay, TakeOver(c, d)
    PROVE  AgreeOf(c)'
<1> DEFINE r == change[c]
<1>1. AgreesAside(c)'
    <2> SUFFICES ASSUME r.at = "done", r.base + 1 = version, c \notin blurred',
                        NEW k \in Keys \ {r.key}
                 PROVE  AgreedOn(c, k)'
        BY DEF AgreesAside
    <2>1. d \in Tables /\ d.version \in Nat /\ version \in Nat /\ told[c] \in Nat /\ r.base \in Nat
        BY TablesTypes, ChangeFields DEF Tables, TypeInv, ServerTypeOK, ViewTypeOK, ChainTypeOK
    <2>2. d.version <= version /\ told[c] <= d.version /\ r.base <= told[c]
        BY <2>1 DEF TakeOver, SheetInv, TablesAreOld, DoneOnView
    <2>3. d.version = version \/ d.version = r.base
        BY <2>1, <2>2
    <2>4. d.place[k] = place[k]
        BY <2>3 DEF SheetInv, TablesAreOld, DoneOnView
    <2> QED
        BY <2>4, TakeOverAgrees DEF AgreeInv
<1>2. DoneLasts(c)'
    BY DEF AgreeInv, AgreeOf, DoneLasts
<1> QED
    BY <1>1, <1>2, AgreeTakesOver DEF AgreeOf

LEMMA AgreeOthers ==
    ASSUME TypeInv, AgreeInv, UNCHANGED <<version, place>>, NEW c \in Clients, AgreeOf(c)',
           \A e \in Clients \ {c} :
               /\ ver'[e] = ver[e] /\ sent'[e] = sent[e] /\ model'[e] = model[e]
               /\ e \in blurred' <=> e \in blurred
               /\ \A k \in Keys : <<e, k>> \in astray => <<e, k>> \in astray'
               /\ change'[e] = change[e]
    PROVE  \A e \in Clients : AgreeOf(e)'
BY AgreeRests DEF AgreeInv

LEMMA TakeOverNoOther ==
    ASSUME TypeInv, NEW c \in Clients, NEW d, TakeOver(c, d), NEW e \in Clients \ {c}
    PROVE  /\ ver'[e] = ver[e] /\ sent'[e] = sent[e] /\ model'[e] = model[e]
           /\ e \in blurred' <=> e \in blurred
           /\ \A k \in Keys : <<e, k>> \in astray => <<e, k>> \in astray'
<1>1. model'[e] = model[e]
    BY DEF TakeOver, TypeInv, ViewTypeOK
<1> QED
    BY <1>1, TakeOverOthers, TakeOverAstray

LEMMA AgreeDone ==
    ASSUME TypeInv, SheetInv, AgreeInv, NEW c \in Clients, ReceiveDone(c)
    PROVE  AgreeOf(c)'
<1> DEFINE r == change[c]
<1>1. /\ r.at = "done" /\ r.key \in Keys /\ r.base \in Nat /\ r.to \in Places \cup {Gone}
      /\ todo[c] \in Seq(SUBSET Keys) /\ sent[c] \in Agreed
    BY ChangeFields DEF ReceiveDone, TypeInv, ChainTypeOK, ViewTypeOK
<1>2. /\ ver'[c] = r.base + 1 /\ sent'[c] = [sent[c] EXCEPT ![r.key] = r.to]
      /\ UNCHANGED <<version, place, blurred>>
    BY DEF ReceiveDone, TypeInv, ViewTypeOK, serverVars
<1>3. change'[c].at \in {"none", "change"}
    BY <1>1, PumpChange DEF ReceiveDone
<1>4. \A k \in Keys \ {r.key} : <<c, k>> \in astray => <<c, k>> \in astray'
    BY DEF ReceiveDone
<1>5. /\ \A k \in Keys \ {r.key} : sent'[c][k] = sent[c][k]
      /\ sent'[c][r.key] = r.to
    BY <1>1, <1>2 DEF Agreed
<1>6. \A k \in Keys \ {r.key} : AgreedOn(c, k) => AgreedOn(c, k)'
    BY <1>2, <1>4, <1>5 DEF AgreedOn
<1>7. place[r.key] # Unmoved /\ (r.to = Gone => place[r.key] = Gone)
    BY <1>1 DEF AgreeInv, AgreeOf, DoneLasts
<1>8. Agrees(c)'
    <2> SUFFICES ASSUME r.base + 1 = version, c \notin blurred, NEW k \in Keys
                 PROVE  AgreedOn(c, k)'
        BY <1>2 DEF Agrees
    <2>1. CASE k # r.key
        BY <1>1, <1>6, <2>1 DEF AgreeInv, AgreeOf, AgreesAside
    <2>2. CASE k = r.key
        <3>1. place[r.key] = r.to
            BY <1>1 DEF SheetInv, DoneOnView
        <3> QED
            BY <1>2, <1>5, <1>7, <2>2, <3>1 DEF AgreedOn, Where
    <2> QED
        BY <2>1, <2>2
<1>9. StartsAtHome(c)'
    BY <1>2, <1>6, <1>7 DEF AgreeInv, AgreeOf, StartsAtHome
<1>10. GoneIsGone(c)'
    BY <1>2, <1>5, <1>7 DEF AgreeInv, AgreeOf, GoneIsGone
<1>11. AgreesAside(c)' /\ ShownIsAstray(c)' /\ DoneLasts(c)'
    BY <1>3 DEF AgreesAside, ShownIsAstray, DoneLasts, Refused
<1> QED
    BY <1>8, <1>9, <1>10, <1>11 DEF AgreeOf

\* A refused move is taken back: only one that an undone deletion brought back is still shown.
LEMMA AgreeRefused ==
    ASSUME TypeInv, AgreeInv, NEW c \in Clients, ReceiveRefused(c)
    PROVE  AgreeOf(c)'
<1> DEFINE k == change[c].key
           top == Head(undo[c])
<1>1. /\ k \in Keys /\ UNCHANGED <<version, place, sent, ver, blurred>>
      /\ change'[c] = [at |-> "get", key |-> k, to |-> change[c].to]
      /\ model[c] \in [Keys -> Places \cup {Gone}] /\ model \in [Clients -> [Keys -> Places \cup {Gone}]]
    BY ChangeFields DEF ReceiveRefused, Answered, TypeInv, ChainTypeOK, ViewTypeOK, serverVars
<1>2. change'[c].at = "get" /\ change'[c].key = k /\ change'[c].to = change[c].to
    BY <1>1
<1>3. astray \subseteq astray'
    BY DEF ReceiveRefused
<1>4. \A j \in Keys : AgreedOn(c, j) => AgreedOn(c, j)'
    BY <1>1, <1>3 DEF AgreedOn
<1>5. Agrees(c)' /\ StartsAtHome(c)' /\ GoneIsGone(c)'
    BY <1>1, <1>4 DEF AgreeInv, AgreeOf, Agrees, StartsAtHome, GoneIsGone
<1>6. AgreesAside(c)' /\ DoneLasts(c)'
    BY <1>2 DEF AgreesAside, DoneLasts
<1>7. ShownIsAstray(c)'
    <2> SUFFICES ASSUME change[c].to # Gone, change[c].to = model'[c][k],
                        model'[c][k] # sent[c][k], sent[c][k] \notin {Gone, Absent}
                 PROVE  <<c, k>> \in astray'
        BY <1>1, <1>2 DEF ShownIsAstray, Refused, Changed
    <2>1. CASE model[c][k] # Gone
        <3>1. model'[c] = [model[c] EXCEPT ![k] = sent[c][k]]
            BY <1>1, <2>1 DEF ReceiveRefused, Reverted
        <3> QED
            BY <1>1, <3>1
    <2>2. CASE /\ model[c][k] = Gone /\ undo[c] # <<>> /\ top # None
               /\ model' = [model EXCEPT ![c][top.key] = top.place]
               /\ astray' = IF top = [key |-> k, place |-> change[c].to]
                            THEN astray \cup {<<c, k>>} ELSE astray
        <3>1. undo[c] \in Seq([key : Keys, place : Places] \cup {None})
            BY DEF TypeInv, ViewTypeOK
        <3>2. top \in [key : Keys, place : Places]
            BY <2>2, <3>1, HeadTailProperties
        <3> HIDE DEF top
        <3>3. top.key = k /\ top.place = change[c].to
            BY <1>1, <2>2, <3>2
        <3>4. top = [key |-> k, place |-> change[c].to]
            BY <3>2, <3>3
        <3> QED
            BY <2>2, <3>4
    <2>3. CASE model[c][k] = Gone /\ UNCHANGED model
        BY <2>3
    <2> QED
        BY <2>1, <2>2, <2>3 DEF ReceiveRefused
<1> QED
    BY <1>5, <1>6, <1>7 DEF AgreeOf

LEMMA AgreeEditor ==
    ASSUME TypeInv, SheetInv, AgreeInv, NEW c \in Clients, EditorStep(c)
    PROVE  \A e \in Clients : AgreeOf(e)'
<1>0. /\ change[c] \in Changes /\ todo[c] \in Seq(SUBSET Keys)
      /\ change \in [Clients -> Changes]
    BY DEF TypeInv, ChainTypeOK
<1>1. CASE ReceiveTable(c)
    <2>1. chan[c] \in Seq(Tables) /\ chan[c] # <<>> /\ chan \in [Clients -> Seq(Tables)]
        BY <1>1 DEF ReceiveTable, TypeInv, ServerTypeOK
    <2>2. Head(chan[c]) = chan[c][1] /\ 1 \in 1..Len(chan[c])
        BY <2>1, HeadTailProperties, LenProperties
    <2>3. Head(chan[c]) \in OnTheWay
        BY <2>2, OnTheWayMembers
    <2>4. UNCHANGED <<version, place, change>> /\ TakeOver(c, Head(chan[c]))
        BY <1>1 DEF ReceiveTable, chainVars
    <2> QED
        BY <2>3, <2>4, AgreeTakesOverAside, TakeOverNoOther, AgreeOthers
<1>2. CASE TimerFires(c)
    <2>1. /\ Queue(c) \in Seq(SUBSET Keys)
          /\ UNCHANGED <<version, place, ver, sent, model, blurred, astray>>
        BY <1>2 DEF TimerFires, Queue, serverVars, viewVars, knownVars
    <2>2. UNCHANGED change \/ Pump(c, Queue(c))
        BY <1>2 DEF TimerFires
    <2>3. \A e \in Clients : change'[e] = change[e] \/ change'[e].at \in {"none", "change"}
        BY <2>1, <2>2, PumpChange
    <2> QED
        BY <2>1, <2>3, AgreeRests DEF AgreeInv
<1>3. CASE ReceiveDone(c)
    <2>1. ASSUME NEW e \in Clients \ {c}
          PROVE  /\ ver'[e] = ver[e] /\ sent'[e] = sent[e] /\ change'[e] = change[e]
                 /\ \A k \in Keys : <<e, k>> \in astray => <<e, k>> \in astray'
        BY <1>0, <1>3, PumpChange DEF ReceiveDone, TypeInv, ViewTypeOK
    <2>2. UNCHANGED <<version, place, model, blurred>>
        BY <1>3 DEF ReceiveDone, serverVars
    <2> QED
        BY <1>3, <2>1, <2>2, AgreeDone, AgreeOthers
<1>4. CASE ReceiveRefused(c)
    <2>1. ASSUME NEW e \in Clients \ {c} PROVE model'[e] = model[e] /\ change'[e] = change[e]
        BY <1>0, <1>4 DEF ReceiveRefused, Answered, TypeInv, ViewTypeOK
    <2>2. UNCHANGED <<version, place, ver, sent, blurred>> /\ astray \subseteq astray'
        BY <1>4 DEF ReceiveRefused, serverVars
    <2> QED
        BY <1>4, <2>1, <2>2, AgreeRefused, AgreeOthers
<1>5. CASE ReceiveCatchUp(c)
    <2>1. /\ change[c].at = "got" /\ TakeOver(c, change[c].data) /\ Pump(c, todo[c])
          /\ UNCHANGED <<version, place>>
        BY <1>5 DEF ReceiveCatchUp, serverVars
    <2>2. change[c].data \in OnTheWay
        BY <2>1, OnTheWayMembers
    <2>3. change'[c].at \in {"none", "change"} /\ \A e \in Clients \ {c} : change'[e] = change[e]
        BY <2>1, PumpChange
    <2>4. AgreesAside(c)' /\ DoneLasts(c)'
        BY <2>3 DEF AgreesAside, DoneLasts
    <2>5. AgreeOf(c)'
        BY <2>1, <2>2, <2>4, AgreeTakesOver DEF AgreeOf
    <2> QED
        BY <2>1, <2>3, <2>5, TakeOverNoOther, AgreeOthers
<1> QED
    BY <1>1, <1>2, <1>3, <1>4, <1>5 DEF EditorStep

\* The author of a change that is accepted had agreed on the rest of the table.
LEMMA AgreeAccepts ==
    ASSUME TypeInv, SheetInv, AgreeInv, NEW c \in Clients, Accepts(c),
           UNCHANGED <<ver, sent, model, blurred, astray>>
    PROVE  \A e \in Clients : AgreeOf(e)'
<1> DEFINE r == change[c]
<1>0. /\ version \in Nat /\ place \in [Keys -> Places \cup {Unmoved, Gone}]
      /\ change \in [Clients -> Changes] /\ r \in Changes
    BY DEF TypeInv, ServerTypeOK, ChainTypeOK
<1>1. /\ r.at = "change" /\ r.key \in Keys /\ r.to \in Places \cup {Gone} /\ r.base = version
      /\ version' = version + 1 /\ place' = [place EXCEPT ![r.key] = r.to]
      /\ place[r.key] = Gone => r.to = Gone
    BY AcceptedPlaces
<1>2. Unmoved \notin Places \cup {Gone}
    BY SheetAssumption DEF SheetAssumption
<1>3. /\ \A k \in Keys \ {r.key} : place'[k] = place[k]
      /\ place'[r.key] = r.to /\ place'[r.key] # Unmoved
    BY <1>0, <1>1, <1>2
<1>4. /\ change'[c].at = "done" /\ change'[c].key = r.key /\ change'[c].to = r.to
      /\ change'[c].base = version /\ \A e \in Clients \ {c} : change'[e] = change[e]
    <2>1. r \in [at : {"change", "done", "refused"}, key : Keys, to : Places \cup {Gone},
                 base : Nat, seen : Agreed \cup {Blurred}]
        BY <1>0, <1>1, ChangeFields
    <2>2. change'[c] = [r EXCEPT !.at = "done"]
        BY <1>0 DEF Accepts, Answered
    <2> QED
        BY <1>0, <1>1, <2>1, <2>2 DEF Accepts, Answered
<1>5. \A e \in Clients, k \in Keys \ {r.key} : AgreedOn(e, k) => AgreedOn(e, k)'
    BY <1>3 DEF AgreedOn
<1>6. ASSUME NEW e \in Clients PROVE Agrees(e)' /\ StartsAtHome(e)' /\ GoneIsGone(e)'
    <2>1. ver[e] \in Nat /\ told[e] \in Nat /\ ver[e] <= version
        BY <1>0 DEF SheetInv, ViewIsOld, TypeInv, ViewTypeOK
    <2>2. Agrees(e)'
        BY <1>0, <1>1, <2>1 DEF Agrees
    <2>3. StartsAtHome(e)'
        BY <1>3, <1>5 DEF AgreeInv, AgreeOf, StartsAtHome
    <2>4. GoneIsGone(e)'
        BY <1>1, <1>3 DEF AgreeInv, AgreeOf, GoneIsGone
    <2> QED
        BY <2>2, <2>3, <2>4
<1>7. ASSUME NEW e \in Clients \ {c} PROVE AgreesAside(e)' /\ ShownIsAstray(e)' /\ DoneLasts(e)'
    <2>1. change[e].at = "done" => change[e].base \in Nat /\ change[e].base + 1 <= version
        BY <1>0, ChangeFields DEF SheetInv, DoneOnView
    <2>2. AgreesAside(e)'
        BY <1>0, <1>1, <1>4, <2>1 DEF AgreesAside
    <2>3. ShownIsAstray(e)'
        BY <1>4 DEF AgreeInv, AgreeOf, ShownIsAstray, Refused, Changed
    <2>4. DoneLasts(e)'
        <3> SUFFICES ASSUME change[e].at = "done" PROVE DoneLasts(e)'
            BY <1>4 DEF DoneLasts
        <3>1. /\ change[e].key \in Keys /\ place[change[e].key] # Unmoved
              /\ change[e].to = Gone => place[change[e].key] = Gone
            BY <1>0, ChangeFields DEF AgreeInv, AgreeOf, DoneLasts
        <3> QED
            BY <1>1, <1>3, <1>4, <3>1 DEF DoneLasts
    <2> QED
        BY <2>2, <2>3, <2>4
<1>8. AgreesAside(c)' /\ ShownIsAstray(c)' /\ DoneLasts(c)'
    <2>1. c \in blurred \/ ver[c] = version
        BY <1>1 DEF SheetInv, AskedOnView
    <2>2. AgreesAside(c)'
        BY <1>4, <1>5, <2>1 DEF AgreesAside, AgreeInv, AgreeOf, Agrees
    <2>3. ShownIsAstray(c)' /\ DoneLasts(c)'
        BY <1>3, <1>4 DEF ShownIsAstray, Refused, DoneLasts
    <2> QED
        BY <2>2, <2>3
<1> QED
    BY <1>6, <1>7, <1>8 DEF AgreeOf

LEMMA AgreeServer ==
    ASSUME TypeInv, SheetInv, AgreeInv, NEW c \in Clients,
           ServeChange(c) \/ ServeCatchUp(c) \/ ServerDrops(c)
    PROVE  \A e \in Clients : AgreeOf(e)'
<1>0. /\ change \in [Clients -> Changes] /\ change[c] \in Changes
      /\ UNCHANGED <<ver, sent, model, blurred, astray>>
    BY DEF ServeChange, ServeCatchUp, ServerDrops, TypeInv, ChainTypeOK, viewVars, knownVars
<1>1. CASE ServeChange(c)
    <2>1. CASE Refuses(c)
        <3>1. change[c] \in [at : {"change", "done", "refused"}, key : Keys,
                             to : Places \cup {Gone}, base : Nat, seen : Agreed \cup {Blurred}]
            BY <1>0, <2>1, ChangeFields DEF Refuses
        <3>2. \A e \in Clients : change'[e] = change[e] \/ change'[e].at = "refused"
            BY <1>0, <2>1, <3>1 DEF Refuses, Answered
        <3>3. UNCHANGED <<version, place>>
            BY <2>1 DEF Refuses
        <3> QED
            BY <1>0, <3>2, <3>3, AgreeRests DEF AgreeInv
    <2> QED
        BY <1>0, <1>1, <2>1, ServeChangeCases, AgreeAccepts
<1>2. CASE ServeCatchUp(c)
    <2>1. /\ UNCHANGED <<version, place>> /\ change[c].at = "get"
          /\ \A e \in Clients \ {c} : change'[e] = change[e]
          /\ change'[c] = [at |-> "got", key |-> change[c].key, to |-> change[c].to,
                           data |-> Snapshot]
        BY <1>0, <1>2 DEF ServeCatchUp, Sweep, Answered
    <2>2. /\ change'[c].at = "got" /\ change'[c].key = change[c].key
          /\ change'[c].to = change[c].to
        BY <2>1
    <2> QED
        BY <1>0, <2>1, <2>2, AgreeRests DEF AgreeInv
<1>3. CASE ServerDrops(c)
    <2>1. UNCHANGED <<version, place, change>>
        BY <1>3 DEF ServerDrops, Publish, chainVars
    <2> QED
        BY <1>0, <2>1, AllAgree
<1> QED
    BY <1>1, <1>2, <1>3

\* The user drags to a place that no refused change was about.
LEMMA AgreeUser ==
    ASSUME TypeInv, AgreeInv, FreshInv, NEW c \in Clients, UserStep(c)
    PROVE  \A e \in Clients : AgreeOf(e)'
<1>0. /\ UNCHANGED <<version, place, ver, sent, blurred, astray, change>>
      /\ model \in [Clients -> [Keys -> Places \cup {Gone}]]
    BY DEF UserStep, Grab, LetGo, Move, Delete, Type, serverVars, viewVars, knownVars, chainVars,
           TypeInv, ViewTypeOK
<1>1. CASE LetGo(c) \/ Type(c) \/ \E k \in Keys : Grab(c, k)
    <2>1. UNCHANGED model
        BY <1>1 DEF LetGo, Type, Grab, viewVars
    <2> QED
        BY <1>0, <2>1, AllAgree
<1>2. ASSUME NEW k \in Keys, NEW to \in fresh \cup {Gone}, model' = [model EXCEPT ![c][k] = to]
      PROVE  \A e \in Clients : AgreeOf(e)'
    <2>1. ASSUME NEW e \in Clients, NEW j \in Keys, change[e].at \in {"get", "got"},
                 change[e].to # Gone, change[e].to = model'[e][j]
          PROVE  model'[e][j] = model[e][j]
        <3>1. change[e].to \notin fresh
            BY <2>1 DEF FreshInv, FreshInChanges
        <3> QED
            BY <1>0, <1>2, <2>1, <3>1
    <2>2. ASSUME NEW e \in Clients PROVE ShownIsAstray(e)'
        <3> SUFFICES ASSUME NEW j \in Keys, Refused(e, j)', Changed(model, sent, e, j)',
                            sent[e][j] \notin {Gone, Absent}
                     PROVE  <<e, j>> \in astray
            BY <1>0 DEF ShownIsAstray
        <3>1. model'[e][j] = model[e][j]
            BY <1>0, <2>1 DEF Refused
        <3> QED
            BY <1>0, <3>1 DEF AgreeInv, AgreeOf, ShownIsAstray, Refused, Changed
    <2>3. ASSUME NEW e \in Clients
          PROVE  /\ Agrees(e)' /\ AgreesAside(e)' /\ StartsAtHome(e)' /\ GoneIsGone(e)'
                 /\ DoneLasts(e)'
        <3>1. AgreeOf(e) /\ \A j \in Keys : AgreedOn(e, j) => AgreedOn(e, j)'
            BY <1>0 DEF AgreeInv, AgreedOn
        <3> QED
            BY <1>0, <3>1 DEF AgreeOf, Agrees, AgreesAside, StartsAtHome, GoneIsGone, DoneLasts
    <2> QED
        BY <2>2, <2>3 DEF AgreeOf
<1>3. ASSUME NEW k \in Keys, NEW to \in Moves, Move(c, k, to) PROVE \A e \in Clients : AgreeOf(e)'
    BY <1>2, <1>3 DEF Move
<1>4. ASSUME NEW k \in Keys, Delete(c, k) PROVE \A e \in Clients : AgreeOf(e)'
    BY <1>2, <1>4 DEF Delete
<1> QED
    BY <1>1, <1>3, <1>4 DEF UserStep

LEMMA AgreeNext == ASSUME TypeInv, SheetInv, FreshInv, AgreeInv, [Next]_vars PROVE AgreeInv'
<1>0. FewTables /\ UnmovedInTables'
    BY TablesNext, UnmovedStays DEF AgreeInv
<1>1. ASSUME NEW r \in answers, ReceiveAnswer(r) PROVE \A e \in Clients : AgreeOf(e)'
    <2>1. r.from \in Clients /\ r.data \in OnTheWay
        BY OnTheWayMembers DEF TypeInv, AskTypeOK
    <2>2. TakeOver(r.from, r.data) /\ UNCHANGED <<version, place, change>>
        BY <1>1 DEF ReceiveAnswer, serverVars, chainVars
    <2> QED
        BY <2>1, <2>2, AgreeTakesOverAside, TakeOverNoOther, AgreeOthers
<1>2. ASSUME NEW r \in answers, ReceiveLocks(r) PROVE \A e \in Clients : AgreeOf(e)'
    BY <1>2, AllAgree DEF ReceiveLocks, serverVars, knownVars, chainVars
<1>3. ASSUME NEW r \in asks, ServeLock(r) \/ ServeUnlock(r) \/ ServeGet(r)
      PROVE  \A e \in Clients : AgreeOf(e)'
    BY <1>3, AllAgree DEF ServeLock, ServeUnlock, ServeGet, Publish, Sweep, serverVars, viewVars,
                          knownVars, chainVars
<1>4. ASSUME NEW c \in Clients, LoseChange(c) PROVE \A e \in Clients : AgreeOf(e)'
    <2>1. /\ UNCHANGED <<version, place, ver, sent, model, blurred>> /\ astray \subseteq astray'
          /\ Pump(c, todo[c])
        BY <1>4 DEF LoseChange, serverVars
    <2>2. \A e \in Clients : change'[e] = change[e] \/ change'[e].at \in {"none", "change"}
        BY <2>1, PumpChange
    <2> QED
        BY <2>1, <2>2, AgreeRests DEF AgreeInv
<1>5. ASSUME NEW c \in Clients, Disconnect(c) \/ Reconnect(c) PROVE \A e \in Clients : AgreeOf(e)'
    BY <1>5, AllAgree DEF Disconnect, Reconnect, viewVars, knownVars, chainVars
<1>6. ASSUME NEW k \in Keys, LeaseExpires(k) PROVE \A e \in Clients : AgreeOf(e)'
    BY <1>6, AllAgree DEF LeaseExpires, viewVars, knownVars, chainVars
<1>7. ASSUME UNCHANGED vars PROVE \A e \in Clients : AgreeOf(e)'
    <2>1. UNCHANGED <<version, place, ver, sent, model, blurred, change, astray>>
        BY <1>7 DEF vars, serverVars, viewVars, knownVars, chainVars
    <2> QED
        BY <2>1, AllAgree
<1>8. \A e \in Clients : AgreeOf(e)'
    <2>1. AnswerStep \/ ServerStep \/ NetworkStep => \A e \in Clients : AgreeOf(e)'
        BY <1>1, <1>2, <1>3, <1>4, <1>5, AgreeServer DEF AnswerStep, ServerStep, NetworkStep
    <2>2. ASSUME NEW c \in Clients, UserStep(c) \/ EditorStep(c) PROVE \A e \in Clients : AgreeOf(e)'
        BY <2>2, AgreeEditor, AgreeUser
    <2> QED
        BY <1>6, <1>7, <2>1, <2>2 DEF Next
<1> QED
    BY <1>0, <1>8 DEF AgreeInv

LEMMA AgreeAlways == Spec => [](TypeInv /\ SheetInv /\ FreshInv /\ AgreeInv)
<1>1. Init => TypeInv /\ SheetInv /\ FreshInv /\ AgreeInv
    BY TypeInit, SheetInit, FreshInit, AgreeInit
<1>2. TypeInv /\ SheetInv /\ FreshInv /\ AgreeInv /\ [Next]_vars
          => (TypeInv /\ SheetInv /\ FreshInv /\ AgreeInv)'
    BY TypeNext, SheetNext, FreshNext, AgreeNext
<1> QED
    BY <1>1, <1>2, PTL DEF Spec

\* What an editor with the current version takes for agreed is what the server has, unless its
\* user's change was dropped: the version that the server compares stands for the table, in
\* whatever order broadcasts, answers and refusals arrive (objApplyServerState, objFlushKey).
THEOREM AgreedAlwaysTheTable == Spec => []AgreedIsTheTable
<1>1. AgreeInv => AgreedIsTheTable
    BY DEF AgreeInv, AgreeOf, Agrees, AgreedOn, AgreedIsTheTable
<1> QED
    BY <1>1, AgreeAlways, PTL

-----------------------------------------------------------------------------
(* What is on its way to an editor ends with the server's version *)

EndsNow(c) == chan[c] # <<>> => c \in online /\ chan[c][Len(chan[c])].version = version
ChanInv == \A c \in Clients : EndsNow(c)

\* The server sends its table to everybody who is connected.
SendsTable ==
    chan' = [c \in Clients |->
               IF c \in online
               THEN Append(chan[c], [version |-> version', place |-> place', lock |-> lock'])
               ELSE chan[c]]

LEMMA PublishSends == ASSUME NEW v, NEW p, NEW l, Publish(v, p, l) PROVE SendsTable
BY DEF Publish, SendsTable

LEMMA ServerSends ==
    ASSUME ServerStep PROVE UNCHANGED online /\ (UNCHANGED <<version, chan>> \/ SendsTable)
<1>1. ASSUME NEW r \in asks, ServeLock(r) \/ ServeUnlock(r) \/ ServeGet(r)
      PROVE  UNCHANGED online /\ (UNCHANGED <<version, chan>> \/ SendsTable)
    <2>1. UNCHANGED online
        BY <1>1 DEF ServeLock, ServeUnlock, ServeGet
    <2>2. CASE ServeLock(r)
        BY <2>1, <2>2, PublishSends DEF ServeLock, serverVars
    <2>3. CASE ServeUnlock(r) \/ ServeGet(r)
        BY <2>1, <2>3, PublishSends DEF ServeUnlock, ServeGet, Sweep
    <2> QED
        BY <1>1, <2>2, <2>3
<1>2. ASSUME NEW c \in Clients, ServeChange(c) \/ ServeCatchUp(c) \/ ServerDrops(c)
      PROVE  UNCHANGED online /\ (UNCHANGED <<version, chan>> \/ SendsTable)
    <2>1. UNCHANGED online
        BY <1>2 DEF ServeChange, ServeCatchUp, ServerDrops
    <2>2. CASE ServeChange(c)
        BY <2>1, <2>2, ServeChangeCases, PublishSends DEF Accepts, Refuses
    <2>3. CASE ServeCatchUp(c) \/ ServerDrops(c)
        BY <2>1, <2>3, PublishSends DEF ServeCatchUp, ServerDrops, Sweep
    <2> QED
        BY <1>2, <2>2, <2>3
<1> QED
    BY <1>1, <1>2 DEF ServerStep

LEMMA AppendLast ==
    ASSUME NEW S, NEW s \in Seq(S), NEW d \in S
    PROVE  Append(s, d) # <<>> /\ Append(s, d)[Len(Append(s, d))] = d
BY AppendProperties, LenProperties

LEMMA ChanNext == ASSUME TypeInv, TypeInv', ChanInv, [Next]_vars PROVE ChanInv'
<1>0. chan \in [Clients -> Seq(Tables)]
    BY DEF TypeInv, ServerTypeOK
<1>1. CASE UNCHANGED <<version, chan, online>>
    BY <1>1 DEF ChanInv, EndsNow
<1>2. CASE ServerStep
    <2>1. CASE SendsTable /\ UNCHANGED online
        <3> DEFINE d == [version |-> version', place |-> place', lock |-> lock']
        <3>1. d \in Tables /\ d.version = version'
            BY DEF TypeInv, ServerTypeOK, Tables
        <3>2. \A c \in Clients : chan'[c] = IF c \in online THEN Append(chan[c], d) ELSE chan[c]
            BY <2>1 DEF SendsTable
        <3> HIDE DEF d
        <3>3. ASSUME NEW c \in Clients PROVE EndsNow(c)'
            <4>1. CASE c \in online
                <5>1. chan'[c] = Append(chan[c], d) /\ c \in online'
                    BY <2>1, <3>2, <4>1
                <5>2. chan'[c][Len(chan'[c])] = d
                    BY <1>0, <3>1, <5>1, AppendLast
                <5> QED
                    BY <3>1, <5>1, <5>2 DEF EndsNow
            <4>2. CASE c \notin online
                BY <2>1, <3>2, <4>2 DEF ChanInv, EndsNow
            <4> QED
                BY <4>1, <4>2
        <3> QED
            BY <3>3 DEF ChanInv
    <2> QED
        BY <1>1, <1>2, <2>1, ServerSends
<1>3. ASSUME NEW c \in Clients, EditorStep(c) PROVE ChanInv'
    <2>1. CASE ReceiveTable(c)
        <3>1. /\ chan[c] # <<>> /\ chan'[c] = Tail(chan[c]) /\ UNCHANGED <<version, online>>
              /\ \A e \in Clients \ {c} : chan'[e] = chan[e]
            BY <1>0, <2>1 DEF ReceiveTable
        <3>2. Tail(chan[c]) # <<>> => Tail(chan[c])[Len(Tail(chan[c]))] = chan[c][Len(chan[c])]
            BY <1>0, <3>1, HeadTailProperties, LenProperties, EmptySeq
        <3> QED
            BY <3>1, <3>2 DEF ChanInv, EndsNow
    <2>2. CASE TimerFires(c) \/ ReceiveDone(c) \/ ReceiveRefused(c) \/ ReceiveCatchUp(c)
        BY <1>1, <2>2 DEF TimerFires, ReceiveDone, ReceiveRefused, ReceiveCatchUp, serverVars
    <2> QED
        BY <1>3, <2>1, <2>2 DEF EditorStep
<1>4. ASSUME NEW c \in Clients, Disconnect(c) PROVE ChanInv'
    BY <1>0, <1>4 DEF Disconnect, ChanInv, EndsNow
<1>5. ASSUME NEW c \in Clients, Reconnect(c) PROVE ChanInv'
    <2>1. /\ chan'[c] = Append(chan[c], Snapshot) /\ UNCHANGED version
          /\ online' = online \cup {c}
          /\ \A e \in Clients \ {c} : chan'[e] = chan[e]
        BY <1>0, <1>5 DEF Reconnect
    <2>2. Snapshot \in Tables /\ Snapshot.version = version
        BY SnapshotTypes DEF TypeInv, Snapshot
    <2> QED
        BY <1>0, <2>1, <2>2, AppendLast DEF ChanInv, EndsNow
<1>6. ASSUME NEW c \in Clients, LoseChange(c) \/ UserStep(c) PROVE ChanInv'
    BY <1>1, <1>6 DEF LoseChange, UserStep, Grab, LetGo, Move, Delete, Type, serverVars
<1>7. CASE AnswerStep
    BY <1>1, <1>7 DEF AnswerStep, ReceiveAnswer, ReceiveLocks, serverVars
<1>8. ASSUME NEW k \in Keys, LeaseExpires(k) PROVE ChanInv'
    BY <1>1, <1>8 DEF LeaseExpires
<1>9. CASE UNCHANGED vars
    BY <1>1, <1>9 DEF vars, serverVars
<1> QED
    BY <1>2, <1>3, <1>4, <1>5, <1>6, <1>7, <1>8, <1>9 DEF Next, NetworkStep

-----------------------------------------------------------------------------
(* Everything is settled in the end *)

InTodo(c, k) == \E i \in 1..Len(todo[c]) : k \in todo[c][i]

\* All that was sent to the editor has reached it.
Reached(c) == c \in online /\ chan[c] = <<>>
Awaits(c) == ~ Reached(c) \/ c \in timer

\* Something is to come that looks at the object again, or its change was dropped.
Comes(c, k) == c \in blurred \/ Awaits(c) \/ InTodo(c, k) \/ <<c, k>> \in astray

\* The request of the editor was made, and nothing since.
JustDone(c) == change[c].at = "done" /\ change[c].base + 1 = version

\* The drawing differs from what was agreed on (a deletion that both know does not count).
Differs(c, k) == Changed(model, sent, c, k) /\ ~ (model[c][k] = Gone /\ sent[c][k] = Absent)

\* The request of the editor is about the object, or a table is on its way after a refusal.
Underway(c, k) ==
    \/ change[c].at \in {"refused", "get", "got"}
    \/ change[c].at \in {"change", "done"} /\ change[c].key = k

\* An editor that is not behind has a change under way for whatever differs.
IsCaredFor(c) ==
    ver[c] = version \/ JustDone(c) =>
        \A k \in Keys : Differs(c, k) => Comes(c, k) \/ Underway(c, k)

\* What the user did to an object while a change of it was made is not forgotten.
DoneIsCaredFor(c) ==
    LET r == change[c] IN JustDone(c) /\ model[c][r.key] # r.to => Comes(c, r.key)

\* An editor that all broadcasts have reached knows the table, if it was not set back.
HeardOfDone(c) ==
    JustDone(c) /\ Reached(c) => told[c] = version /\ (c \in blurred \/ ver[c] = version)

IdleIsDone(c) == change[c].at = "none" => todo[c] = <<>>

SettlesOf(c) == IsCaredFor(c) /\ DoneIsCaredFor(c) /\ HeardOfDone(c) /\ IdleIsDone(c)

SettleInv == \A c \in Clients : SettlesOf(c)

LEMMA SettleInit == Init => SettleInv
<1> SUFFICES ASSUME Init, NEW c \in Clients PROVE SettlesOf(c)
    BY DEF SettleInv
<1> USE DEF Init
<1>1. IsCaredFor(c)
    BY DEF IsCaredFor, Differs, Changed
<1>2. DoneIsCaredFor(c) /\ HeardOfDone(c) /\ IdleIsDone(c)
    BY DEF DoneIsCaredFor, HeardOfDone, IdleIsDone, JustDone
<1> QED
    BY <1>1, <1>2 DEF SettlesOf

\* An editor that nothing happens to, but that more may be on its way to.
LEMMA SettleRests ==
    ASSUME TypeInv, UNCHANGED version, NEW c \in Clients, SettlesOf(c),
           ver'[c] = ver[c], sent'[c] = sent[c], model'[c] = model[c], told'[c] = told[c],
           todo'[c] = todo[c], c \in blurred' <=> c \in blurred,
           \A k \in Keys : <<c, k>> \in astray => <<c, k>> \in astray',
           Reached(c)' => Reached(c), c \in timer => c \in timer',
           change'[c] = change[c] \/ change'[c].at \in {"refused", "get", "got"}
    PROVE  SettlesOf(c)'
<1>1. CASE change'[c].at \in {"refused", "get", "got"}
    BY <1>1 DEF SettlesOf, IsCaredFor, DoneIsCaredFor, HeardOfDone, IdleIsDone, JustDone, Underway
<1>2. CASE change'[c] = change[c]
    <2>1. \A k \in Keys : Comes(c, k) => Comes(c, k)'
        BY DEF Comes, Awaits, InTodo
    <2>2. IsCaredFor(c)'
        BY <1>2, <2>1 DEF SettlesOf, IsCaredFor, JustDone, Differs, Changed, Underway
    <2>3. DoneIsCaredFor(c)'
        <3>1. change[c].at = "done" => change[c].key \in Keys
            BY ChangeFields DEF TypeInv, ChainTypeOK
        <3> QED
            BY <1>2, <2>1, <3>1 DEF SettlesOf, DoneIsCaredFor, JustDone
    <2>4. HeardOfDone(c)' /\ IdleIsDone(c)'
        BY <1>2 DEF SettlesOf, HeardOfDone, IdleIsDone, JustDone
    <2> QED
        BY <2>2, <2>3, <2>4 DEF SettlesOf
<1> QED
    BY <1>1, <1>2

\* What a pump was to look at is sent, or still to be looked at.
LEMMA PumpKeeps ==
    ASSUME TypeInv, NEW c \in Clients, NEW q \in Seq(SUBSET Keys), Pump(c, q),
           NEW k \in Keys, Changed(model', sent', c, k), NEW h \in 1..Len(q), k \in q[h]
    PROVE  InTodo(c, k)' \/ (change'[c].at = "change" /\ change'[c].key = k)
<1> DEFINE Due(i) == {j \in q[i] : Changed(model', sent', c, j)}
           Rest(i, j) == <<{g \in q[i] : g > j}>> \o SubSeq(q, i + 1, Len(q))
<1>1. k \in Due(h)
    OBVIOUS
<1>2. PICK i \in 1..Len(q) : \E j \in Due(i) :
          /\ \A g \in 1..(i - 1) : Due(g) = {}
          /\ \A g \in Due(i) : j <= g
          /\ todo' = [todo EXCEPT ![c] = Rest(i, j)]
          /\ Answered(c, [at |-> "change", key |-> j, to |-> model'[c][j], base |-> ver'[c],
                          seen |-> View(sent', blurred', c)])
    BY <1>1 DEF Pump
<1>3. PICK j \in Due(i) :
          /\ \A g \in 1..(i - 1) : Due(g) = {}
          /\ \A g \in Due(i) : j <= g
          /\ todo' = [todo EXCEPT ![c] = Rest(i, j)]
          /\ Answered(c, [at |-> "change", key |-> j, to |-> model'[c][j], base |-> ver'[c],
                          seen |-> View(sent', blurred', c)])
    BY <1>2
<1>4. change'[c].at = "change" /\ change'[c].key = j /\ todo'[c] = Rest(i, j)
    BY <1>3 DEF Answered, TypeInv, ChainTypeOK
<1>5. /\ Len(q) \in Nat /\ q[i] \subseteq Keys /\ q[h] \subseteq Keys /\ i \in Nat /\ h \in Nat
      /\ j \in Keys /\ Keys \subseteq Nat
    BY LenProperties, ElementOfSeq, SheetAssumption DEF SheetAssumption, Keys
<1>6. h >= i
    BY <1>1, <1>3, <1>5
<1> DEFINE s == SubSeq(q, i + 1, Len(q))
           S == {g \in q[i] : g > j}
<1>7. /\ s \in Seq(SUBSET Keys) /\ Len(s) = Len(q) - i
      /\ \A g \in 1..Len(s) : s[g] = q[i + g]
    <2>1. \A g \in (i + 1)..Len(q) : q[g] \in SUBSET Keys
        BY <1>5, ElementOfSeq
    <2>2. /\ s \in Seq(SUBSET Keys)
          /\ Len(s) = IF i + 1 <= Len(q) THEN Len(q) - (i + 1) + 1 ELSE 0
          /\ \A g \in 1..(Len(q) - (i + 1) + 1) : s[g] = q[(i + 1) + g - 1]
        BY <1>5, <2>1, SubSeqProperties
    <2> HIDE DEF s
    <2>3. Len(s) = Len(q) - i
        BY <1>5, <2>2
    <2>4. \A g \in 1..Len(s) : (i + 1) + g - 1 = i + g
        BY <1>5, <2>3
    <2> QED
        BY <1>5, <2>2, <2>3, <2>4, SMTT(30)
<1>8. <<S>> \in Seq(SUBSET Keys) /\ Len(<<S>>) = 1 /\ <<S>>[1] = S
    BY <1>5
<1> HIDE DEF Due, s, S
<1>9. /\ Len(<<S>> \o s) = 1 + Len(s) /\ (<<S>> \o s)[1] = S
      /\ \A g \in 1..Len(s) : (<<S>> \o s)[1 + g] = s[g]
    <2> DEFINE u == <<S>>
    <2>1. u \in Seq(SUBSET Keys) /\ Len(u) = 1 /\ u[1] = S /\ Len(s) \in Nat
        BY <1>5, <1>7, <1>8
    <2> HIDE DEF u
    <2>2. /\ Len(u \o s) = Len(u) + Len(s)
          /\ \A g \in 1..(Len(u) + Len(s)) :
                (u \o s)[g] = IF g <= Len(u) THEN u[g] ELSE s[g - Len(u)]
        BY <1>7, <2>1, ConcatProperties
    <2>3. Len(u \o s) = 1 + Len(s) /\ (u \o s)[1] = S
        BY <2>1, <2>2
    <2>4. \A g \in 1..Len(s) : (u \o s)[1 + g] = s[g]
        BY <2>1, <2>2
    <2> QED
        BY <2>3, <2>4 DEF u
<1>10. todo'[c] = <<S>> \o s
    BY <1>4 DEF s, S
<1>11. CASE h = i
    <2>1. j <= k
        BY <1>1, <1>3, <1>11
    <2>2. CASE k # j
        <3>1. k \in S /\ 1 \in 1..Len(todo'[c]) /\ todo'[c][1] = S
            BY <1>5, <1>7, <1>9, <1>10, <1>11, <2>1, <2>2 DEF S
        <3> QED
            BY <3>1 DEF InTodo
    <2> QED
        BY <1>4, <2>2
<1>12. CASE h > i
    <2>1. h - i \in 1..Len(s) /\ s[h - i] = q[h]
        BY <1>5, <1>7, <1>12
    <2>2. 1 + (h - i) \in 1..Len(todo'[c]) /\ todo'[c][1 + (h - i)] = q[h]
        BY <1>5, <1>7, <1>9, <1>10, <2>1
    <2> QED
        BY <2>2 DEF InTodo
<1> QED
    BY <1>5, <1>6, <1>11, <1>12

\* An editor whose chain rests has nothing left to look at.
LEMMA PumpIdles ==
    ASSUME TypeInv, NEW c \in Clients, NEW q \in Seq(SUBSET Keys), Pump(c, q)
    PROVE  IdleIsDone(c)' /\ change'[c].at \in {"none", "change"}
<1>1. CASE todo' = [todo EXCEPT ![c] = <<>>]
    BY <1>1, PumpChange DEF TypeInv, ChainTypeOK, IdleIsDone
<1>2. ASSUME NEW k \in Keys,
             Answered(c, [at |-> "change", key |-> k, to |-> model'[c][k], base |-> ver'[c],
                          seen |-> View(sent', blurred', c)])
      PROVE  IdleIsDone(c)' /\ change'[c].at \in {"none", "change"}
    <2>1. change'[c].at = "change"
        BY <1>2 DEF Answered, TypeInv, ChainTypeOK
    <2> QED
        BY <2>1 DEF IdleIsDone
<1>3. \A i \in 1..Len(q) : q[i] \subseteq Keys
    BY ElementOfSeq
<1> QED
    BY <1>1, <1>2, <1>3 DEF Pump

\* An editor takes over a table, the last one that is on its way to it or not.
LEMMA SettleTakesOver ==
    ASSUME TypeInv, SheetInv, AgreeInv, SettleInv, NEW c \in Clients, NEW d \in OnTheWay,
           UNCHANGED <<version, place, change, todo>>, TakeOver(c, d),
           Reached(c)' => Reached(c) \/ d.version = version
    PROVE  SettlesOf(c)'
<1> DEFINE r == change[c]
<1>1. /\ d.version \in Nat /\ version \in Nat /\ told[c] \in Nat /\ d.version <= version
      /\ told[c] <= version
    BY TablesTypes DEF Tables, TypeInv, ServerTypeOK, ViewTypeOK, SheetInv, TablesAreOld, ViewIsOld
<1>2. /\ ver'[c] = d.version /\ told'[c] = Larger(told[c], d.version)
      /\ d.version < told[c] => c \in blurred'
    BY DEF TakeOver, TypeInv, ViewTypeOK
<1>3. \A k \in Keys : /\ sent'[c][k] = IF model'[c][k] = Gone THEN Absent ELSE model'[c][k]
                      /\ model'[c][k] \in Places \cup {Gone}
    <2>1. model'[c] = Applied(c, d) /\ sent'[c] = Baseline(Applied(c, d))
        BY DEF TakeOver, TypeInv, ViewTypeOK
    <2>2. Applied(c, d) \in [Keys -> Places \cup {Gone}]
        BY AppliedTypes, TablesTypes DEF TypeInv
    <2> QED
        BY <2>1, <2>2 DEF Baseline
<1>4. IsCaredFor(c)'
    BY <1>3 DEF IsCaredFor, Differs, Changed
<1>5. Reached(c)' /\ JustDone(c) => d.version = version \/ (told[c] = version /\ c \in blurred')
    BY <1>1, <1>2 DEF SettleInv, SettlesOf, HeardOfDone
<1>6. DoneIsCaredFor(c)'
    <2> SUFFICES ASSUME JustDone(c), model'[c][r.key] # r.to PROVE Comes(c, r.key)'
        BY DEF DoneIsCaredFor, JustDone
    <2>1. r.key \in Keys /\ r.to \in Places \cup {Gone} /\ place[r.key] = r.to
        BY ChangeFields DEF JustDone, TypeInv, ChainTypeOK, SheetInv, DoneOnView
    <2>2. CASE d.version = version
        <3>1. AgreedOn(c, r.key)'
            BY <2>1, <2>2, TakeOverAgrees DEF AgreeInv, SheetInv, TablesAreOld
        <3>2. /\ Where(r.to) = r.to /\ Absent \notin Places \cup {Gone} /\ Unmoved \notin Places
            BY <2>1, SheetAssumption DEF SheetAssumption, Where
        <3> QED
            BY <1>3, <2>1, <3>1, <3>2 DEF AgreedOn, Comes
    <2>3. CASE d.version # version
        BY <1>5, <2>3 DEF Comes, Awaits
    <2> QED
        BY <2>2, <2>3
<1>7. HeardOfDone(c)'
    BY <1>1, <1>2, <1>5 DEF HeardOfDone, JustDone, Larger
<1>8. IdleIsDone(c)'
    BY DEF SettleInv, SettlesOf, IdleIsDone
<1> QED
    BY <1>4, <1>6, <1>7, <1>8 DEF SettlesOf

LEMMA SettleOthers ==
    ASSUME TypeInv, SettleInv, UNCHANGED version, NEW c \in Clients, SettlesOf(c)',
           \A e \in Clients \ {c} :
               /\ ver'[e] = ver[e] /\ sent'[e] = sent[e] /\ model'[e] = model[e]
               /\ told'[e] = told[e] /\ todo'[e] = todo[e] /\ change'[e] = change[e]
               /\ e \in blurred' <=> e \in blurred
               /\ \A k \in Keys : <<e, k>> \in astray => <<e, k>> \in astray'
               /\ (Reached(e)' => Reached(e)) /\ (e \in timer => e \in timer')
    PROVE  SettleInv'
BY SettleRests DEF SettleInv

\* The queue of a flush holds whatever differs.
LEMMA QueueHolds ==
    ASSUME NEW c \in Clients, NEW k \in Keys,
           model[c][k] # Gone \/ sent[c][k] \notin {Gone, Absent}
    PROVE  /\ Queue(c) \in Seq(SUBSET Keys) /\ Len(Queue(c)) = 2
           /\ \E i \in 1..Len(Queue(c)) : k \in Queue(c)[i]
<1>1. Queue(c) \in Seq(SUBSET Keys) /\ Len(Queue(c)) = 2
    BY DEF Queue
<1>2. model[c][k] # Gone => k \in Queue(c)[1]
    BY DEF Queue
<1>3. model[c][k] = Gone => k \in Queue(c)[2]
    BY DEF Queue
<1> QED
    BY <1>1, <1>2, <1>3

LEMMA SettleTimer ==
    ASSUME TypeInv, SheetInv, AgreeInv, SettleInv, NEW c \in Clients, TimerFires(c)
    PROVE  SettlesOf(c)'
<1> DEFINE r == change[c]
<1>1. UNCHANGED <<version, place, ver, sent, model, told, blurred, astray, online, chan>>
    BY DEF TimerFires, serverVars, viewVars, knownVars
<1>2. Queue(c) \in Seq(SUBSET Keys) /\ todo[c] \in Seq(SUBSET Keys) /\ SettlesOf(c) /\ AgreeOf(c)
    BY DEF Queue, TypeInv, ChainTypeOK, SettleInv, AgreeInv
<1>3. ASSUME NEW k \in Keys, Differs(c, k)
      PROVE  model[c][k] # Gone \/ sent[c][k] \notin {Gone, Absent}
    BY <1>3 DEF Differs, Changed
<1>4. CASE r.at = "none"
    <2>1. Pump(c, Queue(c))
        BY <1>4 DEF TimerFires
    <2>2. IdleIsDone(c)' /\ change'[c].at \in {"none", "change"}
        BY <1>2, <2>1, PumpIdles
    <2>3. ASSUME NEW k \in Keys, Differs(c, k)' PROVE Comes(c, k)' \/ Underway(c, k)'
        <3>1. Differs(c, k) /\ Changed(model', sent', c, k)
            BY <1>1, <2>3 DEF Differs, Changed
        <3>2. PICK i \in 1..Len(Queue(c)) : k \in Queue(c)[i]
            BY <1>3, <3>1, QueueHolds
        <3>3. InTodo(c, k)' \/ (change'[c].at = "change" /\ change'[c].key = k)
            BY <1>2, <2>1, <3>1, <3>2, PumpKeeps
        <3> QED
            BY <3>3 DEF Comes, Underway
    <2> QED
        BY <2>2, <2>3 DEF SettlesOf, IsCaredFor, DoneIsCaredFor, HeardOfDone, JustDone
<1>5. CASE r.at # "none"
    <2>1. todo'[c] = todo[c] \o Queue(c) /\ UNCHANGED change
        BY <1>5 DEF TimerFires, TypeInv, ChainTypeOK
    <2>2. ASSUME NEW k \in Keys, InTodo(c, k) \/ \E i \in 1..Len(Queue(c)) : k \in Queue(c)[i]
          PROVE  InTodo(c, k)'
        <3>1. /\ Len(todo'[c]) = Len(todo[c]) + Len(Queue(c))
              /\ \A i \in 1..(Len(todo[c]) + Len(Queue(c))) :
                    todo'[c][i] = IF i <= Len(todo[c]) THEN todo[c][i]
                                  ELSE Queue(c)[i - Len(todo[c])]
            BY <1>2, <2>1, ConcatProperties
        <3>2. Len(todo[c]) \in Nat /\ Len(Queue(c)) \in Nat
            BY <1>2, LenProperties
        <3>3. CASE InTodo(c, k)
            <4>1. PICK i \in 1..Len(todo[c]) : k \in todo[c][i]
                BY <3>3 DEF InTodo
            <4>2. i \in 1..Len(todo'[c]) /\ todo'[c][i] = todo[c][i]
                BY <3>1, <3>2
            <4> QED
                BY <4>1, <4>2 DEF InTodo
        <3>4. CASE \E i \in 1..Len(Queue(c)) : k \in Queue(c)[i]
            <4>1. PICK i \in 1..Len(Queue(c)) : k \in Queue(c)[i]
                BY <3>4
            <4>2. /\ Len(todo[c]) + i \in 1..Len(todo'[c]) /\ ~ (Len(todo[c]) + i <= Len(todo[c]))
                  /\ Len(todo[c]) + i - Len(todo[c]) = i
                BY <3>1, <3>2
            <4>3. todo'[c][Len(todo[c]) + i] = Queue(c)[i]
                BY <3>1, <4>2, SMTT(30)
            <4> QED
                BY <4>1, <4>2, <4>3 DEF InTodo
        <3> QED
            BY <2>2, <3>3, <3>4
    <2>3. IsCaredFor(c)'
        <3> SUFFICES ASSUME NEW k \in Keys, Differs(c, k) PROVE InTodo(c, k)'
            BY <1>1 DEF IsCaredFor, Differs, Changed, Comes
        <3> QED
            BY <1>3, <2>2, QueueHolds
    <2>4. DoneIsCaredFor(c)'
        <3> SUFFICES ASSUME JustDone(c), NEW k \in Keys, k = r.key, model[c][k] # r.to
                     PROVE  Comes(c, k)'
            <4>1. r.at = "done" => r.key \in Keys
                BY ChangeFields DEF TypeInv, ChainTypeOK
            <4> QED
                BY <1>1, <2>1, <4>1 DEF DoneIsCaredFor, JustDone
        <3>1. r.to \in Places \cup {Gone} /\ place[k] = r.to /\ place[k] # Unmoved
            BY <1>2, ChangeFields DEF JustDone, TypeInv, ChainTypeOK, SheetInv, DoneOnView, AgreeOf,
                                      DoneLasts
        <3>2. CASE model[c][k] # Gone \/ sent[c][k] \notin {Gone, Absent}
            BY <2>2, <3>2, QueueHolds DEF Comes
        <3>3. CASE model[c][k] = Gone /\ sent[c][k] \in {Gone, Absent}
            <4>1. r.to # Gone /\ sent[c][k] = Absent
                BY <1>2, <3>1, <3>3 DEF AgreeOf, GoneIsGone
            <4>2. ~ AgreedOn(c, k) \/ <<c, k>> \in astray
                BY <3>1, <4>1, SheetAssumption DEF AgreedOn, Where, SheetAssumption
            <4>3. Reached(c) => c \in blurred \/ <<c, k>> \in astray
                BY <1>2, <4>2 DEF SettlesOf, HeardOfDone, AgreeOf, Agrees
            <4> QED
                BY <1>1, <4>3 DEF Comes, Awaits, Reached
        <3> QED
            BY <3>2, <3>3
    <2>5. HeardOfDone(c)' /\ IdleIsDone(c)'
        BY <1>1, <1>2, <1>5, <2>1 DEF SettlesOf, HeardOfDone, IdleIsDone, JustDone, Reached
    <2> QED
        BY <2>3, <2>4, <2>5 DEF SettlesOf
<1> QED
    BY <1>4, <1>5

\* An editor learns that its change was made, and goes on.
LEMMA SettleDone ==
    ASSUME TypeInv, SheetInv, SettleInv, NEW c \in Clients, ReceiveDone(c)
    PROVE  SettlesOf(c)'
<1> DEFINE r == change[c]
<1>1. /\ r.at = "done" /\ r.key \in Keys /\ r.base \in Nat /\ r.to \in Places \cup {Gone}
      /\ todo[c] \in Seq(SUBSET Keys) /\ sent[c] \in Agreed /\ SettlesOf(c)
    BY ChangeFields DEF ReceiveDone, TypeInv, ChainTypeOK, ViewTypeOK, SettleInv
<1>2. /\ ver'[c] = r.base + 1 /\ sent'[c] = [sent[c] EXCEPT ![r.key] = r.to]
      /\ UNCHANGED <<version, model, blurred, timer, online, chan>> /\ Pump(c, todo[c])
      /\ astray' = IF model[c][r.key] = r.to THEN astray \ {<<c, r.key>>} ELSE astray
    BY DEF ReceiveDone, TypeInv, ViewTypeOK, serverVars
<1>3. IdleIsDone(c)' /\ change'[c].at \in {"none", "change"}
    BY <1>1, <1>2, PumpIdles
<1>4. \A k \in Keys : sent'[c][k] = IF k = r.key THEN r.to ELSE sent[c][k]
    BY <1>1, <1>2 DEF Agreed
<1>5. ASSUME NEW k \in Keys, Differs(c, k)', JustDone(c) PROVE Comes(c, k)' \/ Underway(c, k)'
    <2>1. Changed(model', sent', c, k)
        BY <1>5 DEF Differs, Changed
    <2>2. k = r.key => model[c][k] # r.to
        BY <1>2, <1>4, <2>1 DEF Changed
    <2>3. k # r.key => Differs(c, k) /\ ~ Underway(c, k)
        BY <1>1, <1>2, <1>4, <1>5 DEF Differs, Changed, Underway
    <2>4. Comes(c, k)
        BY <1>1, <1>5, <2>2, <2>3 DEF SettlesOf, IsCaredFor, DoneIsCaredFor
    <2>5. InTodo(c, k) => Comes(c, k)' \/ Underway(c, k)'
        <3>1. ASSUME NEW i \in 1..Len(todo[c]), k \in todo[c][i]
              PROVE  InTodo(c, k)' \/ (change'[c].at = "change" /\ change'[c].key = k)
            BY <1>1, <1>2, <2>1, <3>1, PumpKeeps
        <3> QED
            BY <3>1 DEF InTodo, Comes, Underway
    <2>6. <<c, k>> \in astray => <<c, k>> \in astray'
        BY <1>2, <2>2
    <2> QED
        BY <1>2, <2>4, <2>5, <2>6 DEF Comes, Awaits, Reached
<1>6. IsCaredFor(c)'
    <2>1. ver'[c] = version \/ JustDone(c)' => JustDone(c)
        BY <1>1, <1>2, <1>3 DEF JustDone
    <2> QED
        BY <1>2, <1>5, <2>1 DEF IsCaredFor
<1>7. DoneIsCaredFor(c)' /\ HeardOfDone(c)'
    BY <1>3 DEF DoneIsCaredFor, HeardOfDone, JustDone
<1> QED
    BY <1>3, <1>6, <1>7 DEF SettlesOf

\* The author of a change that is accepted hears of it; the others are behind.
LEMMA SettleAccepts ==
    ASSUME TypeInv, SheetInv, SettleInv, NEW c \in Clients, Accepts(c),
           UNCHANGED <<ver, sent, model, told, blurred, astray, online, timer, todo>>
    PROVE  SettleInv'
<1> DEFINE r == change[c]
<1>0. version \in Nat /\ change \in [Clients -> Changes] /\ r \in Changes
      /\ chan \in [Clients -> Seq(Tables)]
    BY DEF TypeInv, ServerTypeOK, ChainTypeOK
<1>1. /\ r.at = "change" /\ r.key \in Keys /\ r.to \in Places \cup {Gone} /\ r.base = version
      /\ version' = version + 1
    BY AcceptedPlaces
<1>2. /\ change'[c].at = "done" /\ change'[c].key = r.key
      /\ \A e \in Clients \ {c} : change'[e] = change[e]
    <2>1. r \in [at : {"change", "done", "refused"}, key : Keys, to : Places \cup {Gone},
                 base : Nat, seen : Agreed \cup {Blurred}]
        BY <1>0, <1>1, ChangeFields
    <2>2. change'[c] = [r EXCEPT !.at = "done"]
        BY <1>0 DEF Accepts, Answered
    <2> QED
        BY <1>0, <1>1, <2>1, <2>2 DEF Accepts, Answered
<1>3. ASSUME NEW e \in Clients \ {c} PROVE SettlesOf(e)'
    <2>1. /\ ver[e] \in Nat /\ told[e] \in Nat /\ ver[e] <= version
          /\ change[e].at = "done" => change[e].base \in Nat /\ change[e].base + 1 <= version
        BY <1>0, ChangeFields DEF SheetInv, ViewIsOld, DoneOnView, TypeInv, ViewTypeOK
    <2>2. ver'[e] # version' /\ ~ JustDone(e)'
        BY <1>0, <1>1, <1>2, <2>1 DEF JustDone
    <2>3. IdleIsDone(e)'
        BY <1>2 DEF SettleInv, SettlesOf, IdleIsDone
    <2> QED
        BY <2>2, <2>3 DEF SettlesOf, IsCaredFor, DoneIsCaredFor, HeardOfDone
<1>4. SettlesOf(c)'
    <2>1. ~ Reached(c)'
        <3>1. CASE c \in online
            <4>1. SendsTable
                BY PublishSends DEF Accepts
            <4>2. chan'[c] = Append(chan[c], [version |-> version', place |-> place', lock |-> lock'])
                BY <3>1, <4>1 DEF SendsTable
            <4>3. Len(chan'[c]) = Len(chan[c]) + 1 /\ Len(chan[c]) \in Nat
                BY <1>0, <4>2, LenProperties
            <4>4. chan'[c] # <<>>
                BY <4>3
            <4> QED
                BY <4>4 DEF Reached
        <3>2. CASE c \notin online
            BY <3>2 DEF Reached
        <3> QED
            BY <3>1, <3>2
    <2>2. \A k \in Keys : Comes(c, k)'
        BY <2>1 DEF Comes, Awaits
    <2>3. IsCaredFor(c)'
        BY <2>2 DEF IsCaredFor
    <2>4. DoneIsCaredFor(c)'
        BY <1>1, <1>2, <2>2 DEF DoneIsCaredFor
    <2>5. HeardOfDone(c)' /\ IdleIsDone(c)'
        BY <1>2, <2>1 DEF HeardOfDone, IdleIsDone
    <2> QED
        BY <2>3, <2>4, <2>5 DEF SettlesOf
<1> QED
    BY <1>3, <1>4 DEF SettleInv

\* Nothing but broadcasts to the editors.
LEMMA AllSettle ==
    ASSUME TypeInv, SettleInv, UNCHANGED <<version, ver, sent, model, told, blurred, todo>>,
           astray \subseteq astray', timer \subseteq timer',
           \A c \in Clients : Reached(c)' => Reached(c),
           \A c \in Clients :
               change'[c] = change[c] \/ change'[c].at \in {"refused", "get", "got"}
    PROVE  SettleInv'
BY SettleRests DEF SettleInv

LEMMA SettleServer == ASSUME TypeInv, SheetInv, SettleInv, ServerStep PROVE SettleInv'
<1>0. /\ change \in [Clients -> Changes] /\ chan \in [Clients -> Seq(Tables)]
      /\ UNCHANGED <<ver, sent, model, told, blurred, astray, timer, todo>>
    BY DEF ServerStep, ServeLock, ServeUnlock, ServeGet, ServeChange, ServeCatchUp, ServerDrops,
           viewVars, knownVars, chainVars, TypeInv, ChainTypeOK, ServerTypeOK
<1>1. \A c \in Clients : Reached(c)' => Reached(c)
    <2>1. ASSUME NEW c \in Clients, SendsTable, c \in online PROVE chan'[c] # <<>>
        <3>1. chan'[c] = Append(chan[c], [version |-> version', place |-> place', lock |-> lock'])
            BY <2>1 DEF SendsTable
        <3>2. Len(chan'[c]) = Len(chan[c]) + 1 /\ Len(chan[c]) \in Nat
            BY <1>0, <3>1, LenProperties
        <3> QED
            BY <3>2
    <2> QED
        BY <2>1, ServerSends DEF Reached
<1>2. ASSUME NEW r \in asks, ServeLock(r) \/ ServeUnlock(r) \/ ServeGet(r) PROVE SettleInv'
    <2>1. UNCHANGED <<version, change>>
        BY <1>2 DEF ServeLock, ServeUnlock, ServeGet, Publish, Sweep, serverVars, chainVars
    <2> QED
        BY <1>0, <1>1, <2>1, AllSettle
<1>3. ASSUME NEW c \in Clients, ServeChange(c), Refuses(c) PROVE SettleInv'
    <2>1. change[c] \in [at : {"change", "done", "refused"}, key : Keys,
                         to : Places \cup {Gone}, base : Nat, seen : Agreed \cup {Blurred}]
        BY <1>0, <1>3, ChangeFields DEF Refuses
    <2>2. \A e \in Clients : change'[e] = change[e] \/ change'[e].at = "refused"
        BY <1>0, <1>3, <2>1 DEF Refuses, Answered
    <2>3. UNCHANGED version
        BY <1>3 DEF Refuses
    <2> QED
        BY <1>0, <1>1, <2>2, <2>3, AllSettle
<1>4. ASSUME NEW c \in Clients, ServeChange(c), Accepts(c) PROVE SettleInv'
    <2>1. UNCHANGED online
        BY <1>4 DEF ServeChange
    <2> QED
        BY <1>0, <1>4, <2>1, SettleAccepts
<1>5. ASSUME NEW c \in Clients, ServeCatchUp(c) PROVE SettleInv'
    <2>1. UNCHANGED version /\ \A e \in Clients : change'[e] = change[e] \/ change'[e].at = "got"
        BY <1>0, <1>5 DEF ServeCatchUp, Sweep, Answered
    <2> QED
        BY <1>0, <1>1, <2>1, AllSettle
<1>6. ASSUME NEW c \in Clients, ServerDrops(c) PROVE SettleInv'
    <2>1. UNCHANGED <<version, change>>
        BY <1>6 DEF ServerDrops, Publish, chainVars
    <2> QED
        BY <1>0, <1>1, <2>1, AllSettle
<1> QED
    BY <1>2, <1>3, <1>4, <1>5, <1>6, ServeChangeCases DEF ServerStep

LEMMA SettleEditor ==
    ASSUME TypeInv, SheetInv, AgreeInv, ChanInv, SettleInv, NEW c \in Clients, EditorStep(c)
    PROVE  SettleInv'
<1>0. /\ change[c] \in Changes /\ todo[c] \in Seq(SUBSET Keys)
      /\ change \in [Clients -> Changes] /\ todo \in [Clients -> Seq(SUBSET Keys)]
      /\ chan \in [Clients -> Seq(Tables)]
    BY DEF TypeInv, ChainTypeOK, ServerTypeOK
<1>1. \A q : Pump(c, q) => \A e \in Clients \ {c} : change'[e] = change[e] /\ todo'[e] = todo[e]
    BY <1>0 DEF Pump, Answered
<1>2. CASE ReceiveTable(c)
    <2>1. chan[c] \in Seq(Tables) /\ chan[c] # <<>>
        BY <1>0, <1>2 DEF ReceiveTable
    <2>2. Head(chan[c]) = chan[c][1] /\ 1 \in 1..Len(chan[c])
        BY <2>1, HeadTailProperties, LenProperties
    <2>3. Head(chan[c]) \in OnTheWay
        BY <2>2, OnTheWayMembers
    <2>4. /\ UNCHANGED <<version, place, change, todo, timer, online>> /\ TakeOver(c, Head(chan[c]))
          /\ chan'[c] = Tail(chan[c]) /\ \A e \in Clients \ {c} : chan'[e] = chan[e]
        BY <1>0, <1>2 DEF ReceiveTable, chainVars
    <2>5. Reached(c)' => Head(chan[c]).version = version
        <3> SUFFICES ASSUME Tail(chan[c]) = <<>> PROVE Head(chan[c]).version = version
            BY <2>4 DEF Reached
        <3>1. Len(chan[c]) = 1
            <4>1. Len(Tail(chan[c])) = Len(chan[c]) - 1 /\ Len(chan[c]) \in Nat
                BY <2>1, HeadTailProperties, LenProperties
            <4>2. Len(Tail(chan[c])) = 0
                BY Len(<<>>) = 0, Tail(chan[c]) = <<>>
            <4> QED
                BY <4>1, <4>2
        <3> QED
            BY <2>1, <2>2, <3>1 DEF ChanInv, EndsNow
    <2>6. SettlesOf(c)'
        BY <2>3, <2>4, <2>5, SettleTakesOver
    <2>7. ASSUME NEW e \in Clients \ {c} PROVE told'[e] = told[e] /\ (Reached(e)' => Reached(e))
        BY <2>4, TakeOverOthers DEF Reached
    <2> QED
        BY <2>4, <2>6, <2>7, TakeOverNoOther, SettleOthers
<1>3. CASE TimerFires(c)
    <2>1. UNCHANGED <<version, ver, sent, model, told, blurred, astray, online, chan>>
        BY <1>3 DEF TimerFires, serverVars, viewVars, knownVars
    <2>2. ASSUME NEW e \in Clients \ {c}
          PROVE  /\ change'[e] = change[e] /\ todo'[e] = todo[e] /\ (e \in timer => e \in timer')
                 /\ Reached(e)' => Reached(e)
        BY <1>0, <1>1, <1>3, <2>1 DEF TimerFires, Reached
    <2> QED
        BY <1>3, <2>1, <2>2, SettleTimer, SettleOthers
<1>4. CASE ReceiveDone(c)
    <2>1. UNCHANGED <<version, model, blurred, timer, online, chan>> /\ Pump(c, todo[c])
        BY <1>4 DEF ReceiveDone, serverVars
    <2>2. ASSUME NEW e \in Clients \ {c}
          PROVE  /\ ver'[e] = ver[e] /\ sent'[e] = sent[e] /\ told'[e] = told[e]
                 /\ \A k \in Keys : <<e, k>> \in astray => <<e, k>> \in astray'
        BY <1>4 DEF ReceiveDone, TypeInv, ViewTypeOK
    <2>3. \A e \in Clients : Reached(e)' => Reached(e)
        BY <2>1 DEF Reached
    <2> QED
        BY <1>1, <1>4, <2>1, <2>2, <2>3, SettleDone, SettleOthers
<1>5. CASE ReceiveRefused(c)
    <2>1. /\ UNCHANGED <<version, ver, sent, told, blurred, timer, todo, online, chan>>
          /\ astray \subseteq astray'
        BY <1>5 DEF ReceiveRefused, serverVars
    <2>2. change'[c].at = "get" /\ \A e \in Clients \ {c} : change'[e] = change[e]
        BY <1>0, <1>5 DEF ReceiveRefused, Answered
    <2>3. \A e \in Clients \ {c} : model'[e] = model[e]
        BY <1>5 DEF ReceiveRefused, TypeInv, ViewTypeOK
    <2>4. SettlesOf(c)'
        BY <2>2 DEF SettlesOf, IsCaredFor, DoneIsCaredFor, HeardOfDone, IdleIsDone, JustDone, Underway
    <2>5. \A e \in Clients : Reached(e)' => Reached(e)
        BY <2>1 DEF Reached
    <2> QED
        BY <2>1, <2>2, <2>3, <2>4, <2>5, SettleOthers
<1>6. CASE ReceiveCatchUp(c)
    <2>1. /\ change[c].at = "got" /\ TakeOver(c, change[c].data) /\ Pump(c, todo[c])
          /\ UNCHANGED <<version, timer, online, chan>>
        BY <1>6 DEF ReceiveCatchUp, serverVars
    <2>2. IdleIsDone(c)' /\ change'[c].at \in {"none", "change"}
        BY <1>0, <2>1, PumpIdles
    <2>3. \A k \in Keys : sent'[c][k] = IF model'[c][k] = Gone THEN Absent ELSE model'[c][k]
        BY <2>1 DEF TakeOver, TypeInv, ViewTypeOK, Baseline
    <2>4. IsCaredFor(c)'
        BY <2>3 DEF IsCaredFor, Differs, Changed
    <2>5. SettlesOf(c)'
        BY <2>2, <2>4 DEF SettlesOf, DoneIsCaredFor, HeardOfDone, JustDone
    <2>6. ASSUME NEW e \in Clients \ {c} PROVE told'[e] = told[e] /\ (Reached(e)' => Reached(e))
        BY <2>1, TakeOverOthers DEF Reached
    <2> QED
        BY <1>1, <2>1, <2>5, <2>6, TakeOverNoOther, SettleOthers
<1> QED
    BY <1>2, <1>3, <1>4, <1>5, <1>6 DEF EditorStep

LEMMA SettleUser == ASSUME TypeInv, SettleInv, NEW c \in Clients, UserStep(c) PROVE SettleInv'
<1>0. /\ UNCHANGED <<version, ver, sent, told, blurred, astray, change, todo, chan, online>>
      /\ timer \subseteq timer'
    BY DEF UserStep, Grab, LetGo, Move, Delete, Type, serverVars, viewVars, knownVars, chainVars
<1>1. \A e \in Clients : Reached(e)' => Reached(e)
    BY <1>0 DEF Reached
<1>2. CASE UNCHANGED model
    BY <1>0, <1>1, <1>2, AllSettle
<1>3. ASSUME \A e \in Clients \ {c} : model'[e] = model[e], c \in timer' PROVE SettleInv'
    <2>1. \A k : Comes(c, k)'
        BY <1>3 DEF Comes, Awaits
    <2>2. IsCaredFor(c)' /\ DoneIsCaredFor(c)'
        BY <2>1 DEF IsCaredFor, DoneIsCaredFor
    <2>3. HeardOfDone(c)' /\ IdleIsDone(c)'
        BY <1>0, <1>1 DEF SettleInv, SettlesOf, HeardOfDone, IdleIsDone, JustDone
    <2>4. SettlesOf(c)'
        BY <2>2, <2>3 DEF SettlesOf
    <2> QED
        BY <1>0, <1>1, <1>3, <2>4, SettleOthers
<1>4. ASSUME NEW k \in Keys, Delete(c, k) \/ \E to \in Moves : Move(c, k, to) PROVE SettleInv'
    BY <1>3, <1>4 DEF Delete, Move, TypeInv, ViewTypeOK
<1>5. LetGo(c) \/ Type(c) \/ (\E k \in Keys : Grab(c, k)) => UNCHANGED model
    BY DEF LetGo, Type, Grab, viewVars
<1> QED
    BY <1>2, <1>4, <1>5 DEF UserStep

LEMMA SettleNetwork == ASSUME TypeInv, SettleInv, NetworkStep PROVE SettleInv'
<1>0. /\ change \in [Clients -> Changes] /\ todo \in [Clients -> Seq(SUBSET Keys)]
      /\ chan \in [Clients -> Seq(Tables)]
    BY DEF TypeInv, ChainTypeOK, ServerTypeOK
<1>1. ASSUME NEW c \in Clients, LoseChange(c) PROVE SettleInv'
    <2>1. /\ UNCHANGED <<version, ver, sent, model, told, blurred, timer, online, chan>>
          /\ astray' = astray \cup {<<c, k>> : k \in {k \in Keys : Changed(model, sent, c, k)}}
          /\ Pump(c, todo[c]) /\ todo[c] \in Seq(SUBSET Keys)
        BY <1>0, <1>1 DEF LoseChange, serverVars
    <2>2. IdleIsDone(c)' /\ change'[c].at \in {"none", "change"}
        BY <2>1, PumpIdles
    <2>3. \A k \in Keys : Differs(c, k)' => Comes(c, k)'
        BY <2>1 DEF Differs, Changed, Comes
    <2>4. SettlesOf(c)'
        BY <2>2, <2>3 DEF SettlesOf, IsCaredFor, DoneIsCaredFor, HeardOfDone, JustDone
    <2>5. \A e \in Clients \ {c} : change'[e] = change[e] /\ todo'[e] = todo[e]
        BY <1>0, <2>1 DEF Pump, Answered
    <2>6. \A e \in Clients : Reached(e)' => Reached(e)
        BY <2>1 DEF Reached
    <2> QED
        BY <2>1, <2>4, <2>5, <2>6, SettleOthers
<1>2. ASSUME NEW c \in Clients, Disconnect(c) \/ Reconnect(c) PROVE SettleInv'
    <2>1. UNCHANGED <<version, ver, sent, model, told, blurred, astray, timer, todo, change>>
        BY <1>2 DEF Disconnect, Reconnect, viewVars, knownVars, chainVars
    <2>2. ~ Reached(c)'
        <3>1. CASE Disconnect(c)
            BY <3>1 DEF Disconnect, Reached
        <3>2. CASE Reconnect(c)
            <4>1. Snapshot \in Tables
                BY SnapshotTypes DEF TypeInv
            <4>2. chan'[c] = Append(chan[c], Snapshot) /\ chan[c] \in Seq(Tables)
                BY <1>0, <3>2 DEF Reconnect
            <4>3. chan'[c] # <<>>
                BY <4>1, <4>2, AppendLast
            <4> QED
                BY <4>3 DEF Reached
        <3> QED
            BY <1>2, <3>1, <3>2
    <2>3. \A e \in Clients \ {c} : Reached(e)' => Reached(e)
        BY <1>0, <1>2 DEF Disconnect, Reconnect, Reached
    <2> QED
        BY <2>1, <2>2, <2>3, AllSettle
<1> QED
    BY <1>1, <1>2 DEF NetworkStep

LEMMA SettleNext ==
    ASSUME TypeInv, SheetInv, AgreeInv, ChanInv, SettleInv, [Next]_vars PROVE SettleInv'
<1>1. ASSUME NEW r \in answers, ReceiveAnswer(r) PROVE SettleInv'
    <2>1. r.from \in Clients /\ r.data \in OnTheWay
        BY OnTheWayMembers DEF TypeInv, AskTypeOK
    <2>2. /\ TakeOver(r.from, r.data)
          /\ UNCHANGED <<version, place, change, todo, timer, online, chan>>
        BY <1>1 DEF ReceiveAnswer, serverVars, chainVars
    <2>3. \A e \in Clients : Reached(e)' => Reached(e)
        BY <2>2 DEF Reached
    <2>4. SettlesOf(r.from)'
        BY <2>1, <2>2, <2>3, SettleTakesOver
    <2> QED
        BY <2>1, <2>2, <2>3, <2>4, TakeOverNoOther, TakeOverOthers, SettleOthers
<1>2. ASSUME UNCHANGED <<version, ver, sent, model, told, blurred, astray, timer, todo, change,
                         online, chan>>
      PROVE  SettleInv'
    BY <1>2, AllSettle DEF Reached
<1>3. ASSUME NEW r \in answers, ReceiveLocks(r) PROVE SettleInv'
    BY <1>2, <1>3 DEF ReceiveLocks, serverVars, knownVars, chainVars
<1>4. ASSUME NEW k \in Keys, LeaseExpires(k) PROVE SettleInv'
    BY <1>2, <1>4 DEF LeaseExpires, viewVars, knownVars, chainVars
<1>5. CASE UNCHANGED vars
    BY <1>2, <1>5 DEF vars, serverVars, viewVars, knownVars, chainVars
<1> QED
    BY <1>1, <1>3, <1>4, <1>5, SettleEditor, SettleServer, SettleUser, SettleNetwork
       DEF Next, AnswerStep

LEMMA SettleAlways == Spec => [](TypeInv /\ AgreeInv /\ SettleInv)
<1> DEFINE Inv == TypeInv /\ SheetInv /\ FreshInv /\ AgreeInv
<1>1. Init => ChanInv /\ SettleInv
    BY SettleInit DEF Init, ChanInv, EndsNow
<1>2. Inv /\ TypeInv' /\ ChanInv /\ SettleInv /\ [Next]_vars => (ChanInv /\ SettleInv)'
    BY ChanNext, SettleNext
<1>3. Inv => TypeInv /\ AgreeInv
    OBVIOUS
<1>4. Inv' => TypeInv'
    OBVIOUS
<1> HIDE DEF Inv
<1>5. Spec => []Inv
    BY AgreeAlways DEF Inv
<1> QED
    BY <1>1, <1>2, <1>3, <1>4, <1>5, PTL DEF Spec

\* Once things are quiet an editor with the current version shows what the server has, whatever
\* was refused, overtaken or done twice on the way; what it does not show is a change that was
\* dropped, and that nothing is to come for.
THEOREM SheetConverges == Spec => []Converges
<1>1. ASSUME TypeInv, AgreeInv, SettleInv PROVE Converges
    <2> SUFFICES ASSUME NEW c \in Clients, Quiet(c), ver[c] = version, c \notin blurred,
                        NEW k \in Keys, <<c, k>> \notin astray
                 PROVE  model[c][k] = Where(place[k])
        BY DEF Converges
    <2>1. AgreedOn(c, k)
        BY <1>1 DEF AgreeInv, AgreeOf, Agrees
    <2>2. ~ Comes(c, k) /\ ~ Underway(c, k)
        <3>1. todo[c] = <<>>
            BY <1>1 DEF Quiet, SettleInv, SettlesOf, IdleIsDone
        <3> QED
            BY <3>1 DEF Quiet, Comes, Awaits, Reached, InTodo, Underway
    <2>3. ~ Differs(c, k)
        BY <1>1, <2>2 DEF SettleInv, SettlesOf, IsCaredFor
    <2>4. model[c][k] \in Places \cup {Gone} /\ place[k] \in Places \cup {Unmoved, Gone}
        BY <1>1 DEF TypeInv, ViewTypeOK, ServerTypeOK
    <2>5. Home \in Places /\ Absent \notin Places \cup {Gone} /\ Gone # Unmoved
        BY SheetAssumption DEF SheetAssumption, Places
    <2>6. Where(place[k]) # Absent /\ Where(Gone) = Gone
        BY <2>4, <2>5 DEF Where
    <2>7. sent[c][k] = Where(place[k]) \/ (sent[c][k] = Absent /\ place[k] = Gone)
        BY <2>1 DEF AgreedOn
    <2>8. model[c][k] = sent[c][k] \/ (model[c][k] = Gone /\ sent[c][k] = Absent)
        BY <2>3 DEF Differs, Changed
    <2> QED
        BY <2>4, <2>5, <2>6, <2>7, <2>8
<1> QED
    BY <1>1, SettleAlways, PTL
=============================================================================
