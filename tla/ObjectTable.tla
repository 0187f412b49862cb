---------------------------- MODULE ObjectTable ----------------------------
(***************************************************************************)
(* What the object table of a sheet promises to its editors: an object has *)
(* at most one holder, it is changed by nobody else while it is held, and  *)
(* a change is made on the table its author was looking at: nothing that   *)
(* others did in between is overwritten unseen.                            *)
(*                                                                         *)
(* How the table gets to the editors is not said here: a proposal carries  *)
(* what its author saw, which may be outdated, or blurred.                 *)
(***************************************************************************)
EXTENDS Naturals

CONSTANTS
    Clients, Keys,
    Places,     \* where an object can be
    Unmoved,    \* nobody has moved it: it is where each editor's file has it
    Gone,       \* it was deleted
    Absent,     \* an editor's view of an object it no longer shows
    Blurred,    \* a view that mixes an older and a newer table
    Nobody

VARIABLES
    table,      \* place of each object
    holder,     \* holder of each object
    proposal    \* of each client: the change it asks for, or none

tableVars == <<table, holder, proposal>>

Views == [Keys -> Places \cup {Gone, Absent}] \cup {Blurred}
NoProposal == [kind |-> "none"]
Proposals == [kind : {"change"}, key : Keys, to : Places \cup {Gone}, seen : Views]

\* A view shows the table, up to what nobody has moved and what the editor itself removed.
Shows(view, t) == \A k \in Keys : t[k] = Unmoved \/ view[k] = t[k] \/ view[k] = Absent

Init ==
    /\ table = [k \in Keys |-> Unmoved]
    /\ holder = [k \in Keys |-> Nobody]
    /\ proposal = [c \in Clients |-> NoProposal]

Propose(c) ==
    /\ \E p \in Proposals : proposal' = [proposal EXCEPT ![c] = p]
    /\ UNCHANGED <<table, holder>>

\* The author holds the object from now on.
Accept(c) ==
    LET p == proposal[c] IN
    /\ p # NoProposal
    /\ holder[p.key] \in {c, Nobody}
    /\ p.seen = Blurred \/ Shows(p.seen, table)
    /\ table' = [table EXCEPT ![p.key] = p.to]
    /\ holder' = [holder EXCEPT ![p.key] = c]
    /\ proposal' = [proposal EXCEPT ![c] = NoProposal]

Withdraw(c) == proposal' = [proposal EXCEPT ![c] = NoProposal] /\ UNCHANGED <<table, holder>>

Take(c, k) ==
    /\ holder[k] = Nobody /\ holder' = [holder EXCEPT ![k] = c]
    /\ UNCHANGED <<table, proposal>>

\* Given back, run out, or lost with the connection; of one client, any number at a time.
Free(c) ==
    /\ \E ks \in SUBSET {k \in Keys : holder[k] = c} :
        holder' = [k \in Keys |-> IF k \in ks THEN Nobody ELSE holder[k]]
    /\ UNCHANGED <<table, proposal>>

Next ==
    \E c \in Clients :
        \/ Propose(c) \/ Accept(c) \/ Withdraw(c) \/ Free(c)
        \/ \E k \in Keys : Take(c, k)

Spec == Init /\ [][Next]_tableVars
=============================================================================
