-------------------------- MODULE MCSaveSerializer --------------------------
(* Small instances of SaveSerializer for TLC. *)
EXTENDS SaveSerializer

\* Any of the requests carry a number, and these were serialised in any order.
AnyOrder ==
    UNION {{order \in [some -> 1..Cardinality(some)] : \A a, b \in some : order[a] = order[b] => a = b} :
              some \in SUBSET Requests}

EveryOp == AllOps
=============================================================================
