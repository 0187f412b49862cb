--------------------------- MODULE MCSheetObjects ---------------------------
(* Small instances of SheetObjects for TLC. *)
EXTENDS SheetObjects, TLC

Budget(m, d, t, g, o, x, l) ==
    [e \in Events |-> CASE e = "move" -> m [] e = "delete" -> d [] e = "type" -> t
                       [] e = "grab" -> g [] e = "drop" -> o [] e = "expire" -> x
                       [] e = "lose" -> l]

\* Every kind of event, and every pair of kinds that act on the same state.
Everything ==
    {Budget(2, 0, 1, 0, 0, 0, 1), Budget(1, 1, 0, 0, 0, 0, 1), Budget(2, 0, 0, 0, 1, 0, 0),
     Budget(1, 0, 0, 1, 0, 1, 0), Budget(0, 0, 0, 1, 1, 0, 0), Budget(0, 1, 0, 1, 0, 0, 0),
     Budget(0, 2, 0, 0, 0, 0, 0), Budget(0, 0, 0, 2, 0, 1, 0)}

TwoDrags == {Budget(2, 0, 1, 0, 0, 0, 0)}

Symmetry == Permutations(Clients) \cup Permutations(Moves)
=============================================================================
