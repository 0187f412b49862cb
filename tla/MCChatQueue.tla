---------------------------- MODULE MCChatQueue ----------------------------
(* Small instances of ChatQueue for TLC. *)
EXTENDS ChatQueue, TLC

CONSTANTS chat1, chat2, op1, hello, bye

\* Two chats with the same text and one op.
TwoChatsAndOp == {chat1, chat2, op1}
SameTextKinds == chat1 :> "chat" @@ chat2 :> "chat" @@ op1 :> "op"
SameText == chat1 :> hello @@ chat2 :> hello @@ op1 :> bye

\* A chat and an op.
ChatAndOp == {chat1, op1}
ChatAndOpKinds == chat1 :> "chat" @@ op1 :> "op"
ChatAndOpTexts == chat1 :> hello @@ op1 :> bye

\* Two chats with different texts.
TwoChats == {chat1, chat2}
TwoChatsKinds == chat1 :> "chat" @@ chat2 :> "chat"
TwoTexts == chat1 :> hello @@ chat2 :> bye

\* Everything but pausing, which queue_overlap exercises.
AllButPause ==
  {"enqueue", "top", "remove", "model", "move", "retry", "unreachable", "clear",
   "abort", "direct", "flush", "external", "sweep", "quick"}
InsertOps == {"enqueue", "top", "resend", "flush"}
OverlapOps == {"enqueue", "flush", "retry", "pause", "unreachable"}

EveryOutcome == AllOutcomes
NoTransient == AllOutcomes \ {"transient"}

Symmetry == Permutations(Probers) \cup Permutations(Gens)
=============================================================================
