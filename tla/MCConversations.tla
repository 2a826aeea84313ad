--------------------------- MODULE MCConversations ---------------------------
(* Small instances of Conversations for TLC. *)
EXTENDS Conversations, TLC

\* Accounts, conversations and requests are interchangeable, and no liveness
\* is checked.
Symmetry ==
  Permutations(Users) \cup Permutations(ConversationIds) \cup Permutations(Requests)
=============================================================================
