----------------------------- MODULE MCChatbot -----------------------------
(* An instance of Chatbot and GuestChatbot for TLC. *)
EXTENDS Chatbot, TLC

CONSTANTS d1, d2, c1, c2, s1, s2

\* One chat at a time, and deletions beside it.
OneChatAtATime == s1 :> {"chat"} @@ s2 :> {"delete"}

\* Chats in both.
TwoTabs == s1 :> {"chat"} @@ s2 :> {"chat"}

Symmetry == Permutations({d1, d2}) \cup Permutations({c1, c2})
=============================================================================
