-------------------------- MODULE MCConversationQueue --------------------------
(* Two posts or retries: a job whose run was stopped and its successor, or the *)
(* jobs of two posts whose claims cross.                                       *)
EXTENDS ConversationQueue
================================================================================
