-------------------------- MODULE MCAssistantJobs --------------------------
(***************************************************************************)
(* Two jobs of one conversation, which exists or which one of them starts; *)
(* the page of the second one is closed at once.                           *)
(***************************************************************************)
EXTENDS AssistantJobs

CONSTANTS j1, j2, c1

OneConversation == [j \in Jobs |-> c1]
=============================================================================
