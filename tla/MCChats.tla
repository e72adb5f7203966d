------------------------------ MODULE MCChats ------------------------------
(* Two contacts for Chats. *)
EXTENDS Chats
CONSTANTS Ann, Bob
=============================================================================
