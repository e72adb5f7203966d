----------------------- MODULE MCNotificationSession -----------------------
(* The stored list of NotificationSession for TLC. *)
EXTENDS NotificationSession

CONSTANTS Ann, Bob, Friends

OneGroup == <<Friends>>
TwoContacts == <<[who |-> Ann, group |-> Friends], [who |-> Bob, group |-> NoGroup]>>

\* The commands whose handlers clear m_hasCommand when their text is not complete.
Waiting == {"VER", "TWN", "USR", "SYN", "BPR", "LST", "NLN", "UBX", "NOT", "ADC", "ADN"}

AllCalls == {"addContact", "delContact", "blockContact", "deblockContact", "addGroup", "delGroup",
             "changeStatus"}
=============================================================================
