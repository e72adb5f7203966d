-------------------------- MODULE MCP2PTransfers --------------------------
(* Transfers of one peer for TLC: two files, and a picture it asks for. *)
EXTENDS P2PTransfers

CONSTANTS Photo, Song, Face

TwoFiles == [t \in Transfers |-> IF t = Face THEN "EMOTICON" ELSE "FILE"]
SongInTwo == [t \in Transfers |-> IF t = Song THEN 2 ELSE 1]
LowBases == [t \in Transfers |-> CASE t = Photo -> 10 [] t = Face -> 20 [] t = Song -> 30]
=============================================================================
