---------------------------- MODULE MCMessaging ----------------------------
EXTENDS Messaging

MCStatuses == {"ONLINE", "AWAY"}
=============================================================================
