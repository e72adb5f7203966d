---------------------------- MODULE MCSnacRelay ----------------------------
EXTENDS SnacRelay

MCSender == <<65, 110>>
MCReader == <<66, 111, 98>>
MCNumber == <<4660, 255>>
MCAway == <<98, 117, 115, 121>>
MCPassword == [i \in 1..17 |-> 48 + i]
MCCaps == <<[i \in 1..16 |-> i], [i \in 1..16 |-> 255]>>
MCStatuses == {"ONLINE", "AWAY", "NA", "DND", "OCUPPIED", "FFC"}
MCHash == [i \in 1..16 |-> 240 + (i % 16)]
MCVersions == (1 :> 3) @@ (19 :> 4) @@ (21 :> 1)
=============================================================================
