---------------------------- MODULE MCSendWindow ----------------------------
EXTENDS SendWindow

CONSTANTS s1, s2

TwoStreams == {s1, s2}
MCWindows == {0, 1, 2}
MCUpdates == {2}
MCI64Min == -100

\* The second stream only competes for the slot of the cmd channel; its frames carry one
\* byte, those of the first, whose max_frame_size has no room for payload, the whole buffer.
MCFrameSizes == [s \in Streams |-> IF s = s1 THEN {8} ELSE {9}]
MCMaxWrites == [s \in Streams |-> IF s = s1 THEN 2 ELSE 1]
MCMaxUpdates == [s \in Streams |-> IF s = s1 THEN 1 ELSE 0]
=============================================================================
