---------------------------- MODULE MCFrameCodec ----------------------------
EXTENDS FrameCodec

Plain(k, s, n) == [kind |-> k, stream |-> s, len |-> n, count |-> 0, entries |-> <<>>,
                   block |-> TRUE]
MaxFrameSize(v) == [id |-> 5, value |-> v]
Entries(c, es) == [Plain("Settings", 0, 4 + 8 * Len(es)) EXCEPT !.count = c, !.entries = es]

\* DATA without payload, within a limit that SETTINGS raises and above every limit,
\* control frames with and without headers, one above the control limit, two that do not
\* decode, and three SETTINGS, of which one says more and one less than it holds.
SmallFrames ==
  {Plain("Data", 1, 0), Plain("Data", 3, 3), Plain("Data", 5, 13),
   Plain("SynReply", 3, 5), Plain("SynStream", 2, 11), Plain("SynReply", 1, 13),
   [Plain("SynReply", 1, 6) EXCEPT !.block = FALSE],
   Plain("Ping", 0, 2), Plain("SynReply", 1, 4),
   Entries(2, <<MaxFrameSize(3)>>), Entries(0, <<MaxFrameSize(4)>>)}
=============================================================================
