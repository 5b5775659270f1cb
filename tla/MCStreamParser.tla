--------------------------- MODULE MCStreamParser ---------------------------
(* Streams for TLC.                                                          *)
EXTENDS StreamParser, SequencesExt

CONSTANT MaxItems  \* bound: frames or headers in a stream

\* Frames without and with payload, one header for every error, and two for
\* the order of the checks.
Items ==
    {<<0, 3, 0>>, <<0, 4, 0, 1>>, <<1, 3, 0>>, <<2, 3, 0>>, <<3, 2, 1>>,
     <<0, 2, 1>>, <<0, 5, 1>>, <<0, 5, 0>>, <<0, 3, 3>>, <<0, 4, 2>>}

MCStreams == {FlattenSeq(items) : items \in SeqOf(Items, MaxItems)}
=============================================================================
