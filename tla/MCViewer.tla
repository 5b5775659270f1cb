------------------------------ MODULE MCViewer ------------------------------
(* Bundles for TLC: an empty one, and one whose ticks repeat and go back.   *)
EXTENDS Viewer

Entry(tick, session, accepted) ==
    [tick |-> tick, session |-> session, accepted |-> accepted]

MCBundles ==
    {<<>>,
     <<Entry(3, "s1", TRUE), Entry(1, "s2", FALSE), Entry(3, "s1", FALSE)>>}
=============================================================================
