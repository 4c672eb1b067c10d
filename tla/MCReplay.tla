------------------------------ MODULE MCReplay ------------------------------
EXTENDS Replay

F(t, d) == [ts |-> t, rel |-> t, depth |-> d]

\* Two records, at words 3 and 12 of a file of 17.
MCFrames == <<F(1, TRUE), F(2, FALSE)>>

\* The whole file; a last record that reads as zeros from the end of its image on;
\* a first record that is cut in its depth, or reads as zeros from there on to the
\* end of the file, sizes included.
MCCrashes == {<<17, 0>>, <<16, 1>>, <<10, 0>>, <<10, 7>>}
=============================================================================
