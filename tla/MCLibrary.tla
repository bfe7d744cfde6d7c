------------------------------ MODULE MCLibrary ------------------------------
EXTENDS Library

\* One job for episode 1, which the user may have already; one for episode 3
\* with a batch of two.
MCOwn   == [single |-> 1, batch |-> 3]
MCHolds == [single |-> {1}, batch |-> {2, 3}]

\* Hard links, and moves across devices: copy, then remove.
MCModes == {<<"hardlink", TRUE>>, <<"move", FALSE>>}
=============================================================================
