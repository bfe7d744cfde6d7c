------------------------------ MODULE MCMalSync ------------------------------
EXTENDS MalSync

\* A chain whose order is not that of its ids.
MCSequel == {<<2, 1>>, <<1, 3>>}

\* One show is dropped or finished by the user, one dropped, one left alone.
MCVersions == <<{0, 1, 2}, {0, 1}, {1}>>
=============================================================================
