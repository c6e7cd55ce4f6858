------------------------------ MODULE MCHostBase ------------------------------
EXTENDS HostBase

Frame(to, size, enc) == [to |-> to, size |-> size, enc |-> enc]

\* No payload, an encrypted one, one that is too long, and one for another
\* station.
MCFrames == {Frame("me", 0, FALSE), Frame("me", 1, TRUE), Frame("me", 3, FALSE),
             Frame("other", 1, FALSE)}
=============================================================================
