------------------------------- MODULE MCLog -------------------------------
EXTENDS Log

\* A short and a long message.
MCMessage == {<<1>>, <<2, 3, 2>>}
=============================================================================
