---------------------------- MODULE MCConnection -----------------------------
\* Two connects, the second over the first or after it.
EXTENDS Connection
=============================================================================
