-------------------------- MODULE MCPageConnection --------------------------
\* The page's connection with the delays of the code in seconds: see the
\* configurations Connection*.cfg.
EXTENDS PageConnection
=============================================================================
