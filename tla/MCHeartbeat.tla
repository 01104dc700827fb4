----------------------------- MODULE MCHeartbeat -----------------------------
\* The page's connection and the heartbeat of the device, with the delays of
\* the code in half seconds: see Connection.cfg.
EXTENDS Heartbeat
=============================================================================
