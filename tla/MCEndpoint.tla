----------------------------- MODULE MCEndpoint -----------------------------
EXTENDS Endpoint, TLC

CONSTANTS master, secondary, p, q, r

\* The master makes p and q, the secondary makes r.
MCCaller == (p :> master) @@ (q :> master) @@ (r :> secondary)
=============================================================================
