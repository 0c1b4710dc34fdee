--------------------------- MODULE MCHttpSessions ---------------------------
EXTENDS HttpSessions, TLC

CONSTANTS s1, s2

\* One session may ping, the other one may add a message.
MCAsks == (s1 :> {"ping", "messages", "secondaryMessages"})
            @@ (s2 :> {"newMessage", "invalid"})
=============================================================================
