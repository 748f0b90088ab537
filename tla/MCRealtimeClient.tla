-------------------------- MODULE MCRealtimeClient --------------------------
(* One client, three callers: two that wait for a connection, with room    *)
(* for one of them, or that close it at any moment.                        *)
EXTENDS RealtimeClient

Accepting == {}            \* a platform that takes every close code
Browser == {1007, 1011}    \* WebSocket.close takes 1000 and 3000..4999
=============================================================================
