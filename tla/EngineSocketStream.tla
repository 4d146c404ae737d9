------------------------- MODULE EngineSocketStream -------------------------
(***************************************************************************)
(* With one polling thread the engine.io socket implements PacketStream.   *)
(* What is settled is what has left both the leftovers of the current      *)
(* payload and the hands of the polling thread.                            *)
(***************************************************************************)
EXTENDS EngineSocket

CONSTANT Poller   \* the polling thread

\* No clone of the client is polled by another thread.
OnePoller == Pollers = {Poller}

Stream == INSTANCE PacketStream WITH
    fetched  <- received,
    settled  <- received - (Len(remaining) + Len(hand[Poller])),
    returned <- delivered,
    refused  <- reported

\* A single iteration returns the packets in the order of the transport, each
\* once, and an iteration step that does not return a packet it took fails.
StreamSpec == Stream!Spec
=============================================================================
