---------------------------- MODULE PacketStream ----------------------------
(***************************************************************************)
(* What Client::poll and Client::iter of engineio promise to the one       *)
(* thread that iterates over the packets: the packets come out in the      *)
(* order in which the transport handed them over, each exactly once, and   *)
(* none disappears silently: a packet that is not returned was consumed by *)
(* a call that failed.                                                     *)
(***************************************************************************)
EXTENDS Naturals, Sequences

VARIABLES
    fetched,     \* number of packets taken off the transport
    settled,     \* packets 1..settled have been returned or refused
    returned,    \* the packets returned, in order, as [n, id]
    refused      \* the numbers of the packets whose poll() failed

vars == <<fetched, settled, returned, refused>>

Init == fetched = 0 /\ settled = 0 /\ returned = <<>> /\ refused = {}

Fetch ==
    /\ fetched' \in Nat /\ fetched' > fetched
    /\ UNCHANGED <<settled, returned, refused>>

ReturnNext ==
    /\ settled < fetched
    /\ settled' = settled + 1
    /\ Len(returned') = Len(returned) + 1
    /\ \A i \in 1..Len(returned) : returned'[i] = returned[i]
    /\ returned'[Len(returned')].n = settled'
    /\ UNCHANGED <<fetched, refused>>

Refuse ==
    /\ settled' \in (settled + 1)..fetched
    /\ refused' = refused \cup ((settled + 1)..settled')
    /\ UNCHANGED <<fetched, returned>>

Next == Fetch \/ ReturnNext \/ Refuse

Spec == Init /\ [][Next]_vars
=============================================================================
