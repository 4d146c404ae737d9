----------------------------- MODULE MCWireTrip -----------------------------
(* WireTrip on small instances: the default namespace and another, ids of   *)
(* one digit and of two, attachments of one byte and of two.                *)
EXTENDS WireTrip

MCNamespaces == {<<"/">>, <<"/", "n">>}
MCIds == {<<"0">>, <<"1", "2">>}
MCAttachments == UNION {[1 .. n -> {"x", "4"}] : n \in 1 .. 2}
=============================================================================
