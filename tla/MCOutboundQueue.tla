-------------------------- MODULE MCOutboundQueue --------------------------
(***************************************************************************)
(* OutboundQueue for TLC: c1 is pumped and gets messages on three slots;   *)
(* c2 only fills up its reliable lane, so that groups for both are         *)
(* refused now and then.                                                   *)
(***************************************************************************)
EXTENDS OutboundQueue, TLC

CONSTANTS c1, c2

MCConnections == {c1, c2}
MCOffered == (c1 :> {"world", "combat", "control"}) @@ (c2 :> {})
=============================================================================
