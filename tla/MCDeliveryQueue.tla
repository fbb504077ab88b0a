-------------------------- MODULE MCDeliveryQueue --------------------------
(* DeliveryQueue on small instances; the constants are given in the .cfg files. *)
EXTENDS DeliveryQueue
=============================================================================
