------------------------------ MODULE MCDelivery ------------------------------
(* Small instances of the delivery of Job updates for TLC. *)
EXTENDS UpdateDelivery

(* A Runner that may fall back from a stream to polling. *)
MCKinds == {"stream", "http"}
===============================================================================
