----------------------------- MODULE MCClients -----------------------------
(* Clients with up to three HID interfaces, so that the first mouse, a     *)
(* later one and none at all can be asked for.                             *)
EXTENDS Clients
=============================================================================
