---------------------------- MODULE MCGatewayMail ---------------------------
(* Two sleepy devices and two messages.  The devices are alike, so that    *)
(* the first message may be for the first of them.                         *)
EXTENDS GatewayMail

CONSTANTS ea, eb

Devices == {ea, eb}

ToEither == [m \in Messages |-> IF m = 1 THEN {ea} ELSE Devices]
=============================================================================
