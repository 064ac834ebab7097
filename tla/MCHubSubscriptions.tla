------------------------- MODULE MCHubSubscriptions -------------------------
(* HubSubscriptions with two interchangeable clients.                      *)
EXTENDS HubSubscriptions

CONSTANTS c1, c2

Clients == {c1, c2}
=============================================================================
