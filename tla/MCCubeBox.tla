----------------------------- MODULE MCCubeBox -----------------------------
(* CubeBox on small instances: two conversations, two turns.               *)
EXTENDS CubeBoxProperties

TwoConversations == 1..2
TwelveNumbers == 1..12
=============================================================================
