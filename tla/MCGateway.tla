---------------------------- MODULE MCGateway ----------------------------
(* Instantiates Gateway for TLC: the clients and the listening socket as  *)
(* model values, set in the cfg.                                           *)
EXTENDS Gateway, TLC

\* Request shapes without an oversize body.
MCReqKindsBounded == {k \in Req : k.body /= "huge"}

=============================================================================
