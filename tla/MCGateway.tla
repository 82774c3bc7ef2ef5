----------------------------- MODULE MCGateway ------------------------------
(***************************************************************************)
(* A user with two sockets, and a second user with one for larger          *)
(* instances; two markets of which one is active from the start.           *)
(***************************************************************************)
EXTENDS Gateway

CONSTANTS u1, u2, s1, s2, s3, r1, r2

MCOwner == [s \in Sockets |-> IF s = s3 THEN u2 ELSE u1]
=============================================================================
