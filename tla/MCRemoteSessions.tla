-------------------------- MODULE MCRemoteSessions --------------------------
(* RemoteSessions with two clients, the first of which takes two leases.   *)
EXTENDS RemoteSessions

CONSTANTS k1, k2, l1, l2, l3

MCOwnerOf(l) == IF l = l3 THEN k2 ELSE k1
=============================================================================
