---------------------------- MODULE MCDiscovery -----------------------------
(* Two devices, one of them without a device id, on a network of three     *)
(* addresses.                                                              *)
EXTENDS Discovery, TLC

CONSTANTS d1, d2, a1, a2, i1

IdOf == d1 :> i1 @@ d2 :> NoId
HomeOf == d1 :> a1 @@ d2 :> a2
=============================================================================
