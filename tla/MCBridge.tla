------------------------------- MODULE MCBridge -------------------------------
(* Bridge on small instances; the .cfg files say which.  Ports are numbers,  *)
(* so that ports nobody has had yet, which are all alike, are taken in order. *)
EXTENDS Bridge, Naturals

Had(p) == \E h \in Hops : port[h] = p

FreshPortsInOrder == \A p, q \in Ports : p < q /\ Had(q) => Had(p)
=============================================================================
