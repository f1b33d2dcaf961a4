---------------------------- MODULE MCAddresses ----------------------------
(* Two threads, two connections, one frame both threads may send.  21 is a *)
(* value LogicalAddress accepts and a header cannot hold.                  *)
EXTENDS Addresses, TLC

AddrValues == {4, 21}
Symmetric == Permutations(Apps) \cup Permutations(Conns)
=============================================================================
