------------------------- MODULE MCSocketUringServer -------------------------
(* Instances of SocketUringServer for TLC. *)
EXTENDS SocketUringServer, TLC

CONSTANTS c1, c2, a1, a2, a3, a4

TwoClients   == {c1, c2}
FourInfos    == {a1, a2, a3, a4}
EarlyClose   == {{"early_close"}}
AllFaults    == {{"accept_error", "reset", "short_send", "early_close"}}
Symmetry     == Permutations(Client)
=============================================================================
