---------------------------- MODULE MCPmemDriver ----------------------------
(* PmemDriver for TLC.  Pages of two bytes: the read of four bytes at 3      *)
(* touches three pages and starts in the middle of one; address 0 and the    *)
(* page at 0, which the methods treat specially, are asked for too.          *)
EXTENDS PmemDriver

MCRequests == {[addr |-> a, len |-> n] : a \in {0, 1}, n \in {0, 1}}
                 \cup {[addr |-> 3, len |-> 4]}
TwoPages   == {[addr |-> 4, len |-> 4]}

Client(asks, setFirst) == [asks |-> asks, setFirst |-> setFirst]

\* Clients that use the PTE mode only and wait for it (one of them also tries a
\* mode that does not exist); clients that use the two other modes at will.
Careful == {Client({PTE, 7}, TRUE), Client({IOSPACE, PHYSICAL}, FALSE)}
\* Clients that wait for their SET_MODE but want different modes.
Divided == {Client({PHYSICAL, PTE}, TRUE)}
=============================================================================
