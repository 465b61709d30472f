------------------------------ MODULE MCRdpUdp ------------------------------
(* Instances of RdpUdp for TLC.                                               *)
EXTENDS RdpUdp

(* The server sends three pieces to a client that takes fewer than it assumes.*)
Downstream ==
    [window    |-> [s \in Sides |-> IF s = "client" THEN 2 ELSE 4],
     limit     |-> 0, threshold |-> 1, initial |-> 3, min |-> 2,
     writes    |-> [s \in Sides |-> IF s = "client" THEN <<>> ELSE << <<11, 12>>, <<13>> >>],
     faults    |-> [f \in Faults |-> IF f \in {"lose", "repeat"} THEN 1 ELSE 0]]

(* The client writes more than its send buffer holds.                         *)
Upstream ==
    [window    |-> [s \in Sides |-> IF s = "client" THEN 1 ELSE 2],
     limit     |-> 1, threshold |-> 2, initial |-> 1, min |-> 1,
     writes    |-> [s \in Sides |-> IF s = "client" THEN << <<1>>, <<2>>, <<3>> >> ELSE <<>>],
     faults    |-> [f \in Faults |-> IF f = "lose" THEN 2
                                     ELSE IF f \in {"early", "close"} THEN 1 ELSE 0]]

(* Keep-alive probes while pieces are lost or acknowledged.                   *)
Probed == [Downstream EXCEPT !.faults["repeat"] = 0, !.faults["probe"] = 1]

AllScenarios == {Downstream, Upstream, Probed}
=============================================================================
