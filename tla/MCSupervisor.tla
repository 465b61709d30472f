---------------------------- MODULE MCSupervisor ----------------------------
(* Instances of Supervisor for TLC.                                           *)
EXTENDS Supervisor, TLC

CONSTANTS tcp1, tcp2, p1, p2, p3, h1, h2, a1, a2, ip1, ip2

OneListener  == <<tcp1>>
TwoListeners == <<tcp1, tcp2>>

Symmetry == Permutations({p1, p2, p3}) \cup Permutations({h1, h2}) \cup
            Permutations({a1, a2}) \cup Permutations({ip1, ip2})
=============================================================================
