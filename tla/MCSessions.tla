----------------------------- MODULE MCSessions -----------------------------
(* Small instances of Sessions.                                               *)
EXTENDS Sessions, TLC

CONSTANTS l1, l2, l3, alice, bob

(* Two connections of one account, to the same kind of desktop or not.        *)
TwoLogins == {l1, l2}
OneAccount == [l \in {l1, l2} |-> alice]
TwoX11 == [l \in {l1, l2} |-> "x11"]
MixedKinds == l1 :> "x11" @@ l2 :> "gnome"

(* Two connections of one account, one of another.                            *)
ThreeLogins == {l1, l2, l3}
TwoAccounts == l1 :> alice @@ l2 :> alice @@ l3 :> bob
ThreeX11 == [l \in {l1, l2, l3} |-> "x11"]

Symmetry == Permutations({l1, l2})
=============================================================================
