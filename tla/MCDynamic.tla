---------------------------- MODULE MCDynamic ----------------------------
(***************************************************************************)
(* Instances of Dynamic for TLC.  One scenario bounds one thing the        *)
(* environment may do, so that each kind of interference is explored with  *)
(* as much traffic as it needs.                                            *)
(***************************************************************************)
EXTENDS Dynamic

Quiet == [recordings |-> 0, out |-> 1, in |-> 1, resizes |-> 0,
          tunnels |-> 1, losses |-> 0, closes |-> 0, quits |-> 0]

(* The channel moves under traffic both ways. *)
Moving == [Quiet EXCEPT !.out = 2, !.in = 2]

(* A new size comes in between. *)
Resized == [Quiet EXCEPT !.out = 2, !.resizes = 1]

(* The tunnel dies, or the client closes the channel. *)
Losing == [Quiet EXCEPT !.losses = 1, !.closes = 1]

(* The processor of the channel asks for its end. *)
Quitting == [Quiet EXCEPT !.in = 2, !.quits = 1]

(* A microphone channel is opened while the others move. *)
Joining == [Quiet EXCEPT !.recordings = 1, !.out = 0, !.in = 0]

(* The microphone is used twice, or closed by the client, without a tunnel. *)
Recording == [Quiet EXCEPT !.recordings = 2, !.in = 0, !.tunnels = 0]
Unplugged == [Quiet EXCEPT !.recordings = 1, !.closes = 1, !.tunnels = 0, !.out = 0]

AllScenarios == {Moving, Resized, Losing, Quitting, Joining, Recording, Unplugged}
=============================================================================
