----------------------------- MODULE SeqNumbers -----------------------------
(* Sequence numbers of the RDP-UDP transport (seq.rs): kept in full by both   *)
(* ends and sent as their low part.                                           *)
EXTENDS Integers

CONSTANT Wire      \* numbers travel modulo this; 65536 in the code

ASSUME WireAssumption == Wire \in Nat /\ Wire > 0 /\ Wire % 2 = 0

(* The number closest to the reference that has the given low part.           *)
reconstruct_seq(wire, ref) ==
    LET candidate == (ref - (ref % Wire)) + wire
        half      == Wire \div 2
    IN  IF candidate > ref
        THEN IF candidate - ref > half /\ candidate >= Wire
             THEN candidate - Wire ELSE candidate
        ELSE IF ref - candidate > half THEN candidate + Wire ELSE candidate

(* Channel numbers skip every number whose low part is zero.                  *)
next_channel_seq(c) == IF (c + 1) % Wire = 0 THEN c + 2 ELSE c + 1

truncate_seq(n) == n % Wire
=============================================================================
