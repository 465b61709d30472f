-------------------------------- MODULE Fifo --------------------------------
(* What a stream transport promises to the layer above it: two streams, one   *)
(* per direction, each read in the order it was written and without a gap,    *)
(* until one of the two ends closes.                                          *)
EXTENDS Integers, Sequences, SequencesExt

CONSTANT Ends

VARIABLES sent,    \* what the writer of each end has handed over
          got,     \* what came out at the other end of each end's stream
          open     \* the ends that are not closed

vars == <<sent, got, open>>

FifoInit == /\ sent = [e \in Ends |-> <<>>]
            /\ got  = [e \in Ends |-> <<>>]
            /\ open = Ends

Write(e) ==
    /\ e \in open
    /\ IsStrictPrefix(sent[e], sent'[e])
    /\ sent' = [sent EXCEPT ![e] = sent'[e]]
    /\ UNCHANGED <<got, open>>

(* The next n pieces of e's stream come out at the other end.                 *)
Deliver(e, n) ==
    /\ open \ {e} # {}
    /\ Len(got[e]) + n =< Len(sent[e])
    /\ got' = [got EXCEPT ![e] = SubSeq(sent[e], 1, Len(@) + n)]
    /\ UNCHANGED <<sent, open>>

Close(e) == /\ e \in open
            /\ open' = open \ {e}
            /\ UNCHANGED <<sent, got>>

FifoNext ==
    \E e \in Ends :
        \/ Write(e)
        \/ \E n \in 1 .. Len(sent[e]) : Deliver(e, n)
        \/ Close(e)

FifoSpec == FifoInit /\ [][FifoNext]_vars
=============================================================================
