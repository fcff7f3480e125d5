------------------------------ MODULE MCStreams ------------------------------
(* Small instances of Streams for TLC. *)
EXTENDS Streams, TLC

CONSTANTS e1, e2, e3

D(kind, cut) == [kind |-> kind, cut |-> cut]
R(deltas, terminated) == [deltas |-> deltas, terminated |-> terminated]

Tail2 == <<D("text", TRUE), D("text", FALSE)>>
Cut2  == <<D("text", TRUE), D("text", TRUE)>>
Cut1  == <<D("text", TRUE)>>

(* Every way for a response to end: in a segment or in a residual, with or  *)
(* without a terminating chunk; and a second exchange beside it.            *)
MCResponses ==
    (e1 :> {R(Tail2, TRUE), R(Tail2, FALSE), R(Cut2, TRUE), R(Cut2, FALSE)}) @@ (e2 :> {R(Cut1, TRUE)})

(* Tool arguments, and a thought, beside text.                              *)
MCKinds ==
    (e1 :> {R(<<D("tool", FALSE), D("text", TRUE)>>, TRUE), R(<<D("reasoning", FALSE), D("text", FALSE)>>, FALSE)})
        @@ (e2 :> {R(Cut1, TRUE)})

(* One response that ends in a residual.                                    *)
MCTail == e1 :> {R(Tail2, TRUE)}
MCTailUnended == e1 :> {R(Tail2, FALSE)}

MCThree == [e \in {e1, e2, e3} |-> {R(Tail2, TRUE)}]
=============================================================================
