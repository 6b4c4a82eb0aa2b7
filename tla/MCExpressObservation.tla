-------------------------- MODULE MCExpressObservation --------------------------
(* Two exchanges, for what the label "execution" is documented to mean. *)
EXTENDS ExpressObservation

CONSTANTS r1, r2

TwoRequests == {r1, r2}
=============================================================================
