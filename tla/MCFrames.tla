------------------------------- MODULE MCFrames -------------------------------
(* A contract that exists and one that can be created. *)
EXTENDS Frames

CONSTANTS a, c

MCLedger0 ==
    [x \in Contract |->
        IF x = c THEN NoInstance
        ELSE [exec |-> CHOOSE w \in Wasm : TRUE, store |-> InitVal, data |-> InitVal]]
=============================================================================
