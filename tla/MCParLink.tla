------------------------------ MODULE MCParLink ------------------------------
(***************************************************************************)
(* ParLink with half bytes of two bits: a byte is 0..15, 0x80 is 8 and     *)
(* CTL2 is 2, so the packets of nine bytes need a length of two bytes.     *)
(* There are requests with and without (14) a response, an empty response, *)
(* and last bytes and lengths with and without the bit that reads as a     *)
(* raised Ctl2.                                                            *)
(***************************************************************************)
EXTENDS ParLink

MCRequests == {<<0>>, <<14>>, [i \in 1..9 |-> i + 1]}
MCResponses == {<<>>, <<2, 5>>, [i \in 1..9 |-> 15 - i]}
=============================================================================
