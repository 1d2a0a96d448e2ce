----------------------------- MODULE MCServerRun ------------------------------
(***************************************************************************)
(* Instance of ServerRun: two calls that overlap or follow each other; two *)
(* addresses, so that one can change; two legal connection ids and a short *)
(* one; a clock that reaches the end of a token's life.                    *)
(***************************************************************************)
EXTENDS ServerRun, TLC
===============================================================================
