------------------------------ MODULE MCFileBody ------------------------------
(***************************************************************************)
(* Instances of FileBody for TLC.                                          *)
(***************************************************************************)
EXTENDS FileBody

CONSTANTS c1, c2

TwoHandlers == {c1, c2}

\* No Content-Length, an empty body, a short, an exact and a long one.
Lengths == {NoLength} \cup 0..3
===============================================================================
