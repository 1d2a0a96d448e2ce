---------------------------- MODULE MCResponseSend ----------------------------
(***************************************************************************)
(* Instances of ResponseSend for TLC.                                      *)
(***************************************************************************)
EXTENDS ResponseSend

CONSTANT Longest   \* the longest body

Answer(m, s, n, e) == [status |-> s, mode |-> m, len |-> n, is_end |-> e]

\* What send_404, send_error and the routes queue, and an open stream session.
Bodies == {Answer("SendHeader", FALSE, n, FALSE) : n \in 1..Longest}
          \cup {Answer("SendAdditionnalHeader", TRUE, n, FALSE) : n \in 0..Longest}
Bare == {Answer("SendHeader", FALSE, NoBody, TRUE),
         Answer("SendAdditionnalHeader", TRUE, NoBody, TRUE)}
Endless == {Answer("SendAdditionnalHeader", TRUE, NoBody, FALSE)}
Opening == {Answer("OpenStream", TRUE, NoBody, FALSE)}

Ending == Bodies \cup Bare
AllPlans == Ending \cup Endless \cup Opening
===============================================================================
