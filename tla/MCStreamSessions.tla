--------------------------- MODULE MCStreamSessions ---------------------------
(***************************************************************************)
(* Instance of StreamSessions.  Two connections give a user two targets,   *)
(* two streams on one of them let a session be replaced, two users let a   *)
(* connection change hands.                                                *)
(***************************************************************************)
EXTENDS StreamSessions

CONSTANTS c1, c2, i1, i2

ThreeStreams == {<<c1, i1>>, <<c1, i2>>, <<c2, i1>>}
===============================================================================
