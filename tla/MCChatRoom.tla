----------------------------- MODULE MCChatRoom -----------------------------
(* Finite instances of ChatRoom for TLC.                                   *)
EXTENDS ChatRoom, TLC

CONSTANTS r1, r2, a, b, q1, q2

\* One sender in each room.
MCPlace == [s \in Sender |-> IF s = a THEN r1 ELSE r2]
=============================================================================
