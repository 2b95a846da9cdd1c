----------------------------- MODULE MCPresence -----------------------------
(* Finite instances of Presence for TLC.                                   *)
EXTENDS Presence, TLC

CONSTANTS a, b, n1, n2, a1, a2, b1

\* The page of user a has its two sockets, the page of user b one, on the
\* node that does not serve a's own socket of room 0.
MCOwner == [s \in Socket |-> IF s = b1 THEN b ELSE a]
MCHost  == [s \in Socket |-> IF s = a1 THEN n1 ELSE n2]
=============================================================================
