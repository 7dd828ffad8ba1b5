---------------------------- MODULE MCMessageFlow -----------------------------
(* Instances of MessageFlow for TLC: how often each message is delivered. *)
EXTENDS MessageFlow

OnceEach == [m \in Messages |-> 1]

\* A message for somebody else once, the others twice.
ForeignOnce == [m \in Messages |-> IF m \in Foreign THEN 1 ELSE 2]
=============================================================================
