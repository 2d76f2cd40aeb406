------------------------------ MODULE MCInbox ------------------------------
(* Instances of Inbox for TLC: two messages, a post and a key request. *)
EXTENDS Inbox

CONSTANTS home, other, m1, m2, p, r

MCFor == [o \in Objs |-> IF o \in {m1, r} THEN home ELSE other]
=============================================================================
