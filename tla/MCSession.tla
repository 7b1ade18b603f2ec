----------------------------- MODULE MCSession ------------------------------
(* A small instance of Session for TLC. *)
EXTENDS SessionProperties

CONSTANTS h1, h2   \* handlers, as model values
=============================================================================
