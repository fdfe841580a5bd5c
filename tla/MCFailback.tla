------------------------------- MODULE MCFailback -------------------------------
(* Failback for TLC: two models in a chain, which completions try in the other  *)
(* order, as the chains of two tiers may share models; and one model alone.     *)
EXTENDS Failback

CONSTANTS a, b

ChainOfTwo == [c \in Calls |-> IF c \in Reviews THEN <<a, b>> ELSE <<b, a>>]
ChainOfOne == [c \in Calls |-> <<a>>]
================================================================================
