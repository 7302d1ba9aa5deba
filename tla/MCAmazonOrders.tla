---------------------------- MODULE MCAmazonOrders ----------------------------
(* Instances of AmazonOrders for TLC: order lines a and b, and the scheduler    *)
(* next to a command line.                                                      *)
EXTENDS AmazonOrders, TLC
CONSTANTS a, b, scheduler, cli
Symmetry == Permutations(Lines) \union Permutations(Workers)
===============================================================================
