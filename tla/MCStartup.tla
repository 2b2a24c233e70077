----------------------------- MODULE MCStartup -----------------------------
(* Instances of Startup for TLC: the topics job asks for two pages.        *)
EXTENDS Startup

CONSTANTS u, v, topics

TwoPages == [j \in Jobs |-> 2]
=============================================================================
