---------------------------- MODULE MCMembership ----------------------------
(* Instances of Membership for TLC.                                        *)
EXTENDS Membership

CONSTANT basic

\* The form leaves the plan out, or names it.
AnyWish == {basic, NoPlan}
=============================================================================
