------------------------------ MODULE MCAccess ------------------------------
(* Instances of Access for TLC.                                            *)
EXTENDS Access

PlanBitmaps == {{GuestBit}, Bits}
RestrictedBitmaps == {Bits \ {GuestBit}, Bits}
=============================================================================
