----------------------------- MODULE MCMetering -----------------------------
EXTENDS Metering, TLC

CONSTANTS HourCap, DayCap

MCCaps == [hour |-> HourCap, day |-> DayCap]
Interchangeable == Permutations(Instances)
=============================================================================
