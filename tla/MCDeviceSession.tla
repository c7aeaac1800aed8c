---------------------------- MODULE MCDeviceSession ----------------------------
(* Instances of DeviceSession: one or two processes on one configuration.  *)
EXTENDS DeviceSession, TLC

CONSTANTS b1, b2

Both == Permutations(Proc)

================================================================================
