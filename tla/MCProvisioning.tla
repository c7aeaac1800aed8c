---------------------------- MODULE MCProvisioning -----------------------------
(* Instances of Provisioning: two requests for one profile name or two.    *)
EXTENDS Provisioning

CONSTANTS k1, k2, n1, n2, d1, d2

================================================================================
