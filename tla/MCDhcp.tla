--------------------------------- MODULE MCDhcp ---------------------------------
(* Instances of Dhcp for TLC.                                                  *)
EXTENDS Dhcp

CONSTANTS google

\* Nobody answers a probe; somebody answers those of requests; the first address is in use; all are.
MCHostSets == {{}, {0}, {100}, {100, 101}}
MCUpdates == {[decodes |-> d, parts |-> 2, name |-> google] : d \in BOOLEAN}
================================================================================
