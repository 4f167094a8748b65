----------------------------- MODULE MCServing -----------------------------
(* Model values for the runs of Serving.                                   *)
EXTENDS Serving

CONSTANTS r1, r2, ui, task

MCRequests == {r1, r2}
MCMixes    == {[r \in MCRequests |-> IF r = r1 THEN "sync" ELSE k] : k \in {"stream", "napi"}}
MCCallers  == {ui, task}
\* The text of r1 is whole again with its second piece, that of r2 only without it.
MCSplit    == [r \in MCRequests |-> IF r = r1 THEN {1} ELSE {2}]
=============================================================================
