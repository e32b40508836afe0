---------------------------- MODULE MCModelServing ----------------------------
(* A finite instance of ModelLifecycle.  Requests and overlapping reloads are *)
(* looked at apart from each other: a behaviour has requests beside one       *)
(* reload thread and one crash, or two reload threads and no request.         *)
EXTENDS ModelLifecycle

CONSTANTS r1, r2, s1

VARIABLE part

InitPart == Init /\ part \in {"requests", "reloads"}
NextPart ==
    /\ Next
    /\ UNCHANGED part
    /\ part = "requests" => rpc'[r2] = "idle" /\ crashes' <= 1
    /\ part = "reloads" => spc'[s1] = "idle"

\* Fairness of ModelLifecycle.
SpecPart == InitPart /\ [][NextPart]_<<vars, part>> /\ WF_vars(Training)
=============================================================================
