----------------------------- MODULE MCSettling -----------------------------
(***************************************************************************)
(* Two services that share no state, checked one at a time: the initial    *)
(* state chooses the part that runs, and the other stays as it begins.     *)
(***************************************************************************)
EXTENDS UsageQuota, MediaGeneration, TLC

CONSTANTS o1, o2, o3, u1, admin, i1, i2

VARIABLE part
settlingVars == <<part, quotaVars, mediaVars>>

\* An analysis (run by a job) and an image of one user, and an image of an admin.
MCOwner == o1 :> u1 @@ o2 :> u1 @@ o3 :> admin
MCUnits == o1 :> 1 @@ o2 :> 3 @@ o3 :> 2

\* Images asked of RunPod by two instances.
MCDeployments == {[configured |-> "runpod", provider |-> "runpod", up |-> {i1, i2}]}

SettlingInit == part \in {"quota", "media"} /\ QuotaInit /\ MediaInit

SettlingNext ==
  \/ part = "quota" /\ QuotaNext /\ UNCHANGED <<part, mediaVars>>
  \/ part = "media" /\ MediaNext /\ UNCHANGED <<part, quotaVars>>

SettlingSpec ==
  /\ SettlingInit /\ [][SettlingNext]_settlingVars
  /\ QuotaFairness /\ MediaFairness(i1)
=============================================================================
