----------- MODULE SafetyProofs -----------
(* Theorems about the parts that MCSafety runs side by side, each for every *)
(* value of its constants. *)
EXTENDS MCSafety, PoolProofs, DeployProofs

\* The same where the pool is one of the parts that run side by side (MCSafety).
THEOREM AgentPoolHolds == SafetySpec => []AgentPoolIsSound
<1> DEFINE Chosen == part = "pool" => PoolInv
<1>1. SafetyInit => Chosen
  BY PoolStarts DEF SafetyInit
<1>2. Chosen /\ [SafetyNext]_safetyVars => Chosen'
  <2> SUFFICES ASSUME Chosen, [SafetyNext]_safetyVars, part' = "pool"
               PROVE  PoolInv'
    OBVIOUS
  <2>1. part = "pool" /\ [PoolNext]_poolVars
    BY DEF SafetyNext, safetyVars, Others
  <2> QED
    BY <2>1, PoolKept
<1>3. Chosen => AgentPoolIsSound
  BY PoolEnough DEF AgentPoolIsSound
<1> QED
  BY <1>1, <1>2, <1>3, PTL DEF SafetySpec

\* hangar, whatever the repositories, jobs, handlers and callers: when it rests, the
\* cluster and the variables are what is checked out, and whatever differs before is in
\* the queue, in somebody's hands or in the doubts that the run records
\* (ExecuteGitPushEvent, SyncRepo, ReconcilePendingNomad, ExecuteImageReadyEvent,
\* SyncServiceConfigsToNomad).
THEOREM HangarHolds == SafetySpec => []HangarIsSound
<1> DEFINE Chosen == (part = "git" => GitInv) /\ (part = "vars" => VarInv)
<1>1. SafetyInit => Chosen
  BY GitStarts, VarStarts DEF SafetyInit
<1>2. Chosen /\ [SafetyNext]_safetyVars => Chosen'
  <2>1. ASSUME Chosen, [SafetyNext]_safetyVars, part' = "git" PROVE GitInv'
    <3>1. part = "git" /\ [GitNext]_gitVars
      BY <2>1 DEF SafetyNext, safetyVars, Others
    <3> QED
      BY <2>1, <3>1, GitKept
  <2>2. ASSUME Chosen, [SafetyNext]_safetyVars, part' = "vars" PROVE VarInv'
    <3>1. part = "vars" /\ [VarNext]_varVars
      BY <2>2 DEF SafetyNext, safetyVars, Others
    <3> QED
      BY <2>2, <3>1, VarKept
  <2> QED
    BY <2>1, <2>2
<1>3. Chosen => HangarIsSound
  BY GitEnough, VarEnough DEF HangarIsSound
<1> QED
  BY <1>1, <1>2, <1>3, PTL DEF SafetySpec

\* synapse, whatever the pull requests, checks, workers and jobs: repairs are bounded and
\* none is forgotten, a report of another commit fails nothing, the outcome of a roll-out
\* is told, and what Nomad's stream says of a job is reported unless an event was lost
\* (processGitHubCheckRunEvent, ProcessHangarEvent, processStreamLine, ProcessNomadEvent).
THEOREM SynapseHolds == SafetySpec => []SynapseIsSound
<1> DEFINE Chosen == /\ part = "rollout" => RolloutInv
                     /\ part = "checks" => ChecksInv
                     /\ part = "stream" => StreamInv
<1>1. SafetyInit => Chosen
  BY RolloutStarts, ChecksStart, StreamStarts DEF SafetyInit
<1>2. Chosen /\ [SafetyNext]_safetyVars => Chosen'
  <2>1. ASSUME Chosen, [SafetyNext]_safetyVars, part' = "rollout" PROVE RolloutInv'
    <3>1. part = "rollout" /\ [RolloutNext]_rolloutVars
      BY <2>1 DEF SafetyNext, safetyVars, Others
    <3> QED
      BY <2>1, <3>1, RolloutKept
  <2>2. ASSUME Chosen, [SafetyNext]_safetyVars, part' = "checks" PROVE ChecksInv'
    <3>1. part = "checks" /\ [ChecksNext]_checkVars
      BY <2>2 DEF SafetyNext, safetyVars, Others
    <3> QED
      BY <2>2, <3>1, ChecksKept
  <2>3. ASSUME Chosen, [SafetyNext]_safetyVars, part' = "stream" PROVE StreamInv'
    <3>1. part = "stream" /\ [NomadNext]_nomadVars
      BY <2>3 DEF SafetyNext, safetyVars, Others
    <3> QED
      BY <2>3, <3>1, StreamKept
  <2> QED
    BY <2>1, <2>2, <2>3
<1>3. Chosen => SynapseIsSound
  BY RolloutEnough, ChecksEnough, StreamEnough DEF SynapseIsSound
<1> QED
  BY <1>1, <1>2, <1>3, PTL DEF SafetySpec

\* A pull request that was merged or closed stays so for synapse, whatever report was
\* under way (handlePRClosedAction and the guards of the other updates), and hangar brings
\* up its own job after all others of a push or an image batch (SortNomadChangesHangarLast).
THEOREM WhatIsOverStaysOver == SafetySpec => NothingIsTakenBack
<1> DEFINE Chosen == (part = "checks" => ChecksInv) /\ (part = "git" => GitInv)
           ItStays == (part = "checks" => OverStaysOver) /\ (part = "git" => OwnJobComesLast)
<1>1. SafetyInit => Chosen
  BY ChecksStart, GitStarts DEF SafetyInit
<1>2. Chosen /\ [SafetyNext]_safetyVars => Chosen'
  <2>1. ASSUME Chosen, [SafetyNext]_safetyVars, part' = "checks" PROVE ChecksInv'
    <3>1. part = "checks" /\ [ChecksNext]_checkVars
      BY <2>1 DEF SafetyNext, safetyVars, Others
    <3> QED
      BY <2>1, <3>1, ChecksKept
  <2>2. ASSUME Chosen, [SafetyNext]_safetyVars, part' = "git" PROVE GitInv'
    <3>1. part = "git" /\ [GitNext]_gitVars
      BY <2>2 DEF SafetyNext, safetyVars, Others
    <3> QED
      BY <2>2, <3>1, GitKept
  <2> QED
    BY <2>1, <2>2
<1>3. Chosen /\ [SafetyNext]_safetyVars => [ItStays]_safetyVars
  <2> SUFFICES ASSUME Chosen, SafetyNext, ~UNCHANGED safetyVars PROVE ItStays
    OBVIOUS
  <2>1. ASSUME part = "checks" PROVE OverStaysOver
    <3>1. [ChecksNext]_checkVars
      BY <2>1 DEF SafetyNext, Others
    <3> QED
      BY <2>1, <3>1, OverKept
  <2>2. ASSUME part = "git" PROVE OwnJobComesLast
    <3>1. [GitNext]_gitVars /\ Others("git")
      BY <2>2 DEF SafetyNext, Others
    <3>2. ~UNCHANGED gitVars
      BY <3>1 DEF Others, safetyVars
    <3> QED
      BY <2>2, <3>1, <3>2, OwnJobLast
  <2> QED
    BY <2>1, <2>2
<1> QED
  BY <1>1, <1>2, <1>3, PTL DEF SafetySpec, NothingIsTakenBack

====================
