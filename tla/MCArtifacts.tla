---------------------------- MODULE MCArtifacts ----------------------------
(* Artifacts for TLC: jobs and previews are numbered in the order in which *)
(* they are used.                                                          *)
EXTENDS Artifacts

MCJobs == {1, 2}
MCPreviews == {1, 2}

UsedJobs == {j \in Jobs : handler[j].at # "none"}
UsedPreviews == {p \in Previews : preview[p] # "none"}

(* What is explored together: one request, also one that finds a preview,  *)
(* under sweeps, work and the passing of time; two imports while no work   *)
(* has begun and nothing has aged; two previews, the second while an       *)
(* import claims the first.                                                *)
Claiming(j) == kind[j] = "Import" /\ handler[j].at \in {"form", "claiming"} /\ handler[j].saved = 0

Focus ==
    /\ UsedJobs \in {{}, {1}, MCJobs} /\ UsedPreviews \in {{}, {1}, MCPreviews}
    /\ \/ UsedJobs # MCJobs /\ UsedPreviews # MCPreviews /\ Previewing = {}
       \/ /\ UsedPreviews # MCPreviews /\ Previewing = {} /\ ~sweep.on
          /\ \A j \in Jobs :
               /\ kind[j] = "Import" /\ age[j] = 0 /\ j \notin asked /\ handler[j].saved <= 1
               /\ phase[j] \in {"absent", "queued", "failed"} /\ outcome[j] \in {None, "failed"}
          /\ \A a \in Entries : disk[a] \in {None, 0}
       \/ UsedJobs = {}
       \/ UsedJobs = {1} /\ Claiming(1)
=============================================================================
