------------------------------- MODULE Docker -------------------------------
(***************************************************************************)
(* The container engine, as far as the extension can see it through the    *)
(* `docker` commands it spawns: run, inspect, start, rm -f, exec.  Nothing *)
(* here is code of the repository; every operator models what a command    *)
(* may do and what it may report, read off the way pi-extension/src uses   *)
(* it.  All containers are created with --rm: when one stops, the daemon   *)
(* removes it a moment later (Reap).                                       *)
(***************************************************************************)
CONSTANTS
  Workloads,  \* names `docker run` may give a workload container
  Proxies,    \* names `docker run` may give an egress proxy container
  None,       \* no container (undefined in the code)
  Adversity   \* what the environment may do to the program in this instance

Names == Workloads \cup Proxies

(***************************************************************************)
(* "flaky"         a docker command may fail although the containers are   *)
(*                 fine, or take effect and still report a failure         *)
(* "rmFails"       docker rm -f may fail and leave the container           *)
(* "parallel"      tool calls overlap each other and the shutdown          *)
(* "earlyShutdown" session_shutdown arrives while session_start is waiting *)
(* "hostCrash"     the pi process dies without running session_shutdown    *)
(* "restart"       `docker start` reaches a stopped container before --rm  *)
(*                 has removed it                                          *)
(* "execResolves"  the host's pi.exec, through which `docker start` is     *)
(*                 issued, resolves although the command failed            *)
(***************************************************************************)
Adversities == {"flaky", "rmFails", "parallel", "earlyShutdown", "hostCrash", "restart",
                "execResolves"}

ASSUME DockerAssumption ==
  /\ Workloads \cap Proxies = {}
  /\ None \notin Names
  /\ Adversity \subseteq Adversities

VARIABLE ctr   \* the status of each container name

Status == {"unused", "running", "exited", "gone"}

DockerTypeOK == ctr \in [Names -> Status]

DockerInit == ctr = [n \in Names |-> "unused"]

Flaky == "flaky" \in Adversity

Running(n) == n \in Names /\ ctr[n] = "running"

(***************************************************************************)
(* What a command reports, and what it does to the container.              *)
(***************************************************************************)
\* `docker run -d --rm --name n`: the names are fresh (a random UUID)
Runs(n) == ctr[n] = "unused" /\ ctr' = [ctr EXCEPT ![n] = "running"]

\* a failed `docker run` leaves no container, unless only the report was lost
RunFails(names) ==
  \/ UNCHANGED ctr
  \/ Flaky /\ \E n \in names : Runs(n)

\* isContainerRunning(n) may answer TRUE / FALSE
MayReportUp(n) == Running(n)
MayReportDown(n) == Flaky \/ ~Running(n)

\* `docker start n`: a stopped container starts again unless its removal has begun
StartSucceeds(n) ==
  /\ Running(n) \/ ("restart" \in Adversity /\ ctr[n] = "exited")
  /\ ctr' = [ctr EXCEPT ![n] = "running"]

\* a failed `docker start` leaves it as it is, unless only the report was lost
StartFails(n) ==
  \/ (Flaky \/ ctr[n] # "running") /\ UNCHANGED ctr
  \/ Flaky /\ StartSucceeds(n)

\* `docker rm -f n`; the callers swallow its failure
Removes(n) ==
  \/ ctr' = [ctr EXCEPT ![n] = IF @ = "unused" THEN @ ELSE "gone"]
  \/ "rmFails" \in Adversity /\ UNCHANGED ctr

(***************************************************************************)
(* What happens to containers on their own.                                *)
(***************************************************************************)
\* the main process dies: crash, OOM kill, a manual `docker stop`
Crash(n) == ctr[n] = "running" /\ ctr' = [ctr EXCEPT ![n] = "exited"]

\* --rm: the daemon removes a stopped container
Reap(n) == ctr[n] = "exited" /\ ctr' = [ctr EXCEPT ![n] = "gone"]
=============================================================================
