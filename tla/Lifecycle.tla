----------------------------- MODULE Lifecycle -----------------------------
(***************************************************************************)
(* What the controller promises to the clients of DockerContainers, with   *)
(* its passes, its copies and the Pods' own states out of sight: an object *)
(* is claimed with the finalizer before anything runs for it, its status   *)
(* is honest when written, and it is released only when nothing runs for   *)
(* it any more.  Reconciler with one controller implements this module.    *)
(***************************************************************************)
EXTENDS Objects

CONSTANT Reported  \* the phases reported: those a client of the instance tells apart

VARIABLE busy   \* the UIDs something runs for

lifeVars == <<cr, fresh, busy>>

ASSUME ReportedPhases == Reported \subseteq Phases \ {NoPhase}

LifeTypeOK == ObjectsTypeOK /\ busy \subseteq UIDs

LifeInit == ObjectsInit /\ busy = {}

Claim(u) ==
  /\ Exists(u) /\ ~cr[u].fin /\ ~cr[u].deleting
  /\ Store(u, [cr[u] EXCEPT !.fin = TRUE])
  /\ UNCHANGED busy

\* Only claimed objects get a Pod; it may be one the object no longer wants.
Launch(u) ==
  /\ Exists(u) /\ cr[u].fin /\ u \notin busy
  /\ busy' = busy \cup {u}
  /\ UNCHANGED objVars

\* A Pod may end at any time.
Finish(u) ==
  /\ u \in busy
  /\ busy' = busy \ {u}
  /\ UNCHANGED objVars

\* The status says Stopped, Stopping, Updating or a Pod's phase only while
\* the object asks for it, and Stopped only when nothing runs.
Report(u, phase) ==
  /\ Exists(u) /\ cr[u].fin /\ ~cr[u].deleting
  /\ phase \in {"Stopped", "Stopping"} => cr[u].desired = "Stopped"
  /\ phase \in PodPhases \cup {"Updating"} => cr[u].desired = "Running"
  /\ phase = "Stopped" => u \notin busy
  /\ Store(u, [cr[u] EXCEPT !.phase = phase])
  /\ UNCHANGED busy

Release(u) ==
  /\ Exists(u) /\ cr[u].fin /\ cr[u].deleting /\ u \notin busy
  /\ Store(u, [cr[u] EXCEPT !.fin = FALSE])
  /\ UNCHANGED busy

Promised(u) ==
  \/ Claim(u) \/ Launch(u) \/ Finish(u) \/ Release(u)
  \/ \E phase \in Reported : Report(u, phase)

Use(u) ==
  /\ \/ \E n \in Names, g \in Configs : CreateContainer(u, n, g)
     \/ \E d \in DesiredStates : SetDesiredState(u, d)
     \/ \E g \in Configs : SetSpec(u, g)
     \/ DeleteContainer(u)
  /\ UNCHANGED busy

LifeNext == \E u \in UIDs : Promised(u) \/ Use(u)

LifeSpec == LifeInit /\ [][LifeNext]_lifeVars
=============================================================================
