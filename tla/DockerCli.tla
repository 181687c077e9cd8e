------------------------------ MODULE DockerCli ------------------------------
(***************************************************************************)
(* The container commands of src/internal/cli/root.go (run, stop, start,   *)
(* restart, rm) as processes beside the controller, one API call a step.   *)
(* A command names its container by name or by an ID prefix, resolves it   *)
(* to a name, acts on whatever has that name by then, and polls the name   *)
(* until the status says what it waits for.                                *)
(*                                                                         *)
(* exec, logs and ps only read, and are left out.  A command given several *)
(* containers is the sequence of the commands for each.                    *)
(***************************************************************************)
EXTENDS Reconciler, FiniteSets

CONSTANTS
  Procs,      \* command-line processes
  Ops,        \* the commands they give
  Args,       \* what a command is given: the name it equals, the IDs it prefixes
  NoName,
  Attempts    \* setDesiredState's attempts: 5 in the code

VARIABLE cmd  \* cmd[p]: the command process p executes

allVars == <<vars, cmd>>

RunOps == {"run", "runDetached"}
AllOps == RunOps \cup {"stop", "start", "restart", "rm"}

ASSUME ProcsRead == Procs \subseteq Readers /\ Procs \cap Controllers = {}
ASSUME ArgsKnown == Args \subseteq [name : Names \cup {NoName}, ids : SUBSET UIDs]
ASSUME NoNameNotName == NoName \notin Names
ASSUME AttemptsPositive == Attempts \in Nat \ {0}
ASSUME OpsKnown == Ops \subseteq AllOps

Ended   == {"ready", "ok", "error"}
Waiting == {"wait", "waitGone", "waitTerminal"}
Callsites == Ended \cup Waiting
             \cup {"create", "resolve", "resolveList", "get", "update", "delete"}

NoArg == [name |-> NoName, ids |-> {}]

\* The command, the call it is about to make (or how it ended), its CONTAINER
\* argument, the name resolveName returned, the UID behind the name at the
\* last Create, Get or Delete, the desired state it sets and waits for, and
\* the conflicts in this setDesiredState.
Commands == [op : {"none"} \cup Ops, at : Callsites, arg : Args \cup {NoArg},
             name : Names \cup {NoName}, hold : UIDs \cup {NoUID},
             goal : DesiredStates, tries : 0 .. Attempts - 1]

CliTypeOK == cmd \in [Procs -> Commands]

Idle(result) == [op |-> "none", at |-> result, arg |-> NoArg, name |-> NoName,
                 hold |-> NoUID, goal |-> "Running", tries |-> 0]

CliInit == Init /\ cmd = [p \in Procs |-> Idle("ready")]

At(p, l)   == cmd[p].at = l
Goes(p, l) == cmd' = [cmd EXCEPT ![p].at = l]
Ends(p, result) == cmd' = [cmd EXCEPT ![p] = Idle(result)]

\* The name the command was resolved to finds nothing any more.
Missing(p) == Named(cmd[p].name) = {}

----------------------------------------------------------------------------
Invoke(p, o, a) ==
  /\ cmd[p].at \in Ended
  /\ o \in RunOps => a.name \in Names
  /\ cmd' = [cmd EXCEPT ![p] =
       [Idle(IF o \in RunOps THEN "create" ELSE "resolve") EXCEPT
          !.op = o, !.arg = a,
          !.goal = IF o \in {"stop", "restart"} THEN "Stopped" ELSE "Running"]]
  /\ UNCHANGED vars

(* run: Create fails when the name is taken; -d returns the ID at once.    *)
RunCommand(p) ==
  /\ At(p, "create")
  /\ \/ \E u \in UIDs, g \in Configs :
          /\ CreateContainer(u, cmd[p].arg.name, g)
          /\ IF cmd[p].op = "run"
               THEN cmd' = [cmd EXCEPT ![p].at = "waitTerminal",
                              ![p].name = cmd[p].arg.name, ![p].hold = u]
               ELSE Ends(p, "ok")
     \/ Named(cmd[p].arg.name) # {} /\ Ends(p, "error") /\ UNCHANGED objVars
  /\ UNCHANGED <<pod, ctlVars>>

\* waitForTerminal: Succeeded ends it well, Failed or NotFound with an error.
WaitForTerminal(p) ==
  /\ At(p, "waitTerminal")
  /\ \/ Missing(p) /\ Ends(p, "error")
     \/ \E u \in Named(cmd[p].name) :
          \/ cr[u].phase = "Succeeded" /\ Ends(p, "ok")
          \/ cr[u].phase = "Failed" /\ Ends(p, "error")
  /\ UNCHANGED vars

Resolved(p, n) ==
  cmd' = [cmd EXCEPT ![p].name = n, ![p].at = IF cmd[p].op = "rm" THEN "delete" ELSE "get"]

\* resolveName: an exact name first.
ResolveGet(p) ==
  /\ At(p, "resolve")
  /\ IF Named(cmd[p].arg.name) # {} THEN Resolved(p, cmd[p].arg.name)
                                    ELSE Goes(p, "resolveList")
  /\ UNCHANGED vars

\* Otherwise a prefix of exactly one container's ID.
ResolveList(p) ==
  /\ At(p, "resolveList")
  /\ LET matches == Stored \cap cmd[p].arg.ids IN
       \/ Cardinality(matches) = 1 /\ \E u \in matches : Resolved(p, cr[u].name)
       \/ Cardinality(matches) # 1 /\ Ends(p, "error")
  /\ UNCHANGED vars

(* setDesiredState: Get and Update by name, again after a conflict.        *)
SetGet(p) ==
  /\ At(p, "get")
  /\ \/ Missing(p) /\ Ends(p, "error") /\ UNCHANGED fresh
     \/ \E u \in Named(cmd[p].name) :
          /\ Read(p, {u})
          /\ cmd' = [cmd EXCEPT ![p].at = "update", ![p].hold = u]
  /\ UNCHANGED <<cr, pod, ctlVars>>

\* Mutant of SetUpdate: one attempt too many.
SetUpdateMore(p) ==
  /\ At(p, "update")
  /\ LET u == cmd[p].hold IN
     \/ /\ u \in fresh[p]
        /\ Store(u, [cr[u] EXCEPT !.desired = cmd[p].goal])
        /\ cmd' = [cmd EXCEPT ![p].at = "wait", ![p].tries = 0]
     \/ /\ u \notin fresh[p]
        /\ IF cmd[p].tries < Attempts
             THEN cmd' = [cmd EXCEPT ![p].at = "get", ![p].tries = @ + 1]
             ELSE Ends(p, "error")
        /\ UNCHANGED <<cr, fresh>>
  /\ UNCHANGED <<pod, ctlVars>>

SetUpdate(p) ==
  /\ At(p, "update")
  /\ LET u == cmd[p].hold IN
     \/ /\ u \in fresh[p]
        /\ Store(u, [cr[u] EXCEPT !.desired = cmd[p].goal])
        /\ cmd' = [cmd EXCEPT ![p].at = "wait", ![p].tries = 0]
     \/ /\ u \notin fresh[p]
        /\ IF cmd[p].tries + 1 < Attempts
             THEN cmd' = [cmd EXCEPT ![p].at = "get", ![p].tries = @ + 1]
             ELSE Ends(p, "error")
        /\ UNCHANGED <<cr, fresh>>
  /\ UNCHANGED <<pod, ctlVars>>

\* waitForPhase; restart goes on to its second half.
WaitForPhase(p) ==
  /\ At(p, "wait")
  /\ \/ Missing(p) /\ Ends(p, "error")
     \/ \E u \in Named(cmd[p].name) :
          /\ cr[u].phase = cmd[p].goal
          /\ IF cmd[p].op = "restart" /\ cmd[p].goal = "Stopped"
               THEN cmd' = [cmd EXCEPT ![p].at = "get", ![p].goal = "Running"]
               ELSE Ends(p, "ok")
  /\ UNCHANGED vars

\* Mutant of RmDelete: the finalizer is taken away with the Delete.
RmDeleteForced(p) ==
  /\ At(p, "delete")
  /\ \/ Missing(p) /\ Ends(p, "error") /\ UNCHANGED objVars
     \/ \E u \in Named(cmd[p].name) :
          /\ Store(u, [cr[u] EXCEPT !.deleting = TRUE, !.fin = FALSE])
          /\ cmd' = [cmd EXCEPT ![p].at = "waitGone", ![p].hold = u]
  /\ UNCHANGED <<pod, ctlVars>>

(* rm: Delete by name, then wait for the name to disappear.                *)
RmDelete(p) ==
  /\ At(p, "delete")
  /\ \/ Missing(p) /\ Ends(p, "error") /\ UNCHANGED objVars
     \/ \E u \in Named(cmd[p].name) :
          /\ IF cr[u].deleting THEN UNCHANGED objVars ELSE DeleteContainer(u)
          /\ cmd' = [cmd EXCEPT ![p].at = "waitGone", ![p].hold = u]
  /\ UNCHANGED <<pod, ctlVars>>

WaitForDeletion(p) ==
  /\ At(p, "waitGone")
  /\ Missing(p)
  /\ Ends(p, "ok")
  /\ UNCHANGED vars

Command(p) ==
  \/ RunCommand(p) \/ WaitForTerminal(p)
  \/ ResolveGet(p) \/ ResolveList(p)
  \/ SetGet(p) \/ SetUpdate(p) \/ WaitForPhase(p)
  \/ RmDelete(p) \/ WaitForDeletion(p)

\* A call fails, the deadline of a wait passes, or the user interrupts.
GivesUp(p) ==
  /\ cmd[p].at \notin Ended
  /\ Ends(p, "error")
  /\ UNCHANGED vars

----------------------------------------------------------------------------
Rest ==
  /\ \/ \E c \in Controllers : Controller(c) \/ Fault(c)
     \/ Node \/ Eviction
  /\ UNCHANGED cmd

CliNext ==
  \/ Rest
  \/ \E p \in Procs :
       \/ Command(p) \/ GivesUp(p)
       \/ \E o \in Ops, a \in Args : Invoke(p, o, a)

CliSpec == CliInit /\ [][CliNext]_allVars

----------------------------------------------------------------------------
(* Properties.                                                             *)

\* What the controller sees of the commands are client steps of Reconciler:
\* the composed system implements it, with the resourceVersions the commands
\* hold hidden.  Everything shown of Reconciler, for any client, holds here.
Controlled == INSTANCE Reconciler
  WITH Readers <- Controllers, fresh <- [c \in Controllers |-> fresh[c]]
ImplementsReconciler == Controlled!Spec

\* When rm reports success the object it deleted is gone with its Pod,
\* although rm only looks for the name (root.go:360-372, 384-386).
RmLeavesNothing ==
  [][\A p \in Procs :
       At(p, "waitGone") /\ cmd'[p].at = "ok"
         => cr[cmd[p].hold] = Gone /\ ~HasPod(cmd[p].hold)]_allVars

\* When stop reports success no Pod of the container is left.
StopLeavesNoPod ==
  [][\A p \in Procs :
       cmd[p].op = "stop" /\ At(p, "wait") /\ cmd'[p].at = "ok"
         => ~HasPod(cmd[p].hold)]_allVars

----------------------------------------------------------------------------
CliFairness ==
  /\ \A c \in Controllers : WF_allVars(Controller(c) /\ UNCHANGED cmd)
  /\ \A u \in UIDs :
       WF_allVars((PodStopped(u) \/ OwnerGone(u)) /\ UNCHANGED <<ctlVars, cmd>>)
  /\ \A p \in Procs : WF_allVars(Command(p))

CliFairSpec == CliSpec /\ CliFairness

\* Nothing fails from some time on, and no new command is given.
CliQuiet ==
  <>[][~(\/ Eviction
         \/ \E c \in Controllers : Fault(c)
         \/ \E p \in Procs : GivesUp(p)
         \/ \E p \in Procs, o \in Ops, a \in Args : Invoke(p, o, a))]_allVars

\* Once things are quiet every stop and every rm gets its answer: the phase
\* or the absence it polls for cannot be missed (root.go:257-276, 378-397).
StopAndRmAnswered ==
  CliQuiet => <>[](\A p \in Procs : cmd[p].op \in {"stop", "rm"} => cmd[p].at \in Ended)

\* start on a container whose Pod has finished replaces the Pod.
StartReplacesFinishedPod ==
  CliQuiet =>
    \A p \in Procs, u \in UIDs :
      (/\ cmd[p].op = "start" /\ At(p, "wait") /\ cmd[p].hold = u
       /\ HasPod(u) /\ pod[u].phase \in Terminal)
        ~> ~(HasPod(u) /\ pod[u].phase \in Terminal)
=============================================================================
