------------------------- MODULE MCReconcilerBudget -------------------------
(***************************************************************************)
(* Reconciler with two controllers, which is too large to be explored      *)
(* without a bound: clients, faults and evictions together take at most    *)
(* Budget steps; the controllers, the kubelet and the garbage collector    *)
(* are not bounded.                                                        *)
(***************************************************************************)
EXTENDS Reconciler

CONSTANT Budget
VARIABLE left

BudgetInit == Init /\ left = Budget

BudgetNext ==
  \/ Disturbance /\ left > 0 /\ left' = left - 1
  \/ /\ (\E c \in Controllers : Controller(c)) \/ Node
     /\ UNCHANGED left

BudgetVars == <<vars, left>>
BudgetSpec == BudgetInit /\ [][BudgetNext]_BudgetVars

BudgetFairSpec ==
  /\ BudgetSpec
  /\ \A c \in Controllers : WF_BudgetVars(Controller(c) /\ UNCHANGED left)
  /\ \A u \in UIDs : WF_BudgetVars((PodStopped(u) \/ OwnerGone(u)) /\ UNCHANGED ctlVars /\ UNCHANGED left)
=============================================================================
