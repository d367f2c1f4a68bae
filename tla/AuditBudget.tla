---------------------------- MODULE AuditBudget ----------------------------
(***************************************************************************)
(* What the poller promises the operators of the OpenBao server about its  *)
(* audit log: consecutive lookup-self requests are at least Window apart,  *)
(* except for those that somebody asked for.  A credit is a reason to call *)
(* early (a forced refresh, a rewritten token file, a process that has     *)
(* just started); every early call uses up at least one credit.  Nothing   *)
(* else, a cache, a disk or a network that fails included, buys a call.    *)
(***************************************************************************)
EXTENDS Integers

CONSTANT Window

VARIABLES lastCall,  \* time of the latest request, 0 before the first
          credits    \* outstanding reasons to make an early request

budgetVars == <<lastCall, credits>>

BudgetInit == lastCall = 0 /\ credits = 1

\* Somebody gives the poller one more reason to ask at once.
Prompt == /\ credits' <= credits + 1
          /\ credits' >= credits
          /\ UNCHANGED lastCall

\* A reason disappears without a call (a token file that is put back).
Waive == /\ credits' >= 0
         /\ credits' < credits
         /\ UNCHANGED lastCall

\* A request: early if a credit pays for it, else a window after the last.
Call == /\ lastCall' > 0
        /\ \/ credits' < credits
           \/ lastCall' - lastCall >= Window /\ credits' <= credits
        /\ credits' >= 0

\* A new process remembers no earlier request.
Boot == lastCall' = 0 /\ credits' = 1

BudgetNext == Prompt \/ Waive \/ Call \/ Boot

BudgetSpec == BudgetInit /\ [][BudgetNext]_budgetVars

=============================================================================
