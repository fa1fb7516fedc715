------------------------------ MODULE MCWorkflow ------------------------------
(***************************************************************************)
(* A workflow for TLC.                                                     *)
(*                                                                         *)
(* Order: a guarded call with a timeout, a branch that may go back to it,  *)
(* so that a run may go on for ever, then a wait for a payment and one for *)
(* a receipt.  A call that stays unreachable goes on to the payment, one   *)
(* that outlasts its timeout, or no payment in time, ends in a failure     *)
(* that compensates.                                                       *)
(***************************************************************************)
EXTENDS WorkflowEngine, TLC

OrderSteps == {"call", "check", "payment", "receipt", "done", "refuse"}
OrderKind == ("call" :> "action") @@ ("check" :> "condition") @@ ("payment" :> "wait")
             @@ ("receipt" :> "wait") @@ ("done" :> "end") @@ ("refuse" :> "end")
OrderOnSuccess == ("call" :> "check") @@ ("check" :> "done") @@ ("payment" :> "receipt")
                  @@ ("receipt" :> "done") @@ ("done" :> "done") @@ ("refuse" :> "refuse")
OrderBranches == [s \in OrderSteps |-> IF s = "check" THEN {"call", "payment"} ELSE {}]
StraightBranches == [OrderBranches EXCEPT !["check"] = {"payment"}]
OrderOnExhausted == [s \in OrderSteps |-> IF s = "call" THEN "payment" ELSE "none"]
OrderOnTimeout == [s \in OrderSteps |-> IF s \in {"call", "payment"} THEN "refuse" ELSE "none"]
OrderEnd == [s \in OrderSteps |-> IF s = "done" THEN "completed" ELSE "failed"]
OrderCompFor == (1 :> "call")

NoRoute == [s \in Steps |-> "none"]
TwoAttempts == [s \in Steps |-> 2]
AllMatch == [e \in Answers |-> Instances]
=============================================================================
