------------------------------ MODULE RemoteCall ------------------------------
(***************************************************************************)
(* What the privileged broker promises the programs that call it: each     *)
(* call runs its command at most once; "ok" is reported only for a command *)
(* that ran; a call that reports it could not connect, or was refused,     *)
(* never runs, then or later.  A call that ends in "error" promises        *)
(* nothing: its command may have run, and may still run.  The identity of  *)
(* a call that has ended serves the next one.                              *)
(***************************************************************************)
EXTENDS Naturals

CONSTANT Calls

VARIABLES outcome, runs
vars == <<outcome, runs>>

Init == /\ outcome = [k \in Calls |-> "idle"]
        /\ runs = [k \in Calls |-> 0]

Ask(k) == /\ outcome[k] = "idle"
          /\ outcome' = [outcome EXCEPT ![k] = "asking"]
          /\ UNCHANGED runs

Run(k) == /\ outcome[k] \in {"asking", "error"} /\ runs[k] = 0
          /\ runs' = [runs EXCEPT ![k] = 1]
          /\ UNCHANGED outcome

Succeed(k) == /\ outcome[k] = "asking" /\ runs[k] = 1
              /\ outcome' = [outcome EXCEPT ![k] = "ok"]
              /\ UNCHANGED runs

Refuse(k) == /\ outcome[k] = "asking" /\ runs[k] = 0
             /\ \E o \in {"unsent", "refused"} : outcome' = [outcome EXCEPT ![k] = o]
             /\ UNCHANGED runs

Fail(k) == /\ outcome[k] = "asking"
           /\ outcome' = [outcome EXCEPT ![k] = "error"]
           /\ UNCHANGED runs

Renew(k) == /\ outcome[k] \in {"ok", "unsent", "refused", "error"}
            /\ outcome' = [outcome EXCEPT ![k] = "idle"]
            /\ runs' = [runs EXCEPT ![k] = 0]

Next == \E k \in Calls : Ask(k) \/ Run(k) \/ Succeed(k) \/ Refuse(k) \/ Fail(k) \/ Renew(k)

Spec == Init /\ [][Next]_vars
=============================================================================
