---------------------------- MODULE ApprovalGate ----------------------------
(***************************************************************************)
(* What an approval gate promises, whatever its mechanism: a call that     *)
(* asks is held until it is let through or refused, it is let through only *)
(* on the strength of one supervisor's decision to approve it, and a       *)
(* decision is taken at most once.  TimeLockedVault (module Vault) is      *)
(* shown to implement this.                                                *)
(***************************************************************************)
CONSTANT Requests,    \* the calls that may ask for permission
         Protected    \* those that need a supervisor's decision

VARIABLES stage,      \* stage[r]: where call r stands
          verdict     \* verdict[r]: the decision taken about r, if any

gateVars == <<stage, verdict>>

GateInit ==
    /\ stage = [r \in Requests |-> "unasked"]
    /\ verdict = [r \in Requests |-> "none"]

Ask(r) ==
    /\ stage[r] = "unasked"
    /\ stage' = [stage EXCEPT ![r] = "held"]
    /\ UNCHANGED verdict

\* A decision may come after the call has given up waiting: it is then void.
Decide(r, d) ==
    /\ stage[r] # "unasked"
    /\ verdict[r] = "none"
    /\ verdict' = [verdict EXCEPT ![r] = d]
    /\ UNCHANGED stage

Admit(r) ==
    /\ \/ r \in Protected /\ stage[r] = "held" /\ verdict[r] = "approve"
       \/ r \notin Protected /\ stage[r] = "unasked"
    /\ stage' = [stage EXCEPT ![r] = "admitted"]
    /\ UNCHANGED verdict

Refuse(r) ==
    /\ stage[r] \in {"unasked", "held"}
    /\ r \in Protected
    /\ stage' = [stage EXCEPT ![r] = "refused"]
    /\ UNCHANGED verdict

GateNext ==
    \E r \in Requests :
        \/ Ask(r)
        \/ \E d \in {"approve", "reject"} : Decide(r, d)
        \/ Admit(r)
        \/ Refuse(r)

GateSpec == GateInit /\ [][GateNext]_gateVars

=============================================================================
