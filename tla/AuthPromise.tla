----------------------------- MODULE AuthPromise -----------------------------
(***************************************************************************)
(* What the authorization of a circuit promises, whatever workflows, web   *)
(* requests and managers it takes: the domains of the path give their      *)
(* verdicts while the circuit waits, and one decision is made, for ever.   *)
(***************************************************************************)
CONSTANTS
    Voters    \* the domains that have a say

VARIABLES
    auth,     \* the decision
    verdict   \* what each domain said: its verdicts so far

vars == <<auth, verdict>>

Init ==
    /\ auth = "UNEXECUTED"
    /\ \A d \in Voters : verdict[d] = {}

Begin ==
    /\ auth = "UNEXECUTED"
    /\ auth' = "WAITING"
    /\ UNCHANGED verdict

\* A domain says yes, or starts over.
Review ==
    /\ auth = "WAITING"
    /\ UNCHANGED auth
    /\ \E d \in Voters :
          /\ verdict'[d] \in {{}, {"AUTHORIZED"}}
          /\ \A e \in Voters \ {d} : verdict'[e] = verdict[e]

Reject ==
    /\ auth = "WAITING"
    /\ auth' = "DENIED"
    /\ \E d \in Voters :
          /\ "DENIED" \in verdict'[d]
          /\ \A e \in Voters \ {d} : verdict'[e] = verdict[e]

Authorize ==
    /\ auth = "WAITING"
    /\ \A d \in Voters : verdict[d] = {"AUTHORIZED"}
    /\ auth' = "AUTHORIZED"
    /\ UNCHANGED verdict

Expire ==
    /\ auth = "WAITING"
    /\ auth' = "EXPIRED"
    /\ UNCHANGED verdict

Next == Begin \/ Review \/ Reject \/ Authorize \/ Expire

Spec == Init /\ [][Next]_vars
=============================================================================
