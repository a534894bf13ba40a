---------------------------- MODULE PrivateState ----------------------------
(***************************************************************************)
(* What the GDN state pool promises a request, with slots, layers and      *)
(* clears abstracted away: a private state that starts from zero when the  *)
(* request starts (or starts over) and advances only by its own tokens.    *)
(***************************************************************************)
EXTENDS Naturals

CONSTANTS Requests, MaxTokens

VARIABLES
    status,    \* [Requests -> waiting | running | done]
    absorbed,  \* tokens the request's state summarises
    accepted   \* tokens whose outputs the request was given

svars == <<status, absorbed, accepted>>

Init ==
    /\ status = [r \in Requests |-> "waiting"]
    /\ absorbed = [r \in Requests |-> 0]
    /\ accepted = [r \in Requests |-> 0]

\* Requests are admitted with a zero state.
Admit(reqs) ==
    /\ \A r \in reqs : status[r] = "waiting" /\ absorbed[r] = 0
    /\ status' = [r \in Requests |-> IF r \in reqs THEN "running" ELSE status[r]]
    /\ UNCHANGED <<absorbed, accepted>>

\* Running requests take in k more of their own tokens ...
Absorb(reqs, k) ==
    /\ \A r \in reqs : status[r] = "running" /\ accepted[r] = absorbed[r]
    /\ absorbed' = [r \in Requests |->
                      IF r \in reqs THEN absorbed[r] + k ELSE absorbed[r]]
    /\ UNCHANGED <<status, accepted>>

\* ... and are given the outputs, which the absorbed tokens alone determine.
Accept(reqs) ==
    /\ accepted' = [r \in Requests |->
                      IF r \in reqs THEN absorbed[r] ELSE accepted[r]]
    /\ UNCHANGED <<status, absorbed>>

\* A request ends, or is put back to wait; its state is gone.
Release(r, outcome) ==
    /\ status[r] = "running" /\ accepted[r] = absorbed[r]
    /\ status' = [status EXCEPT ![r] = outcome]
    /\ absorbed' = [absorbed EXCEPT ![r] = 0]
    /\ accepted' = [accepted EXCEPT ![r] = 0]

Next ==
    \/ \E reqs \in SUBSET Requests :
         Admit(reqs) \/ Accept(reqs) \/ \E k \in 1 .. MaxTokens : Absorb(reqs, k)
    \/ \E r \in Requests, outcome \in {"waiting", "done"} : Release(r, outcome)

Spec == Init /\ [][Next]_svars
=============================================================================
