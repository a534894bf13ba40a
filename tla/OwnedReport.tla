---------------------------- MODULE OwnedReport ----------------------------
(***************************************************************************)
(* What "latched violations, and single-owner durable reports" promises of *)
(* one report path: one holder at a time, who starts on an empty path; a   *)
(* report that only its author continues, that only grows, and that stays  *)
(* as it is once it is final; and a draft, which is published because      *)
(* something was rejected, never becomes a strict pass.                    *)
(***************************************************************************)
CONSTANTS Auditors, Nobody

VARIABLES
    holder,     \* who may write
    author,     \* who wrote the report
    stage,      \* "absent" | "draft" | "final" | "passed": final, for a strict pass
    events, violations

vars == <<holder, author, stage, events, violations>>

Init ==
    /\ holder = Nobody /\ author = Nobody /\ stage = "absent"
    /\ events = {} /\ violations = {}

Acquire(a) ==
    /\ holder = Nobody /\ stage = "absent"
    /\ holder' = a
    /\ UNCHANGED <<author, stage, events, violations>>

Release ==
    /\ holder # Nobody /\ holder' = Nobody
    /\ UNCHANGED <<author, stage, events, violations>>

\* On an empty path, or over the holder's own draft, which it completes.
Publish(a) ==
    /\ holder = a
    /\ \/ stage = "absent" /\ stage' \in {"draft", "final", "passed"}
       \/ stage = "draft" /\ author = a /\ stage' = "final"
    /\ author' = a
    /\ events \subseteq events' /\ violations \subseteq violations'
    /\ stage' = "draft" => violations' # {}
    /\ stage' = "passed" => violations' = {}
    /\ UNCHANGED holder

\* The operator moves the report away.
Remove ==
    /\ stage # "absent" /\ stage' = "absent"
    /\ author' = Nobody /\ events' = {} /\ violations' = {}
    /\ UNCHANGED holder

Next == (\E a \in Auditors : Acquire(a) \/ Publish(a)) \/ Release \/ Remove

Spec == Init /\ [][Next]_vars
=============================================================================
