----------------------------- MODULE MCWebLink -----------------------------
(***************************************************************************)
(* What goes from a page to the backend: calls, streams and subscriptions, *)
(* over its link; and the input of a job, which is put back in order where *)
(* it arrives.  The two share no state: each behavior is one of the part   *)
(* its first state names.                                                  *)
(***************************************************************************)
EXTENDS WebLink, QuickReorderQueue
CONSTANTS s1, s2, everyScope

MCCalls ==
    <<[kind |-> "call", timed |-> TRUE, big |-> FALSE],
      [kind |-> "call", timed |-> TRUE, big |-> TRUE],
      [kind |-> "stream", timed |-> FALSE, big |-> FALSE]>>

VARIABLE part
\* The page changes its subscriptions, makes two requests, or makes one while the backend makes one.
CallsMade == Cardinality({c \in CallIds : stage[c] = "new"})
MCLinkInit ==
    /\ LinkInit
    /\ changes = 0 => handler = "off"
    /\ CallsMade = IF changes = 0 THEN 0 ELSE IF handler = "off" THEN 2 ELSE 1
MCInit ==
    /\ part \in {"link", "input"}
    /\ MCLinkInit /\ (part = "input" => CallsMade = 0)
    /\ QInit
MCNext ==
    \/ part = "link" /\ LinkNext /\ UNCHANGED <<part, qVars>>
    \/ part = "input" /\ QNext /\ UNCHANGED <<part, linkVars>>
MCSpec == MCInit /\ [][MCNext]_<<part, linkVars, qVars>> /\ LinkFairness /\ QFairness
=============================================================================
