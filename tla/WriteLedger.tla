---------------------------- MODULE WriteLedger ----------------------------
(***************************************************************************)
(* What the local request store promises to whoever sends mutations: each  *)
(* payload hash is claimed by at most one request at a time, a claim is    *)
(* taken before the mutation is sent, and only a definite failure gives a  *)
(* claim back.  A claim whose outcome is unknown is kept until something   *)
(* establishes what the provider did.                                      *)
(***************************************************************************)
CONSTANTS
    RequestIds,     \* identities of prepared requests
    Hashes          \* payload hashes

VARIABLE claims     \* set of [request, hash, state] records

Claim == [request : RequestIds, hash : Hashes,
          state : {"executing", "succeeded", "outcome_unknown"}]

Claimed(h) == \E c \in claims : c.hash = h

Init == claims = {}

(***************************************************************************)
(* A request claims its hash just before it is sent; nobody else may hold  *)
(* the hash, whatever the state of the other claim.                        *)
(***************************************************************************)
Acquire(r, h) ==
    /\ ~Claimed(h)
    /\ claims' = claims \cup {[request |-> r, hash |-> h, state |-> "executing"]}

(***************************************************************************)
(* A claim under way ends in success or in an unknown outcome and is then  *)
(* kept; an unknown outcome may later turn out to be a success.            *)
(***************************************************************************)
Keep(c, s) ==
    /\ c.state \in {"executing", "outcome_unknown"}
    /\ s \in {"succeeded", "outcome_unknown"} \ {c.state}
    /\ claims' = (claims \ {c}) \cup {[c EXCEPT !.state = s]}

(***************************************************************************)
(* A claim that did not succeed is given back by a definite failure.       *)
(***************************************************************************)
Release(c) ==
    /\ c.state \in {"executing", "outcome_unknown"}
    /\ claims' = claims \ {c}

Next ==
    \/ \E r \in RequestIds, h \in Hashes : Acquire(r, h)
    \/ \E c \in claims, s \in {"succeeded", "outcome_unknown"} : Keep(c, s)
    \/ \E c \in claims : Release(c)

Spec == Init /\ [][Next]_claims
=============================================================================
