----------------------------- MODULE MCGateway -----------------------------
(***************************************************************************)
(* The hosted gateway between users, their browsers and the providers.  A  *)
(* behaviour of this module is one of its components; the others rest in   *)
(* one of their initial states.                                            *)
(*                                                                         *)
(* Skills read two capabilities, one of which two catalog rows provide;    *)
(* the second provider has no generated tools.                             *)
(***************************************************************************)
EXTENDS PeakSetup, CapabilityGate, SkillTools,
        ServerLifecycle, TokenKeys, Consent, TLC

CONSTANTS x1, x2

VARIABLE component     \* the component that runs

\* Of two users, setups, merchants, requests, rows, companies and keys each the
\* configuration uses the same two values: one exchange of them exchanges all.
PairSymmetry == Permutations({x1, x2})

MCCapabilityOf == "q1" :> "p" @@ "q2" :> "p" @@ "q3" :> "r"

MCProvider == [e \in Links \cup Entries |-> IF e = "k2" THEN "peak" ELSE "flowaccount"]

MCSkillSet == {[reads |-> <<"p", "r">>, required |-> {"p", "r"}, cites |-> TRUE]}

GatewayInit ==
    /\ component \in {"peak", "gate", "skills", "server", "keys", "consent"}
    /\ GateInit /\ ConsentInit
    /\ PeakInit
    /\ component # "peak" => qualified
    /\ SkillToolsInit
    /\ component # "skills" =>
          /\ member /\ knowledge
          /\ \A k \in Links : readiness[k] = "ready"
          /\ \A q \in Entries : resolution[q] = "enabled"
    /\ LifecycleInit
    /\ component # "server" => v1
    /\ TokenKeysInit
    /\ component # "keys" => keySet = Keys

GatewayNext ==
    /\ UNCHANGED component
    /\ \/ /\ component = "peak" /\ PeakNext
          /\ UNCHANGED <<gateVars, skillVars, lifecycleVars, keysVars, consentVars>>
       \/ /\ component = "gate" /\ GateNext
          /\ UNCHANGED <<peakVars, skillVars, lifecycleVars, keysVars, consentVars>>
       \/ /\ component = "skills" /\ SkillToolsNext
          /\ UNCHANGED <<peakVars, gateVars, lifecycleVars, keysVars, consentVars>>
       \/ /\ component = "server" /\ LifecycleNext
          /\ UNCHANGED <<peakVars, gateVars, skillVars, keysVars, consentVars>>
       \/ /\ component = "keys" /\ TokenKeysNext
          /\ UNCHANGED <<peakVars, gateVars, skillVars, lifecycleVars, consentVars>>
       \/ /\ component = "consent" /\ ConsentNext
          /\ UNCHANGED <<peakVars, gateVars, skillVars, lifecycleVars, keysVars>>

GatewaySpec ==
    GatewayInit /\ [][GatewayNext]_<<component, peakVars, gateVars, skillVars,
                                     lifecycleVars, keysVars, consentVars>>
=============================================================================
