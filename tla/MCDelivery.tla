----------------------------- MODULE MCDelivery -----------------------------
(***************************************************************************)
(* Small instances of the gateway, of the audit pipeline and of a          *)
(* sandboxed call.  They share no variable: a behaviour is one of the      *)
(* module "part" names while the others stay as they begin, each at one of *)
(* its beginnings.                                                         *)
(***************************************************************************)
EXTENDS GatewayDispatch, AuditPipeline, SandboxRuns, TLC

CONSTANT Parts    \* the modules a run explores

VARIABLE part

Some(S) == CHOOSE e \in S : TRUE

\* SandboxRuns: a command allowed by its path, and one in a writable directory
\* that is allowed by its name only.
MCExecutables ==
    {[byPath |-> TRUE, byName |-> FALSE, writable |-> TRUE, trusted |-> TRUE],
     [byPath |-> FALSE, byName |-> TRUE, writable |-> TRUE, trusted |-> TRUE]}

\* How the parts a behaviour does not explore begin.
OneMessage    == [r \in Requests |-> Some(Messages)]
OneHost       == [r \in Requests |-> Some(Processes)]
OneBackend    == Some(Backends)
OneExecutable == Some(Executables)
-----------------------------------------------------------------------------
DeliveryInit ==
    /\ part \in Parts
    /\ part # "gateway" => msg = OneMessage /\ host = OneHost
    /\ Init
    /\ AuditInit
    /\ part # "sandbox" => backend = OneBackend /\ executable = OneExecutable
    /\ SandboxInit

\* Every call of the pipeline is over, and no bound allows another one.
AuditOver == (\A w \in Workers : auditPc[w] = "idle") /\ UNCHANGED auditVars

DeliveryNext ==
    /\ UNCHANGED part
    /\ \/ part = "gateway" /\ Next
       \/ part # "gateway" /\ UNCHANGED vars
    /\ \/ part = "audit" /\ (AuditNext \/ AuditOver)
       \/ part # "audit" /\ UNCHANGED auditVars
    /\ \/ part = "sandbox" /\ SandboxNext
       \/ part # "sandbox" /\ UNCHANGED sandboxVars

deliveryVars == <<part, vars, auditVars, sandboxVars>>

\* The fairness of each module, which asks for no step of a part that a behaviour
\* does not explore.
DeliveryFairness ==
    /\ \A r \in Requests :
          /\ WF_vars(part = "gateway" /\ Handle(r))
          /\ WF_vars(part = "gateway" /\ Run(r))
          /\ WF_vars(part = "gateway" /\ Finish(r))
    /\ \A w \in Workers : WF_auditVars(part = "audit" /\ Step(w))
    /\ WF_sandboxVars(part = "sandbox" /\ CallThread)
    /\ \A s \in Streams : WF_sandboxVars(part = "sandbox" /\ DrainThread(s))

DeliverySpec == DeliveryInit /\ [][DeliveryNext]_deliveryVars /\ DeliveryFairness
=============================================================================
