------------------------------ MODULE Startup ------------------------------
(***************************************************************************)
(* From the environment to a serving process: NewConfig and Validate of     *)
(* internal/server/config.go, NewMCPServer with the clients it builds, and  *)
(* registerTools, registerResources, registerPrompts of server.go, the      *)
(* choice of transport in Start, and what the REST endpoints then list.     *)
(*                                                                         *)
(* A variable of the environment is Unset, Junk that does not parse, or a   *)
(* value; durations are in seconds.                                        *)
(*                                                                         *)
(* The definitions share no name with ServerLifecycle, which goes on where   *)
(* this ends, so that ProcessProofs can extend both.                         *)
(***************************************************************************)
EXTENDS Integers, FiniteSets

CONSTANTS Unset, Junk,
          Ports, TTLs, Timeouts   \* the integers the environment may hold

ASSUME StartupAssumption ==
  Ports \subseteq Int /\ TTLs \subseteq Int /\ Timeouts \subseteq Int

VARIABLES
  env,        \* the environment
  cluster,    \* "no config", "unreachable", "reachable"
  pc,         \* the step that main takes next, "serving" or "failed"
  config,     \* what NewConfig made of env
  clients,    \* the clients that are not nil
  tools, resources, prompts,          \* the server's registries
  sdkTools, sdkResources, sdkPrompts  \* what the MCP SDK's server offers

registries == <<tools, resources, prompts, sdkTools, sdkResources, sdkPrompts>>
startupVars == <<env, cluster, pc, config, clients, registries>>

Environments ==
  [transport : {Unset, Junk, "http", "stdio"}, port : {Unset, Junk} \cup Ports,
   cacheTTL : {Unset, Junk} \cup TTLs, requestTimeout : {Unset, Junk} \cup Timeouts,
   ce : {Unset, Junk, TRUE, FALSE}, kserve : {Unset, Junk, TRUE, FALSE}]

Configs ==
  [transport : {"http", "stdio"}, port : Ports \cup {8080}, cacheTTL : TTLs \cup {30},
   requestTimeout : Timeouts \cup {10}, ce : BOOLEAN, kserve : BOOLEAN]

Default == [transport |-> "http", port |-> 8080, cacheTTL |-> 30, requestTimeout |-> 10,
            ce |-> FALSE, kserve |-> FALSE]

StartupInit ==
  /\ env \in Environments
  /\ cluster \in {"no config", "unreachable", "reachable"}
  /\ pc = "configure"
  /\ config = Default
  /\ clients = {}
  /\ tools = {} /\ resources = {} /\ prompts = {}
  /\ sdkTools = {} /\ sdkResources = {} /\ sdkPrompts = {}

(* getEnv...: what is unset or does not parse is the default.                *)
getEnv(name) == IF env[name] \in {Unset, Junk} THEN Default[name] ELSE env[name]

NewConfig ==
  /\ pc = "configure"
  /\ config' = [name \in DOMAIN Default |-> getEnv(name)]
  /\ pc' = "validate"
  /\ UNCHANGED <<env, cluster, clients, registries>>

(* What Validate accepts; the transport is one of the two since getEnvTransport. *)
Valid ==
  /\ config.transport = "http" => config.port \in 1 .. 65535
  /\ config.cacheTTL >= 1

Validate ==
  /\ pc = "validate"
  /\ pc' = IF Valid THEN "clients" ELSE "failed"
  /\ UNCHANGED <<env, cluster, config, clients, registries>>

(* Each Fault... is the operator after it with one plausible bug; no          *)
(* specification uses them.  They show that the properties can fail.         *)
FaultUnreachableIsFatal ==
  /\ pc = "clients"
  /\ IF cluster # "reachable"
     THEN pc' = "failed" /\ UNCHANGED clients
     ELSE /\ pc' = "tools"
          /\ clients' = {"k8s", "cache"} \cup (IF config.ce THEN {"ce"} ELSE {})
                                         \cup (IF config.kserve THEN {"kserve"} ELSE {})
  /\ UNCHANGED <<env, cluster, config, registries>>

(* NewK8sClient fails without a kubeconfig; a cluster that does not answer    *)
(* the health check only earns a warning.  The engine and KServe clients are *)
(* built without asking anyone.                                              *)
NewMCPServer ==
  /\ pc = "clients"
  /\ IF cluster = "no config"
     THEN pc' = "failed" /\ UNCHANGED clients
     ELSE /\ pc' = "tools"
          /\ clients' = {"k8s", "cache"} \cup (IF config.ce THEN {"ce"} ELSE {})
                                         \cup (IF config.kserve THEN {"kserve"} ELSE {})
  /\ UNCHANGED <<env, cluster, config, registries>>

-----------------------------------------------------------------------------
CoreTools == {"get-cluster-health", "list-pods", "calculate-pod-capacity", "list-adrs"}

EngineTools ==
  {"list-incidents", "trigger-remediation", "get-remediation-recommendations",
   "create-incident", "predict-resource-usage", "analyze-scaling-impact",
   "get-throttled-pods", "predict-disk-exhaustion", "get-rightsizing-recommendations",
   "investigate-rca"}

ModelTools == {"get-model-status", "list-models"}

(* The clients that a tool's or a resource's constructor stores and its       *)
(* methods dereference (the resource cluster://health takes a nil engine).   *)
Needs(name) ==
  CASE name \in {"list-pods", "calculate-pod-capacity"} -> {"k8s"}
    [] name \in {"get-cluster-health", "cluster://health", "cluster://nodes"} -> {"k8s", "cache"}
    [] name = "list-adrs" -> {"cache"}
    [] name \in {"predict-resource-usage", "analyze-scaling-impact"} -> {"ce", "k8s"}
    [] name = "analyze-anomalies" -> {"ce", "kserve"}
    [] name \in ModelTools -> {"kserve"}
    [] name \in {"cluster://incidents", "cluster://remediation-history"} -> {"ce", "cache"}
    [] OTHER -> {"ce"}

FaultAnomaliesWithKServeOnly ==
  CoreTools \cup (IF "ce" \in clients THEN EngineTools ELSE {})
            \cup (IF "kserve" \in clients THEN ModelTools \cup {"analyze-anomalies"} ELSE {})

Registered ==
  CoreTools
    \cup (IF "ce" \in clients THEN EngineTools ELSE {})
    \cup (IF "kserve" \in clients THEN ModelTools ELSE {})
    \cup (IF {"ce", "kserve"} \subseteq clients THEN {"analyze-anomalies"} ELSE {})

(* The tools and resources that the text of each prompt tells its reader to   *)
(* use.                                                                      *)
DiagnoseCluster ==
  {"cluster://health", "cluster://nodes", "cluster://incidents",
   "list-pods", "list-incidents", "analyze-anomalies"}

InvestigatePods == {"cluster://health", "cluster://nodes", "list-pods"}

CheckAnomalies ==
  {"cluster://health", "cluster://nodes", "cluster://incidents", "analyze-anomalies"}

OptimizeDataAccess ==
  {"cluster://health", "cluster://nodes", "cluster://incidents",
   "cluster://remediation-history", "get-cluster-health", "list-pods", "list-incidents",
   "analyze-anomalies", "trigger-remediation", "get-remediation-recommendations"}

PredictAndPrevent ==
  {"cluster://health", "cluster://remediation-history", "cluster://incidents",
   "get-remediation-recommendations", "trigger-remediation"}

CorrelateIncidents == {"cluster://incidents", "create-incident"}

CorePrompts ==
  {"diagnose-cluster-issues", "investigate-pods", "check-anomalies", "optimize-data-access"}

EnginePrompts == {"predict-and-prevent", "correlate-incidents"}

Names(prompt) ==
  CASE prompt = "diagnose-cluster-issues" -> DiagnoseCluster
    [] prompt = "investigate-pods"        -> InvestigatePods
    [] prompt = "check-anomalies"         -> CheckAnomalies
    [] prompt = "optimize-data-access"    -> OptimizeDataAccess
    [] prompt = "predict-and-prevent"     -> PredictAndPrevent
    [] prompt = "correlate-incidents"     -> CorrelateIncidents

(* registerTool enters a tool in the map and adds it to the SDK's server.    *)
registerTools ==
  /\ pc = "tools"
  /\ tools' = Registered
  /\ sdkTools' = Registered
  /\ pc' = "resources"
  /\ UNCHANGED <<env, cluster, config, clients, resources, prompts, sdkResources, sdkPrompts>>

FaultHistoryLeftOut ==
  /\ pc = "resources"
  /\ resources' = {"cluster://health", "cluster://nodes"}
                    \cup (IF "ce" \in clients THEN {"cluster://incidents"} ELSE {})
  /\ pc' = "prompts"
  /\ UNCHANGED <<env, cluster, config, clients, tools, prompts, sdkTools, sdkResources, sdkPrompts>>

(* The resources go into the map only.                                       *)
registerResources ==
  /\ pc = "resources"
  /\ resources' = {"cluster://health", "cluster://nodes"}
                    \cup (IF "ce" \in clients
                          THEN {"cluster://incidents", "cluster://remediation-history"} ELSE {})
  /\ pc' = "prompts"
  /\ UNCHANGED <<env, cluster, config, clients, tools, prompts, sdkTools, sdkResources, sdkPrompts>>

(* registerPrompt builds the SDK's handler and drops it.                     *)
registerPrompts ==
  /\ pc = "prompts"
  /\ prompts' = CorePrompts \cup (IF "ce" \in clients THEN EnginePrompts ELSE {})
  /\ pc' = "start"
  /\ UNCHANGED <<env, cluster, config, clients, tools, resources>>
  /\ UNCHANGED <<sdkTools, sdkResources, sdkPrompts>>

(* startHTTPTransport serves, startStdioTransport is an error.               *)
Start ==
  /\ pc = "start"
  /\ pc' = IF config.transport = "http" THEN "serving" ELSE "failed"
  /\ UNCHANGED <<env, cluster, config, clients, registries>>

StartupNext == NewConfig \/ Validate \/ NewMCPServer \/ registerTools \/ registerResources
          \/ registerPrompts \/ Start

StartupSpec == StartupInit /\ [][StartupNext]_startupVars /\ WF_startupVars(StartupNext)

-----------------------------------------------------------------------------
(* handleListResources and handleListPrompts list the types they know.       *)
ListedResources ==
  resources \cap {"cluster://health", "cluster://nodes", "cluster://incidents",
                  "cluster://remediation-history"}

ListedPrompts ==
  prompts \cap (CorePrompts \cup EnginePrompts)

(* handleResourceRead's type switch.                                         *)
ReadableResources ==
  resources \cap {"cluster://health", "cluster://nodes", "cluster://incidents",
                  "cluster://remediation-history"}

(* What is served can be used: whichever of the optional integrations are     *)
(* enabled, nothing that is registered holds a nil client (the branches of   *)
(* registerTools agree with what the constructors take), the core tools are  *)
(* there, and the tables that list, read and register the resources and the  *)
(* prompts agree, so nothing is listed that cannot be called or read.  And    *)
(* nothing is served under a configuration that Validate turns down.         *)
ServedIsUsable ==
  /\ config \in Configs
  /\ \A name \in tools \cup resources : Needs(name) \subseteq clients
  /\ pc = "serving" => Valid /\ CoreTools \subseteq tools /\ tools = sdkTools
  /\ ListedResources = resources /\ ReadableResources = resources
  /\ ListedPrompts = prompts

(* A prompt of a serving process sends its reader to nothing that is not      *)
(* served: a prompt that needs the engine never, wherever it is registered,   *)
(* and the others not when both integrations are on.  (Without the engine the *)
(* core prompts do: they still speak of its incidents and of anomalies.)     *)
PromptsLeadSomewhere ==
  pc = "serving" =>
    \A p \in prompts :
      p \in EnginePrompts \/ {"ce", "kserve"} \subseteq clients
        => Names(p) \subseteq tools \cup resources

(* A valid environment with a kubeconfig leads to a serving process, even if  *)
(* the cluster does not answer.                                              *)
ValidEnvironmentServes ==
  (pc = "clients" /\ config.transport = "http" /\ cluster # "no config") ~> (pc = "serving")
=============================================================================
