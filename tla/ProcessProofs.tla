--------------------------- MODULE ProcessProofs ---------------------------
(***************************************************************************)
(* Proofs about the server process: for every environment, the values of    *)
(* its variables and the cluster included, what start-up serves can be used *)
(* (Startup); and for every set of requests, every grace period and any     *)
(* number of signals the exit status tells what was lost (ServerLifecycle). *)
(***************************************************************************)
EXTENDS ServerLifecycle, Startup, TLAPS

(* A request is cut off only by the end of the process, and an error waits in *)
(* errChan only if the listener has failed.                                  *)
CutOffAtExit ==
  /\ Running => \A r \in Requests : req[r] # "killed"
  /\ errChan => failed

(* The clock of Shutdown starts with its first poll.  While it waits, the      *)
(* request its last poll found is still active or ended since, and that poll  *)
(* is at most PollInterval ago.                                              *)
SeenAtPoll ==
  /\ main = "selecting" => elapsed = 0 /\ polled = -1
  /\ main = "shutting" =>
       /\ polled = -1 => elapsed = 0
       /\ polled >= 0 => Active # {} \/ finished >= polled
       /\ elapsed - polled <= PollInterval \/ polled = -1

(* The inductive invariant.                                                  *)
IInv == TypeOK /\ CutOffAtExit /\ SeenAtPoll /\ CleanExitLosesNothing /\ FailsOnlyForCause

-----------------------------------------------------------------------------
(* The process starts with no request and no error.                          *)
LEMMA InitIInv == Init => IInv
<1> SUFFICES ASSUME Init PROVE IInv
  OBVIOUS
<1>1. TypeOK
  <2>1. shut \in BOOLEAN /\ errChan \in BOOLEAN /\ failed \in BOOLEAN
    BY DEF Init
  <2>2. code \in {-1, 0, 1} /\ (code = -1 <=> Running)
    BY DEF Init, Running
  <2>3. pending \in 0 .. 1 /\ elapsed \in 0 .. Grace /\ signals \in 0 .. MaxSignals
    BY LifecycleAssumption DEF Init
  <2>4. polled \in -1 .. elapsed /\ finished \in 0 .. elapsed
    BY DEF Init
  <2> QED
    BY <2>1, <2>2, <2>3, <2>4 DEF Init, TypeOK
<1>2. CutOffAtExit /\ SeenAtPoll /\ CleanExitLosesNothing /\ FailsOnlyForCause
  BY DEF Init, CutOffAtExit, SeenAtPoll, CleanExitLosesNothing, FailsOnlyForCause
<1> QED
  BY <1>1, <1>2 DEF IInv

(* A step of the running process, other than its exit, claims nothing of the  *)
(* exit status.                                                              *)
LEMMA RunningKeepsStatus ==
  ASSUME IInv, Running, main' # "exited", UNCHANGED code
  PROVE  CleanExitLosesNothing' /\ FailsOnlyForCause'
BY DEF IInv, TypeOK, Running, CleanExitLosesNothing, FailsOnlyForCause

(* The listening goroutine, the signals and Stop.                            *)
LEMMA GoroutinesKeepIInv ==
  ASSUME IInv, \/ Listen \/ ListenFails \/ Signal \/ Cancel \/ Stop \/ StopReturns
  PROVE  IInv'
<1>1. Running /\ UNCHANGED <<main, code, elapsed, polled, req, finished>>
  BY DEF Listen, ListenFails, Signal, Cancel, Stop, StopReturns
<1>2. TypeOK'
  <2>1. shut' \in BOOLEAN /\ errChan' \in BOOLEAN /\ failed' \in BOOLEAN
    BY DEF IInv, TypeOK, Listen, ListenFails, Signal, Cancel, Stop, StopReturns
  <2>2. pending' \in 0 .. 1 /\ signals' \in 0 .. MaxSignals
    BY LifecycleAssumption
    DEF IInv, TypeOK, Listen, ListenFails, Signal, Cancel, Stop, StopReturns
  <2>3. /\ listener' \in {"starting", "serving", "ended"} /\ watcher' \in {"waiting", "done"}
        /\ ctx' \in {"live", "cancelled"} /\ stop' \in {"none", "waiting", "returned"}
    BY DEF IInv, TypeOK, Listen, ListenFails, Signal, Cancel, Stop, StopReturns
  <2> QED
    BY <1>1, <2>1, <2>2, <2>3 DEF IInv, TypeOK, Running
<1>3. CutOffAtExit'
  BY <1>1
  DEF IInv, CutOffAtExit, Running, Listen, ListenFails, Signal, Cancel, Stop, StopReturns
<1>4. CleanExitLosesNothing' /\ FailsOnlyForCause'
  BY <1>1, RunningKeepsStatus DEF Running
<1>5. SeenAtPoll'
  BY <1>1 DEF IInv, SeenAtPoll, Active
<1> QED
  BY <1>2, <1>3, <1>4, <1>5 DEF IInv

(* Requests come and go while the process runs.                              *)
LEMMA RequestKeepsIInv ==
  ASSUME IInv, NEW r \in Requests, Serve(r) \/ Finish(r)
  PROVE  IInv'
<1>1. /\ Running /\ UNCHANGED <<main, code, listener, shut, errChan, watcher, pending, ctx,
                                elapsed, polled, stop, signals, failed>>
      /\ \/ req' = [req EXCEPT ![r] = "active"] /\ finished' = finished
         \/ req' = [req EXCEPT ![r] = "served"] /\ finished' = elapsed
  BY DEF Serve, Finish
<1>2. TypeOK'
  <2>1. finished' \in 0 .. elapsed
    BY <1>1, LifecycleAssumption DEF IInv, TypeOK
  <2> QED
    BY <1>1, <2>1 DEF IInv, TypeOK, Running
<1>3. CutOffAtExit'
  BY <1>1 DEF IInv, TypeOK, CutOffAtExit, Running
<1>4. CleanExitLosesNothing' /\ FailsOnlyForCause'
  BY <1>1, RunningKeepsStatus DEF Running
<1>5. SeenAtPoll'
  <2>1. CASE finished' = elapsed
    BY <1>1, <2>1, LifecycleAssumption DEF IInv, TypeOK, SeenAtPoll
  <2>2. CASE req' = [req EXCEPT ![r] = "active"] /\ finished' = finished
    <3>1. Active # {} => Active' # {}
      BY <2>2 DEF IInv, TypeOK, Active
    <3> QED
      BY <1>1, <2>2, <3>1 DEF IInv, SeenAtPoll
  <2> QED
    BY <1>1, <2>1, <2>2
<1> QED
  BY <1>2, <1>3, <1>4, <1>5 DEF IInv

(* Shutdown begins and polls, and its clock runs.                            *)
LEMMA ShuttingKeepsIInv ==
  ASSUME IInv, BeginShutdown \/ Poll \/ Tick
  PROVE  IInv'
<1>1. /\ Running /\ main' # "exited"
      /\ UNCHANGED <<code, errChan, req, failed, finished>>
  BY DEF BeginShutdown, Poll, Tick, Running
<1>2. TypeOK'
  <2>1. /\ elapsed' \in 0 .. Grace /\ main' = "shutting"
        /\ polled' \in -1 .. elapsed' /\ finished' \in 0 .. elapsed'
    BY LifecycleAssumption DEF IInv, TypeOK, BeginShutdown, Poll, Tick
  <2>3. shut' \in BOOLEAN
    BY DEF IInv, TypeOK, BeginShutdown, Poll, Tick
  <2>2. /\ listener' \in {"starting", "serving", "ended"}
        /\ UNCHANGED <<watcher, pending, ctx, stop, signals>>
    BY DEF IInv, TypeOK, BeginShutdown, Poll, Tick
  <2> QED
    BY <1>1, <2>1, <2>2, <2>3 DEF IInv, TypeOK, Running
<1>3. CutOffAtExit'
  BY <1>1 DEF IInv, CutOffAtExit, Running
<1>4. CleanExitLosesNothing' /\ FailsOnlyForCause'
  BY <1>1, RunningKeepsStatus
<1>5. SeenAtPoll'
  <2>1. CASE BeginShutdown
    BY <2>1, LifecycleAssumption DEF BeginShutdown, IInv, SeenAtPoll, TypeOK
  <2>2. CASE Poll
    BY <1>1, <2>2, LifecycleAssumption DEF Poll, IInv, TypeOK, SeenAtPoll, Active
  <2>3. CASE Tick
    BY <1>1, <2>3, LifecycleAssumption DEF Tick, IInv, TypeOK, SeenAtPoll, Active
  <2> QED
    BY <2>1, <2>2, <2>3
<1> QED
  BY <1>2, <1>3, <1>4, <1>5 DEF IInv

(* The exits.                                                                *)
LEMMA ExitKeepsIInv ==
  ASSUME IInv, ShutdownDone \/ ShutdownTimesOut \/ ServerError
  PROVE  IInv'
<1>1. /\ Running /\ main' = "exited"
      /\ UNCHANGED <<listener, shut, errChan, watcher, pending, ctx, elapsed, polled, stop,
                     signals, failed, finished>>
      /\ code' \in {0, 1}
      /\ req' = [r \in Requests |-> IF r \in Active THEN "killed" ELSE req[r]]
  BY DEF ShutdownDone, ShutdownTimesOut, ServerError, Exit, Running
<1>2. TypeOK'
  BY <1>1 DEF IInv, TypeOK, Running
<1>3. CutOffAtExit'
  BY <1>1 DEF IInv, CutOffAtExit, Running
<1>4. CleanExitLosesNothing'
  <2> SUFFICES ASSUME code' = 0, NEW r \in Requests PROVE req'[r] # "killed"
    BY DEF CleanExitLosesNothing
  <2>1. Active = {}
    BY DEF ShutdownDone, ShutdownTimesOut, ServerError, Exit
  <2> QED
    BY <1>1, <2>1 DEF IInv, CutOffAtExit
<1>5. FailsOnlyForCause'
  <2>1. CASE ShutdownDone
    BY <2>1 DEF ShutdownDone, Exit, FailsOnlyForCause
  <2>2. CASE ShutdownTimesOut
    <3>1. elapsed = Grace /\ (Active # {} \/ Grace - finished <= PollInterval)
      BY <2>2, LifecycleAssumption DEF ShutdownTimesOut, IInv, TypeOK, SeenAtPoll
    <3> QED
      BY <1>1, <3>1 DEF FailsOnlyForCause, Active
  <2>3. CASE ServerError
    BY <1>1, <2>3 DEF ServerError, IInv, CutOffAtExit, FailsOnlyForCause
  <2> QED
    BY <2>1, <2>2, <2>3
<1>6. SeenAtPoll'
  BY <1>1 DEF SeenAtPoll
<1> QED
  BY <1>2, <1>3, <1>4, <1>5, <1>6 DEF IInv

(* Every step keeps the invariant.                                           *)
LEMMA NextKeepsIInv == IInv /\ [Next]_vars => IInv'
<1> SUFFICES ASSUME IInv, [Next]_vars PROVE IInv'
  OBVIOUS
<1>1. CASE Listen \/ ListenFails \/ Signal \/ Cancel \/ Stop \/ StopReturns
  BY <1>1, GoroutinesKeepIInv
<1>2. CASE Main \/ Tick
  BY <1>2, ShuttingKeepsIInv, ExitKeepsIInv DEF Main
<1>3. CASE \E r \in Requests : Serve(r) \/ Finish(r)
  BY <1>3, RequestKeepsIInv
<1>4. CASE UNCHANGED vars
  BY <1>4 DEF vars, IInv, TypeOK, Running, CutOffAtExit, SeenAtPoll, Active,
              CleanExitLosesNothing, FailsOnlyForCause
<1> QED
  BY <1>1, <1>2, <1>3, <1>4 DEF Next

(* The inductive invariant holds throughout.                                 *)
THEOREM Invariance == Spec => []IInv
BY InitIInv, NextKeepsIInv, PTL DEF Spec

(* Type correctness; in particular sigChan never holds more than one signal.  *)
THEOREM TypeCorrect == Spec => []TypeOK
<1>1. IInv => TypeOK
  BY DEF IInv
<1> QED
  BY Invariance, <1>1, PTL

(* A process that exits with status 0 has served every request it took.      *)
THEOREM CleanExitIsClean == Spec => []CleanExitLosesNothing
<1>1. IInv => CleanExitLosesNothing
  BY DEF IInv
<1> QED
  BY Invariance, <1>1, PTL

(* Status 1 is for a listener that failed or for work that lasted through the *)
(* grace period, up to the time between its last two polls.                  *)
THEOREM FailureHasCause == Spec => []FailsOnlyForCause
<1>1. IInv => FailsOnlyForCause
  BY DEF IInv
<1> QED
  BY Invariance, <1>1, PTL

(* Once Shutdown is called no connection is accepted any more: the listener   *)
(* that served is closed, and one that was about to start ends.              *)
ClosedListener == shut => listener # "serving"

(* Listen, ListenFails, BeginShutdown and Stop are the steps that matter.    *)
LEMMA NextKeepsListenerClosed == ClosedListener /\ [Next]_vars => ClosedListener'
<1> SUFFICES ASSUME ClosedListener, [Next]_vars PROVE ClosedListener'
  OBVIOUS
<1>1. CASE Listen \/ ListenFails \/ BeginShutdown \/ Stop
  BY <1>1 DEF ClosedListener, Listen, ListenFails, BeginShutdown, Stop
<1>2. CASE UNCHANGED <<shut, listener>>
  BY <1>2 DEF ClosedListener
<1> QED
  BY <1>1, <1>2
  DEF Next, Main, Signal, Cancel, ShutdownDone, Poll, ShutdownTimesOut, ServerError, Tick,
      StopReturns, Serve, Finish, vars

(* The grace period is for what was under way: from Shutdown on the requests  *)
(* that are active can only become fewer, whoever calls it and however the    *)
(* signal, the listening goroutine and the clients interleave.               *)
ShutdownDrains == [][shut => Active' \subseteq Active]_vars

(* No request begins after Shutdown.                                         *)
THEOREM ShutdownOnlyDrains == Spec => ShutdownDrains
<1>1. ASSUME IInv, ClosedListener, [Next]_vars
      PROVE  [shut => Active' \subseteq Active]_vars
  <2>1. CASE UNCHANGED req
    BY <2>1 DEF Active
  <2>2. CASE ShutdownDone \/ ShutdownTimesOut \/ ServerError
    BY <2>2 DEF ShutdownDone, ShutdownTimesOut, ServerError, Exit, Active
  <2>3. ASSUME NEW r \in Requests, Serve(r)
        PROVE  ~shut
    BY <1>1, <2>3 DEF Serve, ClosedListener
  <2>4. ASSUME NEW r \in Requests, Finish(r)
        PROVE  Active' \subseteq Active
    BY <1>1, <2>4 DEF Finish, Active, IInv, TypeOK
  <2> QED
    BY <1>1, <2>1, <2>2, <2>3, <2>4
    DEF Next, Main, Listen, ListenFails, Signal, Cancel, BeginShutdown, Poll, Tick, Stop,
        StopReturns, vars
<1>2. Init => ClosedListener
  BY DEF Init, ClosedListener
<1> QED
  BY Invariance, <1>1, <1>2, NextKeepsListenerClosed, PTL DEF Spec, ShutdownDrains

-----------------------------------------------------------------------------
(* Start-up.  What registerResources and registerPrompts enter.              *)
RegisteredResources ==
  {"cluster://health", "cluster://nodes"}
    \cup (IF "ce" \in clients
          THEN {"cluster://incidents", "cluster://remediation-history"} ELSE {})

RegisteredPrompts == CorePrompts \cup (IF "ce" \in clients THEN EnginePrompts ELSE {})

Stages == {"configure", "validate", "clients", "tools", "resources", "prompts", "start",
           "serving", "failed"}

StartupTypeOK ==
  /\ env \in Environments
  /\ cluster \in {"no config", "unreachable", "reachable"}
  /\ pc \in Stages
  /\ config \in Configs
  /\ clients \subseteq {"k8s", "cache", "ce", "kserve"}

FromEnvironment == [name \in DOMAIN Default |-> getEnv(name)]

(* NewConfig has read the environment, Validate has accepted what it made of  *)
(* it, and the clients are those it asks for.                                *)
ConfigInStep ==
  /\ pc \notin {"configure", "failed"} => config = FromEnvironment
  /\ pc \notin {"configure", "validate", "failed"} => Valid
  /\ pc \in {"configure", "validate", "clients"} => clients = {}
  /\ pc \in {"tools", "resources", "prompts", "start", "serving"} =>
       /\ {"k8s", "cache"} \subseteq clients
       /\ "ce" \in clients <=> config.ce
       /\ "kserve" \in clients <=> config.kserve

(* A registry is empty or complete: empty before its step, complete after, and *)
(* one or the other when start-up has failed.                                *)
RegistriesInStep ==
  /\ sdkTools = tools
  /\ tools # {} => tools = Registered /\ {"k8s", "cache"} \subseteq clients
  /\ resources # {} => resources = RegisteredResources /\ {"k8s", "cache"} \subseteq clients
  /\ prompts # {} => prompts = RegisteredPrompts
  /\ pc \in {"configure", "validate", "clients"} => tools = {} /\ resources = {} /\ prompts = {}
  /\ pc \in {"resources", "prompts", "start", "serving"} => tools = Registered
  /\ pc \in {"prompts", "start", "serving"} => resources = RegisteredResources
  /\ pc \in {"start", "serving"} => prompts = RegisteredPrompts

StartupInv == StartupTypeOK /\ ConfigInStep /\ RegistriesInStep

(* Nothing is configured, built or registered yet.                           *)
LEMMA InitStartupInv == StartupInit => StartupInv
<1> SUFFICES ASSUME StartupInit PROVE StartupInv
  OBVIOUS
<1>1. Default \in Configs
  BY DEF Default, Configs
<1>2. StartupTypeOK
  BY <1>1 DEF StartupInit, StartupTypeOK, Stages
<1>3. ConfigInStep /\ RegistriesInStep
  BY DEF StartupInit, ConfigInStep, RegistriesInStep
<1> QED
  BY <1>2, <1>3 DEF StartupInv

(* What is read of a typed environment is a typed configuration.             *)
LEMMA ReadConfig ==
  ASSUME env \in Environments
  PROVE  FromEnvironment \in Configs
<1>1. DOMAIN Default =
        {"transport", "port", "cacheTTL", "requestTimeout", "ce", "kserve"}
  BY DEF Default
<1>2. /\ getEnv("transport") \in {"http", "stdio"}
      /\ getEnv("port") \in Ports \cup {8080}
      /\ getEnv("cacheTTL") \in TTLs \cup {30}
      /\ getEnv("requestTimeout") \in Timeouts \cup {10}
  BY DEF Environments, getEnv, Default
<1>3. getEnv("ce") \in BOOLEAN /\ getEnv("kserve") \in BOOLEAN
  BY DEF Environments, getEnv, Default
<1>4. FromEnvironment =
        [transport |-> getEnv("transport"), port |-> getEnv("port"),
         cacheTTL |-> getEnv("cacheTTL"), requestTimeout |-> getEnv("requestTimeout"),
         ce |-> getEnv("ce"), kserve |-> getEnv("kserve")]
  BY <1>1 DEF FromEnvironment
<1> QED
  BY <1>2, <1>3, <1>4 DEF Configs

(* What the configuration says changes only with it and the environment.     *)
LEMMA ConfigStays ==
  ASSUME UNCHANGED <<env, config>>
  PROVE  FromEnvironment' = FromEnvironment /\ Valid' = Valid
BY DEF FromEnvironment, getEnv, Valid

(* NewConfig and Validate.                                                   *)
LEMMA ConfigureKeepsStartupInv ==
  ASSUME StartupInv, NewConfig \/ Validate
  PROVE  StartupInv'
<1>1. UNCHANGED <<env, cluster, clients, tools, resources, prompts, sdkTools>>
  BY DEF NewConfig, Validate, registries
<1>2. CASE NewConfig
  <2>1. pc = "configure" /\ pc' = "validate"
    BY <1>2 DEF NewConfig
  <2>2. config' \in Configs /\ config' = FromEnvironment
    BY <1>2, ReadConfig DEF NewConfig, StartupInv, StartupTypeOK, FromEnvironment
  <2>3. ConfigInStep'
    <3>1. FromEnvironment' = FromEnvironment
      BY <1>1 DEF FromEnvironment, getEnv
    <3> QED
      BY <1>1, <2>1, <2>2, <3>1 DEF StartupInv, ConfigInStep
  <2> QED
    BY <1>1, <2>1, <2>2, <2>3
    DEF StartupInv, StartupTypeOK, Stages, RegistriesInStep, Registered, RegisteredResources,
        RegisteredPrompts
<1>3. CASE Validate
  <2>1. pc = "validate" /\ UNCHANGED config /\ pc' \in {"clients", "failed"}
    BY <1>3 DEF Validate
  <2>2. pc' = "clients" => Valid
    BY <1>3 DEF Validate
  <2>3. ConfigInStep'
    BY <1>1, <2>1, <2>2, ConfigStays DEF StartupInv, ConfigInStep
  <2> QED
    BY <1>1, <2>1, <2>3
    DEF StartupInv, StartupTypeOK, Stages, RegistriesInStep, Registered, RegisteredResources,
        RegisteredPrompts
<1> QED
  BY <1>2, <1>3

(* The clients are built from an accepted configuration, or not at all.      *)
LEMMA ClientsKeepStartupInv ==
  ASSUME StartupInv, NewMCPServer
  PROVE  StartupInv'
<1>1. /\ pc = "clients"
      /\ UNCHANGED <<env, cluster, config, tools, resources, prompts, sdkTools>>
      /\ tools = {} /\ resources = {} /\ prompts = {} /\ sdkTools = {} /\ clients = {}
  BY DEF NewMCPServer, registries, StartupInv, RegistriesInStep, ConfigInStep
<1>2. \/ pc' = "failed" /\ clients' = {}
      \/ /\ pc' = "tools"
         /\ clients' = {"k8s", "cache"} \cup (IF config.ce THEN {"ce"} ELSE {})
                                       \cup (IF config.kserve THEN {"kserve"} ELSE {})
  BY <1>1 DEF NewMCPServer
<1>3. StartupTypeOK'
  BY <1>1, <1>2 DEF StartupInv, StartupTypeOK, Stages
<1>4. ConfigInStep'
  <2>1. Valid /\ config = FromEnvironment
    BY <1>1 DEF StartupInv, ConfigInStep
  <2>2. CASE pc' = "failed"
    BY <2>2 DEF ConfigInStep
  <2>3. CASE pc' = "tools"
    <3>1. /\ {"k8s", "cache"} \subseteq clients'
          /\ "ce" \in clients' <=> config.ce
          /\ "kserve" \in clients' <=> config.kserve
      BY <1>2, <2>3
    <3> QED
      BY <1>1, <2>1, <2>3, <3>1, ConfigStays DEF ConfigInStep
  <2> QED
    BY <1>2, <2>2, <2>3
<1>5. RegistriesInStep'
  BY <1>1, <1>2 DEF RegistriesInStep
<1> QED
  BY <1>3, <1>4, <1>5 DEF StartupInv

(* Each registry is filled in its own step, and then the transport is chosen.*)
LEMMA RegisteringKeepsStartupInv ==
  ASSUME StartupInv, registerTools \/ registerResources \/ registerPrompts \/ Start
  PROVE  StartupInv'
<1>1. /\ UNCHANGED <<env, cluster, config, clients>>
      /\ pc \in {"tools", "resources", "prompts", "start"}
  BY DEF registerTools, registerResources, registerPrompts, Start
<1>2. pc' \in {"resources", "prompts", "start", "serving", "failed"}
  BY DEF registerTools, registerResources, registerPrompts, Start
<1>3. StartupTypeOK'
  BY <1>1, <1>2 DEF StartupInv, StartupTypeOK, Stages
<1>4. ConfigInStep'
  BY <1>1, <1>2, ConfigStays DEF StartupInv, ConfigInStep
<1>5. {"k8s", "cache"} \subseteq clients
  BY <1>1 DEF StartupInv, ConfigInStep
<1>6. /\ Registered' = Registered /\ RegisteredResources' = RegisteredResources
      /\ RegisteredPrompts' = RegisteredPrompts
  BY <1>1 DEF Registered, RegisteredResources, RegisteredPrompts
<1>7. RegistriesInStep'
  <2>1. CASE registerTools
    <3>1. /\ pc = "tools" /\ pc' = "resources" /\ UNCHANGED <<resources, prompts>>
          /\ tools' = Registered /\ sdkTools' = Registered
      BY <2>1 DEF registerTools
    <3> QED
      BY <1>1, <1>5, <1>6, <3>1 DEF StartupInv, RegistriesInStep
  <2>2. CASE registerResources
    <3>1. /\ pc = "resources" /\ pc' = "prompts" /\ UNCHANGED <<tools, sdkTools, prompts>>
          /\ resources' = RegisteredResources
      BY <2>2 DEF registerResources, RegisteredResources
    <3> QED
      BY <1>1, <1>5, <1>6, <3>1 DEF StartupInv, RegistriesInStep
  <2>3. CASE registerPrompts
    <3>1. /\ pc = "prompts" /\ pc' = "start" /\ UNCHANGED <<tools, sdkTools, resources>>
          /\ prompts' = RegisteredPrompts
      BY <2>3 DEF registerPrompts, RegisteredPrompts
    <3> QED
      BY <1>1, <1>5, <1>6, <3>1 DEF StartupInv, RegistriesInStep
  <2>4. CASE Start
    <3>1. /\ pc = "start" /\ pc' \in {"serving", "failed"}
          /\ UNCHANGED <<tools, sdkTools, resources, prompts>>
      BY <2>4 DEF Start, registries
    <3> QED
      BY <1>1, <1>5, <1>6, <3>1 DEF StartupInv, RegistriesInStep
  <2> QED
    BY <2>1, <2>2, <2>3, <2>4
<1> QED
  BY <1>3, <1>4, <1>7 DEF StartupInv

(* Every step of start-up keeps the invariant.                               *)
LEMMA NextKeepsStartupInv == StartupInv /\ [StartupNext]_startupVars => StartupInv'
<1> SUFFICES ASSUME StartupInv, [StartupNext]_startupVars PROVE StartupInv'
  OBVIOUS
<1>1. CASE UNCHANGED startupVars
  BY <1>1, ConfigStays
  DEF startupVars, registries, StartupInv, StartupTypeOK, ConfigInStep, RegistriesInStep,
      Registered, RegisteredResources, RegisteredPrompts
<1> QED
  BY <1>1, ConfigureKeepsStartupInv, ClientsKeepStartupInv, RegisteringKeepsStartupInv
  DEF StartupNext

(* The inductive invariant of start-up holds throughout.                     *)
THEOREM StartupInvariance == StartupSpec => []StartupInv
BY InitStartupInv, NextKeepsStartupInv, PTL DEF StartupSpec

-----------------------------------------------------------------------------
(* No branch of registerTools registers a tool whose client may be nil.      *)
LEMMA ToolsHaveTheirClients ==
  ASSUME {"k8s", "cache"} \subseteq clients, NEW name \in Registered
  PROVE  Needs(name) \subseteq clients
<1>1. CASE name \in CoreTools
  BY <1>1 DEF CoreTools, Needs, ModelTools
<1>2. CASE "ce" \in clients /\ name \in EngineTools
  BY <1>2 DEF EngineTools, Needs, ModelTools
<1>3. CASE "kserve" \in clients /\ name \in ModelTools
  BY <1>3 DEF ModelTools, Needs
<1>4. CASE {"ce", "kserve"} \subseteq clients /\ name = "analyze-anomalies"
  BY <1>4 DEF ModelTools, Needs
<1> QED
  BY <1>1, <1>2, <1>3, <1>4 DEF Registered

(* Nor does registerResources.                                               *)
LEMMA ResourcesHaveTheirClients ==
  ASSUME {"k8s", "cache"} \subseteq clients, NEW name \in RegisteredResources
  PROVE  Needs(name) \subseteq clients
<1>1. CASE name \in {"cluster://health", "cluster://nodes"}
  BY <1>1 DEF Needs, ModelTools
<1>2. CASE "ce" \in clients /\ name \in {"cluster://incidents", "cluster://remediation-history"}
  BY <1>2 DEF Needs, ModelTools
<1> QED
  BY <1>1, <1>2 DEF RegisteredResources

(* Whatever the environment holds, what is served can be used.               *)
THEOREM ServedCanBeUsed == StartupSpec => []ServedIsUsable
<1>1. ASSUME StartupInv
      PROVE  ServedIsUsable
  <2>1. config \in Configs
    BY <1>1 DEF StartupInv, StartupTypeOK
  <2>2. \A name \in tools \cup resources : Needs(name) \subseteq clients
    <3>1. ASSUME NEW name \in tools PROVE Needs(name) \subseteq clients
      BY <1>1, <3>1, ToolsHaveTheirClients DEF StartupInv, RegistriesInStep
    <3>2. ASSUME NEW name \in resources PROVE Needs(name) \subseteq clients
      BY <1>1, <3>2, ResourcesHaveTheirClients DEF StartupInv, RegistriesInStep
    <3> QED
      BY <3>1, <3>2
  <2>3. pc = "serving" => Valid /\ CoreTools \subseteq tools /\ tools = sdkTools
    BY <1>1 DEF StartupInv, ConfigInStep, RegistriesInStep, Registered
  <2>4. ListedResources = resources /\ ReadableResources = resources
    BY <1>1
    DEF StartupInv, RegistriesInStep, RegisteredResources, ListedResources, ReadableResources
  <2>5. ListedPrompts = prompts
    BY <1>1 DEF StartupInv, RegistriesInStep, RegisteredPrompts, ListedPrompts
  <2> QED
    BY <2>1, <2>2, <2>3, <2>4, <2>5 DEF ServedIsUsable
<1> QED
  BY StartupInvariance, <1>1, PTL

(* A prompt of the engine needs no more than the engine.                     *)
LEMMA EnginePromptsNeedTheEngine ==
  ASSUME "ce" \in clients, NEW p \in EnginePrompts
  PROVE  Names(p) \subseteq Registered \cup RegisteredResources
<1>1. CASE p = "predict-and-prevent"
  <2>1. Names(p) = PredictAndPrevent
    BY <1>1 DEF Names
  <2> QED
    BY <2>1 DEF PredictAndPrevent, Registered, RegisteredResources, EngineTools
<1>2. CASE p = "correlate-incidents"
  <2>1. Names(p) = CorrelateIncidents
    BY <1>2 DEF Names
  <2> QED
    BY <2>1 DEF CorrelateIncidents, Registered, RegisteredResources, EngineTools
<1> QED
  BY <1>1, <1>2 DEF EnginePrompts

(* The other prompts need both integrations.                                 *)
LEMMA CorePromptsNeedBoth ==
  ASSUME {"ce", "kserve"} \subseteq clients, NEW p \in CorePrompts
  PROVE  Names(p) \subseteq Registered \cup RegisteredResources
<1>1. \/ p = "diagnose-cluster-issues" /\ Names(p) = DiagnoseCluster
      \/ p = "investigate-pods" /\ Names(p) = InvestigatePods
      \/ p = "check-anomalies" /\ Names(p) = CheckAnomalies
      \/ p = "optimize-data-access" /\ Names(p) = OptimizeDataAccess
  BY DEF CorePrompts, Names
<1>2. DiagnoseCluster \cup InvestigatePods \cup CheckAnomalies \cup OptimizeDataAccess
        \subseteq Registered \cup RegisteredResources
  BY DEF DiagnoseCluster, InvestigatePods, CheckAnomalies, OptimizeDataAccess, Registered,
         RegisteredResources, CoreTools, EngineTools
<1> QED
  BY <1>1, <1>2

(* The prompts of a serving process name what it serves.                     *)
THEOREM PromptsNameWhatIsServed == StartupSpec => []PromptsLeadSomewhere
<1>1. ASSUME StartupInv
      PROVE  PromptsLeadSomewhere
  <2> SUFFICES ASSUME pc = "serving", NEW p \in prompts,
                      p \in EnginePrompts \/ {"ce", "kserve"} \subseteq clients
               PROVE  Names(p) \subseteq tools \cup resources
    BY DEF PromptsLeadSomewhere
  <2>1. tools = Registered /\ resources = RegisteredResources /\ p \in RegisteredPrompts
    BY <1>1 DEF StartupInv, RegistriesInStep
  <2>2. CASE p \in EnginePrompts
    <3>1. "ce" \in clients
      BY <2>1, <2>2 DEF RegisteredPrompts, CorePrompts, EnginePrompts
    <3> QED
      BY <2>1, <2>2, <3>1, EnginePromptsNeedTheEngine
  <2>3. CASE p \notin EnginePrompts
    <3>1. p \in CorePrompts
      BY <2>1, <2>3 DEF RegisteredPrompts
    <3> QED
      BY <2>1, <2>3, <3>1, CorePromptsNeedBoth
  <2> QED
    BY <2>2, <2>3
<1> QED
  BY StartupInvariance, <1>1, PTL

(* The tools a serving process offers follow from two variables of its        *)
(* environment, as NewConfig reads them, and from nothing else: neither the   *)
(* cluster nor the order of the steps decides.                               *)
SwitchesDecide ==
  pc = "serving" =>
    tools = CoreTools \cup (IF getEnv("ce") THEN EngineTools ELSE {})
                      \cup (IF getEnv("kserve") THEN ModelTools ELSE {})
                      \cup (IF getEnv("ce") /\ getEnv("kserve")
                            THEN {"analyze-anomalies"} ELSE {})

(* The tools follow from the two switches.                                   *)
THEOREM SwitchesDecideTheTools == StartupSpec => []SwitchesDecide
<1>1. ASSUME StartupInv
      PROVE  SwitchesDecide
  <2> SUFFICES ASSUME pc = "serving"
               PROVE  SwitchesDecide
    BY DEF SwitchesDecide
  <2>1. tools = Registered
    BY <1>1 DEF StartupInv, RegistriesInStep
  <2>2. config.ce = getEnv("ce") /\ config.kserve = getEnv("kserve")
    BY <1>1 DEF StartupInv, ConfigInStep, FromEnvironment, Default
  <2>3. ("ce" \in clients <=> config.ce) /\ ("kserve" \in clients <=> config.kserve)
    BY <1>1 DEF StartupInv, ConfigInStep
  <2> QED
    BY <2>1, <2>2, <2>3 DEF SwitchesDecide, Registered
<1> QED
  BY StartupInvariance, <1>1, PTL
=============================================================================
