----------------------------- MODULE MCCommands -----------------------------
(***************************************************************************)
(* The image holds two commands and a container runs one of them (Dockerfile,*)
(* lines 27 to 70): mcp-server, whose start-up is Startup, or healthcheck.   *)
(* The variables of the command that does not run keep one initial value.    *)
(***************************************************************************)
EXTENDS Startup, Healthcheck

VARIABLE command

commandVars == <<command, startupVars, probeVars>>

NothingSet ==
  [transport |-> Unset, port |-> Unset, cacheTTL |-> Unset, requestTimeout |-> Unset,
   ce |-> Unset, kserve |-> Unset]

CommandInit ==
  \/ /\ command = "mcp-server"
     /\ before = {} /\ url = "none"
     /\ StartupInit /\ ProbeInit
  \/ /\ command = "healthcheck"
     /\ env = NothingSet /\ cluster = "no config"
     /\ StartupInit /\ ProbeInit

CommandNext ==
  \/ command = "mcp-server" /\ StartupNext /\ UNCHANGED <<command, probeVars>>
  \/ command = "healthcheck" /\ ProbeNext /\ UNCHANGED <<command, startupVars>>

(* The fairness of the command that runs, as in its module.                  *)
CommandSpec == CommandInit /\ [][CommandNext]_commandVars /\ WF_commandVars(CommandNext)

\* Ports, CACHE_TTL and REQUEST_TIMEOUT below, at and above what Validate checks.
MCPorts == {0, 1, 65535, 65536}
MCTTLs == {0, 1, -1}
MCTimeouts == {0, 5}
=============================================================================
