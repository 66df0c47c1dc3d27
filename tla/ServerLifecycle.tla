-------------------------- MODULE ServerLifecycle --------------------------
(***************************************************************************)
(* The running server process: main of cmd/mcp-server/main.go, the signal   *)
(* goroutine it starts, startHTTPTransport of internal/server/server.go     *)
(* with the goroutine that listens, Stop, and the requests under way.       *)
(*                                                                         *)
(* net/http is modelled from how the code uses it: Shutdown closes the      *)
(* listener and polls until a poll finds no request active, whose contexts  *)
(* it leaves alone; its context's end it reports without another poll.  A   *)
(* ListenAndServe that Shutdown has ended, or that starts after it, returns *)
(* ErrServerClosed, which the listening goroutine drops.                    *)
(***************************************************************************)
EXTENDS Integers, FiniteSets

CONSTANTS Calls,        \* requests that end by themselves: REST calls, MCP messages, probes
          Streams,      \* SSE connections: they end when the client leaves
          Grace,        \* the 30 s of shutdownCtx, in clock units
          PollInterval, \* the longest time between two polls of Shutdown (500 ms and jitter)
          MaxSignals    \* bound of the signals sent

ASSUME LifecycleAssumption ==
  /\ Grace \in Nat \ {0} /\ MaxSignals \in Nat
  /\ PollInterval \in 1 .. Grace - 1
  /\ Calls \cap Streams = {}

VARIABLES
  main,      \* "selecting" in startHTTPTransport, "shutting" down, "exited"
  code,      \* the exit status, -1 while the process runs
  listener,  \* ListenAndServe: "starting", "serving", "ended"
  shut,      \* whether Shutdown has been called: the http.Server's inShutdown
  errChan,   \* whether an error of ListenAndServe waits in errChan
  watcher,   \* the signal goroutine: "waiting" for sigChan, "done"
  pending,   \* the signals in sigChan (its capacity is 1)
  ctx,       \* the context of Start: "live" or "cancelled"
  elapsed,   \* the time since startHTTPTransport called Shutdown
  polled,    \* when Shutdown last found a request active, -1 before its first poll
  stop,      \* a call of Stop: "none", "waiting" in Shutdown, "returned"
  req,       \* each request: "none", "active", "served", "killed"
  signals,   \* history: the signals sent
  failed,    \* history: whether ListenAndServe has failed
  finished   \* history: the time, as of elapsed, when the last handler returned

vars == <<main, code, listener, shut, errChan, watcher, pending, ctx, elapsed,
          polled, stop, req, signals, failed, finished>>

Requests == Calls \cup Streams

Active == {r \in Requests : req[r] = "active"}

Init ==
  /\ main = "selecting" /\ code = -1
  /\ listener = "starting" /\ shut = FALSE /\ errChan = FALSE
  /\ watcher = "waiting" /\ pending = 0 /\ ctx = "live"
  /\ elapsed = 0 /\ polled = -1 /\ stop = "none"
  /\ req = [r \in Requests |-> "none"]
  /\ signals = 0 /\ failed = FALSE /\ finished = 0

Running == main # "exited"

(* The process ends, and with it every request still active.                 *)
Exit(status) ==
  /\ main' = "exited"
  /\ code' = status
  /\ req' = [r \in Requests |-> IF r \in Active THEN "killed" ELSE req[r]]

-----------------------------------------------------------------------------
(* The listening goroutine.  A server that was shut down does not start.     *)
Listen ==
  /\ Running /\ listener = "starting"
  /\ listener' = IF shut THEN "ended" ELSE "serving"
  /\ UNCHANGED <<main, code, shut, errChan, watcher, pending, ctx, elapsed, polled, stop,
                 req, signals, failed, finished>>

(* The port is taken, or Accept fails: the error goes to errChan.            *)
ListenFails ==
  /\ Running /\ listener \in {"starting", "serving"} /\ ~shut
  /\ listener' = "ended"
  /\ errChan' = TRUE /\ failed' = TRUE
  /\ UNCHANGED <<main, code, shut, watcher, pending, ctx, elapsed, polled, stop, req,
                 signals, finished>>

(* The client connects and mainHandler runs.                                 *)
Serve(r) ==
  /\ Running /\ listener = "serving" /\ req[r] = "none"
  /\ req' = [req EXCEPT ![r] = "active"]
  /\ UNCHANGED <<main, code, listener, shut, errChan, watcher, pending, ctx, elapsed,
                 polled, stop, signals, failed, finished>>

(* The handler returns: a call is answered, the client of a stream leaves.   *)
Finish(r) ==
  /\ Running /\ r \in Active
  /\ req' = [req EXCEPT ![r] = "served"]
  /\ finished' = elapsed
  /\ UNCHANGED <<main, code, listener, shut, errChan, watcher, pending, ctx, elapsed,
                 polled, stop, signals, failed>>

-----------------------------------------------------------------------------
(* SIGTERM or SIGINT: signal.Notify never blocks, a full sigChan drops it.   *)
Signal ==
  /\ Running /\ signals < MaxSignals
  /\ signals' = signals + 1
  /\ pending' = 1
  /\ UNCHANGED <<main, code, listener, shut, errChan, watcher, ctx, elapsed, polled, stop,
                 req, failed, finished>>

(* The signal goroutine takes one signal, cancels the context and returns.   *)
Cancel ==
  /\ Running /\ watcher = "waiting" /\ pending > 0
  /\ watcher' = "done" /\ pending' = pending - 1
  /\ ctx' = "cancelled"
  /\ UNCHANGED <<main, code, listener, shut, errChan, elapsed, polled, stop, req, signals,
                 failed, finished>>

(* Each Fault... is the operator after it with one plausible bug; no          *)
(* specification uses them.  They show that the properties can fail.         *)
FaultExitsAtOnce ==
  /\ main = "selecting" /\ ctx = "cancelled"
  /\ shut' = TRUE
  /\ Exit(0)
  /\ UNCHANGED <<listener, errChan, watcher, pending, ctx, elapsed, polled, stop, signals,
                 failed, finished>>

(* select of startHTTPTransport, ctx.Done(): Shutdown begins.  If errChan is  *)
(* ready as well, select takes either case.                                  *)
BeginShutdown ==
  /\ main = "selecting" /\ ctx = "cancelled"
  /\ main' = "shutting"
  /\ shut' = TRUE
  /\ listener' = IF listener = "serving" THEN "ended" ELSE listener
  /\ UNCHANGED <<code, errChan, watcher, pending, ctx, elapsed, polled, stop, req, signals,
                 failed, finished>>

(* A poll of Shutdown finds no request active: it returns nil, main returns.  *)
ShutdownDone ==
  /\ main = "shutting" /\ Active = {}
  /\ Exit(0)
  /\ UNCHANGED <<listener, shut, errChan, watcher, pending, ctx, elapsed, polled, stop,
                 signals, failed, finished>>

(* A poll finds a request active: Shutdown waits for its timer.              *)
Poll ==
  /\ main = "shutting" /\ Active # {}
  /\ polled' = elapsed
  /\ UNCHANGED <<main, code, listener, shut, errChan, watcher, pending, ctx, elapsed, stop,
                 req, signals, failed, finished>>

FaultNoDeadline ==
  /\ main = "shutting" /\ elapsed > Grace
  /\ Exit(1)
  /\ UNCHANGED <<listener, shut, errChan, watcher, pending, ctx, elapsed, polled, stop,
                 signals, failed, finished>>

FaultGivesUpEarly ==
  /\ main = "shutting" /\ elapsed < Grace
  /\ Exit(1)
  /\ UNCHANGED <<listener, shut, errChan, watcher, pending, ctx, elapsed, polled, stop,
                 signals, failed, finished>>

(* The context ends while Shutdown waits for its timer: it returns the        *)
(* deadline's error without looking again, even if the last request has ended *)
(* since the poll.  main's log.Fatalf.                                       *)
ShutdownTimesOut ==
  /\ main = "shutting" /\ elapsed = Grace
  /\ Exit(1)
  /\ UNCHANGED <<listener, shut, errChan, watcher, pending, ctx, elapsed, polled, stop,
                 signals, failed, finished>>

(* The errChan case: Start returns the error, log.Fatalf.                    *)
ServerError ==
  /\ main = "selecting" /\ errChan
  /\ Exit(1)
  /\ UNCHANGED <<listener, shut, errChan, watcher, pending, ctx, elapsed, polled, stop,
                 signals, failed, finished>>

(* Time passes while Shutdown waits.  Its first poll is at once, and the next *)
(* never more than PollInterval after one: its timer is on time.             *)
Tick ==
  /\ main = "shutting" /\ elapsed < Grace
  /\ polled >= 0 /\ elapsed - polled < PollInterval
  /\ elapsed' = elapsed + 1
  /\ UNCHANGED <<main, code, listener, shut, errChan, watcher, pending, ctx, polled, stop, req,
                 signals, failed, finished>>

-----------------------------------------------------------------------------
(* MCPServer.Stop, for a program that embeds the server (main.go never calls *)
(* it): its Shutdown ends the listener, and returns when nothing is active or *)
(* its own deadline passes.  Stopping the session manager is SessionManager's *)
(* Stop; a second call of Stop would panic there.                            *)
Stop ==
  /\ Running /\ stop = "none"
  /\ stop' = "waiting"
  /\ shut' = TRUE
  /\ listener' = IF listener = "serving" THEN "ended" ELSE listener
  /\ UNCHANGED <<main, code, errChan, watcher, pending, ctx, elapsed, polled, req, signals,
                 failed, finished>>

StopReturns ==
  /\ Running /\ stop = "waiting"
  /\ stop' = "returned"
  /\ UNCHANGED <<main, code, listener, shut, errChan, watcher, pending, ctx, elapsed, polled,
                 req, signals, failed, finished>>

Main == BeginShutdown \/ ShutdownDone \/ Poll \/ ShutdownTimesOut \/ ServerError

Next ==
  \/ Listen \/ ListenFails \/ Signal \/ Cancel \/ Main \/ Tick \/ Stop \/ StopReturns
  \/ \E r \in Requests : Serve(r) \/ Finish(r)

(* Every goroutine of the process goes on, the clock too.  Nothing obliges a *)
(* client to leave its stream, a user to send a signal, or a port to fail.   *)
Spec ==
  /\ Init /\ [][Next]_vars
  /\ WF_vars(Listen) /\ WF_vars(Cancel) /\ WF_vars(Main) /\ WF_vars(Tick)
  /\ WF_vars(StopReturns)
  /\ \A r \in Calls : WF_vars(Finish(r))
-----------------------------------------------------------------------------
TypeOK ==
  /\ main \in {"selecting", "shutting", "exited"}
  /\ code \in {-1, 0, 1} /\ (code = -1 <=> Running)
  /\ listener \in {"starting", "serving", "ended"}
  /\ shut \in BOOLEAN /\ errChan \in BOOLEAN /\ failed \in BOOLEAN
  /\ watcher \in {"waiting", "done"}
  /\ pending \in 0 .. 1
  /\ ctx \in {"live", "cancelled"}
  /\ elapsed \in 0 .. Grace /\ polled \in -1 .. elapsed /\ finished \in 0 .. elapsed
  /\ stop \in {"none", "waiting", "returned"}
  /\ req \in [Requests -> {"none", "active", "served", "killed"}]
  /\ signals \in 0 .. MaxSignals

(* Status 0 means that nothing was cut off: every request the server took was *)
(* served before the process ended.                                          *)
CleanExitLosesNothing == code = 0 => \A r \in Requests : req[r] # "killed"

(* The process fails only for a cause: the listener's error, or the whole     *)
(* grace period spent on work that lasted to its end, or at least into the    *)
(* last interval between two polls.                                          *)
FailsOnlyForCause ==
  code = 1 =>
    \/ failed
    \/ /\ elapsed = Grace
       /\ (\E r \in Requests : req[r] = "killed") \/ Grace - finished <= PollInterval

(* A signal ends the process, whatever the requests do and wherever main and  *)
(* the listener are when it comes.                                           *)
SignalEndsProcess == (signals > 0) ~> (main = "exited")
=============================================================================
