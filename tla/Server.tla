------------------------------- MODULE Server -------------------------------
(***************************************************************************)
(* The server process around the handlers: main starts, checks its         *)
(* configuration, opens the store, listens in a goroutine, waits for a     *)
(* signal, gives the handlers five seconds, closes the pool and exits; it  *)
(* may be killed anywhere and started again on the same database.  The     *)
(* handlers are those of ModelVersions: every one of its actions happens   *)
(* in a process, on a connection it has accepted, behind authentication    *)
(* and authorization, or not at all.                                       *)
(***************************************************************************)
EXTENDS ModelVersions

CONSTANTS
  Envs,       \* values of CONTRATO_ENV, "dev" among them
  Providers,  \* values of CONTRATO_AUTHN_PROVIDER and CONTRATO_AUTHZ_PROVIDER
  MaxStarts   \* bound: how often the process is started

Configs == [env : Envs, dsn : BOOLEAN, authn : Providers, authz : Providers,
            allow : BOOLEAN]

ASSUME ServerAssumption ==
  /\ "dev" \in Envs
  /\ "noop" \in Providers
  /\ MaxStarts \in Nat

\* (Operators with a suffix after "_" are faulty variants of the definition that
\* follows them.)

VARIABLES
  main,      \* where the main goroutine is
  listener,  \* where the goroutine of ListenAndServe is
  conf,      \* the configuration the process was started with
  conns,     \* the requests whose connection is accepted and that are not yet read
  expired,   \* the timer of the context Shutdown waits under has fired
  starts     \* how often the process was started

proc == <<main, listener, conf, conns, expired, starts>>
svars == <<model_versions, clock, mreq, main, listener, conf, conns, expired, starts>>

STypeOK ==
  /\ MTypeOK
  /\ main \in {"off", "open", "waiting", "shutdown", "closing", "exit"}
  /\ listener \in {"none", "starting", "listening", "failed", "closed"}
  /\ conf \in Configs
  /\ conns \subseteq AdminRequests
  /\ expired \in BOOLEAN
  /\ starts \in 0 .. MaxStarts

\* FromEnv without any variable set.
Defaults == [env |-> "dev", dsn |-> FALSE, authn |-> "noop", authz |-> "noop",
             allow |-> FALSE]

SInit ==
  /\ MInit
  /\ main = "off" /\ listener = "none" /\ starts = 0
  /\ conf = Defaults /\ conns = {} /\ expired = FALSE

\* The handlers that run.
Active == {r \in AdminRequests : mreq[r].stage \in {"create", "started", "insert", "inserted"}}

----------------------------------------------------------------------------
(* main and app.New.                                                       *)

NoopRefused_OnlyDenying(c) == ~ c.allow /\ c.env # "dev"

\* "refusing noop authz allow outside dev".
NoopRefused(c) == c.allow /\ c.env # "dev"

\* The configurations app.New returns an error for before it opens anything.
Refused(c) ==
  \/ ~ c.dsn
  \/ c.authn # "noop" \/ c.authz # "noop"
  \/ NoopRefused(c)

StartServer ==
  /\ main = "off" /\ starts < MaxStarts
  /\ \E c \in Configs :
       IF Refused(c)
         THEN UNCHANGED <<main, listener, conf, expired>>
         ELSE main' = "open" /\ listener' = "none" /\ conf' = c /\ expired' = FALSE
  /\ starts' = starts + 1
  /\ UNCHANGED <<mvars, conns>>

\* Open, ping and migrate; then the goroutine of ListenAndServe is started and
\* main waits for a signal.  An error ends the process.
OpenStore ==
  /\ main = "open"
  /\ \/ main' = "waiting" /\ listener' = "starting"
     \/ main' = "exit" /\ UNCHANGED listener
  /\ UNCHANGED <<mvars, conf, conns, expired, starts>>

\* A listener that fails is logged and that is all.  Once Shutdown was called,
\* ListenAndServe returns at once.
Listen ==
  /\ listener = "starting" /\ main # "exit"
  /\ IF main = "waiting" THEN listener' \in {"listening", "failed"}
                         ELSE listener' = "closed"
  /\ UNCHANGED <<mvars, main, conf, conns, expired, starts>>

\* Connections accepted before go on.
ListenerFails ==
  /\ listener = "listening"
  /\ listener' = "failed"
  /\ UNCHANGED <<mvars, main, conf, conns, expired, starts>>

\* SIGINT or SIGTERM: Shutdown closes the listener before it waits.  A second
\* signal stays in the channel.
Signal ==
  /\ main = "waiting"
  /\ main' = "shutdown"
  /\ listener' = IF listener = "listening" THEN "closed" ELSE listener
  /\ UNCHANGED <<mvars, conf, conns, expired, starts>>

\* context.WithTimeout(context.Background(), 5*time.Second): time passes whatever
\* the handlers do.
Deadline ==
  /\ main = "shutdown" /\ ~ expired
  /\ expired' = TRUE
  /\ UNCHANGED <<mvars, main, listener, conf, conns, starts>>

\* What Shutdown waits for: handlers, and connections that may yet start one.
Busy == Active \cup conns

ShutdownReturns_Unwaited ==
  /\ main = "shutdown"
  /\ main' = "closing"
  /\ UNCHANGED <<mvars, listener, conf, conns, expired, starts>>

ShutdownReturns_NoDeadline ==
  /\ main = "shutdown" /\ Busy = {}
  /\ main' = "closing"
  /\ UNCHANGED <<mvars, listener, conf, conns, expired, starts>>

\* Nothing is left to wait for, or the five seconds are over; the error is
\* dropped.  The next thing that happens is the deferred Close of the store.
ShutdownReturns ==
  /\ main = "shutdown" /\ (Busy = {} \/ expired)
  /\ main' = "closing"
  /\ UNCHANGED <<mvars, listener, conf, conns, expired, starts>>

\* main returns, and with it the process goes.
MainReturns ==
  /\ main = "closing"
  /\ main' = "exit"
  /\ UNCHANGED <<mvars, listener, conf, conns, expired, starts>>

\* SIGKILL, a panic outside a handler, or a signal before Notify.
Kill ==
  /\ main \in {"open", "waiting", "shutdown", "closing"}
  /\ main' = "exit"
  /\ UNCHANGED <<mvars, listener, conf, conns, expired, starts>>

\* What is left of the process goes: its handlers one by one, then the rest.
DropHandler(r) ==
  /\ main = "exit"
  /\ AbandonModel(r)
  /\ UNCHANGED proc

Gone ==
  /\ main = "exit" /\ Active = {}
  /\ main' = "off" /\ listener' = "none" /\ conns' = {}
  /\ UNCHANGED <<mvars, conf, expired, starts>>

----------------------------------------------------------------------------
(* A request: its connection, the router, withAuth, the handler.           *)

\* The process serves: from ListenAndServe until it goes.
Runs == main \in {"waiting", "shutdown", "closing"}

\* The no-op provider authenticates everybody; the no-op engine answers what
\* it was configured to.
Allowed == conf.allow

\* A connection that is kept alive counts as accepted anew for its next request.
Accept(r) ==
  /\ listener = "listening" /\ main # "exit"
  /\ mreq[r].stage = "new"
  /\ conns' = conns \cup {r}
  /\ UNCHANGED <<mvars, main, listener, conf, expired, starts>>

\* The client hangs up, or Shutdown closes a connection without a request.
CloseConn(r) ==
  /\ Runs /\ r \in conns
  /\ conns' = conns \ {r}
  /\ UNCHANGED <<mvars, main, listener, conf, expired, starts>>

\* The request is read and its handler starts, though Shutdown may wait or have
\* given up by then.  With the pool closed the Get of SetStatus fails: 500.
Serve(r) ==
  /\ Runs /\ r \in conns
  /\ Allowed
  /\ \/ CreateModel(r) \/ SetModelStatusNotFound(r)
     \/ main # "closing" /\ SetModelStatus(r)
  /\ conns' = conns \ {r}
  /\ UNCHANGED <<main, listener, conf, expired, starts>>

\* 403.
Forbid(r) ==
  /\ Runs /\ r \in conns
  /\ ~ Allowed
  /\ mreq[r].stage = "new"
  /\ mreq' = [mreq EXCEPT ![r].stage = "failed"]
  /\ conns' = conns \ {r}
  /\ UNCHANGED <<model_versions, clock, main, listener, conf, expired, starts>>

\* A statement needs a connection of the pool; one that has it goes on after the
\* pool was closed.
HandlerStep(r) ==
  /\ Runs
  /\ \/ (main = "closing" => mreq[r].stage # "create") /\ ModelStep(r)
     \/ AbandonModel(r)
  /\ UNCHANGED proc

\* "sql: database is closed": 500.
StatementRefused(r) ==
  /\ main = "closing"
  /\ mreq[r].stage = "create"
  /\ mreq' = [mreq EXCEPT ![r].stage = "failed"]
  /\ UNCHANGED <<model_versions, clock, proc>>

----------------------------------------------------------------------------

MainStep == ShutdownReturns \/ MainReturns \/ Gone

SNext ==
  \/ StartServer \/ OpenStore \/ Listen \/ ListenerFails \/ Signal \/ Deadline
  \/ MainStep \/ Kill
  \/ Tick /\ UNCHANGED proc
  \/ \E r \in AdminRequests :
       \/ Accept(r) \/ CloseConn(r) \/ Serve(r) \/ Forbid(r)
       \/ HandlerStep(r) \/ StatementRefused(r) \/ DropHandler(r)

\* Once a signal has come, main needs nobody: its timer fires and the operating
\* system takes the process down.  Neither handlers nor clients are assumed to
\* make progress.
SFairness ==
  /\ WF_svars(MainStep) /\ WF_svars(Deadline)
  /\ \A r \in AdminRequests : WF_svars(DropHandler(r))

SSpec == SInit /\ [][SNext]_svars /\ SFairness

----------------------------------------------------------------------------
(* What the process promises.                                              *)

\* README.md "AuthN/AuthZ remain NOOP for v0 (guarded)": with authorization that
\* asks nobody, no handler of a model ever runs outside a dev environment that was
\* told to allow, in whatever configurations the process is started and restarted.
\* (GET /health skips withAuth: it is answered in every configuration.)
ServedOnlyInDev == Active # {} => conf.env = "dev" /\ conf.allow

\* The pool is closed under a running handler, or under one that may yet start,
\* only after the five seconds: a handler that is slower than others, one that
\* starts on a connection accepted before the signal, a listener that comes up
\* after it, none of them is cut off earlier.
ShutdownDrains == main = "closing" /\ Busy # {} => expired

\* A signal ends the process, though handlers hang, clients hold their
\* connections open, the listener has failed or has not yet started.
SignalEnds == main = "shutdown" ~> main = "off"
=============================================================================
