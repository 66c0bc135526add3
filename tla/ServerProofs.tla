---------------------------- MODULE ServerProofs ----------------------------
(***************************************************************************)
(* Theorems about Server: what ModelVersions promises survives shutdowns,  *)
(* kills and restarts, and what the process itself promises holds for      *)
(* every number of starts, configurations and requests.                    *)
(*                                                                         *)
(* SInv adds to MInv what the process knows of its handlers: none runs and *)
(* no connection is open before the store is, none is accepted once main   *)
(* waits in Shutdown, none is left when main stops waiting before its      *)
(* timer, and the configuration in force is never one that app.New         *)
(* refuses.                                                                *)
(***************************************************************************)
EXTENDS Server, ModelVersionsProofs

LifeInv ==
  /\ main \in {"off", "open"} => Busy = {} /\ listener = "none"
  /\ main \in {"shutdown", "closing"} => listener # "listening"
  /\ main = "closing" /\ Busy # {} => expired

ConfInv ==
  /\ ~ NoopRefused(conf)
  /\ Active # {} => conf.allow

SInv == STypeOK /\ MInv /\ LifeInv /\ ConfInv

\* No process runs and no request has arrived.
LEMMA SInitInv == ASSUME ModelAssumption, ServerAssumption, SInit PROVE SInv
<1>1. MInv
  BY MInitInv DEF SInit
<1>2. Active = {}
  BY DEF SInit, MInit, Active
<1>3. Defaults \in Configs
  BY DEF ServerAssumption, Defaults, Configs
<1>4. 0 \in 0 .. MaxStarts
  BY DEF ServerAssumption
<1>5. STypeOK
  BY <1>1, <1>3, <1>4 DEF SInit, STypeOK, MInv
<1> QED
  BY <1>1, <1>2, <1>5 DEF SInv, LifeInv, ConfInv, SInit, NoopRefused, Defaults, Busy

\* Nothing but a handler that is let in makes a request active, and what it does
\* to the table and the handlers is a step of ModelVersions, but for the 500 of a
\* statement that finds the pool closed.
LEMMA ServedStep ==
  ASSUME NEW r \in AdminRequests, Serve(r) \/ HandlerStep(r) \/ DropHandler(r) \/ Forbid(r)
  PROVE  [MNext]_mvars
BY DEF Serve, HandlerStep, DropHandler, Forbid, MNext, ModelRequest, SetModelStatusNotFound

\* That 500 leaves the table alone.
LEMMA RefusedStatement ==
  ASSUME MInv, NEW r \in AdminRequests, StatementRefused(r)
  PROVE  MInv' /\ UNCHANGED model_versions
<1> DEFINE p == mreq[r]
           q == [p EXCEPT !.stage = "failed"]
<1>1. p \in AdminStates
  BY DEF MInv, MTypeOK
<1>2. q \in AdminStates /\ PendingModel(q) /\ mreq' = [mreq EXCEPT ![r] = q]
  BY <1>1 DEF StatementRefused, AdminStates, AdminStages, PendingModel
<1> QED
  BY <1>2, MRequestMoves DEF StatementRefused

\* A step of the server is one of the table, or a statement that finds the pool
\* closed.
LEMMA ServerStep ==
  ASSUME [SNext]_svars
  PROVE  [MNext]_mvars \/ \E r \in AdminRequests : StatementRefused(r)
<1>1. Tick => MNext
  BY DEF MNext
<1>2. ASSUME NEW r \in AdminRequests,
             Serve(r) \/ HandlerStep(r) \/ DropHandler(r) \/ Forbid(r)
      PROVE  [MNext]_mvars
  BY <1>2, ServedStep
<1>3. StartServer \/ OpenStore \/ Listen \/ ListenerFails \/ Signal \/ Deadline \/ MainStep
        \/ Kill => UNCHANGED mvars
  BY DEF StartServer, OpenStore, Listen, ListenerFails, Signal, Deadline, MainStep,
     ShutdownReturns, MainReturns, Gone, Kill
<1>4. ASSUME NEW r \in AdminRequests, Accept(r) \/ CloseConn(r) PROVE UNCHANGED mvars
  BY <1>4 DEF Accept, CloseConn
<1>5. UNCHANGED svars => UNCHANGED mvars
  BY DEF svars, mvars
<1> QED
  BY <1>1, <1>2, <1>3, <1>4, <1>5 DEF SNext

\* In both cases the table keeps its invariant.
LEMMA ServerModelStep ==
  ASSUME ModelAssumption, MInv, [SNext]_svars
  PROVE  MInv' /\ ([MNext]_mvars \/ UNCHANGED model_versions)
BY ServerStep, MNextInv, RefusedStatement

\* The handlers that run after a step of one of them ran before it.
LEMMA HandlersOnlyEnd ==
  ASSUME MTypeOK, NEW r \in AdminRequests,
         HandlerStep(r) \/ StatementRefused(r) \/ DropHandler(r) \/ Forbid(r)
  PROVE  Active' \subseteq Active
<1>1. \A s \in AdminRequests \ {r} : mreq'[s] = mreq[s]
  <2>1. CASE ModelStep(r)
    BY <2>1 DEF ModelStep, StartInsert, NextModelVersion, InsertModel, InsertModelRefused,
       RespondModel, MTypeOK
  <2>2. CASE AbandonModel(r) \/ StatementRefused(r) \/ Forbid(r)
    BY <2>2 DEF AbandonModel, StatementRefused, Forbid, MTypeOK
  <2> QED
    BY <2>1, <2>2 DEF HandlerStep, DropHandler
<1>2. CASE ModelStep(r) \/ AbandonModel(r) \/ StatementRefused(r)
  <2>1. r \in Active
    BY <1>2 DEF ModelStep, StartInsert, NextModelVersion, InsertModel, InsertModelRefused,
       RespondModel, AbandonModel, StatementRefused, Active
  <2> QED
    BY <1>1, <2>1 DEF Active
<1>3. CASE Forbid(r)
  <2>1. mreq'[r].stage = "failed"
    BY <1>3 DEF Forbid, MTypeOK, AdminStates
  <2> QED
    BY <1>1, <2>1 DEF Active
<1> QED
  BY <1>2, <1>3 DEF HandlerStep, DropHandler

\* A handler that starts, and a 403, take over the connection of their request.
LEMMA RequestRead ==
  ASSUME NEW r \in AdminRequests, Serve(r) \/ Forbid(r), MTypeOK
  PROVE  Runs /\ Busy' \subseteq Busy /\ UNCHANGED <<main, listener, conf, expired, starts>>
<1>1. Runs /\ r \in conns /\ conns' \subseteq conns
      /\ UNCHANGED <<main, listener, conf, expired, starts>>
  BY DEF Serve, Forbid
<1>2. \A s \in AdminRequests \ {r} : mreq'[s] = mreq[s]
  BY DEF Serve, Forbid, CreateModel, SetModelStatus, SetModelStatusNotFound, MTypeOK
<1>3. Active' \subseteq Active \cup {r}
  BY <1>2 DEF Active
<1> QED
  BY <1>1, <1>3 DEF Busy

\* Every step keeps the invariant.
LEMMA SNextInv ==
  ASSUME ModelAssumption, ServerAssumption, SInv, [SNext]_svars
  PROVE  SInv'
<1> USE DEF LifeInv, ConfInv, STypeOK
<1>0. MInv' /\ MTypeOK'
  BY ServerModelStep DEF SInv, MInv
<1>1. UNCHANGED mreq => Active' = Active
  BY DEF Active
<1>2. CASE UNCHANGED svars
  BY <1>0, <1>1, <1>2 DEF SInv, svars, NoopRefused, Busy
<1>3. CASE StartServer
  <2>1. UNCHANGED <<mreq, conns>> /\ main = "off" /\ starts < MaxStarts
        /\ starts' = starts + 1
    BY <1>3 DEF StartServer, mvars
  <2>2. starts' \in 0 .. MaxStarts
    BY <2>1 DEF SInv, ServerAssumption
  <2>3. PICK c \in Configs :
          IF Refused(c) THEN UNCHANGED <<main, listener, conf, expired>>
            ELSE main' = "open" /\ listener' = "none" /\ conf' = c /\ expired' = FALSE
    BY <1>3 DEF StartServer
  <2>4. Busy = {} /\ Busy' = {} /\ Active' = {}
    BY <1>1, <2>1 DEF SInv, Busy
  <2> QED
    BY <1>0, <2>1, <2>2, <2>3, <2>4 DEF SInv, Refused, NoopRefused
<1>4. CASE OpenStore \/ Listen \/ ListenerFails \/ Signal \/ Deadline \/ MainReturns \/ Kill
  BY <1>0, <1>1, <1>4 DEF SInv, OpenStore, Listen, ListenerFails, Signal, Deadline,
     MainReturns, Kill, mvars, NoopRefused, Busy
<1>5. CASE ShutdownReturns
  BY <1>0, <1>1, <1>5 DEF SInv, ShutdownReturns, mvars, NoopRefused, Busy
<1>6. CASE Gone
  BY <1>0, <1>1, <1>6 DEF SInv, Gone, mvars, NoopRefused, Busy
<1>7. CASE Tick /\ UNCHANGED proc
  BY <1>0, <1>1, <1>7 DEF SInv, Tick, proc, NoopRefused, Busy
<1>8. ASSUME NEW r \in AdminRequests, Accept(r) \/ CloseConn(r) PROVE SInv'
  <2>1. UNCHANGED <<mvars, main, listener, conf, expired, starts>>
        /\ conns' \subseteq conns \cup {r}
    BY <1>8 DEF Accept, CloseConn
  <2>2. Active' = Active
    BY <1>1, <2>1 DEF mvars
  <2>3. CASE Accept(r)
    <3>1. main \notin {"off", "open", "shutdown", "closing"}
      BY <2>3 DEF Accept, SInv
    <3> QED
      BY <1>0, <2>1, <2>2, <3>1 DEF SInv, NoopRefused
  <2>4. CASE CloseConn(r)
    <3>1. Busy' \subseteq Busy /\ conns' \subseteq conns
      BY <2>2, <2>4 DEF CloseConn, Busy
    <3> QED
      BY <1>0, <2>1, <2>2, <3>1 DEF SInv, NoopRefused
  <2> QED
    BY <1>8, <2>3, <2>4
<1>9. ASSUME NEW r \in AdminRequests, Serve(r) \/ Forbid(r) PROVE SInv'
  <2>1. Runs /\ Busy' \subseteq Busy /\ UNCHANGED <<main, listener, conf, expired, starts>>
    BY <1>9, RequestRead DEF SInv
  <2>2. conns' \subseteq AdminRequests
    BY <1>9 DEF Serve, Forbid, SInv
  <2>3. Active' # {} => conf.allow
    <3>1. CASE Serve(r)
      BY <3>1 DEF Serve, Allowed
    <3>2. CASE Forbid(r)
      <4>1. Active' \subseteq Active
        BY <3>2, HandlersOnlyEnd DEF SInv
      <4> QED
        BY <4>1 DEF SInv
    <3> QED
      BY <1>9, <3>1, <3>2
  <2> QED
    BY <1>0, <2>1, <2>2, <2>3 DEF SInv, Runs, NoopRefused
<1>10. ASSUME NEW r \in AdminRequests,
              HandlerStep(r) \/ StatementRefused(r) \/ DropHandler(r)
       PROVE  SInv'
  <2>1. Active' \subseteq Active
    BY <1>10, HandlersOnlyEnd DEF SInv
  <2>2. UNCHANGED proc
    BY <1>10 DEF HandlerStep, StatementRefused, DropHandler, proc
  <2> QED
    BY <1>0, <2>1, <2>2 DEF SInv, proc, NoopRefused, Busy
<1> QED
  BY <1>2, <1>3, <1>4, <1>5, <1>6, <1>7, <1>8, <1>9, <1>10 DEF SNext, MainStep

\* For every set of configurations, every number of starts and of requests.
THEOREM ServerInvariant == SSpec => []SInv
<1>1. SInit => SInv
  BY SInitInv, ModelAssumption, ServerAssumption
<1>2. SInv /\ [SNext]_svars => SInv'
  BY SNextInv, ModelAssumption, ServerAssumption
<1> QED
  BY <1>1, <1>2, PTL DEF SSpec

\* The state of the process, of its handlers and of the table is always of the
\* declared type.
THEOREM ServerTypes == SSpec => []STypeOK
<1>1. SInv => STypeOK
  BY DEF SInv
<1> QED
  BY <1>1, ServerInvariant, PTL

\* Shutdowns, kills and restarts leave no gap in a lineage and no version twice.
THEOREM ServerDensity == SSpec => []ModelHistoriesDense
<1>1. SInv => ModelHistoriesDense
  BY DEF SInv, MInv
<1> QED
  BY <1>1, ServerInvariant, PTL

\* No handler runs in a process whose configuration allows everything to
\* everybody, unless it is a dev environment.
THEOREM ServerGuardsNoop == SSpec => []ServedOnlyInDev
<1>1. SInv => ServedOnlyInDev
  BY DEF SInv, ConfInv, NoopRefused, ServedOnlyInDev
<1> QED
  BY <1>1, ServerInvariant, PTL

\* When the pool is closed under a handler that runs or may yet start, the timer
\* of the five seconds has fired, for every number of requests.
THEOREM ServerDrains == SSpec => []ShutdownDrains
<1>1. SInv => ShutdownDrains
  BY DEF SInv, LifeInv, ShutdownDrains
<1> QED
  BY <1>1, ServerInvariant, PTL

\* A statement that finds the pool closed fails its request in the log too.
LEMMA RefusedRefines ==
  ASSUME MInv, NEW r \in AdminRequests, StatementRefused(r)
  PROVE  [ModelLog!Next]_(ModelLog!vars)
<1>1. /\ UNCHANGED model_versions /\ mreq[r].stage = "create"
      /\ mreq'[r].stage = "failed"
      /\ \A s \in AdminRequests \ {r} : mreq'[s] = mreq[s]
  BY DEF StatementRefused, MInv, MTypeOK, AdminStates
<1>2. ModelMoves(mreq[r], mreq'[r])
  BY <1>1 DEF ModelMoves
<1> QED
  BY <1>1, <1>2, ModelMoveRefines

\* Over shutdowns, kills and restarts the table stays an append-only log per
\* lineage; a request that a kill has cut off has appended one version or none.
THEOREM ServerImplementsLog == SSpec => ModelTableIsALog
<1>1. SInit => ModelLog!Init
  BY ModelInitRefines DEF SInit
<1>2. ASSUME SInv, [SNext]_svars PROVE [ModelLog!Next]_(ModelLog!vars)
  <2>1. CASE [MNext]_mvars
    BY <1>2, <2>1, ModelStepRefines, ModelAssumption DEF SInv
  <2>2. CASE ~ [MNext]_mvars
    <3>1. PICK r \in AdminRequests : StatementRefused(r)
      BY <1>2, <2>2, ServerStep
    <3> QED
      BY <1>2, <3>1, RefusedRefines DEF SInv
  <2> QED
    BY <2>1, <2>2
<1> QED
  BY <1>1, <1>2, ServerInvariant, PTL DEF SSpec, ModelTableIsALog, ModelLog!Spec
=============================================================================
