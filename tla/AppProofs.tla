------------------------------ MODULE AppProofs ------------------------------
(***************************************************************************)
(* Safety of App for every capacity of callBack, with and without the      *)
(* ticker, with any number of messages and any of the faults.              *)
(***************************************************************************)
EXTENDS App, TLAPS

\* OnDestroy runs only once Run has got the signal, so the service has been
\* started by then and is not started again.
DestroyAfterSignal == main \notin {"closing", "returned"} => destroy = "off"

\* From rpc.Stop on, service.Run has returned.
DestroyWaits == destroy \notin {"off", "exit", "wait"} => ServiceOver

\* A service that has deregistered or that failed to register leaves no key
\* in etcd without an excuse.
NoKeyLeft ==
    /\ svc \in {"stop", "stopped"} => (key => excused)
    /\ svc = "failed" => excused

\* The inductive invariant: DeafOnlyUnregistered speaks of the time after
\* close(done) only, the rest says how OnDestroy and the service get there.
Inv == TypeOK /\ DestroyAfterSignal /\ DestroyWaits /\ NoKeyLeft

LEMMA InitInv == Init => Inv
<1> SUFFICES ASSUME Init PROVE Inv
  OBVIOUS
<1>1. key \in BOOLEAN /\ excused \in BOOLEAN
  BY Zenon DEF Init
<1>2. TypeOK
  BY <1>1, ConfigOK DEF ConfigOK, Init, TypeOK
<1>3. DestroyAfterSignal /\ DestroyWaits /\ NoKeyLeft
  BY DEF Init, DestroyAfterSignal, DestroyWaits, NoKeyLeft
<1> QED  BY <1>2, <1>3 DEF Inv

\* The steps of Run, of OnDestroy and of the watcher.
LEMMA AppSteps ==
  ASSUME Inv, Main \/ Signal \/ OnDestroy \/ WatcherEnds
  PROVE  Inv'
<1> USE ConfigOK DEF ConfigOK, appVars, serVars, lisVars, msgVars, rpcVars
<1>1. TypeOK'
  BY DEF Inv, TypeOK, Main, InitEtcd, NewNatsClient, StartRPC, StartDispatcher, StartService,
         RunReturns, Signal, OnDestroy, Destroys, CancelContext, WaitService, CloseDone,
         CloseConn, CloseCallBack, StopDispatcher, CloseEtcd, WatcherEnds
<1>2. CASE Main
  BY <1>1, <1>2 DEF Inv, TypeOK, DestroyAfterSignal, DestroyWaits, NoKeyLeft, ServiceOver,
         Main, InitEtcd, NewNatsClient, StartRPC, StartDispatcher, StartService, RunReturns
<1>3. CASE Signal \/ WatcherEnds
  BY <1>1, <1>3 DEF Inv, TypeOK, DestroyAfterSignal, DestroyWaits, NoKeyLeft, ServiceOver,
         Signal, WatcherEnds
<1>4. CASE OnDestroy
  BY <1>1, <1>4 DEF Inv, TypeOK, DestroyAfterSignal, DestroyWaits, NoKeyLeft, ServiceOver,
         OnDestroy, Destroys, CancelContext, WaitService, CloseDone, CloseConn, CloseCallBack,
         StopDispatcher, CloseEtcd
<1> QED  BY <1>2, <1>3, <1>4

\* The steps of the service, its ticker, the proxy and the listener.
LEMMA ServiceSteps ==
  ASSUME Inv, Service \/ TickFires \/ TickPut \/ TickEnds \/ ProxyEnds \/ Listening
  PROVE  Inv'
<1> USE ConfigOK DEF ConfigOK, appVars, serVars, lisVars, msgVars, rpcVars
<1> USE DEF Inv, TypeOK, DestroyAfterSignal, DestroyWaits, NoKeyLeft, ServiceOver
<1>1. CASE StartServer \/ ServiceDone \/ StopServer \/ TickFires \/ TickEnds \/ ProxyEnds
        \/ Listening
  BY <1>1 DEF StartServer, ServiceDone, StopServer, TickFires, TickEnds, ProxyEnds, Listening,
         SetListener, ListenAndServe, AcceptEnds
<1>2. CASE Register
  <2>1. key' \in BOOLEAN /\ excused' \in BOOLEAN /\ (svc' = "failed" => excused')
    BY <1>2, Zenon DEF Register
  <2>2. UNCHANGED <<appVars, proxy, lisVars, msgVars, rpcVars, req>> /\ svc = "register"
        /\ svc' \in {"running", "failed"} /\ tick' \in {"off", "select", tick}
    BY <1>2 DEF Register
  <2> QED  BY <2>1, <2>2
<1>3. CASE Deregister
  <2>1. key' \in BOOLEAN /\ excused' \in BOOLEAN /\ (key' => excused')
    BY <1>3, Zenon DEF Deregister
  <2>2. UNCHANGED <<appVars, tick, proxy, lisVars, msgVars, rpcVars, req>>
        /\ svc = "deregister" /\ svc' = "stop"
    BY <1>3 DEF Deregister
  <2> QED  BY <2>1, <2>2
<1>4. CASE TickPut
  <2>1. key' \in BOOLEAN /\ excused' \in BOOLEAN
    BY <1>4, Zenon DEF TickPut
  <2>2. UNCHANGED <<appVars, svc, proxy, lisVars, msgVars, rpcVars, req>> /\ tick' = "select"
    BY <1>4 DEF TickPut
  <2>3. excused => excused'
    BY <1>4, Zenon DEF TickPut
  <2>4. svc \in {"stop", "stopped"} => excused' \/ UNCHANGED <<key, excused>>
    BY <1>4, Zenon DEF TickPut
  <2>5. NoKeyLeft'
    BY <2>2, <2>3, <2>4
  <2> QED  BY <2>1, <2>2, <2>5
<1> QED  BY <1>1, <1>2, <1>3, <1>4 DEF Service

\* The steps of the message handlers and of NATS: they leave appVars and
\* serVars alone.
LEMMA MessageSteps ==
  ASSUME Inv, CallBack \/ Pub \/ PubBlocks \/ Req \/ Deliver \/ ConnectionLost
  PROVE  Inv'
<1> USE ConfigOK DEF ConfigOK, appVars, serVars, lisVars, msgVars, rpcVars
<1>1. TypeOK'
  BY DEF Inv, TypeOK, CallBack, CallBackTake, HandleMsg, CallBackEnds, Pub, PubSubscribe,
         PubSelect, PubNext, PubNothing, PubSend, PubToSessions, PubBlocks, Req, ReqSubscribe, ReqEnds,
         Deliver, ConnectionLost
<1>2. UNCHANGED <<appVars, serVars>>
  BY DEF CallBack, CallBackTake, HandleMsg, CallBackEnds, Pub, PubSubscribe, PubSelect,
         PubNext, PubNothing, PubSend, PubToSessions, PubBlocks, Req, ReqSubscribe, ReqEnds, Deliver, ConnectionLost
<1> QED
  BY <1>1, <1>2 DEF Inv, DestroyAfterSignal, DestroyWaits, NoKeyLeft, ServiceOver

LEMMA Preserved == Inv /\ [Next]_vars => Inv'
<1> SUFFICES ASSUME Inv, [Next]_vars PROVE Inv'
  OBVIOUS
<1>1. CASE Ended \/ UNCHANGED vars
  BY <1>1 DEF Ended, vars, appVars, serVars, lisVars, msgVars, rpcVars, Inv, TypeOK,
         DestroyAfterSignal, DestroyWaits, NoKeyLeft, ServiceOver
<1> QED
  BY <1>1, AppSteps, ServiceSteps, MessageSteps DEF Next

\* The inductive invariant holds always.
THEOREM InvAlways == Safety => []Inv
  BY InitInv, Preserved, PTL DEF Safety

\* Every variable of the process keeps its type and callBack its capacity.
THEOREM AppTypes == Safety => []TypeOK
<1>1. Inv => TypeOK
  BY DEF Inv
<1> QED  BY <1>1, InvAlways, PTL

\* App.OnDestroy cuts the process off from NATS only after service.Run has
\* returned, and then etcd does not hold its key unless a request to etcd
\* failed or a register of the ticker goroutine came after deregister.
THEOREM DeafUnregistered == Safety => []DeafOnlyUnregistered
<1>1. Inv => DeafOnlyUnregistered
  BY DEF Inv, TypeOK, DestroyWaits, NoKeyLeft, ServiceOver, DeafOnlyUnregistered, DoneClosed
<1> QED  BY <1>1, InvAlways, PTL
=============================================================================
