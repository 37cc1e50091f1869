--------------------------------- MODULE App ---------------------------------
(***************************************************************************)
(* The life of one process, an application server or a gate that listens   *)
(* on TCP or for WebSockets: app/app.go and app/gate.go with the parts they*)
(* start and stop: service/service.go, server/server.go and server/proxy,  *)
(* gate/server, the NATS client of rpc/mq, and the dispatcher and the etcd *)
(* client as things to be closed.                                          *)
(*                                                                         *)
(* Goroutines, and the variable that holds the place each has reached:     *)
(*   main     App.Run                   destroy  OnDestroy                 *)
(*   svc      service.Run               tick     service.run               *)
(*   pub      StartPublishHandle        req      StartRequestHandle        *)
(*   cb       Server.callBack           proxy    Proxy.run                 *)
(*   watcher  Dispatcher.watcher        accept   run_tcp or run_ws (gate)  *)
(* The callback that answers requests is in Rpc.                           *)
(*                                                                         *)
(* Most channels are closed by OnDestroy in a fixed order, so what is      *)
(* closed follows from the place OnDestroy has reached.  Messages are      *)
(* counted, not told apart.  HandleMsg, NATS and etcd are external: the    *)
(* first returns, requests to etcd are answered or fail, and a connection  *)
(* to NATS may be lost for good.  Run may return before OnDestroy, whose   *)
(* goroutine then goes on for as long as the process does.                 *)
(***************************************************************************)
EXTENDS Integers

CONSTANTS
    QMsgLen,    \* capacity of callBack
    Ticking,    \* RegisterInterval > 0
    MaxMsgs,    \* bound: messages taken from NATS by an application server
    MaxGateMsgs,\* bound: messages taken from NATS by a gate
    Events      \* bound: which faults occur, "block" for a gate entangled by a client

ASSUME ConfigOK ==
    /\ QMsgLen \in Nat \ {0} /\ Ticking \in BOOLEAN /\ MaxMsgs \in Nat /\ MaxGateMsgs \in Nat
    /\ Events \subseteq {"etcd", "nats", "block"}

VARIABLES
    role,           \* "server", or the network type of a gate: "tcp" or "ws"
    main, destroy, svc, tick, pub, req, cb, proxy, watcher, accept,
    lis,            \* s.lis: "nil", "open", "closed", or "late", set after Stop has read it
    key,            \* whether etcd holds the key of the server
    conn,           \* nats_conn: "none", "open" or "closed"
    waiting,        \* messages of the subscription that NextMsg has not taken
    queue,          \* messages in callBack
    taken, handled, \* messages taken for callBack, and those HandleMsg has handled
    excused         \* history: a request to etcd failed, or register followed deregister

appVars == <<main, destroy, watcher, role>>
lisVars == <<accept, lis>>
serVars == <<svc, tick, proxy, key, excused, lisVars>>
msgVars == <<cb, queue, taken, handled>>
rpcVars == <<pub, waiting, conn>>
vars    == <<appVars, serVars, msgVars, rpcVars, req>>

Roles == {"server", "tcp", "ws"}

\* Only an application server makes a proxy.
Init ==
    /\ role \in Roles
    /\ main = "init" /\ destroy = "off" /\ watcher = "off"
    /\ svc = "off" /\ tick = "off"
    /\ proxy = IF role = "server" THEN "running" ELSE "exited"
    /\ accept = "off" /\ lis = "nil"
    /\ key = FALSE /\ excused = FALSE
    /\ cb = "off" /\ queue = 0 /\ taken = 0 /\ handled = 0
    /\ pub = "off" /\ waiting = 0 /\ conn = "none"
    /\ req = "off"

\* What OnDestroy has closed.
CtxDone        == destroy \notin {"off", "exit"}
DoneClosed     == destroy \in {"conn", "callback", "dispatcher", "etcd", "done"}
CallBackClosed == destroy \in {"dispatcher", "etcd", "done"}
ExitClosed     == destroy \in {"etcd", "done"}
EtcdClosed     == destroy = "done"

\* serStoped is closed once service.Run has returned, exitCB and proxyCtl
\* by Server.Stop.
ServiceOver == svc \in {"stopped", "failed"}
ServerStopped == svc = "stopped"

-----------------------------------------------------------------------------
(* App.Run and OnInit. *)

\* etcdClient.Init, which puts a test key; Run returns its error.
InitEtcd ==
    /\ main = "init"
    /\ \/ main' = "rpc"
       \/ "etcd" \in Events /\ main' = "failed"
    /\ UNCHANGED <<destroy, watcher, role, serVars, msgVars, rpcVars, req>>

\* NewRPCClient: Run returns its error too, the etcd client stays open.
NewNatsClient ==
    /\ main = "rpc"
    /\ \/ main' = "start" /\ conn' = "open"
       \/ "nats" \in Events /\ main' = "failed" /\ UNCHANGED conn
    /\ UNCHANGED <<destroy, watcher, role, serVars, msgVars, pub, waiting, req>>

\* rpc.Start only starts the goroutines; neither has subscribed yet.
StartRPC ==
    /\ main = "start"
    /\ main' = "dispatcher" /\ pub' = "subscribe" /\ req' = "subscribe"
    /\ UNCHANGED <<destroy, watcher, role, serVars, msgVars, waiting, conn>>

StartDispatcher ==
    /\ main = "dispatcher"
    /\ main' = "service" /\ watcher' = "watching"
    /\ UNCHANGED <<destroy, role, serVars, msgVars, rpcVars, req>>

StartService ==
    /\ main = "service"
    /\ main' = "serving" /\ svc' = "start"
    /\ UNCHANGED <<destroy, watcher, role, tick, proxy, key, excused, lisVars, msgVars, rpcVars, req>>

\* SIGTERM: OnDestroy starts in a goroutine of its own.
Signal ==
    /\ main = "serving"
    /\ main' = "closing" /\ destroy' = "exit"
    /\ UNCHANGED <<watcher, role, serVars, msgVars, rpcVars, req>>

\* OnDestroy has ended, or ExitWaitTTL has passed.
RunReturns ==
    /\ main = "closing"
    /\ main' = "returned"
    /\ UNCHANGED <<destroy, watcher, role, serVars, msgVars, rpcVars, req>>

Main == InitEtcd \/ NewNatsClient \/ StartRPC \/ StartDispatcher \/ StartService \/ RunReturns

-----------------------------------------------------------------------------
(* OnDestroy. *)

Destroys(from, to) == destroy = from /\ destroy' = to

CancelContext ==
    /\ Destroys("exit", "wait")
    /\ UNCHANGED <<main, watcher, role, serVars, msgVars, rpcVars, req>>

\* Mistake: OnDestroy does not wait for the service.
WaitServiceNot ==
    /\ Destroys("wait", "rpc")
    /\ UNCHANGED <<main, watcher, role, serVars, msgVars, rpcVars, req>>

WaitService ==
    /\ Destroys("wait", "rpc") /\ ServiceOver
    /\ UNCHANGED <<main, watcher, role, serVars, msgVars, rpcVars, req>>

\* NatsClient.Done: close(done), then the connection, then callBack.
CloseDone ==
    /\ Destroys("rpc", "conn")
    /\ UNCHANGED <<main, watcher, role, serVars, msgVars, rpcVars, req>>

CloseConn ==
    /\ Destroys("conn", "callback")
    /\ conn' = "closed" /\ waiting' = 0
    /\ UNCHANGED <<main, watcher, role, serVars, msgVars, pub, req>>

CloseCallBack ==
    /\ Destroys("callback", "dispatcher")
    /\ UNCHANGED <<main, watcher, role, serVars, msgVars, rpcVars, req>>

StopDispatcher ==
    /\ Destroys("dispatcher", "etcd")
    /\ UNCHANGED <<main, watcher, role, serVars, msgVars, rpcVars, req>>

CloseEtcd ==
    /\ Destroys("etcd", "done")
    /\ UNCHANGED <<main, watcher, role, serVars, msgVars, rpcVars, req>>

OnDestroy == \/ CancelContext \/ WaitService \/ CloseDone \/ CloseConn
             \/ CloseCallBack \/ StopDispatcher \/ CloseEtcd

WatcherEnds ==
    /\ watcher = "watching" /\ ExitClosed
    /\ watcher' = "exited"
    /\ UNCHANGED <<main, destroy, role, serVars, msgVars, rpcVars, req>>

-----------------------------------------------------------------------------
(* service.Run, its ticker goroutine, and the server it starts and stops. *)

\* Server.Start; that of a gate also starts the goroutine that listens.
StartServer ==
    /\ svc = "start"
    /\ svc' = "register" /\ cb' = "select"
    /\ accept' = IF role = "server" THEN "off" ELSE "listen"
    /\ UNCHANGED <<appVars, tick, proxy, key, excused, lis, queue, taken, handled,
                   rpcVars, req>>

\* register, in Start.  After an error (etcd may have stored the key in
\* spite of it) Run returns; the server stays started.
Register ==
    /\ svc = "register"
    /\ \/ /\ key' = TRUE /\ svc' = "running" /\ UNCHANGED excused
          /\ tick' = IF Ticking THEN "select" ELSE "off"
       \/ /\ "etcd" \in Events
          /\ key' \in BOOLEAN /\ svc' = "failed" /\ excused' = TRUE /\ UNCHANGED tick
    /\ UNCHANGED <<appVars, proxy, lisVars, msgVars, rpcVars, req>>

\* The context is done: close(ex), and Stop begins.
ServiceDone ==
    /\ svc = "running" /\ CtxDone
    /\ svc' = "deregister"
    /\ UNCHANGED <<appVars, tick, proxy, key, excused, lisVars, msgVars, rpcVars, req>>

\* An error of deregister is logged.
Deregister ==
    /\ svc = "deregister"
    /\ svc' = "stop"
    /\ \/ key' = FALSE /\ UNCHANGED excused
       \/ "etcd" \in Events /\ key' \in {key, FALSE} /\ excused' = TRUE
    /\ UNCHANGED <<appVars, tick, proxy, lisVars, msgVars, rpcVars, req>>

\* Mistake: Stop of a gate leaves the listener open.
StopServerListening ==
    /\ svc = "stop"
    /\ svc' = "stopped"
    /\ UNCHANGED <<appVars, tick, proxy, key, excused, lisVars, msgVars, rpcVars, req>>

\* Server.Stop; then Run returns.  That of a gate closes the listener if it
\* finds one (its StopAllSession belongs to SessionMgr).
StopServer ==
    /\ svc = "stop"
    /\ svc' = "stopped" /\ lis' = IF lis = "open" THEN "closed" ELSE lis
    /\ UNCHANGED <<appVars, tick, proxy, key, excused, accept, msgVars, rpcVars, req>>

Service == StartServer \/ Register \/ ServiceDone \/ Deregister \/ StopServer

TickFires ==
    /\ tick = "select"
    /\ tick' = "put"
    /\ UNCHANGED <<appVars, svc, proxy, key, excused, lisVars, msgVars, rpcVars, req>>

\* register by the ticker, whatever the service is doing; it fails once the
\* etcd client is closed.
TickPut ==
    /\ tick = "put"
    /\ tick' = "select"
    /\ \/ /\ ~EtcdClosed
          /\ key' = TRUE /\ excused' = (excused \/ svc \in {"stop", "stopped"})
       \/ /\ ~EtcdClosed /\ "etcd" \in Events
          /\ key' \in {key, TRUE} /\ excused' = TRUE
       \/ EtcdClosed /\ UNCHANGED <<key, excused>>
    /\ UNCHANGED <<appVars, svc, proxy, lisVars, msgVars, rpcVars, req>>

\* select takes the closed ex.
TickEnds ==
    /\ tick = "select" /\ svc # "running"
    /\ tick' = "off"
    /\ UNCHANGED <<appVars, svc, proxy, key, excused, lisVars, msgVars, rpcVars, req>>

ProxyEnds ==
    /\ proxy = "running" /\ ServerStopped
    /\ proxy' = "exited"
    /\ UNCHANGED <<appVars, svc, tick, key, excused, lisVars, msgVars, rpcVars, req>>

-----------------------------------------------------------------------------
(* run_tcp and run_ws of a gate, up to their loop over connections.        *)

\* run_tcp listens, then stores the listener; should it fail to listen, the
\* process ends there, which is not modelled.
SetListener ==
    /\ accept = "listen" /\ role = "tcp"
    /\ accept' = "accepting" /\ lis' = IF ServerStopped THEN "late" ELSE "open"
    /\ UNCHANGED <<appVars, svc, tick, proxy, key, excused, msgVars, rpcVars, req>>

\* ListenAndServe keeps its listener to itself, or returns an error.
ListenAndServe ==
    /\ accept = "listen" /\ role = "ws"
    /\ accept' \in {"accepting", "exited"}
    /\ UNCHANGED <<appVars, svc, tick, proxy, key, excused, lis, msgVars, rpcVars, req>>

\* Accept returns net.ErrClosed.
AcceptEnds ==
    /\ accept = "accepting" /\ lis = "closed"
    /\ accept' = "exited"
    /\ UNCHANGED <<appVars, svc, tick, proxy, key, excused, lis, msgVars, rpcVars, req>>

Listening == SetListener \/ ListenAndServe \/ AcceptEnds

-----------------------------------------------------------------------------
(* Server.callBack; that of a gate gets no message, see PubToSessions.     *)

CallBackTake ==
    /\ cb = "select" /\ queue > 0
    /\ cb' = "handling" /\ queue' = queue - 1
    /\ UNCHANGED <<appVars, serVars, taken, handled, rpcVars, req>>

\* Mistake: callBack returns after a message.
HandleMsgOnce ==
    /\ cb = "handling"
    /\ cb' = "exited" /\ handled' = handled + 1
    /\ UNCHANGED <<appVars, serVars, queue, taken, rpcVars, req>>

HandleMsg ==
    /\ cb = "handling"
    /\ cb' = "select" /\ handled' = handled + 1
    /\ UNCHANGED <<appVars, serVars, queue, taken, rpcVars, req>>

\* exitCB is closed, or callBack is closed and empty.
CallBackEnds ==
    /\ cb = "select" /\ (ServerStopped \/ (CallBackClosed /\ queue = 0))
    /\ cb' = "exited"
    /\ UNCHANGED <<appVars, serVars, queue, taken, handled, rpcVars, req>>

CallBack == CallBackTake \/ HandleMsg \/ CallBackEnds

-----------------------------------------------------------------------------
(* StartPublishHandle, and handler with commonHandler and broadCastHandler, *)
(* which send on callBack in an application server only.                   *)

PubSubscribe ==
    /\ pub = "subscribe"
    /\ pub' = IF conn = "open" THEN "select" ELSE "exited"
    /\ UNCHANGED <<appVars, serVars, msgVars, waiting, conn, req>>

\* The select on done.
PubSelect ==
    /\ pub = "select"
    /\ pub' = IF DoneClosed THEN "exited" ELSE "next"
    /\ UNCHANGED <<appVars, serVars, msgVars, waiting, conn, req>>

\* NextMsg returns a message, for callBack or not fit to be handled.
PubNext ==
    /\ pub = "next" /\ waiting > 0
    /\ waiting' = waiting - 1
    /\ \/ pub' = "send" /\ taken' = taken + 1
       \/ pub' = "select" /\ UNCHANGED taken
    /\ UNCHANGED <<appVars, serVars, cb, queue, handled, conn, req>>

\* NextMsg returns ErrTimeout, or an error because the connection is closed;
\* then the attempt to subscribe again fails as well.
PubNothing ==
    /\ pub = "next" /\ waiting = 0
    /\ pub' = "select"
    /\ UNCHANGED <<appVars, serVars, msgVars, waiting, conn, req>>

\* Mistake: callBack holds one more than it is made for.
PubSendOneMore ==
    /\ pub = "send" /\ role = "server"
    /\ IF CallBackClosed
         THEN pub' = "exited" /\ UNCHANGED queue
         ELSE queue <= QMsgLen /\ queue' = queue + 1 /\ pub' = "select"
    /\ UNCHANGED <<appVars, serVars, cb, taken, handled, waiting, conn, req>>

\* callBack <- msg; once it is closed the goroutine panics and ends.
PubSend ==
    /\ pub = "send" /\ role = "server"
    /\ IF CallBackClosed
         THEN pub' = "exited" /\ UNCHANGED queue
         ELSE queue < QMsgLen /\ queue' = queue + 1 /\ pub' = "select"
    /\ UNCHANGED <<appVars, serVars, cb, taken, handled, waiting, conn, req>>

\* In a gate SessionMgr.Receive or BroatCast takes the message.  The send on
\* the out channel of a session may make it wait, and ends as Session shows.
PubToSessions ==
    /\ pub = "send" /\ role # "server"
    /\ pub' = "select" /\ handled' = handled + 1
    /\ UNCHANGED <<appVars, serVars, cb, queue, taken, waiting, conn, req>>

\* It waits for good on a session whose run goroutine does so itself: for room
\* in its own out channel (HBBack), or in addChan (Entangled of SessionMgr).
PubBlocks ==
    /\ pub = "send" /\ role # "server" /\ "block" \in Events
    /\ pub' = "blocked"
    /\ UNCHANGED <<appVars, serVars, msgVars, waiting, conn, req>>

Pub == PubSubscribe \/ PubSelect \/ PubNext \/ PubNothing \/ PubSend \/ PubToSessions

-----------------------------------------------------------------------------
(* StartRequestHandle. *)

ReqSubscribe ==
    /\ req = "subscribe"
    /\ req' = IF conn = "open" THEN "wait" ELSE "exited"
    /\ UNCHANGED <<appVars, serVars, msgVars, rpcVars>>

ReqEnds ==
    /\ req = "wait" /\ DoneClosed
    /\ req' = "exited"
    /\ UNCHANGED <<appVars, serVars, msgVars, rpcVars>>

Req == ReqSubscribe \/ ReqEnds

-----------------------------------------------------------------------------
(* NATS. *)

Subscribed == conn = "open" /\ pub \in {"select", "next", "send", "blocked"}

Deliver ==
    /\ Subscribed
    /\ taken + waiting < IF role = "server" THEN MaxMsgs ELSE MaxGateMsgs
    /\ waiting' = waiting + 1
    /\ UNCHANGED <<appVars, serVars, msgVars, pub, conn, req>>

\* The client gives up reconnecting.
ConnectionLost ==
    /\ conn = "open" /\ "nats" \in Events
    /\ conn' = "closed" /\ waiting' = 0
    /\ UNCHANGED <<appVars, serVars, msgVars, pub, req>>

-----------------------------------------------------------------------------
\* OnDestroy is through and the goroutines that it ends have ended, a publish
\* handler that waits for good left out.
Settled ==
    /\ destroy = "done"
    /\ pub \in {"exited", "blocked"} /\ req = "exited" /\ cb = "exited"
    /\ watcher = "exited" /\ tick = "off" /\ accept # "listen"

\* Nothing else of the process is left running, but for the proxy or the listener
\* that nobody stops where the service failed to start, the listener of
\* run_ws, and one that run_tcp opened when Stop had already looked for it.
AllEnded ==
    /\ Settled
    /\ svc = "stopped" => /\ proxy = "exited"
                          /\ accept = "accepting" => role = "ws" \/ lis = "late"

Ended == (main = "failed" \/ Settled) /\ UNCHANGED vars

Next ==
    \/ Main \/ Signal \/ OnDestroy \/ WatcherEnds
    \/ Service \/ TickFires \/ TickPut \/ TickEnds \/ ProxyEnds \/ Listening
    \/ CallBack \/ Pub \/ PubBlocks \/ Req \/ Deliver \/ ConnectionLost \/ Ended

\* Goroutines that can go on do, HandleMsg returns, etcd answers or fails.
\* Go's select takes each of its ready cases with the same probability, so
\* the closed ex and exitCB are not passed over for ever.
Fairness ==
    /\ WF_vars(Main) /\ WF_vars(OnDestroy) /\ WF_vars(WatcherEnds)
    /\ WF_vars(Service) /\ WF_vars(TickPut) /\ SF_vars(TickEnds) /\ WF_vars(ProxyEnds)
    /\ WF_vars(Listening)
    /\ WF_vars(CallBack) /\ SF_vars(CallBackEnds)
    /\ WF_vars(Pub) /\ WF_vars(Req)

Safety == Init /\ [][Next]_vars
Spec   == Safety /\ Fairness

-----------------------------------------------------------------------------
(* Properties. *)

\* Every variable holds a value of its type, callBack no more than fits.
TypeOK ==
    /\ role \in Roles
    /\ main \in {"init", "rpc", "start", "dispatcher", "service", "serving", "closing",
                "returned", "failed"}
    /\ destroy \in {"off", "exit", "wait", "rpc", "conn", "callback", "dispatcher", "etcd", "done"}
    /\ watcher \in {"off", "watching", "exited"}
    /\ svc \in {"off", "start", "register", "running", "deregister", "stop", "stopped", "failed"}
    /\ tick \in {"off", "select", "put"} /\ proxy \in {"running", "exited"}
    /\ accept \in {"off", "listen", "accepting", "exited"}
    /\ lis \in {"nil", "open", "closed", "late"}
    /\ key \in BOOLEAN /\ excused \in BOOLEAN
    /\ cb \in {"off", "select", "handling", "exited"} /\ queue \in 0 .. QMsgLen
    /\ taken \in Nat /\ handled \in Nat
    /\ pub \in {"off", "subscribe", "select", "next", "send", "blocked", "exited"}
    /\ waiting \in Nat /\ conn \in {"none", "open", "closed"}
    /\ req \in {"off", "subscribe", "wait", "exited"}

\* The process stops listening to NATS only when service.Run has returned
\* and nobody can be routed to it any more: etcd does not hold its key,
\* unless a request to etcd failed or the ticker's register came after
\* deregister.
DeafOnlyUnregistered == DoneClosed => ServiceOver /\ (key => excused)

\* A message taken from NATS is handled, in spite of the bounded callBack
\* and although the server may be started after the first messages, or have
\* failed to register, unless the process is told to stop or is a gate that
\* a client has blocked.
MessagesHandled ==
    \A n \in 1 .. MaxMsgs : taken >= n ~> (handled >= n \/ destroy # "off" \/ pub = "blocked")

\* However the goroutines wait for each other when the process is told to
\* stop (the publish handler on a callBack that nobody empties any more,
\* OnDestroy on the service), OnDestroy gets to its end and all of them end,
\* but for the publish handler of a gate that a client has blocked, if the
\* process lives that long.
ShutdownEndsAll == destroy = "exit" ~> AllEnded
=============================================================================
