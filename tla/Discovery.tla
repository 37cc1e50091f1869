------------------------------ MODULE Discovery ------------------------------
(***************************************************************************)
(* Service discovery: the servers of one type register their keys in etcd  *)
(* (service/service.go), and the dispatcher of another process follows     *)
(* etcd and routes by what it has seen (dispatcher/dispatcher.go and       *)
(* dispatcher/service.go, etcdclient/etcd_client.go).                      *)
(*                                                                         *)
(* Goroutines: service.Run and service.run of each server (sv and tick);   *)
(* Dispatcher.Start and then watcher (phase, and dpc for the place within  *)
(* addService and removeService); one caller of RouteById (rpc).  addService*)
(* and removeService hold p.mu, which RouteById does not take, so it sees  *)
(* every state between their accesses to Count, proxyMap and the ring.     *)
(*                                                                         *)
(* etcd is external: a set of keys and, from the revision at which Watch   *)
(* starts, the events in order.  The route type is Hash, the default; the  *)
(* ring is the set of its members, one of which Get answers with.          *)
(***************************************************************************)
EXTENDS Integers, Sequences, FiniteSets

CONSTANTS
    Servers,   \* their keys
    None,      \* no key
    Backlog,   \* bound: watch events under way
    Ticking,   \* RegisterInterval > 0
    Routing,   \* bound: whether RouteById is called
    Events     \* bound: what may happen besides starts and orderly stops

ASSUME ConfigOK ==
    /\ None \notin Servers
    /\ Backlog \in Nat \ {0} /\ Ticking \in BOOLEAN /\ Routing \in BOOLEAN
    /\ Events \subseteq {"crash", "etcd", "clear", "stop"}

VARIABLES
    store, queue,   \* etcd: the keys, and the watch events not yet received
    sv, tick,       \* the two goroutines of each server
    phase, dpc,     \* the dispatcher
    todo, ev,       \* keys of connectAll to add; the key being added or removed
    made,           \* whether p.services has the service
    count, proxies, ring,   \* service.Count, proxyMap, hashring
    rpc, key,       \* RouteById: its place or result, and the key of Get
    gap,            \* history: keys with a change the dispatcher was not told of
    seen            \* history: servers in the ring ever since RouteById was called

etcdVars   == <<store, queue, gap>>
serverVars == <<sv, tick>>
serviceVars == <<made, count, proxies, ring>>
dispVars   == <<phase, dpc, todo, ev>>
routeVars  == <<rpc, key>>
vars == <<etcdVars, serverVars, serviceVars, dispVars, routeVars, seen>>

Init ==
    /\ store = {} /\ queue = <<>> /\ gap = {}
    /\ sv = [s \in Servers |-> "down"] /\ tick = [s \in Servers |-> "off"]
    /\ phase = "get" /\ dpc = "idle" /\ todo = {} /\ ev = None
    /\ made = FALSE /\ count = 0 /\ proxies = {} /\ ring = {}
    /\ rpc = "idle" /\ key = None /\ seen = {}

-----------------------------------------------------------------------------
(* etcd.  The dispatcher hears of a change once it watches; between the Get *)
(* of connectAll and the Get of Watch changes go by unheard.               *)

Told(event) ==
    \/ /\ phase = "watching" /\ Len(queue) < Backlog
       /\ queue' = Append(queue, event) /\ UNCHANGED gap
    \/ /\ phase \in {"load", "watch"}
       /\ gap' = gap \cup {event.key} /\ UNCHANGED queue
    \/ phase \in {"get", "ended"} /\ UNCHANGED <<queue, gap>>

Put(s) == store' = store \cup {s} /\ Told([type |-> "PUT", key |-> s])

Delete(s) ==
    /\ store' = store \ {s}
    /\ IF s \in store THEN Told([type |-> "DELETE", key |-> s])
                      ELSE UNCHANGED <<queue, gap>>

-----------------------------------------------------------------------------
(* A server: service.Run registers it, keeps it registered with a ticker,  *)
(* and deregisters it when the context is done.                            *)

Start(s) ==
    /\ sv[s] = "down" /\ Put(s)
    /\ sv' = [sv EXCEPT ![s] = "up"]
    /\ tick' = [tick EXCEPT ![s] = IF Ticking THEN "select" ELSE "off"]
    /\ UNCHANGED <<serviceVars, dispVars, routeVars, seen>>

\* The ticker fires; select takes it even when exit is closed as well.
TickFires(s) ==
    /\ tick[s] = "select"
    /\ tick' = [tick EXCEPT ![s] = "put"]
    /\ UNCHANGED <<etcdVars, sv, serviceVars, dispVars, routeVars, seen>>

\* Mistake: a server is registered once more and then no longer.
TickPutOnce(s) ==
    /\ tick[s] = "put"
    /\ Put(s) \/ ("etcd" \in Events /\ UNCHANGED etcdVars)
    /\ tick' = [tick EXCEPT ![s] = "off"]
    /\ UNCHANGED <<sv, serviceVars, dispVars, routeVars, seen>>

\* register; an error is logged.
TickPut(s) ==
    /\ tick[s] = "put"
    /\ Put(s) \/ ("etcd" \in Events /\ UNCHANGED etcdVars)
    /\ tick' = [tick EXCEPT ![s] = "select"]
    /\ UNCHANGED <<sv, serviceVars, dispVars, routeVars, seen>>

TickEnds(s) ==
    /\ tick[s] = "select" /\ sv[s] # "up"
    /\ tick' = [tick EXCEPT ![s] = "off"]
    /\ UNCHANGED <<etcdVars, sv, serviceVars, dispVars, routeVars, seen>>

\* The context is done: close(ex), and Stop begins.
Shutdown(s) ==
    /\ sv[s] = "up"
    /\ sv' = [sv EXCEPT ![s] = "stopping"]
    /\ UNCHANGED <<etcdVars, tick, serviceVars, dispVars, routeVars, seen>>

\* Stop deregisters, whatever the ticker's goroutine is doing; an error is
\* logged.
Deregister(s) ==
    /\ sv[s] = "stopping"
    /\ Delete(s) \/ ("etcd" \in Events /\ UNCHANGED etcdVars)
    /\ sv' = [sv EXCEPT ![s] = "stopped"]
    /\ UNCHANGED <<tick, serviceVars, dispVars, routeVars, seen>>

\* The process ends; it may be started again.
Exits(s) ==
    /\ \/ sv[s] = "stopped"
       \/ sv[s] # "down" /\ "crash" \in Events
    /\ sv' = [sv EXCEPT ![s] = "down"]
    /\ tick' = [tick EXCEPT ![s] = "off"]
    /\ UNCHANGED <<etcdVars, serviceVars, dispVars, routeVars, seen>>

Server(s) == TickPut(s) \/ TickEnds(s) \/ Deregister(s)

\* Dispatcher.Clear, called in some process: every key is deleted.
Clear ==
    /\ "clear" \in Events /\ store # {}
    /\ store' = {}
    /\ IF phase = "watching"
         THEN /\ Len(queue) + Cardinality(store) <= Backlog
              /\ \E order \in [1..Cardinality(store) -> store] :
                   /\ \A s \in store : \E i \in DOMAIN order : order[i] = s
                   /\ queue' = queue \o [i \in DOMAIN order |->
                                           [type |-> "DELETE", key |-> order[i]]]
              /\ UNCHANGED gap
         ELSE /\ gap' = IF phase \in {"load", "watch"} THEN gap \cup store ELSE gap
              /\ UNCHANGED queue
    /\ UNCHANGED <<serverVars, serviceVars, dispVars, routeVars, seen>>

-----------------------------------------------------------------------------
(* Dispatcher.addService and removeService. *)

At(place) == dpc = place
Goes(place) == dpc' = place

\* A known key only has its status updated.
AddService(s) ==
    /\ made' = TRUE
    /\ IF s \in proxies
         THEN UNCHANGED <<dpc, ev>>
         ELSE Goes("count") /\ ev' = s

\* Mistake: AddProxy does not count.
AddProxyUncounted ==
    /\ At("count") /\ Goes("store")
    /\ UNCHANGED <<etcdVars, serverVars, serviceVars, phase, todo, ev, routeVars, seen>>

\* AddProxy counts, then stores.
AddProxyCount ==
    /\ At("count") /\ Goes("store")
    /\ count' = count + 1
    /\ UNCHANGED <<etcdVars, serverVars, made, proxies, ring, phase, todo, ev, routeVars, seen>>

AddProxyStore ==
    /\ At("store") /\ Goes("ring")
    /\ proxies' = proxies \cup {ev}
    /\ UNCHANGED <<etcdVars, serverVars, made, count, ring, phase, todo, ev, routeVars, seen>>

\* Mistake: the key is cleared before it is added.
CreateProxyRingCleared ==
    /\ At("ring") /\ Goes("idle")
    /\ ev' = None /\ ring' = ring \cup {ev'}
    /\ UNCHANGED <<etcdVars, serverVars, made, count, proxies, phase, todo, routeVars, seen>>

\* CreateProxy, last: the ring.
CreateProxyRing ==
    /\ At("ring") /\ Goes("idle")
    /\ ring' = ring \cup {ev} /\ ev' = None
    /\ UNCHANGED <<etcdVars, serverVars, made, count, proxies, phase, todo, routeVars, seen>>

\* Mistake: the last proxy of a service is kept.
RemoveServiceButLast(s) ==
    IF made /\ count > 1 THEN Goes("unring") /\ ev' = s ELSE UNCHANGED <<dpc, ev>>

\* Without the service removeService returns an error.
RemoveService(s) ==
    IF made THEN Goes("unring") /\ ev' = s ELSE UNCHANGED <<dpc, ev>>

\* Mistake: the server stays on the ring.
DelProxyUnringed ==
    /\ At("unring") /\ Goes("delete")
    /\ UNCHANGED <<etcdVars, serverVars, serviceVars, phase, todo, ev, routeVars, seen>>

\* DelProxy takes the key off the ring, then out of the map, and counts,
\* whether it was known or not.
DelProxyRing ==
    /\ At("unring") /\ Goes("delete")
    /\ ring' = ring \ {ev} /\ seen' = seen \ {ev}
    /\ UNCHANGED <<etcdVars, serverVars, made, count, proxies, phase, todo, ev, routeVars>>

DelProxyDelete ==
    /\ At("delete") /\ Goes("uncount")
    /\ proxies' = proxies \ {ev}
    /\ UNCHANGED <<etcdVars, serverVars, made, count, ring, phase, todo, ev, routeVars, seen>>

DelProxyCount ==
    /\ At("uncount") /\ Goes("idle")
    /\ count' = count - 1 /\ ev' = None
    /\ UNCHANGED <<etcdVars, serverVars, made, proxies, ring, phase, todo, routeVars, seen>>

-----------------------------------------------------------------------------
(* Dispatcher.Start: connectAll, then the watcher. *)

\* The Get of connectAll; Start goes on to the watcher after an error too.
ConnectAll ==
    /\ phase = "get" /\ phase' = "load"
    /\ \/ todo' = store /\ UNCHANGED gap
       \/ "etcd" \in Events /\ todo' = {} /\ gap' = store
    /\ UNCHANGED <<store, queue, serverVars, serviceVars, dpc, ev, routeVars, seen>>

ConnectAdd(s) ==
    /\ phase = "load" /\ At("idle") /\ s \in todo
    /\ todo' = todo \ {s}
    /\ AddService(s)
    /\ UNCHANGED <<etcdVars, serverVars, count, proxies, ring, phase, routeVars, seen>>

Connected ==
    /\ phase = "load" /\ At("idle") /\ todo = {}
    /\ phase' = "watch"
    /\ UNCHANGED <<etcdVars, serverVars, serviceVars, dpc, todo, ev, routeVars, seen>>

\* Watch: its Get fixes the revision the events start from.  watcher returns
\* for good after an error.
Watch ==
    /\ phase = "watch"
    /\ phase' \in IF "etcd" \in Events THEN {"watching", "ended"} ELSE {"watching"}
    /\ UNCHANGED <<etcdVars, serverVars, serviceVars, dpc, todo, ev, routeVars, seen>>

WatchEvent ==
    /\ phase = "watching" /\ At("idle") /\ queue # <<>>
    /\ queue' = Tail(queue)
    /\ LET event == Head(queue) IN
         IF event.type = "PUT" THEN AddService(event.key)
                               ELSE RemoveService(event.key) /\ UNCHANGED made
    /\ UNCHANGED <<store, gap, serverVars, count, proxies, ring, phase, todo, routeVars, seen>>

\* The watch channel is closed, or Dispatcher.Stop has closed exit.
WatchEnds ==
    /\ phase = "watching" /\ At("idle") /\ Events \cap {"etcd", "stop"} # {}
    /\ phase' = "ended" /\ queue' = <<>>
    /\ UNCHANGED <<store, gap, serverVars, serviceVars, dpc, todo, ev, routeVars, seen>>

Dispatcher ==
    \/ ConnectAll \/ Connected \/ Watch \/ WatchEvent
    \/ AddProxyCount \/ AddProxyStore \/ CreateProxyRing
    \/ DelProxyRing \/ DelProxyDelete \/ DelProxyCount
    \/ \E s \in Servers : ConnectAdd(s)

-----------------------------------------------------------------------------
(* service.RouteById, called for a message or by getProxy. *)

RouteCall ==
    /\ rpc = "idle" /\ Routing /\ made
    /\ rpc' = "count" /\ seen' = ring
    /\ UNCHANGED <<etcdVars, serverVars, serviceVars, dispVars, key>>

\* "service has no proxy err".
RouteCount ==
    /\ rpc = "count"
    /\ rpc' = IF count = 0 THEN "no_proxy" ELSE "ring"
    /\ UNCHANGED <<etcdVars, serverVars, serviceVars, dispVars, key, seen>>

\* hashring.Get of the id: some member, or ErrEmptyRing.
RouteRing ==
    /\ rpc = "ring"
    /\ IF ring = {} THEN rpc' = "empty" /\ UNCHANGED key
                    ELSE rpc' = "proxy" /\ key' \in ring
    /\ UNCHANGED <<etcdVars, serverVars, serviceVars, dispVars, seen>>

\* GetProxy: "proxy is nil err" if it is gone.
RouteProxy ==
    /\ rpc = "proxy"
    /\ rpc' = IF key \in proxies THEN "routed" ELSE "nil"
    /\ UNCHANGED <<etcdVars, serverVars, serviceVars, dispVars, key, seen>>

RouteReturns ==
    /\ rpc \in {"routed", "no_proxy", "empty", "nil"}
    /\ rpc' = "idle" /\ key' = None /\ seen' = {}
    /\ UNCHANGED <<etcdVars, serverVars, serviceVars, dispVars>>

Route == RouteCall \/ RouteCount \/ RouteRing \/ RouteProxy \/ RouteReturns

-----------------------------------------------------------------------------
Next ==
    \/ Dispatcher \/ WatchEnds \/ Route \/ Clear
    \/ \E s \in Servers : Start(s) \/ TickFires(s) \/ Server(s) \/ Shutdown(s) \/ Exits(s)

\* Goroutines that can go on do, the ticker keeps firing, and a request to
\* etcd is not passed over for ever by those of other servers.
Fairness ==
    /\ WF_vars(Dispatcher)
    /\ \A s \in Servers : /\ WF_vars(Server(s)) /\ WF_vars(TickFires(s))
                          /\ SF_vars(TickPut(s)) /\ SF_vars(Deregister(s))

Safety == Init /\ [][Next]_vars
Spec   == Safety /\ Fairness

-----------------------------------------------------------------------------
(* Properties. *)

KeyEvents == [type : {"PUT", "DELETE"}, key : Servers]

\* Every variable holds a value of its type.
TypeOK ==
    /\ store \subseteq Servers /\ queue \in Seq(KeyEvents) /\ gap \subseteq Servers
    /\ sv \in [Servers -> {"down", "up", "stopping", "stopped"}]
    /\ tick \in [Servers -> {"off", "select", "put"}]
    /\ phase \in {"get", "load", "watch", "watching", "ended"}
    /\ dpc \in {"idle", "count", "store", "ring", "unring", "delete", "uncount"}
    /\ todo \subseteq Servers /\ ev \in Servers \cup {None}
    /\ made \in BOOLEAN /\ count \in Int /\ proxies \subseteq Servers /\ ring \subseteq Servers
    /\ rpc \in {"idle", "count", "ring", "proxy", "routed", "no_proxy", "empty", "nil"}
    /\ key \in Servers \cup {None} /\ seen \subseteq Servers

\* RouteById, which takes no lock, never gets from the ring a server that
\* proxyMap does not hold at that moment, in the midst of addService and
\* removeService too.
RingWithinProxies == ring \subseteq proxies

\* Events of s under way; whether the dispatcher has s, or is bound to get it.
Pending(s) == {i \in DOMAIN queue : queue[i].key = s}
Known(s) ==
    \/ s \in proxies /\ ~ (ev = s /\ dpc \in {"unring", "delete"})
    \/ ev = s /\ dpc \in {"count", "store"}
    \/ s \in todo

\* For every key without a change lost in the gap between connectAll and
\* Watch, what the dispatcher knows and has still to handle adds up to what
\* etcd holds.
ViewCatchesUp ==
    phase \notin {"get", "ended"} =>
        \A s \in Servers \ gap :
            s \in store <=>
                \/ Pending(s) = {} /\ Known(s)
                \/ \E i \in Pending(s) : /\ \A j \in Pending(s) : j <= i
                                         /\ queue[i].type = "PUT"

\* A server that GetProxy does not find has been removed during the call.
NilForReason == rpc = "nil" => key \notin seen

\* Where RouteById finds no server, none was in the ring during the whole call.
NoneForReason == rpc \in {"no_proxy", "empty"} => seen = {}

\* RouteById fails only for a reason: the server it was hashed to has been
\* removed meanwhile or, where no change was lost in the gap, none was in the
\* ring during the whole call.  (Count rises before a server comes into the
\* ring and falls after it has left, so Count = 0 does not hide one.)
RouteFailsForReason == NilForReason /\ (gap = {} => NoneForReason)

\* A server that stays up gets into the ring of every dispatcher that
\* watches: even if its registration was lost in the gap or was cleared, the
\* ticker repeats it.
UpServerFound ==
    \A s \in Servers : sv[s] = "up" ~> (s \in ring \/ sv[s] # "up")

\* A key that has gone from etcd gets out of the ring of a dispatcher that
\* watches, whatever events of other keys are under way, unless a change of
\* it was lost in the gap.
DeletedLeavesRing ==
    \A s \in Servers :
        (s \notin store /\ s \notin gap) ~>
            (s \notin ring \/ s \in store \cup gap \/ phase = "ended")

\* README: traffic follows the state of the services.  So a server whose
\* process has ended gets out of the ring.
GoneServerLeaves ==
    \A s \in Servers : (sv[s] = "down" /\ s \in ring) ~> (s \notin ring \/ sv[s] # "down")
=============================================================================
