--------------------------------- MODULE Rpc ---------------------------------
(***************************************************************************)
(* The ways a message gets from one server to another: Call, CallNR, CallB *)
(* and CallS of rpc/rpc.go, down through Dispatcher, service and proxy to  *)
(* RequestMsg, PublishMsg and SendMsg of the NATS client, and on the other *)
(* side the two goroutines that hand messages to Processor.HandleMsg:      *)
(*   <<s, "req">>  the callback of StartRequestHandle, which NATS calls    *)
(*                 for one request after the other                         *)
(*   <<s, "cb">>   Server.callBack, for what is published                  *)
(* A handler may itself call, and so wait for a server that waits for it.  *)
(*                                                                         *)
(* How published messages come to callBack is in App, how a proxy is       *)
(* chosen in Discovery: here a call goes to any server.  One that fails at *)
(* once (no route, no responder, connection closed) leaves no trace.  NATS *)
(* is external: it delivers at most once and in order; a message it loses  *)
(* is to the caller one that was handled without an answer.  Both ends     *)
(* encode the same type of message, so decoding does not fail.             *)
(***************************************************************************)
EXTENDS Integers, Sequences

CONSTANTS
    Servers,
    QMsgLen,   \* capacity of msg_send_chan
    MaxMsgs,   \* bound: messages sent
    MaxFirst,  \* bound: messages that no request has come before
    Faulty     \* bound: the servers that may stop and crash

ASSUME RpcOK ==
    /\ QMsgLen \in Nat /\ MaxMsgs \in Nat /\ MaxFirst \in 0 .. MaxMsgs
    /\ Faulty \subseteq Servers

Goroutines == Servers \X {"req", "cb"}
Msgs       == 1 .. MaxMsgs

VARIABLES
    up,        \* each server: "up", "stopped" (NatsClient.Done has run) or "down"
    box,       \* what NATS and callBack hold for a goroutine
    at,        \* the message in HandleMsg, or 0
    wait,      \* the request its handler waits for in RequestMsg, or 0
    blocked,   \* the goroutines in SendMsg, with msg_send_chan full
    stream,    \* the number of messages in msg_send_chan
    replies,   \* the requests whose answers are under way
    sent,      \* messages sent so far
    \* history
    handled,   \* how far a goroutine has got with a message, and what came of it
    result     \* what RequestMsg returned

netVars == <<up, box, replies, sent>>
running == <<at, wait, blocked, stream>>
history == <<handled, result>>
vars    == <<netVars, running, history>>

Init ==
    /\ up = [s \in Servers |-> "up"]
    /\ box = [g \in Goroutines |-> <<>>]
    /\ at = [g \in Goroutines |-> 0] /\ wait = [g \in Goroutines |-> 0]
    /\ blocked = {} /\ stream = [s \in Servers |-> 0]
    /\ replies = {} /\ sent = 0
    /\ handled = [i \in Msgs |-> [g \in Goroutines |-> "no"]]
    /\ result = [i \in Msgs |-> "none"]

Of(s)   == {s} \X {"req", "cb"}
Busy(g) == at[g] # 0 /\ wait[g] = 0 /\ g \notin blocked

-----------------------------------------------------------------------------
(* Sending. *)

\* PublishMsg, in CallNR to one server and in CallB to every one that Range
\* finds in proxyMap; by a session of a gate or by a handler, which both go
\* on at once.  What is published to a server that does not listen is lost.
Publish(T) ==
    /\ sent < MaxFirst
    /\ sent' = sent + 1
    /\ box' = [g \in Goroutines |-> IF g[2] = "cb" /\ g[1] \in T /\ up[g[1]] = "up"
                                      THEN Append(box[g], sent') ELSE box[g]]
    /\ UNCHANGED <<up, replies, running, history>>

\* Call in a goroutine of the application's own, whose waiting is of no
\* account here.
RequestOutside(t) ==
    /\ up[t] = "up" /\ sent < MaxFirst
    /\ sent' = sent + 1
    /\ box' = [box EXCEPT ![<<t, "req">>] = Append(@, sent')]
    /\ UNCHANGED <<up, replies, running, history>>

\* Call in a handler: RequestMsg sends and waits.
Request(g, t) ==
    /\ Busy(g) /\ up[g[1]] = "up" /\ up[t] = "up" /\ sent < MaxMsgs
    /\ sent' = sent + 1
    /\ wait' = [wait EXCEPT ![g] = sent']
    /\ box' = [box EXCEPT ![<<t, "req">>] = Append(@, sent')]
    /\ UNCHANGED <<up, replies, at, blocked, stream, history>>

\* Mistake: an answer is taken by whoever waits.
AnsweredByAny(g) ==
    /\ wait[g] # 0 /\ replies # {} /\ up[g[1]] = "up"
    /\ \E i \in replies : replies' = replies \ {i}
    /\ wait' = [wait EXCEPT ![g] = 0]
    /\ result' = [result EXCEPT ![wait[g]] = "answer"]
    /\ UNCHANGED <<up, box, sent, at, blocked, stream, handled>>

\* RequestMsg gets the answer, on the inbox of this request.
Answered(g) ==
    /\ wait[g] \in replies /\ up[g[1]] = "up"
    /\ replies' = replies \ {wait[g]}
    /\ wait' = [wait EXCEPT ![g] = 0]
    /\ result' = [result EXCEPT ![wait[g]] = "answer"]
    /\ UNCHANGED <<up, box, sent, at, blocked, stream, handled>>

\* Mistake: RequestMsg waits for as long as somebody is there to answer.
TimeoutAlone(g) ==
    /\ wait[g] # 0 /\ \A s \in Servers : up[s] # "up"
    /\ wait' = [wait EXCEPT ![g] = 0]
    /\ result' = [result EXCEPT ![wait[g]] = "error"]
    /\ UNCHANGED <<netVars, at, blocked, stream, handled>>

\* RequestMsg gives up after NATS_REQUEST_TIMEOUT seconds, whatever has
\* become of the request.
Timeout(g) ==
    /\ wait[g] # 0
    /\ wait' = [wait EXCEPT ![g] = 0]
    /\ result' = [result EXCEPT ![wait[g]] = "error"]
    /\ UNCHANGED <<netVars, at, blocked, stream, handled>>

\* HandleMsg returns after a panic, which it recovers: no answer.
Panics(g) ==
    /\ at' = [at EXCEPT ![g] = 0]
    /\ handled' = [handled EXCEPT ![at[g]][g] = "nothing"]
    /\ blocked' = blocked \ {g}

\* Mistake: msg_send_chan holds one more than it is made for.
SendOneMore(g) ==
    /\ Busy(g)
    /\ \/ /\ up[g[1]] = "stopped"
          /\ Panics(g) /\ UNCHANGED stream
       \/ /\ up[g[1]] # "stopped" /\ stream[g[1]] <= QMsgLen
          /\ stream' = [stream EXCEPT ![g[1]] = @ + 1]
          /\ UNCHANGED <<at, blocked, handled>>
       \/ /\ up[g[1]] # "stopped" /\ stream[g[1]] > QMsgLen
          /\ blocked' = blocked \cup {g}
          /\ UNCHANGED <<at, stream, handled>>
    /\ UNCHANGED <<netVars, wait, result>>

\* CallS in a handler: SendMsg puts the message into msg_send_chan, which
\* nothing empties, for nothing starts InitStreamWithSubjects.  Once Done has
\* closed it the send panics.
Send(g) ==
    /\ Busy(g)
    /\ \/ /\ up[g[1]] = "stopped"
          /\ Panics(g) /\ UNCHANGED stream
       \/ /\ up[g[1]] # "stopped" /\ stream[g[1]] < QMsgLen
          /\ stream' = [stream EXCEPT ![g[1]] = @ + 1]
          /\ UNCHANGED <<at, blocked, handled>>
       \/ /\ up[g[1]] # "stopped" /\ stream[g[1]] >= QMsgLen
          /\ blocked' = blocked \cup {g}
          /\ UNCHANGED <<at, stream, handled>>
    /\ UNCHANGED <<netVars, wait, result>>

\* Mistake: Done leaves msg_send_chan open.
SendStays(g) ==
    /\ g \in blocked /\ up[g[1]] = "down"
    /\ Panics(g)
    /\ UNCHANGED <<netVars, wait, stream, result>>

\* The send is blocked when Done closes msg_send_chan.
SendReleased(g) ==
    /\ g \in blocked /\ up[g[1]] = "stopped"
    /\ Panics(g)
    /\ UNCHANGED <<netVars, wait, stream, result>>

-----------------------------------------------------------------------------
(* Handling. *)

\* NATS calls the handler of requests, or callBack takes a message.
Take(g) ==
    /\ up[g[1]] = "up" /\ at[g] = 0 /\ box[g] # <<>>
    /\ at' = [at EXCEPT ![g] = Head(box[g])]
    /\ box' = [box EXCEPT ![g] = Tail(@)]
    /\ handled' = [handled EXCEPT ![Head(box[g])][g] = "begun"]
    /\ UNCHANGED <<up, replies, sent, wait, blocked, stream, result>>

\* Mistake: a panic of the handler takes the goroutine with it.
HandleMsgUnrecovered(g) ==
    /\ Busy(g) /\ handled[at[g]][g] = "begun"
    /\ \/ /\ handled' = [handled EXCEPT ![at[g]][g] = "nothing"]
          /\ UNCHANGED <<at, replies>>
       \/ /\ at' = [at EXCEPT ![g] = 0]
          /\ handled' = [handled EXCEPT ![at[g]][g] = "answer"]
          /\ replies' = IF g[2] = "req" /\ up[g[1]] = "up" THEN replies \cup {at[g]} ELSE replies
    /\ UNCHANGED <<up, box, sent, wait, blocked, stream, result>>

\* HandleMsg returns: without an answer if no handler is registered, if it
\* returns nil, or if it panics.  Only a request is responded to, and only
\* while the connection is open.
HandleMsg(g) ==
    /\ Busy(g)
    /\ at' = [at EXCEPT ![g] = 0]
    /\ \/ /\ handled' = [handled EXCEPT ![at[g]][g] = "nothing"]
          /\ UNCHANGED replies
       \/ /\ handled' = [handled EXCEPT ![at[g]][g] = "answer"]
          /\ replies' = IF g[2] = "req" /\ up[g[1]] = "up" THEN replies \cup {at[g]} ELSE replies
    /\ UNCHANGED <<up, box, sent, wait, blocked, stream, result>>

-----------------------------------------------------------------------------
(* NATS, and the lives of the servers. *)

\* An answer that comes too late has no inbox any more.
DropReply(i) ==
    /\ i \in replies /\ \A g \in Goroutines : wait[g] # i
    /\ replies' = replies \ {i}
    /\ UNCHANGED <<up, box, sent, running, history>>

Emptied(s) == box' = [g \in Goroutines |-> IF g \in Of(s) THEN <<>> ELSE box[g]]

\* NatsClient.Done: the subscriptions end with the connection, and
\* msg_send_chan is closed; handlers go on.
Done(s) ==
    /\ s \in Faulty /\ up[s] = "up"
    /\ up' = [up EXCEPT ![s] = "stopped"]
    /\ Emptied(s)
    /\ UNCHANGED <<replies, sent, running, history>>

\* The process ends, by a crash or because Run has returned.
Exit(s) ==
    /\ s \in Faulty /\ up[s] \in {"up", "stopped"}
    /\ up' = [up EXCEPT ![s] = "down"]
    /\ Emptied(s)
    /\ at' = [g \in Goroutines |-> IF g \in Of(s) THEN 0 ELSE at[g]]
    /\ wait' = [g \in Goroutines |-> IF g \in Of(s) THEN 0 ELSE wait[g]]
    /\ blocked' = blocked \ Of(s)
    /\ stream' = [stream EXCEPT ![s] = 0]
    /\ UNCHANGED <<replies, sent, history>>

\* The server is started again and subscribes under its old name.
Restart(s) ==
    /\ up[s] = "down"
    /\ up' = [up EXCEPT ![s] = "up"]
    /\ UNCHANGED <<box, replies, sent, running, history>>

-----------------------------------------------------------------------------
\* What a goroutine does of its own accord.
Steps(g) == Take(g) \/ HandleMsg(g) \/ Answered(g) \/ Timeout(g) \/ SendReleased(g)

Next ==
    \/ \E T \in SUBSET Servers \ {{}} : Publish(T)
    \/ \E g \in Goroutines : Steps(g) \/ Send(g) \/ \E t \in Servers : Request(g, t)
    \/ \E i \in Msgs : DropReply(i)
    \/ \E s \in Servers : RequestOutside(s) \/ Done(s) \/ Exit(s) \/ Restart(s)

\* Goroutines that can go on do: handlers return, timers fire.
Safety == Init /\ [][Next]_vars
Spec   == Safety /\ \A g \in Goroutines : WF_vars(Steps(g))

-----------------------------------------------------------------------------
(* Properties. *)

\* Every variable holds a value of its type; msg_send_chan no more than fits.
TypeOK ==
    /\ up \in [Servers -> {"up", "stopped", "down"}]
    /\ box \in [Goroutines -> Seq(Msgs)]
    /\ at \in [Goroutines -> Msgs \cup {0}] /\ wait \in [Goroutines -> Msgs \cup {0}]
    /\ blocked \subseteq Goroutines /\ stream \in [Servers -> 0 .. QMsgLen]
    /\ replies \subseteq Msgs /\ sent \in 0 .. MaxMsgs
    /\ handled \in [Msgs -> [Goroutines -> {"no", "begun", "nothing", "answer"}]]
    /\ result \in [Msgs -> {"none", "answer", "error"}]

Contract == INSTANCE Calls

\* A message is handled at most once by each server, and a request returns
\* once and with an answer only if its own handler gave one: an answer that
\* comes after the ten seconds, when the caller is waiting for the next
\* request already, is not taken for that one's.
CallsSpec == Contract!Spec

\* Nobody stays in RequestMsg: servers that wait for each other, a handler
\* whose request is routed to its own server, one that gives no answer and a
\* server that crashes all end in an error.
CallsReturn ==
    \A g \in Goroutines : wait[g] # 0 ~> wait[g] = 0

\* A handler that will not return while the server runs.
Stuck(s) == \E g \in blocked : g[1] = s

\* A message is not left behind a handler that waits, unless that one is in
\* CallS with msg_send_chan full.
MessagesTaken ==
    \A g \in Goroutines : box[g] # <<>> ~> (box[g] = <<>> \/ Stuck(g[1]))

\* After NatsClient.Done every handler returns, those included that wait for
\* an answer nobody can send any more and those in CallS: the close of
\* msg_send_chan panics into the recover of HandleMsg.
StopReleases ==
    \A s \in Servers :
        up[s] = "stopped" ~> (up[s] # "stopped" \/ \A g \in Of(s) : at[g] = 0)
=============================================================================
