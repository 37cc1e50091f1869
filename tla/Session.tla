------------------------------- MODULE Session -------------------------------
(***************************************************************************)
(* One connection of a gate: gate/session/session.go, with the connection  *)
(* of gate/connect it reads from and writes to.                            *)
(*                                                                         *)
(* Goroutines: Session.run (place: run), Session.receive (place: recv), and *)
(* the goroutines of the gate that send to the session or stop it: the     *)
(* manager, the NATS publish handler, the shutdown (Senders).  The body of *)
(* OnStop runs once (stopOnce), by whoever calls it first; stop is the     *)
(* point it has reached, and the other callers wait for its end.           *)
(*                                                                         *)
(* run closes in and out when it returns, so "run = exited" is also "in    *)
(* and out are closed".  A send on a closed channel panics; SendMsg and    *)
(* SafeGO recover that panic.                                              *)
(***************************************************************************)
EXTENDS Integers

CONSTANTS
    Senders,            \* the other goroutines that hold the session
    MaxMsgChanLen,      \* capacity of in and of out
    HeartBeatInterval,  \* seconds, may be zero or less by misconfiguration
    RpmLimit,           \* messages allowed between two ticks of timer_work
    HBBack,             \* whether heartbeats are answered
    Kinds               \* bound: the kinds of messages the client sends

\* What a client sends, as far as msgIn tells it apart; which one it is gets
\* chosen when run takes it from in.  "other" stands for a Verify without an
\* id and for (un)subscribing to broadcasts.
Messages == {"verify_good", "verify_bad", "heartbeat", "data", "other"}

ASSUME ConfigOK ==
    /\ MaxMsgChanLen \in Nat \ {0} /\ HeartBeatInterval \in Int
    /\ RpmLimit \in Nat /\ HBBack \in BOOLEAN /\ Kinds \subseteq Messages

\* What a goroutine of the gate sends: kick_rst is a Broadcast of a ReRoute,
\* which stops the session after it has sent.
Replies == {"reply", "kick_rst"}

VARIABLES
    in, out,    \* how many messages the channels of those names hold
    run, recv,  \* the places of the two goroutines
    stop,       \* the place in the body of OnStop
    vrifyed,
    quiet,      \* seconds since LastHeartBeatTime, up to HeartBeatInterval + 1
    window,     \* PacketCount1Min, up to RpmLimit + 1
    gone,       \* the peer has closed the connection, or a read fails
    place, item \* a sender's place, and what it sends

vars == <<in, out, run, recv, stop, vrifyed, quiet, window, gone, place, item>>

Closed    == stop = "done"            \* conn.IsClosed()
CtlClosed == stop \in {"ctl", "done"} \* sendCtl and receiveCtl are closed

Init ==
    /\ in = 0 /\ out = 0
    /\ run = "start" /\ recv = "reading" /\ stop = "idle"
    /\ vrifyed = FALSE /\ quiet = 0 /\ window = 0
    /\ gone = FALSE
    /\ place = [t \in Senders |-> "idle"] /\ item = [t \in Senders |-> "reply"]

-----------------------------------------------------------------------------
(* OnStop. *)

CallStop == stop' = IF stop = "idle" THEN "begin" ELSE stop

\* DelSession and CallKick, if the session is verified; then vrifyed falls.
StopBegin ==
    /\ stop = "begin"
    /\ vrifyed' = FALSE /\ stop' = "fallen"
    /\ UNCHANGED <<in, out, run, recv, quiet, window, gone, place, item>>

\* close(sendCtl), close(receiveCtl).
StopCtl ==
    /\ stop = "fallen"
    /\ stop' = "ctl"
    /\ UNCHANGED <<in, out, run, recv, vrifyed, quiet, window, gone, place, item>>

\* conn.OnClose().
StopConn ==
    /\ stop = "ctl"
    /\ stop' = "done"
    /\ UNCHANGED <<in, out, run, recv, vrifyed, quiet, window, gone, place, item>>

OnStop == StopBegin \/ StopCtl \/ StopConn

-----------------------------------------------------------------------------
(* Session.receive. *)

\* OnReceive returns a payload: receive may have called it before
\* receiveCtl was closed.
Payload ==
    /\ recv = "reading" /\ ~gone /\ ~Closed
    /\ recv' = "putting"
    /\ UNCHANGED <<in, out, run, stop, vrifyed, quiet, window, gone, place, item>>

\* s.in <- payload; once in is closed the goroutine panics and ends.
Put ==
    /\ recv = "putting"
    /\ IF run = "exited"
         THEN recv' = "exited" /\ in' = in
         ELSE in < MaxMsgChanLen /\ in' = in + 1 /\ recv' = "reading"
    /\ UNCHANGED <<out, run, stop, vrifyed, quiet, window, gone, place, item>>

\* OnReceive returns an error, receive calls OnStop.
ReceiveFails ==
    /\ recv = "reading" /\ (gone \/ Closed)
    /\ CallStop
    /\ recv' = "stopping"
    /\ UNCHANGED <<in, out, run, vrifyed, quiet, window, gone, place, item>>

\* receive returns: receiveCtl is closed, or its OnStop has ended.
ReceiveEnds ==
    /\ \/ recv = "reading" /\ CtlClosed
       \/ recv = "stopping" /\ Closed
    /\ recv' = "exited"
    /\ UNCHANGED <<in, out, run, stop, vrifyed, quiet, window, gone, place, item>>

Receive == Put \/ ReceiveFails \/ ReceiveEnds

-----------------------------------------------------------------------------
(* Session.run. *)

\* run returns: the deferred calls close the channels, what they hold is lost.
Exit == run' = "exited" /\ in' = 0 /\ out' = 0

\* run refuses a non-positive HeartBeatInterval without calling OnStop.
RunStart ==
    /\ run = "start"
    /\ IF HeartBeatInterval <= 0
         THEN Exit
         ELSE run' = "select" /\ UNCHANGED <<in, out>>
    /\ UNCHANGED <<recv, stop, vrifyed, quiet, window, gone, place, item>>

\* The ticker of three seconds: too long without a heartbeat.
HeartbeatTick ==
    /\ run = "select" /\ quiet > HeartBeatInterval
    /\ CallStop /\ run' = "stopping"
    /\ UNCHANGED <<in, out, recv, vrifyed, quiet, window, gone, place, item>>

\* Mistake: the window is reset before it is tested.
WindowTickAfterReset ==
    /\ run = "select"
    /\ window' = 0
    /\ UNCHANGED <<in, out, run, recv, stop, vrifyed, quiet, gone, place, item>>

\* The ticker of five seconds, timer_work: the message rate.
WindowTick ==
    /\ run = "select"
    /\ IF window > RpmLimit
         THEN CallStop /\ run' = "stopping"
         ELSE UNCHANGED <<stop, run>>
    /\ window' = 0
    /\ UNCHANGED <<in, out, recv, vrifyed, quiet, gone, place, item>>

\* The next message of in, counted.
Take(m) ==
    /\ run = "select" /\ in > 0 /\ m \in Kinds
    /\ in' = in - 1
    /\ window' = IF window > RpmLimit THEN window ELSE window + 1
    /\ UNCHANGED <<recv, stop, gone, place, item>>

\* msgIn, Verify accepted: run goes on to AddSession, which may block.
VerifySucceeds ==
    /\ Take("verify_good")
    /\ vrifyed' = TRUE /\ run' = "adding"
    /\ UNCHANGED <<out, quiet>>

\* AddSession returns: SessionMgr shows it (AddsHandled), unless a client that
\* verifies again and again on a full addChan has entangled run and manager.
Added ==
    /\ run = "adding"
    /\ run' = "select"
    /\ UNCHANGED <<in, out, recv, stop, vrifyed, quiet, window, gone, place, item>>

\* msgIn, Verify rejected: vrifyed falls, then SendMsg(Verify_Rst_Fail) finds
\* it so and returns.
VerifyFails ==
    /\ Take("verify_bad")
    /\ vrifyed' = FALSE
    /\ UNCHANGED <<out, run, quiet>>

\* msgIn, Heartbeat.  The answer of SendSign goes into out like any other,
\* so run may block on the channel that only it empties.
Heartbeat ==
    /\ Take("heartbeat")
    /\ quiet' = IF vrifyed THEN 0 ELSE quiet
    /\ run' = IF vrifyed /\ HBBack /\ ~Closed THEN "answering" ELSE "select"
    /\ UNCHANGED <<out, vrifyed>>

Answer ==
    /\ run = "answering" /\ out < MaxMsgChanLen
    /\ out' = out + 1
    /\ run' = "select"
    /\ UNCHANGED <<in, recv, stop, vrifyed, quiet, window, gone, place, item>>

\* Mistake: the heartbeat time is set whether the session is verified or not.
DataUnverified ==
    /\ Take("data")
    /\ quiet' = 0
    /\ UNCHANGED <<out, run, vrifyed>>

\* msgIn, any other message: passed on to the back end if verified.
Data ==
    /\ Take("data")
    /\ quiet' = IF vrifyed THEN 0 ELSE quiet
    /\ UNCHANGED <<out, run, vrifyed>>

Other == Take("other") /\ UNCHANGED <<out, run, vrifyed, quiet>>

\* The next reply of out: written, unless the connection is closed.
Write ==
    /\ run = "select" /\ out > 0
    /\ out' = out - 1
    /\ IF Closed
         THEN CallStop /\ run' = "stopping" 
         ELSE UNCHANGED <<stop, run>>
    /\ UNCHANGED <<in, recv, vrifyed, quiet, window, gone, place, item>>

\* Mistake: run polls until everything is written before it returns.
RunEndsDrained ==
    /\ \/ run = "select" /\ CtlClosed
       \/ run = "stopping" /\ Closed
    /\ IF out = 0 THEN Exit ELSE UNCHANGED <<run, in, out>>
    /\ UNCHANGED <<recv, stop, vrifyed, quiet, window, gone, place, item>>

\* run returns: sendCtl is closed, or its own OnStop has ended.
RunEnds ==
    /\ \/ run = "select" /\ CtlClosed
       \/ run = "stopping" /\ Closed
    /\ Exit
    /\ UNCHANGED <<recv, stop, vrifyed, quiet, window, gone, place, item>>

Run == \/ RunStart \/ HeartbeatTick \/ VerifySucceeds \/ Added \/ VerifyFails \/ Heartbeat
       \/ Answer \/ Data \/ Other \/ Write \/ RunEnds

-----------------------------------------------------------------------------
(* The other goroutines of the gate. *)

\* A goroutine calls SendMsg.
BeginSend(t, r) ==
    /\ place[t] = "idle"
    /\ place' = [place EXCEPT ![t] = "test"]
    /\ item' = [item EXCEPT ![t] = r]
    /\ UNCHANGED <<in, out, run, recv, stop, vrifyed, quiet, window, gone>>

\* SendMsg returns at once if the session is not verified or is closed.
Test(t) ==
    /\ place[t] = "test"
    /\ place' = [place EXCEPT ![t] = IF vrifyed /\ ~Closed THEN "push" ELSE "sent"]
    /\ UNCHANGED <<in, out, run, recv, stop, vrifyed, quiet, window, gone, item>>

\* Mistake: the channel holds one more than it is made for.
PushOneMore(t) ==
    /\ place[t] = "push"
    /\ IF run = "exited"
         THEN out' = out
         ELSE out <= MaxMsgChanLen /\ out' = out + 1
    /\ place' = [place EXCEPT ![t] = "sent"]
    /\ UNCHANGED <<in, run, recv, stop, vrifyed, quiet, window, gone, item>>

\* s.out <- data.
Push(t) ==
    /\ place[t] = "push"
    /\ IF run = "exited"
         THEN out' = out
         ELSE out < MaxMsgChanLen /\ out' = out + 1
    /\ place' = [place EXCEPT ![t] = "sent"]
    /\ UNCHANGED <<in, run, recv, stop, vrifyed, quiet, window, gone, item>>

\* SendMsg has returned; a ReRoute goes on to OnStop.
Sent(t) ==
    /\ place[t] = "sent"
    /\ IF item[t] = "kick_rst"
         THEN place' = [place EXCEPT ![t] = "stopping"] /\ CallStop
         ELSE place' = [place EXCEPT ![t] = "idle"] /\ UNCHANGED stop
    /\ UNCHANGED <<in, out, run, recv, vrifyed, quiet, window, gone, item>>

\* A goroutine stops the session: a newer login, the rate check, StopAllSession.
BeginStop(t) ==
    /\ place[t] = "idle"
    /\ CallStop
    /\ place' = [place EXCEPT ![t] = "stopping"]
    /\ UNCHANGED <<in, out, run, recv, vrifyed, quiet, window, gone, item>>

\* OnStop has returned to its caller.
StopReturns(t) ==
    /\ place[t] = "stopping" /\ Closed
    /\ place' = [place EXCEPT ![t] = "idle"]
    /\ item' = [item EXCEPT ![t] = "reply"]
    /\ UNCHANGED <<in, out, run, recv, stop, vrifyed, quiet, window, gone>>

Sender(t) == Test(t) \/ Push(t) \/ Sent(t) \/ StopReturns(t)

-----------------------------------------------------------------------------
\* A second passes.
Second ==
    /\ quiet <= HeartBeatInterval
    /\ quiet' = quiet + 1
    /\ UNCHANGED <<in, out, run, recv, stop, vrifyed, window, gone, place, item>>

\* The peer closes the connection, a read times out or a packet is malformed.
PeerCloses ==
    /\ ~gone
    /\ gone' = TRUE
    /\ UNCHANGED <<in, out, run, recv, stop, vrifyed, quiet, window, place, item>>

\* Both goroutines have ended and the connection is closed.
Over  == run = "exited" /\ recv = "exited" /\ Closed
Ended == Over /\ UNCHANGED vars

Next ==
    \/ OnStop \/ Receive \/ Run \/ WindowTick \/ Second \/ PeerCloses \/ Ended
    \/ Payload
    \/ \E t \in Senders : Sender(t) \/ BeginStop(t) \/ \E r \in Replies : BeginSend(t, r)

\* Every goroutine that can go on does; Go's select takes each ready case
\* with the same probability, so neither a ticker nor out is passed over for
\* ever, and a channel serves its blocked senders in order.
Fairness ==
    /\ WF_vars(OnStop) /\ WF_vars(Receive) /\ WF_vars(Run) /\ WF_vars(Second)
    /\ SF_vars(HeartbeatTick) /\ SF_vars(WindowTick) /\ SF_vars(Write)
    /\ \A t \in Senders : WF_vars(Sender(t)) /\ SF_vars(Push(t))

Safety == Init /\ [][Next]_vars
Spec   == Safety /\ Fairness

-----------------------------------------------------------------------------
(* Properties. *)

\* Every variable holds a value of its type, and no channel more than fits.
TypeOK ==
    /\ in \in 0 .. MaxMsgChanLen /\ out \in 0 .. MaxMsgChanLen
    /\ run \in {"start", "select", "adding", "answering", "stopping", "exited"}
    /\ recv \in {"reading", "putting", "stopping", "exited"}
    /\ stop \in {"idle", "begin", "fallen", "ctl", "done"}
    /\ vrifyed \in BOOLEAN /\ gone \in BOOLEAN
    /\ quiet \in Nat /\ window \in 0..RpmLimit + 1
    /\ place \in [Senders -> {"idle", "test", "push", "sent", "stopping"}]
    /\ item \in [Senders -> Replies]

\* run waits for room in the channel that only it empties: with HBBack a
\* heartbeat can lead here, and nothing leads out (HeartbeatAnswered).
SelfBlocked == run = "answering" /\ out = MaxMsgChanLen

\* Whoever stops the session, and wherever its goroutines wait at that time
\* (receive on a full in, run in AddSession), both of them end and the
\* connection is closed, unless run has blocked itself.
StopEndsSession == stop = "begin" ~> (Over \/ SelfBlocked)

\* A connection whose peer is gone is noticed and ended as well.
PeerCloseEndsSession == gone ~> (Over \/ SelfBlocked)

\* No goroutine of the gate stays blocked on the out channel of a session:
\* run empties it, or closes it when the session ends.
SendersReleased == \A t \in Senders : place[t] = "push" ~> (place[t] # "push" \/ SelfBlocked)

\* A client that does not pass verification cannot keep its connection:
\* nothing it sends counts as a heartbeat.
UnverifiedEnds == (run = "select" /\ ~vrifyed) ~> (vrifyed \/ stop # "idle")

\* A client that sends more than RpmLimit messages between two ticks of
\* timer_work is stopped, whatever it sends after that.
FloodEnds == window > RpmLimit ~> (stop # "idle" \/ SelfBlocked)

\* common/define.go lists Msg_Heartbeat_Rst: with HBBack the answer to a
\* heartbeat gets queued.
HeartbeatAnswered == run = "answering" ~> run # "answering"
=============================================================================
