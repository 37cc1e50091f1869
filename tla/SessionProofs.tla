----------------------------- MODULE SessionProofs -----------------------------
(***************************************************************************)
(* Theorems about one connection of a gate, for any channel capacity, rate *)
(* limit, heartbeat interval and set of goroutines that hold the session.  *)
(***************************************************************************)
EXTENDS Session, TLAPS

\* Whoever waits for the end of OnStop waits for a body that has begun.
StopUnderWay ==
    /\ run = "stopping" => stop # "idle"
    /\ recv = "stopping" => stop # "idle"
    /\ \A t \in Senders : place[t] = "stopping" => stop # "idle"

\* The channels that run has closed hold nothing, and nothing gets into them:
\* what is sent late is dropped.
ClosedEmpty == run = "exited" => in = 0 /\ out = 0

\* A goroutine of the session ends only when OnStop has told it to: run when
\* sendCtl is closed (or at once, refusing its HeartBeatInterval), receive
\* when receiveCtl is, or when run has closed in under it.
EndedWhenStopped ==
    /\ run = "exited" => CtlClosed \/ HeartBeatInterval <= 0
    /\ recv = "exited" => CtlClosed \/ run = "exited"

SessionInv == TypeOK /\ StopUnderWay /\ ClosedEmpty /\ EndedWhenStopped

-----------------------------------------------------------------------------
(* The initial state. *)
LEMMA SessionInit == ASSUME ConfigOK, Init PROVE SessionInv
<1>1. vrifyed \in BOOLEAN /\ gone \in BOOLEAN BY Zenon DEF Init
<1>2. StopUnderWay /\ ClosedEmpty /\ EndedWhenStopped
  BY DEF Init, StopUnderWay, ClosedEmpty, EndedWhenStopped
<1> QED BY <1>1, <1>2 DEF ConfigOK, Init, SessionInv, TypeOK, Replies

(* A step of the body of OnStop. *)
LEMMA SessionStop == ASSUME ConfigOK, SessionInv, OnStop PROVE SessionInv'
<1>1. vrifyed' \in BOOLEAN BY Zenon DEF SessionInv, TypeOK, OnStop, StopBegin, StopCtl, StopConn
<1> QED
  BY <1>1
  DEF SessionInv, TypeOK, StopUnderWay, ClosedEmpty, EndedWhenStopped, CtlClosed,
      OnStop, StopBegin, StopCtl, StopConn

(* A step of receive, with the read it waits for. *)
LEMMA SessionReceive == ASSUME ConfigOK, SessionInv, Receive \/ Payload PROVE SessionInv'
<1> USE DEF ConfigOK, SessionInv, TypeOK, StopUnderWay, ClosedEmpty, EndedWhenStopped, CtlClosed
<1>1. CASE Payload BY <1>1 DEF Payload
<1>2. CASE Put BY <1>2 DEF Put
<1>3. CASE ReceiveFails BY <1>3 DEF ReceiveFails, CallStop
<1>4. CASE ReceiveEnds BY <1>4 DEF ReceiveEnds, Closed
<1> QED BY <1>1, <1>2, <1>3, <1>4 DEF Receive

(* A step of run. *)
LEMMA SessionRun == ASSUME ConfigOK, SessionInv, Run \/ WindowTick PROVE SessionInv'
<1> USE DEF ConfigOK, SessionInv, TypeOK, StopUnderWay, ClosedEmpty, EndedWhenStopped, CtlClosed
<1>1. CASE RunStart \/ RunEnds BY <1>1 DEF RunStart, RunEnds, Exit, Closed
<1>2. CASE HeartbeatTick BY <1>2 DEF HeartbeatTick, CallStop
<1>3. CASE WindowTick BY <1>3 DEF WindowTick, CallStop
<1>4. CASE VerifySucceeds \/ VerifyFails
  <2>1. vrifyed' \in BOOLEAN BY <1>4, Zenon DEF VerifySucceeds, VerifyFails
  <2> QED BY <1>4, <2>1 DEF VerifySucceeds, VerifyFails, Take
<1>5. CASE Heartbeat BY <1>5 DEF Heartbeat, Take
<1>6. CASE Data \/ Other BY <1>6 DEF Data, Other, Take
<1>7. CASE Added \/ Answer BY <1>7 DEF Added, Answer
<1>8. CASE Write BY <1>8 DEF Write, CallStop
<1> QED BY <1>1, <1>2, <1>3, <1>4, <1>5, <1>6, <1>7, <1>8 DEF Run

(* A step of a goroutine that sends to the session or stops it. *)
LEMMA SessionSender ==
    ASSUME ConfigOK, SessionInv, NEW t \in Senders,
           Sender(t) \/ BeginStop(t) \/ \E r \in Replies : BeginSend(t, r)
    PROVE  SessionInv'
<1> USE DEF ConfigOK, SessionInv, TypeOK, StopUnderWay, ClosedEmpty, EndedWhenStopped,
            CtlClosed, Replies
<1>1. CASE Test(t) BY <1>1 DEF Test
<1>2. CASE Push(t) BY <1>2 DEF Push
<1>3. CASE Sent(t) BY <1>3 DEF Sent, CallStop
<1>4. CASE StopReturns(t) BY <1>4 DEF StopReturns
<1>5. CASE BeginStop(t) BY <1>5 DEF BeginStop, CallStop
<1>6. CASE \E r \in Replies : BeginSend(t, r) BY <1>6 DEF BeginSend
<1> QED BY <1>1, <1>2, <1>3, <1>4, <1>5, <1>6 DEF Sender

(* Every step. *)
LEMMA SessionNext == ASSUME ConfigOK, SessionInv, [Next]_vars PROVE SessionInv'
<1>1. CASE Second \/ PeerCloses
  <2> USE DEF SessionInv, TypeOK, StopUnderWay, ClosedEmpty, EndedWhenStopped, CtlClosed
  <2>1. gone' \in BOOLEAN BY <1>1, Zenon DEF Second, PeerCloses
  <2> QED BY <1>1, <2>1 DEF Second, PeerCloses
<1>2. CASE Ended \/ UNCHANGED vars
  BY <1>2
  DEF Ended, vars, SessionInv, TypeOK, StopUnderWay, ClosedEmpty, EndedWhenStopped, CtlClosed
<1> QED BY <1>1, <1>2, SessionStop, SessionReceive, SessionRun, SessionSender DEF Next

(* The types, and with them that in and out never hold more than they are  *)
(* made for, whoever sends and whenever run closes them.                   *)
THEOREM SessionTypes == ASSUME ConfigOK PROVE Safety => []TypeOK
<1>1. Init => SessionInv BY SessionInit
<1>2. SessionInv /\ [Next]_vars => SessionInv' BY SessionNext
<1>3. SessionInv => TypeOK BY DEF SessionInv
<1> QED BY <1>1, <1>2, <1>3, PTL DEF Safety

(* Nobody waits for an OnStop that has not begun, which stopOnce would make *)
(* possible, and what is sent after run has closed the channels is lost.   *)
THEOREM StopsUnderWay == ASSUME ConfigOK PROVE Safety => [](StopUnderWay /\ ClosedEmpty)
<1>1. Init => SessionInv BY SessionInit
<1>2. SessionInv /\ [Next]_vars => SessionInv' BY SessionNext
<1>3. SessionInv => StopUnderWay /\ ClosedEmpty BY DEF SessionInv
<1> QED BY <1>1, <1>2, <1>3, PTL DEF Safety

(* No connection is left half alive: with a positive HeartBeatInterval       *)
(* neither goroutine of a session ends before its OnStop closes sendCtl and *)
(* receiveCtl, so a reply is dropped for a closed out only when the session *)
(* is on its way out.                                                       *)
THEOREM SessionEnds ==
    ASSUME ConfigOK, HeartBeatInterval > 0
    PROVE  Safety => [](run = "exited" \/ recv = "exited" => CtlClosed)
<1>1. Init => SessionInv BY SessionInit
<1>2. SessionInv /\ [Next]_vars => SessionInv' BY SessionNext
<1>3. SessionInv => (run = "exited" \/ recv = "exited" => CtlClosed)
  BY ConfigOK DEF ConfigOK, SessionInv, EndedWhenStopped
<1> QED BY <1>1, <1>2, <1>3, PTL DEF Safety
=============================================================================
