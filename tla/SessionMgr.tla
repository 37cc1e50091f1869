------------------------------ MODULE SessionMgr ------------------------------
(***************************************************************************)
(* The registry of a gate: gate/session/session_mgr.go, with the part of   *)
(* gate/session/session.go and gate/server that reads and writes it.       *)
(*                                                                         *)
(* Goroutines, and the variable that holds the place each has reached:     *)
(*   run[s]           Session.run and Session.receive of connection s      *)
(*   mpc              SessionMgr.run, which alone executes add             *)
(*   npc              the NATS publish handler, which alone executes       *)
(*                    Receive and BroatCast                                *)
(*   gpc              Server.Stop, which executes StopAllSession           *)
(*   stop[s]          the body of OnStop of s, executed at most once       *)
(*                    (stopOnce) by whichever goroutine called it first,   *)
(*                    while the other callers wait for its end             *)
(* A step is what a goroutine does between two accesses to shared state;   *)
(* two accesses make one step where a third goroutine coming between them  *)
(* leads to the same states as coming before or after both.                *)
(***************************************************************************)
EXTENDS Integers, Sequences, FiniteSets

CONSTANTS
    Sessions,   \* the connections of one life of the gate
    Uids,       \* user ids, the zero id excluded
    None,       \* nil, and the zero user id
    AddCap,     \* capacity of addChan (9216 in the code)
    OutCap,     \* capacity of a session's out channel (Options.MaxMsgChanLen)
    MaxConn,    \* Options.MaxConn
    Plays       \* bound: what may come from outside in one behaviour

ASSUME ConstantsOK ==
    /\ None \notin Sessions \cup Uids
    /\ AddCap \in Nat \ {0} /\ OutCap \in Nat \ {0}
    /\ MaxConn \in Nat
    /\ \A p \in Plays :
         /\ p.who \subseteq Sessions    \* the connections made
         /\ p.as \subseteq Uids         \* the users they verify as
         /\ p.verifies \in Nat         \* how often one may send Verify
         /\ p.events \subseteq {"reject", "reply", "broadcast", "reroute", "shutdown"}

VARIABLES
    \* SessionMgr
    reg,        \* the sync.Map: user id -> session
    count,      \* SessionMgr.count
    recent,     \* the ids whose addMap entry is younger than three seconds
    addChan,    \* SessionMgr.addChan
    mpc, cur, old,
    \* Session
    uid, vrifyed, out, run, stop,
    leaving,    \* the argument of the DelSession call in OnStop
    verifies,   \* Verify messages handled, for its bound
    \* the other goroutines
    npc, dst, dstUid, walk,
    gpc, vkey, victim, left,
    play,       \* the one of Plays, which never changes
    \* history
    claimed,    \* the ids each connection was verified as
    admitted    \* the sessions add stored while OnStop had not been called

regVars  == <<reg, count, recent>>
mgrVars  == <<addChan, mpc, cur, old, admitted>>
sessVars == <<uid, vrifyed, run, verifies, claimed>>
natsVars == <<npc, dst, dstUid, walk>>
gateVars == <<gpc, vkey, victim, left, play>>
vars == <<regVars, mgrVars, sessVars, out, stop, leaving, natsVars, gateVars>>

Registered == {u \in Uids : reg[u] # None}

Init ==
    /\ reg = [u \in Uids |-> None] /\ count = 0 /\ recent = {}
    /\ addChan = <<>> /\ mpc = "idle" /\ cur = None /\ old = None
    /\ uid = [s \in Sessions |-> None]
    /\ vrifyed = [s \in Sessions |-> FALSE]
    /\ out = [s \in Sessions |-> 0]
    /\ run = [s \in Sessions |-> "off"]
    /\ stop = [s \in Sessions |-> "idle"]
    /\ leaving = [s \in Sessions |-> None]
    /\ verifies = [s \in Sessions |-> 0]
    /\ npc = "idle" /\ dst = None /\ dstUid = None /\ walk = {}
    /\ gpc = "serving" /\ vkey = None /\ victim = None /\ left = {}
    /\ play \in Plays
    /\ claimed = [s \in Sessions |-> {}]
    /\ admitted = {}

-----------------------------------------------------------------------------
(* Session.OnStop.  Calling it enters the body unless stopOnce has fired;   *)
(* every caller then waits until the body has ended (Stopped).             *)

CallStop(s) == stop' = [stop EXCEPT ![s] = IF @ = "idle" THEN "check" ELSE @]

Stopped(s) == stop[s] = "done"

\* Mistake: vrifyed falls before it is tested.
StopCheckAfterFall(s) ==
    /\ stop[s] = "check"
    /\ vrifyed' = [vrifyed EXCEPT ![s] = FALSE]
    /\ stop' = [stop EXCEPT ![s] = "close"]
    /\ UNCHANGED <<regVars, mgrVars, uid, run, verifies, claimed, out, leaving, natsVars, gateVars>>

\* stopOnce body, first test: only a verified session leaves the registry.
StopCheck(s) ==
    /\ stop[s] = "check"
    /\ stop' = [stop EXCEPT ![s] = IF vrifyed[s] THEN "lookup" ELSE "close"]
    /\ leaving' = [leaving EXCEPT ![s] = IF vrifyed[s] THEN uid[s] ELSE @]
    /\ UNCHANGED <<regVars, mgrVars, sessVars, out, natsVars, gateVars>>

\* Mistake: DelSession waits for its turn with the manager.
DelLookupQueued(s) ==
    /\ stop[s] = "lookup"
    /\ stop' = CASE mpc # "idle" -> stop
                 [] reg[leaving[s]] # None -> [stop EXCEPT ![s] = "delete"]
                 [] OTHER -> [stop EXCEPT ![s] = "close"]
    /\ UNCHANGED <<regVars, mgrVars, sessVars, out, leaving, natsVars, gateVars>>

\* DelSession(uid): is some session registered under that id?
DelLookup(s) ==
    /\ stop[s] = "lookup"
    /\ stop' = [stop EXCEPT ![s] = IF reg[leaving[s]] # None THEN "delete" ELSE "close"]
    /\ UNCHANGED <<regVars, mgrVars, sessVars, out, leaving, natsVars, gateVars>>

\* DelSession: the entry goes by its id, whichever session it holds by now.
DelDelete(s) ==
    /\ stop[s] = "delete"
    /\ reg' = [reg EXCEPT ![leaving[s]] = None]
    /\ stop' = [stop EXCEPT ![s] = "uncount"]
    /\ UNCHANGED <<count, recent, mgrVars, sessVars, out, leaving, natsVars, gateVars>>

\* Mistake: DelSession forgets the count.
DelCountForgotten(s) ==
    /\ stop[s] = "uncount"
    /\ stop' = [stop EXCEPT ![s] = "close"]
    /\ UNCHANGED <<regVars, mgrVars, sessVars, out, leaving, natsVars, gateVars>>

\* DelSession: the count follows.
DelCount(s) ==
    /\ stop[s] = "uncount"
    /\ count' = count - 1
    /\ stop' = [stop EXCEPT ![s] = "close"]
    /\ UNCHANGED <<reg, recent, mgrVars, sessVars, out, leaving, natsVars, gateVars>>

\* The rest of the body: vrifyed falls, both control channels and the
\* connection are closed.
StopClose(s) ==
    /\ stop[s] = "close"
    /\ vrifyed' = [vrifyed EXCEPT ![s] = FALSE]
    /\ stop' = [stop EXCEPT ![s] = "done"]
    /\ leaving' = [leaving EXCEPT ![s] = None]
    /\ UNCHANGED <<regVars, mgrVars, uid, run, verifies, claimed, out,
                   natsVars, gateVars>>

OnStop(s) == \/ StopCheck(s) \/ DelLookup(s) \/ DelDelete(s) \/ DelCount(s)
             \/ StopClose(s)

-----------------------------------------------------------------------------
(* Session.SendMsg tests vrifyed and the connection first and then blocks   *)
(* on the out channel; a channel that run has closed makes the send panic, *)
(* which SendMsg recovers.                                                 *)

Sendable(s) == vrifyed[s] /\ ~Stopped(s)

Enqueue(s) ==
    /\ out[s] < OutCap \/ run[s] = "exited"
    /\ out' = [out EXCEPT ![s] = IF run[s] = "exited" THEN @ ELSE @ + 1]

-----------------------------------------------------------------------------
(* The goroutines of a connection.                                         *)

\* Accept loop: a new connection is taken unless Count() exceeds MaxConn.
\* The WebSocket listener is never closed, and a TCP connection may have been
\* accepted when its listener is, so this goes on after Server.Stop.
Accept(s) ==
    /\ run[s] = "off" /\ s \in play.who
    /\ count <= MaxConn
    /\ run' = [run EXCEPT ![s] = "select"]
    /\ UNCHANGED <<regVars, mgrVars, uid, vrifyed, verifies, claimed, out, stop, leaving,
                   natsVars, gateVars>>

\* Mistake: msgIn tells the client of its success, as add does once more.
VerifySucceedsAnswered(s, u) ==
    /\ run[s] = "select"
    /\ verifies[s] < play.verifies /\ u \in play.as
    /\ uid' = [uid EXCEPT ![s] = u]
    /\ vrifyed' = [vrifyed EXCEPT ![s] = TRUE]
    /\ out[s] < OutCap /\ out' = [out EXCEPT ![s] = @ + 1]
    /\ verifies' = [verifies EXCEPT ![s] = @ + 1]
    /\ claimed' = [claimed EXCEPT ![s] = @ \cup {u}]
    /\ run' = [run EXCEPT ![s] = "add"]
    /\ UNCHANGED <<regVars, mgrVars, stop, leaving, natsVars, gateVars>>

\* msgIn, a Verify message the application's callback accepts.
VerifySucceeds(s, u) ==
    /\ run[s] = "select"
    /\ verifies[s] < play.verifies /\ u \in play.as
    /\ uid' = [uid EXCEPT ![s] = u]
    /\ vrifyed' = [vrifyed EXCEPT ![s] = TRUE]
    /\ verifies' = [verifies EXCEPT ![s] = @ + 1]
    /\ claimed' = [claimed EXCEPT ![s] = @ \cup {u}]
    /\ run' = [run EXCEPT ![s] = "add"]
    /\ UNCHANGED <<regVars, mgrVars, out, stop, leaving, natsVars, gateVars>>

\* Mistake: the session takes the id before the callback has accepted it.
VerifyFailsWithId(s) ==
    /\ run[s] = "select" /\ "reject" \in play.events
    /\ verifies[s] < play.verifies
    /\ \E u \in Uids : uid' = [uid EXCEPT ![s] = u]
    /\ vrifyed' = [vrifyed EXCEPT ![s] = FALSE]
    /\ verifies' = [verifies EXCEPT ![s] = @ + 1]
    /\ UNCHANGED <<regVars, mgrVars, claimed, run, out, stop, leaving, natsVars, gateVars>>

\* msgIn, a Verify message the callback rejects; the reply is dropped by
\* SendMsg because vrifyed has just fallen.
VerifyFails(s) ==
    /\ run[s] = "select" /\ "reject" \in play.events
    /\ verifies[s] < play.verifies
    /\ vrifyed' = [vrifyed EXCEPT ![s] = FALSE]
    /\ verifies' = [verifies EXCEPT ![s] = @ + 1]
    /\ UNCHANGED <<regVars, mgrVars, uid, claimed, run, out, stop, leaving,
                   natsVars, gateVars>>

\* AddSession blocks while addChan is full.
AddSession(s) ==
    /\ run[s] = "add"
    /\ Len(addChan) < AddCap
    /\ addChan' = Append(addChan, s)
    /\ run' = [run EXCEPT ![s] = "select"]
    /\ UNCHANGED <<regVars, mpc, cur, old, admitted, uid, vrifyed, verifies, claimed,
                   out, stop, leaving, natsVars, gateVars>>

\* Mistake: a reply is taken without waiting for one.
TakeReplyUnwaited(s) ==
    /\ run[s] = "select" /\ ~Stopped(s)
    /\ out' = [out EXCEPT ![s] = @ - 1]
    /\ UNCHANGED <<regVars, mgrVars, sessVars, stop, leaving, natsVars, gateVars>>

\* run takes a reply from out and writes it to the connection.
TakeReply(s) ==
    /\ run[s] = "select" /\ out[s] > 0 /\ ~Stopped(s)
    /\ out' = [out EXCEPT ![s] = @ - 1]
    /\ UNCHANGED <<regVars, mgrVars, sessVars, stop, leaving, natsVars, gateVars>>

\* A goroutine of the connection calls OnStop: receive after an error of the
\* connection or of the peer, run after a missed heartbeat or too many
\* messages.  (receive may do so while run is anywhere, so this includes what
\* run does.)
ConnectionFails(s) ==
    /\ run[s] # "off" /\ stop[s] = "idle"
    /\ CallStop(s)
    /\ UNCHANGED <<regVars, mgrVars, sessVars, out, leaving, natsVars, gateVars>>

\* Mistake: run waits until its replies are written, which has become impossible.
RunExitsDrained(s) ==
    /\ run[s] = "select" /\ Stopped(s) /\ out[s] = 0
    /\ run' = [run EXCEPT ![s] = "exited"]
    /\ UNCHANGED <<regVars, mgrVars, uid, vrifyed, verifies, claimed, out, stop, leaving,
                   natsVars, gateVars>>

\* run returns, because sendCtl or the connection is found closed or after
\* its own OnStop, and closes out: what is queued is lost and blocked senders
\* are released.
RunExits(s) ==
    /\ run[s] = "select" /\ Stopped(s)
    /\ run' = [run EXCEPT ![s] = "exited"]
    /\ out' = [out EXCEPT ![s] = 0]
    /\ UNCHANGED <<regVars, mgrVars, uid, vrifyed, verifies, claimed, stop, leaving,
                   natsVars, gateVars>>

-----------------------------------------------------------------------------
(* SessionMgr.run: one entry of addChan at a time goes through add.         *)

MgrGoes(pc) == mpc' = pc

\* The next entry; the rate check stops a session whose id was added less
\* than three seconds ago.
AddTake ==
    /\ mpc = "idle" /\ addChan # <<>>
    /\ cur' = Head(addChan) /\ addChan' = Tail(addChan)
    /\ IF uid[cur'] \in recent
         THEN CallStop(cur') /\ MgrGoes("refused")
         ELSE UNCHANGED stop /\ MgrGoes("lookup")
    /\ UNCHANGED <<regVars, old, admitted, sessVars, out, leaving, natsVars, gateVars>>

\* add returns after a refused session has stopped.
AddRefused ==
    /\ mpc = "refused" /\ Stopped(cur)
    /\ MgrGoes("idle") /\ cur' = None
    /\ UNCHANGED <<regVars, addChan, old, admitted, sessVars, out, stop, leaving,
                   natsVars, gateVars>>

\* GetSession: without an old session the count grows.
AddLookup ==
    /\ mpc = "lookup"
    /\ old' = reg[uid[cur]]
    /\ IF old' # None
         THEN MgrGoes("replace") /\ UNCHANGED count
         ELSE MgrGoes("sign") /\ count' = count + 1
    /\ UNCHANGED <<reg, recent, addChan, cur, admitted, sessVars, out, stop, leaving,
                   natsVars, gateVars>>

\* Mistake: the old session is taken out of the registry but not stopped.
AddReplaceUnstopped ==
    /\ mpc = "replace"
    /\ reg' = [reg EXCEPT ![uid[cur]] = None]
    /\ MgrGoes("sign") /\ old' = None
    /\ UNCHANGED <<count, recent, addChan, cur, admitted, sessVars, out, stop, leaving,
                   natsVars, gateVars>>

\* Mistake: the entry is overwritten at once.
AddReplaceSwap ==
    /\ mpc = "replace"
    /\ reg' = [reg EXCEPT ![uid[cur]] = cur]
    /\ CallStop(old)
    /\ MgrGoes("replaced")
    /\ UNCHANGED <<count, recent, addChan, cur, old, admitted, sessVars, out, leaving,
                   natsVars, gateVars>>

\* Delete the entry, then stop the old session.
AddReplace ==
    /\ mpc = "replace"
    /\ reg' = [reg EXCEPT ![uid[cur]] = None]
    /\ CallStop(old)
    /\ MgrGoes("replaced")
    /\ UNCHANGED <<count, recent, addChan, cur, old, admitted, sessVars, out, leaving,
                   natsVars, gateVars>>

AddReplaced ==
    /\ mpc = "replaced" /\ Stopped(old)
    /\ MgrGoes("sign") /\ old' = None
    /\ UNCHANGED <<regVars, addChan, cur, admitted, sessVars, out, stop, leaving,
                   natsVars, gateVars>>

\* SendSign(Verify_Rst_Suc), before the session is in the registry.
AddSign ==
    /\ mpc = "sign"
    /\ MgrGoes(IF Sendable(cur) THEN "push" ELSE "store")
    /\ UNCHANGED <<regVars, addChan, cur, old, admitted, sessVars, out, stop, leaving,
                   natsVars, gateVars>>

AddPush ==
    /\ mpc = "push"
    /\ Enqueue(cur)
    /\ MgrGoes("store")
    /\ UNCHANGED <<regVars, addChan, cur, old, admitted, sessVars, stop, leaving,
                   natsVars, gateVars>>

\* LoadOrStore, and the time of the add in addMap.
AddStore ==
    /\ mpc = "store"
    /\ reg' = [reg EXCEPT ![uid[cur]] = IF @ = None THEN cur ELSE @]
    /\ recent' = recent \cup {uid[cur]}
    /\ admitted' = IF reg[uid[cur]] = None /\ stop[cur] = "idle"
                  THEN admitted \cup {cur} ELSE admitted
    /\ MgrGoes("idle") /\ cur' = None
    /\ UNCHANGED <<count, addChan, old, sessVars, out, stop, leaving, natsVars, gateVars>>

Mgr == \/ AddTake \/ AddRefused \/ AddLookup \/ AddReplace
       \/ AddReplaced \/ AddSign \/ AddPush \/ AddStore

\* Three seconds pass after an add.
Expire(u) ==
    /\ u \in recent
    /\ recent' = recent \ {u}
    /\ UNCHANGED <<reg, count, mgrVars, sessVars, out, stop, leaving, natsVars, gateVars>>

-----------------------------------------------------------------------------
(* The NATS publish handler.                                               *)

\* Receive: a message for user u, handed to the session registered for u.
\* (RegBroatCast and DisregBroatCast end in RpcMsg, where they change only the
\* set of topics the session subscribed, which is not modelled: no step.)
Receive(u) ==
    /\ npc = "idle" /\ "reply" \in play.events /\ reg[u] # None
    /\ npc' = "send" /\ dst' = reg[u] /\ dstUid' = u
    /\ UNCHANGED <<regVars, mgrVars, sessVars, out, stop, leaving, walk, gateVars>>

ReceiveSend ==
    /\ npc = "send"
    /\ IF Sendable(dst)
         THEN npc' = "push" /\ UNCHANGED <<dst, dstUid>>
         ELSE npc' = "idle" /\ dst' = None /\ dstUid' = None
    /\ UNCHANGED <<regVars, mgrVars, sessVars, out, stop, leaving, walk, gateVars>>

ReceivePush ==
    /\ npc = "push"
    /\ Enqueue(dst)
    /\ npc' = "idle" /\ dst' = None /\ dstUid' = None
    /\ UNCHANGED <<regVars, mgrVars, sessVars, stop, leaving, walk, gateVars>>

\* The ids a Range over the sync.Map may visit: those present now, and any
\* of those stored while it goes on.
RangeChoices == {T \in SUBSET Uids : Registered \subseteq T}

\* BroatCast, of a ReRoute or of another message.
BroatCast ==
    /\ npc = "idle"
    /\ walk' \in RangeChoices
    /\ \/ "reroute" \in play.events /\ npc' = "walk"
       \/ "broadcast" \in play.events /\ npc' = "cast"
    /\ UNCHANGED <<regVars, mgrVars, sessVars, out, stop, leaving, dst, dstUid, gateVars>>

\* An id without a session; one whose CheckRoute succeeds; one that has not
\* subscribed or to which nothing may be sent.
WalkSkip(u) ==
    /\ npc \in {"walk", "cast"} /\ u \in walk
    /\ walk' = walk \ {u}
    /\ UNCHANGED <<regVars, mgrVars, sessVars, out, stop, leaving, npc, dst, dstUid,
                   gateVars>>

\* SendMsg to a subscriber.
CastSend(u) ==
    /\ npc = "cast" /\ u \in walk /\ reg[u] # None /\ Sendable(reg[u])
    /\ walk' = walk \ {u}
    /\ npc' = "castpush" /\ dst' = reg[u]
    /\ UNCHANGED <<regVars, mgrVars, sessVars, out, stop, leaving, dstUid, gateVars>>

CastPush ==
    /\ npc = "castpush"
    /\ Enqueue(dst)
    /\ npc' = "cast" /\ dst' = None
    /\ UNCHANGED <<regVars, mgrVars, sessVars, stop, leaving, dstUid, walk, gateVars>>

\* CheckRoute fails: SendSign(Kick_Rst) if it may be sent, then OnStop.
WalkKick(u) ==
    /\ npc = "walk" /\ u \in walk /\ reg[u] # None
    /\ walk' = walk \ {u}
    /\ dst' = reg[u]
    /\ IF Sendable(dst')
         THEN npc' = "kick" /\ UNCHANGED stop
         ELSE npc' = "kicked" /\ CallStop(dst')
    /\ UNCHANGED <<regVars, mgrVars, sessVars, out, leaving, dstUid, gateVars>>

KickPush ==
    /\ npc = "kick"
    /\ Enqueue(dst) /\ CallStop(dst)
    /\ npc' = "kicked"
    /\ UNCHANGED <<regVars, mgrVars, sessVars, leaving, dst, dstUid, walk, gateVars>>

Kicked ==
    /\ npc = "kicked" /\ Stopped(dst)
    /\ npc' = "walk" /\ dst' = None
    /\ UNCHANGED <<regVars, mgrVars, sessVars, out, stop, leaving, dstUid, walk,
                   gateVars>>

WalkEnds ==
    /\ npc \in {"walk", "cast"} /\ walk = {}
    /\ npc' = "idle"
    /\ UNCHANGED <<regVars, mgrVars, sessVars, out, stop, leaving, dst, dstUid, walk,
                   gateVars>>

\* What the handler does once it has a message.
Nats == \/ ReceiveSend \/ ReceivePush \/ KickPush \/ Kicked \/ CastPush \/ WalkEnds
        \/ \E u \in Uids : WalkSkip(u) \/ WalkKick(u) \/ CastSend(u)

-----------------------------------------------------------------------------
(* Server.Stop: StopAllSession, then the listener is closed.               *)

StopAllSession ==
    /\ gpc = "serving" /\ "shutdown" \in play.events
    /\ left' \in RangeChoices
    /\ gpc' = "range"
    /\ UNCHANGED <<regVars, mgrVars, sessVars, out, stop, leaving, natsVars, vkey, victim, play>>

\* An id the Range comes to: skipped if its session is gone, else OnStop.
RangeVisit(u) ==
    /\ gpc = "range" /\ u \in left
    /\ IF reg[u] = None
         THEN UNCHANGED <<gpc, vkey, victim, stop>>
         ELSE gpc' = "stopping" /\ vkey' = u /\ victim' = reg[u] /\ CallStop(reg[u])
    /\ left' = left \ {u}
    /\ UNCHANGED <<regVars, mgrVars, sessVars, out, leaving, natsVars, play>>

\* OnStop has returned: the count falls once more.
RangeCount ==
    /\ gpc = "stopping" /\ Stopped(victim)
    /\ count' = count - 1
    /\ gpc' = "deleting"
    /\ UNCHANGED <<reg, recent, mgrVars, sessVars, out, stop, leaving, natsVars,
                   vkey, victim, left, play>>

\* The key is deleted, whichever session it leads to by now.
RangeDelete ==
    /\ gpc = "deleting"
    /\ reg' = [reg EXCEPT ![vkey] = None]
    /\ gpc' = "range" /\ vkey' = None /\ victim' = None
    /\ UNCHANGED <<count, recent, mgrVars, sessVars, out, stop, leaving, natsVars, left, play>>

RangeEnds ==
    /\ gpc = "range" /\ left = {}
    /\ gpc' = "closed"
    /\ UNCHANGED <<regVars, mgrVars, sessVars, out, stop, leaving, natsVars,
                   vkey, victim, left, play>>

Gate == RangeCount \/ RangeDelete \/ RangeEnds \/ \E u \in Uids : RangeVisit(u)

-----------------------------------------------------------------------------
\* What the goroutines of a connection do of their own accord.
RunSteps(s) == AddSession(s) \/ TakeReply(s) \/ RunExits(s)

\* What clients, the clock and the back end bring about.
Environment ==
    \/ \E s \in Sessions : \/ Accept(s) \/ VerifyFails(s) \/ ConnectionFails(s)
                          \/ \E u \in Uids : VerifySucceeds(s, u)
    \/ \E u \in Uids : Expire(u) \/ Receive(u)
    \/ BroatCast \/ StopAllSession

\* The gate has shut down, or no shutdown is explored, and nothing is left to do.
Ended ==
    /\ gpc = "closed" \/ "shutdown" \notin play.events
    /\ npc = "idle" /\ mpc = "idle" /\ addChan = <<>>
    /\ \A s \in Sessions : run[s] \in {"off", "exited"} /\ stop[s] \in {"idle", "done"}
    /\ UNCHANGED vars

Next ==
    \/ Mgr \/ Nats \/ Gate \/ Environment \/ Ended
    \/ \E s \in Sessions : OnStop(s) \/ RunSteps(s)

\* The Go scheduler runs every goroutine that can go on.  A blocked send is
\* served in the order of arrival, so no sender is passed over for ever: the
\* three kinds of goroutine that send go on if they can again and again.
Fairness ==
    /\ SF_vars(Mgr) /\ SF_vars(Nats) /\ WF_vars(Gate)
    /\ \A s \in Sessions : WF_vars(OnStop(s)) /\ SF_vars(RunSteps(s))

Safety == Init /\ [][Next]_vars
Spec   == Safety /\ Fairness

-----------------------------------------------------------------------------
(* Properties.                                                             *)

Phases == {"idle", "check", "lookup", "delete", "uncount", "close", "done"}

\* Every variable holds a value of its type.
TypeOK ==
    /\ reg \in [Uids -> Sessions \cup {None}] /\ count \in Int /\ recent \subseteq Uids
    /\ addChan \in Seq(Sessions)
    /\ mpc \in {"idle", "refused", "lookup", "replace", "replaced", "sign", "push", "store"}
    /\ cur \in Sessions \cup {None} /\ old \in Sessions \cup {None}
    /\ uid \in [Sessions -> Uids \cup {None}] /\ vrifyed \in [Sessions -> BOOLEAN]
    /\ out \in [Sessions -> Nat]
    /\ run \in [Sessions -> {"off", "select", "add", "exited"}]
    /\ stop \in [Sessions -> Phases]
    /\ leaving \in [Sessions -> Uids \cup {None}]
    /\ verifies \in [Sessions -> Nat]
    /\ npc \in {"idle", "send", "push", "walk", "kick", "kicked", "cast", "castpush"}
    /\ dst \in Sessions \cup {None} /\ dstUid \in Uids \cup {None}
    /\ walk \subseteq Uids
    /\ gpc \in {"serving", "range", "stopping", "deleting", "closed"}
    /\ vkey \in Uids \cup {None} /\ victim \in Sessions \cup {None} /\ left \subseteq Uids /\ play \in Plays
    /\ claimed \in [Sessions -> SUBSET Uids] /\ admitted \subseteq Sessions

\* The registry, and the publish handler between its lookup and its send,
\* lead from a user id only to a connection that was verified as that user,
\* whatever a client verifies as in the meantime (add re-reads the id of the
\* session at every step, Receive keeps the session it found).
OnlyOwnersServed ==
    /\ \A u \in Registered : u \in claimed[reg[u]]
    /\ npc \in {"send", "push"} => dstUid \in claimed[dst]

\* No client has sent Verify twice on one connection.
VerifiedOnce == \A s \in Sessions : verifies[s] <= 1

\* The session add has counted but not yet stored.
Adding == IF mpc \in {"replaced", "sign", "push", "store"} THEN 1 ELSE 0

\* The sessions whose DelSession has deleted an entry and not yet counted it off.
Uncounting == {s \in Sessions : stop[s] = "uncount"}

\* Count() never exceeds what the registry holds, add is about to put into
\* it and DelSession is about to count off, while every client verifies once:
\* deletions by id, by add and by StopAllSession lose counts but none is ever
\* left behind to make the accept loop refuse connections.
NeverOvercounts ==
    VerifiedOnce => count <= Cardinality(Registered) + Adding + Cardinality(Uncounting)

\* A session that add stored alive, and for which OnStop has since run, is
\* no longer what the registry holds: none of the races of DelSession with
\* add, Receive, ReRoute and StopAllSession leaves it there.  (A session
\* stored after its OnStop does stay: see the README.)
StoppedLeavesRegistry ==
    VerifiedOnce => \A u \in Registered : reg[u] \in admitted => ~Stopped(reg[u])

\* A session add has stored and nobody has stopped.
Live(s) == s \in admitted /\ stop[s] = "idle"

\* Two sessions of one user live on at the same time only after OnStop ran
\* for a third one of that user, whose DelSession took the wrong entry.
OneLivePerUid ==
    VerifiedOnce => \A s, t \in Sessions :
        (s # t /\ Live(s) /\ Live(t) /\ uid[s] = uid[t]) =>
            \E x \in Sessions \ {s, t} : uid[x] = uid[s] /\ stop[x] # "idle"

\* The circle that stops a gate: add waits for room in the out channel of a
\* session (SendSign in session_mgr.go:68, the send in session.go:159), whose run
\* goroutine, the only one to make that room, waits in AddSession for room in
\* addChan (session_mgr.go:46), which only add could make.  No step leads out of it.
Entangled ==
    /\ mpc = "push" /\ out[cur] >= OutCap
    /\ run[cur] = "add" /\ Len(addChan) >= AddCap

\* The places of addChan that hold s.
Waiting(s) == {i \in 1..Len(addChan) : addChan[i] = s}

\* The circle closes only on a connection that has sent Verify three times, and
\* once more for each place of addChan it fills itself: for a registration that is
\* over and brought it what fills out, for the one whose success does not fit
\* there, and for the one that does not fit into addChan.
EntangledByRepeats == Entangled => verifies[cur] >= 3 + Cardinality(Waiting(cur))

\* Every session whose run goroutine enters AddSession gets out of it, and
\* out of the hands of the manager, unless a client has closed the circle.
AddsHandled ==
    \A s \in Sessions :
        run[s] = "add" ~>
            \/ run[s] # "add" /\ cur # s /\ Waiting(s) = {}
            \/ Entangled

\* Once OnStop is called for a session, its run goroutine ends, unless a
\* client has closed the circle.
StopEndsRun == \A s \in Sessions : stop[s] = "check" ~> run[s] = "exited" \/ Entangled

Registry == INSTANCE Logins

\* The registry is an abstract registry of logins: it leads an id only to a
\* connection that proved it, and passes an id from one connection to the
\* next only through a logout (LoadOrStore never overwrites).
RegistrySpec == Registry!Spec
=============================================================================
