--------------------------- MODULE SessionMgrProofs ---------------------------
(***************************************************************************)
(* Theorems about the gate's registry, for every value of the constants.   *)
(***************************************************************************)
EXTENDS SessionMgr, FiniteSetTheorems, TLAPS

(***************************************************************************)
(* What OnlyOwnersServed rests on: an id a session bears is one it was     *)
(* verified as; only sessions that bear an id are on their way into the    *)
(* registry; the publish handler holds a session of the id it looked up.   *)
(***************************************************************************)
Proved   == \A s \in Sessions : uid[s] # None => uid[s] \in claimed[s]
Bearing  == \A s \in Sessions : (run[s] = "add" \/ vrifyed[s]) => uid[s] # None
Queued   == \A i \in 1..Len(addChan) : uid[addChan[i]] # None
Handling == /\ mpc # "idle" => cur \in Sessions /\ uid[cur] # None
            /\ mpc \in {"replace", "replaced"} => old \in Sessions
Holding  == /\ npc \in {"send", "push", "kick", "kicked", "castpush"} => dst \in Sessions
            /\ npc \in {"send", "push"} => dstUid \in Uids
            /\ gpc \in {"stopping", "deleting"} => vkey \in Uids /\ victim \in Sessions
Leaving  == \A s \in Sessions : stop[s] \in {"lookup", "delete"} => leaving[s] \in Uids

OwnersInv == /\ TypeOK /\ Proved /\ Bearing /\ Queued /\ Handling /\ Holding /\ Leaving
             /\ OnlyOwnersServed

-----------------------------------------------------------------------------
(* Calling OnStop moves the phase of that session alone, from idle to check. *)
LEMMA CallStopMoves ==
    ASSUME NEW s, CallStop(s), stop \in [Sessions -> Phases]
    PROVE  /\ stop' \in [Sessions -> Phases]
           /\ \A t \in Sessions : stop'[t] = stop[t] \/ (stop[t] = "idle" /\ stop'[t] = "check")
  BY DEF CallStop, Phases

(* The initial state. *)
LEMMA OwnersInit == ASSUME ConstantsOK PROVE Init => OwnersInv
  BY DEF Phases, ConstantsOK, Init, OwnersInv, TypeOK, Proved, Bearing, Queued, Handling, Holding,
         Leaving, OnlyOwnersServed, Registered

(* A step of the body of OnStop. *)
LEMMA OwnersStop ==
    ASSUME ConstantsOK, OwnersInv, NEW s \in Sessions, OnStop(s)
    PROVE  OwnersInv'
<1> USE DEF OwnersInv, TypeOK, Proved, Bearing, Queued, Handling, Holding, Leaving,
            OnlyOwnersServed, Registered, ConstantsOK,
            regVars, mgrVars, sessVars, natsVars, gateVars
<1>1. CASE StopCheck(s)
  BY <1>1 DEF StopCheck, Phases
<1>2. CASE DelLookup(s)
  BY <1>2 DEF DelLookup, Phases
<1>3. CASE DelDelete(s)
  BY <1>3 DEF DelDelete, Phases
<1>4. CASE DelCount(s)
  BY <1>4 DEF DelCount, Phases
<1>5. CASE StopClose(s)
  BY <1>5 DEF StopClose, Phases
<1> QED BY <1>1, <1>2, <1>3, <1>4, <1>5 DEF OnStop

(* A step of SessionMgr.run and add. *)
LEMMA OwnersMgr ==
    ASSUME ConstantsOK, OwnersInv, Mgr
    PROVE  OwnersInv'
<1> USE DEF OwnersInv, TypeOK, Proved, Bearing, Queued, Handling, Holding, Leaving,
            OnlyOwnersServed, Registered, ConstantsOK,
            regVars, mgrVars, sessVars, natsVars, gateVars
<1>1. CASE AddTake
  <2>1. cur' = addChan[1] /\ Len(addChan) >= 1
    BY <1>1 DEF AddTake
  <2>2. /\ addChan' \in Seq(Sessions) /\ Len(addChan') = Len(addChan) - 1
        /\ \A i \in 1..Len(addChan') : addChan'[i] = addChan[i + 1]
    BY <1>1 DEF AddTake
  <2>3. cur' \in Sessions /\ uid[cur'] # None
    BY <2>1
  <2>4. Queued'
    <3>1. SUFFICES ASSUME NEW i \in 1..Len(addChan') PROVE uid'[addChan'[i]] # None
      BY DEF Queued
    <3>2. i + 1 \in 1..Len(addChan) /\ uid' = uid
      BY <1>1, <2>2 DEF AddTake
    <3> QED BY <2>2, <3>2
  <2>5. stop' = stop \/ CallStop(cur')
    BY <1>1 DEF AddTake
  <2>6. /\ stop' \in [Sessions -> Phases]
        /\ \A t \in Sessions : stop'[t] = stop[t] \/ (stop[t] = "idle" /\ stop'[t] = "check")
    BY <2>5, CallStopMoves
  <2>7. mpc' \in {"refused", "lookup"}
    BY <1>1 DEF AddTake, MgrGoes
  <2>8. UNCHANGED <<regVars, old, admitted, sessVars, out, leaving, natsVars, gateVars>>
    BY <1>1 DEF AddTake
  <2>9. TypeOK' BY <2>2, <2>3, <2>6, <2>7, <2>8
  <2>10. Leaving' BY <2>6, <2>8
  <2> QED BY <2>3, <2>4, <2>7, <2>8, <2>9, <2>10
<1>2. CASE AddRefused
  BY <1>2 DEF AddRefused, MgrGoes
<1>3. CASE AddLookup
  BY <1>3 DEF AddLookup, MgrGoes
<1>4. CASE AddReplace
  BY <1>4 DEF AddReplace, MgrGoes, CallStop, Phases
<1>5. CASE AddReplaced
  BY <1>5 DEF AddReplaced, MgrGoes
<1>6. CASE AddSign
  BY <1>6 DEF AddSign, MgrGoes
<1>7. CASE AddPush
  BY <1>7 DEF AddPush, MgrGoes, Enqueue
<1>8. CASE AddStore
  BY <1>8 DEF AddStore, MgrGoes
<1> QED BY <1>1, <1>2, <1>3, <1>4, <1>5, <1>6, <1>7, <1>8 DEF Mgr

(* A step of the publish handler, once it has a message. *)
LEMMA OwnersNats ==
    ASSUME ConstantsOK, OwnersInv, Nats
    PROVE  OwnersInv'
<1> USE DEF OwnersInv, TypeOK, Proved, Bearing, Queued, Handling, Holding, Leaving,
            OnlyOwnersServed, Registered, ConstantsOK,
            regVars, mgrVars, sessVars, natsVars, gateVars
<1>1. CASE ReceiveSend
  BY <1>1 DEF ReceiveSend
<1>2. CASE ReceivePush
  BY <1>2 DEF ReceivePush, Enqueue
<1>3. CASE KickPush
  BY <1>3 DEF KickPush, Enqueue, CallStop, Phases
<1>4. CASE Kicked
  BY <1>4 DEF Kicked
<1>5. CASE WalkEnds
  BY <1>5 DEF WalkEnds
<1>6. CASE \E u \in Uids : WalkSkip(u)
  BY <1>6 DEF WalkSkip
<1>7. CASE \E u \in Uids : WalkKick(u)
  <2>1. PICK u \in Uids : WalkKick(u) BY <1>7
  <2>2. dst' \in Sessions /\ npc' \in {"kick", "kicked"}
    BY <2>1 DEF WalkKick
  <2>3. stop' = stop \/ CallStop(dst')
    BY <2>1 DEF WalkKick
  <2>4. /\ stop' \in [Sessions -> Phases]
        /\ \A t \in Sessions : stop'[t] = stop[t] \/ (stop[t] = "idle" /\ stop'[t] = "check")
    BY <2>3, CallStopMoves
  <2>5. walk' \subseteq Uids BY <2>1 DEF WalkKick
  <2>6. UNCHANGED <<regVars, mgrVars, sessVars, out, leaving, dstUid, gateVars>>
    BY <2>1 DEF WalkKick
  <2>7. TypeOK' BY <2>2, <2>4, <2>5, <2>6
  <2>8. Leaving' BY <2>4, <2>6
  <2> QED BY <2>2, <2>6, <2>7, <2>8
<1>8. CASE \E u \in Uids : CastSend(u)
  BY <1>8 DEF CastSend
<1>9. CASE CastPush
  BY <1>9 DEF CastPush, Enqueue
<1> QED BY <1>1, <1>2, <1>3, <1>4, <1>5, <1>6, <1>7, <1>8, <1>9 DEF Nats

(* A step of Server.Stop. *)
LEMMA OwnersGate ==
    ASSUME ConstantsOK, OwnersInv, Gate
    PROVE  OwnersInv'
<1> USE DEF OwnersInv, TypeOK, Proved, Bearing, Queued, Handling, Holding, Leaving,
            OnlyOwnersServed, Registered, ConstantsOK,
            regVars, mgrVars, sessVars, natsVars, gateVars
<1>1. CASE RangeDelete
  BY <1>1 DEF RangeDelete
<1>4. CASE RangeCount
  BY <1>4 DEF RangeCount
<1>2. CASE RangeEnds
  BY <1>2 DEF RangeEnds
<1>3. CASE \E u \in Uids : RangeVisit(u)
  <2>1. PICK u \in Uids : RangeVisit(u) BY <1>3
  <2>2. stop' = stop \/ CallStop(reg[u])
    BY <2>1 DEF RangeVisit
  <2>3. /\ stop' \in [Sessions -> Phases]
        /\ \A t \in Sessions : stop'[t] = stop[t] \/ (stop[t] = "idle" /\ stop'[t] = "check")
    BY <2>2, CallStopMoves
  <2>4. CASE reg[u] = None
    BY <2>1, <2>2, <2>3, <2>4 DEF RangeVisit
  <2>5. CASE reg[u] # None
    BY <2>1, <2>2, <2>3, <2>5 DEF RangeVisit
  <2> QED BY <2>4, <2>5
<1> QED BY <1>1, <1>2, <1>3, <1>4 DEF Gate

(* A step of Session.run of its own accord. *)
LEMMA OwnersRun ==
    ASSUME ConstantsOK, OwnersInv, NEW s \in Sessions, RunSteps(s)
    PROVE  OwnersInv'
<1> USE DEF OwnersInv, TypeOK, Proved, Bearing, Queued, Handling, Holding, Leaving,
            OnlyOwnersServed, Registered, ConstantsOK,
            regVars, mgrVars, sessVars, natsVars, gateVars
<1>1. CASE AddSession(s)
  <2>1. UNCHANGED <<regVars, mpc, cur, old, admitted, uid, vrifyed, verifies, claimed,
                    out, stop, leaving, natsVars, gateVars>>
    BY <1>1 DEF AddSession
  <2>2. run' = [run EXCEPT ![s] = "select"] /\ run[s] = "add"
    BY <1>1 DEF AddSession
  <2>3. /\ addChan' \in Seq(Sessions)
        /\ \A i \in 1 .. Len(addChan') :
                \/ addChan'[i] = s
                \/ i \in 1 .. Len(addChan) /\ addChan'[i] = addChan[i]
    BY <1>1 DEF AddSession
  <2>4. TypeOK'
    BY <2>1, <2>2, <2>3
  <2>5. uid[s] # None
    BY <2>2
  <2>6. Queued'
    BY <2>1, <2>3, <2>5
  <2> QED  BY <2>1, <2>2, <2>4, <2>6
<1>2. CASE TakeReply(s)
  BY <1>2 DEF TakeReply
<1>3. CASE RunExits(s)
  BY <1>3 DEF RunExits
<1> QED BY <1>1, <1>2, <1>3 DEF RunSteps

(* What clients, the clock and the back end bring about. *)
LEMMA OwnersEnvironment ==
    ASSUME ConstantsOK, OwnersInv, Environment
    PROVE  OwnersInv'
<1> USE DEF OwnersInv, TypeOK, Proved, Bearing, Queued, Handling, Holding, Leaving,
            OnlyOwnersServed, Registered, ConstantsOK,
            regVars, mgrVars, sessVars, natsVars, gateVars
<1>1. CASE \E s \in Sessions : Accept(s)
  BY <1>1 DEF Accept
<1>2. CASE \E s \in Sessions : VerifyFails(s)
  BY <1>2 DEF VerifyFails
<1>3. CASE \E s \in Sessions : ConnectionFails(s)
  BY <1>3 DEF ConnectionFails, CallStop, Phases
<1>4. CASE \E s \in Sessions, u \in Uids : VerifySucceeds(s, u)
  <2>1. PICK s \in Sessions, u \in Uids : VerifySucceeds(s, u) BY <1>4
  <2>2. UNCHANGED <<regVars, mgrVars, out, stop, leaving, natsVars, gateVars>>
    BY <2>1 DEF VerifySucceeds
  <2>3. claimed' \in [Sessions -> SUBSET Uids] BY <2>1 DEF VerifySucceeds
  <2>4. uid' \in [Sessions -> Uids \cup {None}] /\ vrifyed' \in [Sessions -> BOOLEAN]
    BY <2>1 DEF VerifySucceeds
  <2>5. run' \in [Sessions -> {"off", "select", "add", "exited"}] /\ verifies' \in [Sessions -> Nat]
    BY <2>1 DEF VerifySucceeds
  <2>6. TypeOK'
    <3>1. TypeOK OBVIOUS
    <3>2. UNCHANGED <<reg, count, recent, addChan, mpc, cur, old, admitted>> BY <2>2
    <3>3. UNCHANGED <<out, stop, leaving>> BY <2>2
    <3>4. UNCHANGED <<npc, dst, dstUid, walk, gpc, vkey, victim, left, play>> BY <2>2
    <3> HIDE DEF OwnersInv, Proved, Bearing, Queued, Handling, Holding, Leaving,
                 OnlyOwnersServed, Registered, ConstantsOK,
                 regVars, mgrVars, sessVars, natsVars, gateVars
    <3> QED BY <2>3, <2>4, <2>5, <3>1, <3>2, <3>3, <3>4, SMTT(30)
  <2>7. Proved' /\ Bearing' BY <2>1 DEF VerifySucceeds
  <2>8. \A t \in Sessions : uid[t] # None => uid'[t] # None BY <2>1 DEF VerifySucceeds
  <2>9. \A t \in Sessions : claimed[t] \subseteq claimed'[t] BY <2>1 DEF VerifySucceeds
  <2>10. \A i \in 1..Len(addChan) : addChan[i] \in Sessions OBVIOUS
  <2>11. Queued' BY <2>2, <2>8, <2>10
  <2>12. OnlyOwnersServed' BY <2>1, <2>9 DEF VerifySucceeds
  <2>13. Handling' BY <2>2, <2>8
  <2>14. Holding' /\ Leaving' BY <2>1 DEF VerifySucceeds
  <2> QED BY <2>6, <2>7, <2>11, <2>12, <2>13, <2>14
<1>5. CASE \E u \in Uids : Expire(u)
  BY <1>5 DEF Expire
<1>6. CASE \E u \in Uids : Receive(u)
  BY <1>6 DEF Receive
<1>7. CASE BroatCast
  BY <1>7 DEF BroatCast, RangeChoices
<1>8. CASE StopAllSession
  BY <1>8 DEF StopAllSession, RangeChoices
<1> QED BY <1>1, <1>2, <1>3, <1>4, <1>5, <1>6, <1>7, <1>8 DEF Environment

(* Every step of the gate preserves the strengthened invariant. *)
LEMMA OwnersNext == ASSUME ConstantsOK, OwnersInv, [Next]_vars PROVE OwnersInv'
<1>1. CASE UNCHANGED vars
  BY <1>1 DEF OwnersInv, TypeOK, Proved, Bearing, Queued, Handling, Holding, Leaving,
              OnlyOwnersServed, Registered, vars, regVars, mgrVars, sessVars, natsVars, gateVars
<1>2. CASE Ended
  BY <1>1, <1>2 DEF Ended
<1> QED
  BY <1>1, <1>2, OwnersStop, OwnersMgr, OwnersNats, OwnersGate, OwnersRun, OwnersEnvironment
  DEF Next

(* The types of all variables, and that replies for a user id reach only a *)
(* connection which was verified as that user, in every behaviour.         *)
THEOREM OwnersServed == ASSUME ConstantsOK PROVE Safety => [](TypeOK /\ OnlyOwnersServed)
<1>1. Init => OwnersInv BY OwnersInit
<1>2. OwnersInv /\ [Next]_vars => OwnersInv' BY OwnersNext
<1>3. OwnersInv => TypeOK /\ OnlyOwnersServed BY DEF OwnersInv
<1> QED BY <1>1, <1>2, <1>3, PTL DEF Safety

-----------------------------------------------------------------------------
(* Every step of the gate is a step of the abstract registry or leaves it  *)
(* alone: five actions write reg or claimed.                               *)
LEMMA RegistryStep ==
    ASSUME ConstantsOK, OwnersInv, [Next]_vars
    PROVE  [Registry!Next]_<<reg, claimed>>
<1> USE DEF vars, regVars, mgrVars, sessVars, natsVars, gateVars
<1>1. ASSUME NEW s \in Sessions, DelDelete(s) PROVE Registry!Next
  <2>1. leaving[s] \in Uids BY <1>1 DEF DelDelete, OwnersInv, Leaving
  <2>2. Registry!Logout(leaving[s]) BY <1>1 DEF DelDelete, Registry!Logout
  <2> QED BY <2>1, <2>2 DEF Registry!Next
<1>2. CASE AddReplace
  <2>1. uid[cur] \in Uids BY <1>2 DEF AddReplace, OwnersInv, Handling, TypeOK
  <2>2. Registry!Logout(uid[cur]) BY <1>2 DEF AddReplace, Registry!Logout
  <2> QED BY <2>1, <2>2 DEF Registry!Next
<1>3. CASE RangeDelete
  <2>1. vkey \in Uids BY <1>3 DEF RangeDelete, OwnersInv, Holding
  <2>2. Registry!Logout(vkey) BY <1>3 DEF RangeDelete, Registry!Logout
  <2> QED BY <2>1, <2>2 DEF Registry!Next
<1>4. CASE AddStore
  <2>1. /\ cur \in Sessions /\ uid[cur] \in Uids /\ uid[cur] \in claimed[cur]
        /\ reg \in [Uids -> Sessions \cup {None}]
    BY <1>4 DEF AddStore, OwnersInv, Handling, Proved, TypeOK
  <2>2. CASE reg[uid[cur]] = None
    <3>1. Registry!Login(cur, uid[cur]) BY <1>4, <2>1, <2>2 DEF AddStore, Registry!Login
    <3> QED BY <2>1, <3>1 DEF Registry!Next
  <2>3. CASE reg[uid[cur]] # None
    BY <1>4, <2>1, <2>3 DEF AddStore
  <2> QED BY <2>2, <2>3
<1>5. ASSUME NEW s \in Sessions, NEW u \in Uids, VerifySucceeds(s, u) PROVE Registry!Next
  <2>1. Registry!Claim(s, u) BY <1>5 DEF VerifySucceeds, Registry!Claim
  <2> QED BY <2>1 DEF Registry!Next
<1>6. CASE Mgr
  BY <1>2, <1>4, <1>6
  DEF Mgr, AddTake, AddRefused, AddLookup, AddReplaced, AddSign, AddPush
<1>7. CASE Nats
  BY <1>7 DEF Nats, ReceiveSend, ReceivePush, KickPush, Kicked, WalkEnds, WalkSkip, WalkKick,
              CastSend, CastPush
<1>8. CASE Gate
  BY <1>3, <1>8 DEF Gate, RangeCount, RangeEnds, RangeVisit
<1>9. CASE Environment
  BY <1>5, <1>9
  DEF Environment, Accept, VerifyFails, ConnectionFails, Expire, Receive, BroatCast,
      StopAllSession
<1>10. ASSUME NEW s \in Sessions, OnStop(s) \/ RunSteps(s) PROVE [Registry!Next]_<<reg, claimed>>
  BY <1>1, <1>10
  DEF OnStop, StopCheck, DelLookup, DelCount, StopClose, RunSteps, AddSession, TakeReply, RunExits
<1>11. CASE Ended \/ UNCHANGED vars
  BY <1>11 DEF Ended
<1> QED BY <1>6, <1>7, <1>8, <1>9, <1>10, <1>11 DEF Next

(* The gate's registry implements the abstract registry of logins: an id   *)
(* leads only to a connection that proved it and is never passed from one  *)
(* connection to another without a logout in between.                      *)
THEOREM RegistryImplemented == ASSUME ConstantsOK PROVE Safety => RegistrySpec
<1>1. Init => OwnersInv BY OwnersInit
<1>2. OwnersInv /\ [Next]_vars => OwnersInv' BY OwnersNext
<1>3. Init => Registry!Init BY DEF Init, Registry!Init
<1>4. OwnersInv /\ [Next]_vars => [Registry!Next]_<<reg, claimed>> BY RegistryStep
<1> QED BY <1>1, <1>2, <1>3, <1>4, PTL DEF Safety, RegistrySpec, Registry!Spec

-----------------------------------------------------------------------------
(***************************************************************************)
(* What the three properties of clients that verify once rest on.  Such a  *)
(* connection passes once from AddSession through addChan and add into the *)
(* registry, under an id that does not change.                             *)
(***************************************************************************)
InQueue(s) == \E i \in 1..Len(addChan) : addChan[i] = s
Placed(s)  == s \in admitted \/ \E u \in Uids : reg[u] = s

\* A connection that sent no Verify bears no id; add holds a session only
\* while it works; the registry is finite.
Fresh    == \A s \in Sessions : verifies[s] = 0 => uid[s] = None
Free     == mpc = "idle" => cur = None
Admitted == \A s \in admitted : uid[s] # None
Finite   == IsFiniteSet(Registered) /\ IsFiniteSet(Uncounting)

\* Each session is at one place only on its way into the registry.
Passage  == \A s \in Sessions :
    /\ run[s] = "add" => ~InQueue(s) /\ cur # s /\ ~Placed(s)
    /\ InQueue(s) => cur # s /\ ~Placed(s)
    /\ \A i, j \in 1..Len(addChan) : addChan[i] = s /\ addChan[j] = s => i = j
    /\ cur = s => ~Placed(s)
\* The registry has each session under the id it bears, and so has every
\* deletion that is under way.
Named    == \A u \in Registered : uid[reg[u]] = u
Deleting == \A s \in Sessions : stop[s] \in {"lookup", "delete"} => leaving[s] = uid[s]
Visited  == /\ gpc \in {"stopping", "deleting"} => uid[victim] = vkey
            /\ gpc = "deleting" => stop[victim] = "done"
\* A session with an id is verified until its OnStop ends, which therefore
\* takes it out of the registry.
Vrified  == \A s \in Sessions : uid[s] # None => vrifyed[s] \/ stop[s] = "done"
Gone     == \A s \in admitted : stop[s] \in {"uncount", "close", "done"} => reg[uid[s]] # s
\* What add found under the id of its session may have left, but nothing else
\* came; after add has made room, the place stays free.
Found    == mpc = "replace" => reg[uid[cur]] \in {old, None}
Vacant   == mpc \in {"replaced", "sign", "push", "store"} => reg[uid[cur]] = None
\* A live session lost its entry only to a session of the same user.
Evicted  == \A s \in Sessions : Live(s) /\ reg[uid[s]] # s =>
    \E x \in Sessions \ {s} : uid[x] = uid[s] /\ stop[x] # "idle"

\* What NeverOvercounts says, less what StopAllSession has counted off and not yet
\* deleted.
Deducted == IF gpc = "deleting" THEN 1 ELSE 0
Counted  == VerifiedOnce =>
    count + Deducted <= Cardinality(Registered) + Adding + Cardinality(Uncounting)

OnceInv  == /\ Passage /\ Named /\ Deleting /\ Visited /\ Vrified /\ Gone
            /\ Found /\ Vacant /\ Evicted
LoginInv == /\ Fresh /\ Free /\ Admitted /\ Finite
            /\ VerifiedOnce => OnceInv
            /\ Counted

-----------------------------------------------------------------------------
(* Adding one id to the registry, or taking one out, changes its size by   *)
(* at most one.                                                            *)
LEMMA RegistrySize ==
    ASSUME NEW R, IsFiniteSet(R), NEW u
    PROVE  /\ IsFiniteSet(R \ {u}) /\ IsFiniteSet(R \cup {u})
           /\ Cardinality(R) \in Nat /\ Cardinality(R \ {u}) \in Nat /\ Cardinality(R \cup {u}) \in Nat
           /\ Cardinality(R) <= Cardinality(R \ {u}) + 1
           /\ u \notin R => Cardinality(R \cup {u}) = Cardinality(R) + 1
<1>1. IsFiniteSet(R \ {u}) /\ Cardinality(R \ {u}) = IF u \in R THEN Cardinality(R) - 1 ELSE Cardinality(R)
  BY FS_RemoveElement
<1>2. IsFiniteSet(R \cup {u})
      /\ Cardinality(R \cup {u}) = IF u \in R THEN Cardinality(R) ELSE Cardinality(R) + 1
  BY FS_AddElement
<1>3. Cardinality(R) \in Nat /\ Cardinality(R \ {u}) \in Nat /\ Cardinality(R \cup {u}) \in Nat
  BY <1>1, <1>2, FS_CardinalityType
<1> QED BY <1>1, <1>2, <1>3

(* Steps that leave the way into the registry alone, but for OnStop calls. *)
LEMMA LoginQuiet ==
    ASSUME OwnersInv, OwnersInv', LoginInv,
           UNCHANGED <<reg, count, addChan, mpc, cur, old, admitted, uid, vrifyed, verifies, leaving>>,
           \A t \in Sessions : stop'[t] = stop[t] \/ (stop[t] = "idle" /\ stop'[t] = "check"),
           \A t \in Sessions : run'[t] = "add" => run[t] = "add",
           gpc' = "deleting" <=> gpc = "deleting",
           VerifiedOnce /\ OnceInv => Visited'
    PROVE  LoginInv'
<1> USE DEF LoginInv
<1>4. Uncounting' = Uncounting BY DEF Uncounting
<1>1. (Fresh /\ Free /\ Admitted /\ Finite)' BY <1>4 DEF Fresh, Free, Admitted, Finite, Registered
<1>2. Counted' BY <1>4 DEF Counted, VerifiedOnce, Registered, Adding, Deducted
<1>3. ASSUME VerifiedOnce' PROVE OnceInv'
  <2>1. VerifiedOnce /\ OnceInv BY <1>3 DEF VerifiedOnce
  <2>2. Passage' BY <2>1 DEF OnceInv, Passage, InQueue, Placed
  <2>3. (Named /\ Found /\ Vacant)' BY <2>1 DEF OnceInv, Named, Found, Vacant, Registered
  <2>4. (Deleting /\ Vrified)' BY <2>1 DEF OnceInv, Deleting, Vrified
  <2>5. Gone' BY <2>1 DEF OnceInv, Gone, OwnersInv, TypeOK
  <2>6. Evicted' BY <2>1 DEF OnceInv, Evicted, Live
  <2> QED BY <2>1, <2>2, <2>3, <2>4, <2>5, <2>6 DEF OnceInv
<1> QED BY <1>1, <1>2, <1>3

(* What a deletion by id leaves as it was, and what it does to the size of *)
(* the registry; OnStop, add and StopAllSession delete by id.              *)
LEMMA EntryDeleted ==
    ASSUME ConstantsOK, TypeOK, Finite, NEW u \in Uids, reg' = [reg EXCEPT ![u] = None],
           UNCHANGED <<addChan, cur, admitted, uid, run>>
    PROVE  /\ Registered' = Registered \ {u} /\ IsFiniteSet(Registered')
           /\ Cardinality(Registered) \in Nat /\ Cardinality(Registered') \in Nat
           /\ Cardinality(Registered) <= Cardinality(Registered') + 1
           /\ Passage => Passage'
           /\ Named => Named'
<1>1. Registered' = Registered \ {u} BY DEF Registered, TypeOK
<1>2. /\ IsFiniteSet(Registered') /\ Cardinality(Registered) \in Nat /\ Cardinality(Registered') \in Nat
      /\ Cardinality(Registered) <= Cardinality(Registered') + 1
  BY <1>1, RegistrySize DEF Finite
<1>3. \A s \in Sessions : Placed(s)' => Placed(s) BY DEF Placed, TypeOK, ConstantsOK
<1>4. Passage => Passage' BY <1>3 DEF Passage, InQueue
<1>5. Named => Named' BY DEF Named, Registered, TypeOK
<1> QED BY <1>1, <1>2, <1>4, <1>5

(* A step of the body of OnStop. *)
LEMMA LoginStop ==
    ASSUME ConstantsOK, OwnersInv, OwnersInv', LoginInv, NEW s \in Sessions, OnStop(s)
    PROVE  LoginInv'
<1> USE DEF LoginInv, regVars, mgrVars, sessVars, natsVars, gateVars
<1>1. CASE StopCheck(s)
  <2>1. /\ UNCHANGED <<reg, count, addChan, mpc, cur, old, admitted, uid, vrifyed, verifies, run>>
        /\ UNCHANGED <<gpc, victim, vkey>>
        /\ stop' = [stop EXCEPT ![s] = IF vrifyed[s] THEN "lookup" ELSE "close"]
        /\ leaving' = [leaving EXCEPT ![s] = IF vrifyed[s] THEN uid[s] ELSE @]
        /\ stop[s] = "check"
    BY <1>1 DEF StopCheck
  <2>5. Uncounting' = Uncounting BY <2>1 DEF Uncounting, OwnersInv, TypeOK
  <2>2. (Fresh /\ Free /\ Admitted /\ Finite)' BY <2>1, <2>5 DEF Fresh, Free, Admitted, Finite, Registered, Uncounting
  <2>3. Counted' BY <2>1, <2>5 DEF Counted, VerifiedOnce, Registered, Adding, Deducted
  <2>4. ASSUME VerifiedOnce' PROVE OnceInv'
    <3>1. VerifiedOnce /\ OnceInv BY <2>1, <2>4 DEF VerifiedOnce
    <3>2. (Passage /\ Named /\ Visited /\ Found /\ Vacant)'
      BY <2>1, <3>1 DEF OnceInv, Passage, InQueue, Placed, Named, Visited, Found, Vacant, Registered
    <3>3. Deleting'
      BY <2>1, <3>1 DEF OnceInv, Deleting, OwnersInv, TypeOK
    <3>4. Vrified' BY <2>1, <3>1 DEF OnceInv, Vrified, OwnersInv, TypeOK
    <3>5. s \in admitted => vrifyed[s] BY <2>1, <3>1 DEF OnceInv, Vrified, Admitted
    <3>6. Gone' BY <2>1, <3>1, <3>5 DEF OnceInv, Gone, OwnersInv, TypeOK
    <3>7. Evicted' BY <2>1, <3>1 DEF OnceInv, Evicted, Live, OwnersInv, TypeOK
    <3> QED BY <3>1, <3>2, <3>3, <3>4, <3>6, <3>7 DEF OnceInv
  <2> QED BY <2>2, <2>3, <2>4
<1>2. CASE DelLookup(s)
  <2>1. /\ UNCHANGED <<reg, count, addChan, mpc, cur, old, admitted, uid, vrifyed, verifies, run>>
        /\ UNCHANGED <<gpc, victim, vkey, leaving>>
        /\ stop' = [stop EXCEPT ![s] = IF reg[leaving[s]] # None THEN "delete" ELSE "close"]
        /\ stop[s] = "lookup"
    BY <1>2 DEF DelLookup
  <2>5. Uncounting' = Uncounting BY <2>1 DEF Uncounting, OwnersInv, TypeOK
  <2>2. (Fresh /\ Free /\ Admitted /\ Finite)' BY <2>1, <2>5 DEF Fresh, Free, Admitted, Finite, Registered, Uncounting
  <2>3. Counted' BY <2>1, <2>5 DEF Counted, VerifiedOnce, Registered, Adding, Deducted
  <2>4. ASSUME VerifiedOnce' PROVE OnceInv'
    <3>1. VerifiedOnce /\ OnceInv BY <2>1, <2>4 DEF VerifiedOnce
    <3>2. (Passage /\ Named /\ Visited /\ Found /\ Vacant)'
      BY <2>1, <3>1 DEF OnceInv, Passage, InQueue, Placed, Named, Visited, Found, Vacant, Registered
    <3>3. (Deleting /\ Vrified)'
      BY <2>1, <3>1 DEF OnceInv, Deleting, Vrified, OwnersInv, TypeOK
    <3>4. leaving[s] = uid[s] BY <2>1, <3>1 DEF OnceInv, Deleting
    <3>5. Gone' BY <2>1, <3>1, <3>4, ConstantsOK DEF OnceInv, Gone, OwnersInv, TypeOK, ConstantsOK
    <3>6. Evicted' BY <2>1, <3>1 DEF OnceInv, Evicted, Live, OwnersInv, TypeOK
    <3> QED BY <3>1, <3>2, <3>3, <3>5, <3>6 DEF OnceInv
  <2> QED BY <2>2, <2>3, <2>4
<1>3. CASE DelDelete(s)
  <2>1. /\ UNCHANGED <<addChan, mpc, cur, old, admitted, uid, vrifyed, verifies, run>>
        /\ UNCHANGED <<gpc, victim, vkey, leaving>>
        /\ stop' = [stop EXCEPT ![s] = "uncount"]
        /\ stop[s] = "delete" /\ leaving[s] \in Uids
        /\ reg' = [reg EXCEPT ![leaving[s]] = None] /\ count' = count
    BY <1>3 DEF DelDelete, OwnersInv, Leaving
  <2>4. /\ IsFiniteSet(Uncounting') /\ Cardinality(Uncounting') = Cardinality(Uncounting) + 1
        /\ Cardinality(Uncounting) \in Nat
    <3>1. Uncounting' = Uncounting \cup {s} /\ s \notin Uncounting
      BY <2>1 DEF Uncounting, OwnersInv, TypeOK
    <3> QED BY <3>1, RegistrySize DEF Finite
  <2>2. /\ IsFiniteSet(Registered')
        /\ Cardinality(Registered) \in Nat /\ Cardinality(Registered') \in Nat
        /\ Cardinality(Registered) <= Cardinality(Registered') + 1
        /\ Passage => Passage'
        /\ Named => Named'
    BY <2>1, EntryDeleted DEF OwnersInv
  <2>3. (Fresh /\ Free /\ Admitted /\ Finite)' BY <2>1, <2>2, <2>4 DEF Fresh, Free, Admitted, Finite
  <2>5. Counted'
    <3>1. /\ Adding' = Adding /\ Deducted' = Deducted /\ (VerifiedOnce' => VerifiedOnce)
          /\ Adding \in Int /\ Deducted \in Int /\ count \in Int
      BY <2>1 DEF Adding, Deducted, VerifiedOnce, OwnersInv, TypeOK
    <3> QED BY <2>1, <2>2, <2>4, <3>1 DEF Counted
  <2>6. ASSUME VerifiedOnce' PROVE OnceInv'
    <3>1. VerifiedOnce /\ OnceInv BY <2>1, <2>6 DEF VerifiedOnce
    <3>2. leaving[s] = uid[s] BY <2>1, <3>1 DEF OnceInv, Deleting
    <3>3. (Passage /\ Named)' BY <2>2, <3>1 DEF OnceInv
    <3>4. Visited' BY <2>1, <3>1 DEF OnceInv, Visited
    <3>5. (Deleting /\ Vrified)' BY <2>1, <3>1 DEF OnceInv, Deleting, Vrified, OwnersInv, TypeOK
    <3>6. Gone' BY <2>1, <3>1, <3>2, ConstantsOK DEF OnceInv, Gone, OwnersInv, TypeOK, ConstantsOK
    <3>7. (Found /\ Vacant)' BY <2>1, <3>1 DEF OnceInv, Found, Vacant, OwnersInv, TypeOK
    <3>8. Evicted'
      <4>1. SUFFICES ASSUME NEW t \in Sessions, Live(t)', reg'[uid[t]] # t
                     PROVE  \E x \in Sessions \ {t} : uid[x] = uid[t] /\ stop'[x] # "idle"
        BY <2>1 DEF Evicted
      <4>2. t # s /\ Live(t) BY <2>1, <4>1 DEF Live, OwnersInv, TypeOK
      <4>3. CASE reg[uid[t]] # t
        BY <2>1, <3>1, <4>1, <4>2, <4>3 DEF OnceInv, Evicted, OwnersInv, TypeOK
      <4>4. CASE reg[uid[t]] = t
        <5>1. uid[t] = uid[s]
          BY <2>1, <3>2, <4>1, <4>4 DEF OwnersInv, TypeOK, Live, Admitted
        <5> QED BY <2>1, <4>2, <5>1 DEF OwnersInv, TypeOK
      <4> QED BY <4>3, <4>4
    <3> QED BY <3>3, <3>4, <3>5, <3>6, <3>7, <3>8 DEF OnceInv
  <2> QED BY <2>2, <2>3, <2>5, <2>6
<1>4. CASE DelCount(s)
  <2>1. /\ UNCHANGED <<reg, addChan, mpc, cur, old, admitted, uid, vrifyed, verifies, run>>
        /\ UNCHANGED <<gpc, victim, vkey, leaving>>
        /\ stop' = [stop EXCEPT ![s] = "close"]
        /\ stop[s] = "uncount" /\ count' = count - 1
    BY <1>4 DEF DelCount
  <2>2. Uncounting' = Uncounting \ {s} BY <2>1 DEF Uncounting, OwnersInv, TypeOK
  <2>3. /\ IsFiniteSet(Uncounting')
        /\ Cardinality(Uncounting) \in Nat /\ Cardinality(Uncounting') \in Nat
        /\ Cardinality(Uncounting) <= Cardinality(Uncounting') + 1
    BY <2>2, RegistrySize DEF Finite
  <2>4. (Fresh /\ Free /\ Admitted /\ Finite)' BY <2>1, <2>3 DEF Fresh, Free, Admitted, Finite, Registered
  <2>5. Counted'
    <3>1. /\ Cardinality(Registered)' = Cardinality(Registered) /\ Adding' = Adding
          /\ Deducted' = Deducted /\ (VerifiedOnce' => VerifiedOnce)
      BY <2>1 DEF Registered, Adding, Deducted, VerifiedOnce
    <3>2. Adding \in Int /\ Deducted \in Int /\ count \in Int /\ Cardinality(Registered) \in Nat
      BY FS_CardinalityType DEF Adding, Deducted, OwnersInv, TypeOK, Finite
    <3> QED BY <2>1, <2>3, <3>1, <3>2 DEF Counted
  <2>6. ASSUME VerifiedOnce' PROVE OnceInv'
    <3>1. VerifiedOnce /\ OnceInv BY <2>1, <2>6 DEF VerifiedOnce
    <3>2. (Passage /\ Named /\ Visited /\ Found /\ Vacant)'
      BY <2>1, <3>1
      DEF OnceInv, Passage, InQueue, Placed, Named, Visited, Found, Vacant, Registered, OwnersInv, TypeOK
    <3>3. (Deleting /\ Vrified)'
      BY <2>1, <3>1 DEF OnceInv, Deleting, Vrified, OwnersInv, TypeOK
    <3>4. Gone' BY <2>1, <3>1 DEF OnceInv, Gone, OwnersInv, TypeOK
    <3>5. Evicted' BY <2>1, <3>1 DEF OnceInv, Evicted, Live, OwnersInv, TypeOK
    <3> QED BY <3>1, <3>2, <3>3, <3>4, <3>5 DEF OnceInv
  <2> QED BY <2>4, <2>5, <2>6
<1>5. CASE StopClose(s)
  <2>1. /\ UNCHANGED <<reg, count, addChan, mpc, cur, old, admitted, uid, verifies, run>>
        /\ UNCHANGED <<gpc, victim, vkey>>
        /\ vrifyed' = [vrifyed EXCEPT ![s] = FALSE]
        /\ stop' = [stop EXCEPT ![s] = "done"]
        /\ leaving' = [leaving EXCEPT ![s] = None]
        /\ stop[s] = "close"
    BY <1>5 DEF StopClose
  <2>5. Uncounting' = Uncounting BY <2>1 DEF Uncounting, OwnersInv, TypeOK
  <2>2. (Fresh /\ Free /\ Admitted /\ Finite)' BY <2>1, <2>5 DEF Fresh, Free, Admitted, Finite, Registered, Uncounting
  <2>3. Counted' BY <2>1, <2>5 DEF Counted, VerifiedOnce, Registered, Adding, Deducted
  <2>4. ASSUME VerifiedOnce' PROVE OnceInv'
    <3>1. VerifiedOnce /\ OnceInv BY <2>1, <2>4 DEF VerifiedOnce
    <3>2. (Passage /\ Named /\ Visited /\ Found /\ Vacant)'
      BY <2>1, <3>1 DEF OnceInv, Passage, InQueue, Placed, Named, Visited, Found, Vacant, Registered
    <3>3. (Deleting /\ Vrified)'
      BY <2>1, <3>1 DEF OnceInv, Deleting, Vrified, OwnersInv, TypeOK
    <3>4. Gone' BY <2>1, <3>1 DEF OnceInv, Gone, OwnersInv, TypeOK
    <3>5. Evicted' BY <2>1, <3>1 DEF OnceInv, Evicted, Live, OwnersInv, TypeOK
    <3> QED BY <3>1, <3>2, <3>3, <3>4, <3>5 DEF OnceInv
  <2> QED BY <2>2, <2>3, <2>4
<1> QED BY <1>1, <1>2, <1>3, <1>4, <1>5 DEF OnStop

(* A step of SessionMgr.run and add that deletes nothing and stores nothing. *)
LEMMA LoginPasses ==
    ASSUME ConstantsOK, OwnersInv, OwnersInv', LoginInv,
           UNCHANGED <<reg, admitted, uid, vrifyed, verifies, run, leaving, gpc, victim, vkey>>,
           \A t \in Sessions : stop'[t] = stop[t] \/ (stop[t] = "idle" /\ stop'[t] = "check"),
           Free', Counted', VerifiedOnce /\ OnceInv => (Passage /\ Found /\ Vacant)'
    PROVE  LoginInv'
<1> USE DEF LoginInv
<1>3. Uncounting' = Uncounting BY DEF Uncounting
<1>1. (Fresh /\ Admitted /\ Finite)' BY <1>3 DEF Fresh, Admitted, Finite, Registered
<1>2. ASSUME VerifiedOnce' PROVE OnceInv'
  <2>1. VerifiedOnce /\ OnceInv BY <1>2 DEF VerifiedOnce
  <2>2. (Named /\ Visited)'
    BY <2>1 DEF OnceInv, Named, Visited, Registered, OwnersInv, Holding
  <2>3. (Deleting /\ Vrified)' BY <2>1 DEF OnceInv, Deleting, Vrified
  <2>4. Gone' BY <2>1 DEF OnceInv, Gone, OwnersInv, TypeOK
  <2>5. Evicted' BY <2>1 DEF OnceInv, Evicted, Live
  <2> QED BY <2>1, <2>2, <2>3, <2>4, <2>5 DEF OnceInv
<1> QED BY <1>1, <1>2

(* A step of SessionMgr.run and add. *)
LEMMA LoginMgr ==
    ASSUME ConstantsOK, OwnersInv, OwnersInv', LoginInv, Mgr
    PROVE  LoginInv'
<1> USE DEF LoginInv, regVars, mgrVars, sessVars, natsVars, gateVars, MgrGoes
<1>1. CASE AddTake
  <2>1. /\ UNCHANGED <<reg, count, admitted, uid, vrifyed, verifies, run, leaving, gpc, victim, vkey>>
        /\ stop' = stop \/ CallStop(cur')
        /\ mpc = "idle" /\ mpc' \in {"refused", "lookup"}
        /\ cur' = addChan[1] /\ Len(addChan) \in Nat /\ Len(addChan) >= 1
        /\ addChan' = Tail(addChan)
    BY <1>1 DEF AddTake, OwnersInv, TypeOK
  <2>2. /\ Len(addChan') = Len(addChan) - 1 /\ 1 \in 1..Len(addChan)
        /\ \A i \in 1..Len(addChan') : addChan'[i] = addChan[i + 1]
    BY <2>1 DEF OwnersInv, TypeOK
  <2>3. \A t \in Sessions : stop'[t] = stop[t] \/ (stop[t] = "idle" /\ stop'[t] = "check")
    BY <2>1, CallStopMoves DEF OwnersInv, TypeOK
  <2>7. Uncounting' = Uncounting BY <2>3 DEF Uncounting
  <2>4. Free' /\ Counted'
    BY <2>1, <2>7 DEF Free, Counted, VerifiedOnce, Registered, Adding, Deducted
  <2>5. ASSUME Passage PROVE Passage'
    <3>1. SUFFICES ASSUME NEW t \in Sessions
          PROVE /\ run'[t] = "add" => ~InQueue(t)' /\ cur' # t /\ ~Placed(t)'
                /\ InQueue(t)' => cur' # t /\ ~Placed(t)'
                /\ \A i, j \in 1..Len(addChan') : addChan'[i] = t /\ addChan'[j] = t => i = j
                /\ cur' = t => ~Placed(t)'
      BY DEF Passage
    <3>2. Placed(t)' <=> Placed(t) BY <2>1 DEF Placed
    <3>3. /\ InQueue(t)' => InQueue(t)
          /\ \A i \in 1..Len(addChan') : i + 1 \in 1..Len(addChan)
      BY <2>1, <2>2 DEF InQueue
    <3>4. cur' = t => InQueue(t) BY <2>1, <2>2 DEF InQueue
    <3>5. \A i, j \in 1..Len(addChan') : addChan'[i] = t /\ addChan'[j] = t => i = j
      <4>1. SUFFICES ASSUME NEW i \in 1..Len(addChan'), NEW j \in 1..Len(addChan'),
                            addChan'[i] = t, addChan'[j] = t
                     PROVE  i = j
        OBVIOUS
      <4>2. addChan[i + 1] = t /\ addChan[j + 1] = t /\ i \in Int /\ j \in Int BY <2>2, <4>1
      <4>3. i + 1 = j + 1 BY <2>5, <3>3, <4>2 DEF Passage
      <4> QED BY <4>2, <4>3
    <3>6. InQueue(t)' => cur' # t
      <4>1. SUFFICES ASSUME NEW i \in 1..Len(addChan'), addChan'[i] = t, cur' = t PROVE FALSE
        BY DEF InQueue
      <4>2. addChan[i + 1] = t /\ addChan[1] = t /\ i \in Nat /\ i > 0 BY <2>1, <2>2, <4>1
      <4>3. i + 1 = 1 BY <2>1, <2>5, <3>3, <4>2 DEF Passage
      <4> QED BY <4>2, <4>3
    <3> QED BY <2>1, <2>5, <3>2, <3>3, <3>4, <3>5, <3>6 DEF Passage
  <2>6. VerifiedOnce /\ OnceInv => (Passage /\ Found /\ Vacant)'
    BY <2>1, <2>5 DEF OnceInv, Found, Vacant
  <2> QED BY <2>1, <2>3, <2>4, <2>6, LoginPasses
<1>2. CASE AddRefused
  <2>1. /\ Free' /\ Counted'
        /\ VerifiedOnce /\ OnceInv => (Passage /\ Found /\ Vacant)'
    BY <1>2, ConstantsOK DEF AddRefused, Free, Counted, VerifiedOnce, Registered, Adding, Uncounting, Deducted,
       OnceInv, Passage, InQueue, Placed, Found, Vacant, ConstantsOK
  <2> QED BY <1>2, <2>1, LoginPasses DEF AddRefused
<1>3. CASE AddLookup
  <2>1. uid[cur] \in Uids /\ count \in Int /\ mpc = "lookup"
    BY <1>3 DEF AddLookup, OwnersInv, TypeOK, Handling
  <2>2. CASE reg[uid[cur]] # None
    <3>1. mpc' = "replace" /\ old' = reg[uid[cur]] /\ count' = count
      BY <1>3, <2>2 DEF AddLookup
    <3>2. /\ Free' /\ Counted'
          /\ VerifiedOnce /\ OnceInv => (Passage /\ Found /\ Vacant)'
      BY <1>3, <2>1, <3>1 DEF AddLookup, Free, Counted, VerifiedOnce, Registered, Adding, Uncounting, Deducted,
         OnceInv, Passage, InQueue, Placed, Found, Vacant
    <3> QED BY <1>3, <3>2, LoginPasses DEF AddLookup
  <2>3. CASE reg[uid[cur]] = None
    <3>1. mpc' = "sign" /\ count' = count + 1 /\ UNCHANGED <<reg, cur, uid, verifies, stop, gpc>>
      BY <1>3, <2>3 DEF AddLookup
    <3>2. Cardinality(Registered) \in Nat /\ Cardinality(Uncounting) \in Nat
      BY FS_CardinalityType DEF Finite
    <3>5. /\ Registered' = Registered /\ Uncounting' = Uncounting /\ Deducted' = Deducted
          /\ Adding' = 1 /\ Adding = 0 /\ Deducted \in Int
      BY <2>1, <3>1 DEF Registered, Uncounting, Deducted, Adding
    <3>3. Counted'
      BY <2>1, <3>1, <3>2, <3>5 DEF Counted, VerifiedOnce
    <3>4. Free' /\ (VerifiedOnce /\ OnceInv => (Passage /\ Found /\ Vacant)')
      BY <1>3, <2>3, <3>1 DEF AddLookup, Free, OnceInv, Passage, InQueue, Placed, Found, Vacant
    <3> QED BY <1>3, <3>3, <3>4, LoginPasses DEF AddLookup
  <2> QED BY <2>2, <2>3
<1>4. CASE AddReplace
  <2>1. /\ uid[cur] \in Uids /\ old \in Sessions /\ count \in Int /\ cur \in Sessions
        /\ mpc = "replace" /\ mpc' = "replaced"
        /\ reg' = [reg EXCEPT ![uid[cur]] = None]
        /\ stop' = [stop EXCEPT ![old] = IF @ = "idle" THEN "check" ELSE @]
        /\ UNCHANGED <<count, addChan, cur, old, admitted, uid, vrifyed, verifies, run, leaving>>
        /\ UNCHANGED <<gpc, victim, vkey>>
    BY <1>4 DEF AddReplace, CallStop, OwnersInv, TypeOK, Handling
  <2>2. /\ IsFiniteSet(Registered')
        /\ Cardinality(Registered) \in Nat /\ Cardinality(Registered') \in Nat
        /\ Cardinality(Registered) <= Cardinality(Registered') + 1
        /\ Passage => Passage'
        /\ Named => Named'
    BY <2>1, EntryDeleted DEF OwnersInv
  <2>6. /\ Uncounting' = Uncounting /\ Cardinality(Uncounting) \in Nat
        /\ Cardinality(Uncounting') = Cardinality(Uncounting)
    <3>1. Uncounting' = Uncounting BY <2>1 DEF Uncounting, OwnersInv, TypeOK
    <3> QED BY <3>1, FS_CardinalityType DEF Finite
  <2>3. (Fresh /\ Free /\ Admitted /\ Finite)'
    BY <2>1, <2>2, <2>6 DEF Fresh, Free, Admitted, Finite
  <2>4. Counted'
    <3>1. Adding' = 1 /\ Adding = 0 /\ Deducted' = Deducted /\ Deducted \in Int
      BY <2>1 DEF Adding, Deducted
    <3> QED BY <2>1, <2>2, <2>6, <3>1 DEF Counted, VerifiedOnce
  <2>5. ASSUME VerifiedOnce' PROVE OnceInv'
    <3>1. VerifiedOnce /\ OnceInv BY <2>1, <2>5 DEF VerifiedOnce
    <3>2. (Visited /\ Found /\ Vacant)'
      BY <2>1, <3>1 DEF OnceInv, Visited, Found, Vacant, OwnersInv, TypeOK
    <3>3. (Deleting /\ Vrified)' BY <2>1, <3>1 DEF OnceInv, Deleting, Vrified, OwnersInv, TypeOK
    <3>4. Gone' BY <2>1, <3>1, ConstantsOK DEF OnceInv, Gone, OwnersInv, TypeOK, ConstantsOK
    <3>5. Evicted'
      <4>1. SUFFICES ASSUME NEW t \in Sessions, Live(t)', reg'[uid[t]] # t
                     PROVE  \E x \in Sessions \ {t} : uid[x] = uid[t] /\ stop'[x] # "idle"
        BY <2>1 DEF Evicted
      <4>2. t # old /\ Live(t) BY <2>1, <4>1 DEF Live, OwnersInv, TypeOK
      <4>3. reg[uid[t]] # t
        <5>1. uid[t] \in Uids BY <4>2 DEF Live, Admitted, OwnersInv, TypeOK
        <5>2. CASE uid[t] = uid[cur]
          BY <2>1, <3>1, <4>2, <5>2, ConstantsOK DEF OnceInv, Found, ConstantsOK
        <5>3. CASE uid[t] # uid[cur]
          BY <2>1, <4>1, <5>1, <5>3 DEF OwnersInv, TypeOK
        <5> QED BY <5>2, <5>3
      <4> QED BY <2>1, <3>1, <4>2, <4>3 DEF OnceInv, Evicted, OwnersInv, TypeOK
    <3> QED BY <2>2, <3>1, <3>2, <3>3, <3>4, <3>5 DEF OnceInv
  <2> QED BY <2>2, <2>3, <2>4, <2>5
<1>5. CASE AddReplaced
  <2>1. /\ Free' /\ Counted'
        /\ VerifiedOnce /\ OnceInv => (Passage /\ Found /\ Vacant)'
    BY <1>5 DEF AddReplaced, Free, Counted, VerifiedOnce, Registered, Adding, Uncounting, Deducted,
       OnceInv, Passage, InQueue, Placed, Found, Vacant
  <2> QED BY <1>5, <2>1, LoginPasses DEF AddReplaced
<1>6. CASE AddSign
  <2>1. /\ Free' /\ Counted'
        /\ VerifiedOnce /\ OnceInv => (Passage /\ Found /\ Vacant)'
    BY <1>6 DEF AddSign, Free, Counted, VerifiedOnce, Registered, Adding, Uncounting, Deducted,
       OnceInv, Passage, InQueue, Placed, Found, Vacant
  <2> QED BY <1>6, <2>1, LoginPasses DEF AddSign
<1>7. CASE AddPush
  <2>1. /\ Free' /\ Counted'
        /\ VerifiedOnce /\ OnceInv => (Passage /\ Found /\ Vacant)'
    BY <1>7 DEF AddPush, Free, Counted, VerifiedOnce, Registered, Adding, Uncounting, Deducted,
       OnceInv, Passage, InQueue, Placed, Found, Vacant
  <2> QED BY <1>7, <2>1, LoginPasses DEF AddPush
<1>8. CASE AddStore
  <2>1. /\ mpc = "store" /\ mpc' = "idle" /\ cur' = None
        /\ reg' = [reg EXCEPT ![uid[cur]] = IF @ = None THEN cur ELSE @]
        /\ admitted' = IF reg[uid[cur]] = None /\ stop[cur] = "idle"
                       THEN admitted \cup {cur} ELSE admitted
        /\ UNCHANGED <<count, addChan, old, uid, vrifyed, verifies, run, leaving, stop>>
        /\ UNCHANGED <<gpc, victim, vkey>>
        /\ cur \in Sessions /\ uid[cur] \in Uids /\ count \in Int
    BY <1>8 DEF AddStore, OwnersInv, TypeOK, Handling
  <2>2. Registered' = Registered \cup {uid[cur]}
    BY <2>1, ConstantsOK DEF Registered, OwnersInv, TypeOK, ConstantsOK
  <2>3. (Fresh /\ Free /\ Admitted)'
    BY <2>1, ConstantsOK DEF Fresh, Free, Admitted, ConstantsOK
  <2>8. Uncounting' = Uncounting BY <2>1 DEF Uncounting
  <2>4. Finite' BY <2>2, <2>8, RegistrySize DEF Finite
  <2>5. ASSUME VerifiedOnce' PROVE VerifiedOnce /\ OnceInv /\ reg[uid[cur]] = None
    BY <2>1, <2>5 DEF VerifiedOnce, OnceInv, Vacant
  <2>6. Counted'
    <3>1. SUFFICES ASSUME VerifiedOnce' PROVE
              count' + Deducted' <= Cardinality(Registered)' + Adding' + Cardinality(Uncounting)'
      BY DEF Counted
    <3>2. count + Deducted <= Cardinality(Registered) + Adding + Cardinality(Uncounting)
      BY <2>5, <3>1 DEF Counted
    <3>3. uid[cur] \notin Registered BY <2>5, <3>1 DEF Registered
    <3>4. Cardinality(Registered') = Cardinality(Registered) + 1 /\ Cardinality(Registered) \in Nat
      BY <2>2, <3>3, RegistrySize DEF Finite
    <3>5. /\ Adding' = 0 /\ Adding = 1 /\ Deducted' = Deducted /\ Deducted \in Int
          /\ Cardinality(Uncounting)' = Cardinality(Uncounting) /\ Cardinality(Uncounting) \in Nat
      BY <2>1, <2>8, FS_CardinalityType DEF Adding, Deducted, Finite
    <3> QED BY <2>1, <3>2, <3>4, <3>5
  <2>7. ASSUME VerifiedOnce' PROVE OnceInv'
    <3>1. VerifiedOnce /\ OnceInv /\ reg[uid[cur]] = None BY <2>5, <2>7
    <3>2. reg' = [reg EXCEPT ![uid[cur]] = cur] BY <2>1, <3>1
    <3>3. Passage'
      <4>1. \A t \in Sessions : t # cur => (Placed(t)' => Placed(t))
        BY <2>1, <3>2 DEF Placed, OwnersInv, TypeOK
      <4> QED BY <2>1, <3>1, <4>1, ConstantsOK DEF OnceInv, Passage, InQueue, ConstantsOK
    <3>4. (Named /\ Visited /\ Found /\ Vacant)'
      BY <2>1, <3>1, <3>2 DEF OnceInv, Named, Visited, Found, Vacant, Registered, OwnersInv, TypeOK
    <3>5. (Deleting /\ Vrified)' BY <2>1, <3>1 DEF OnceInv, Deleting, Vrified
    <3>6. cur \notin admitted BY <2>1, <3>1 DEF OnceInv, Passage, Placed
    <3>7. Gone' BY <2>1, <3>1, <3>2, <3>6 DEF OnceInv, Gone, OwnersInv, TypeOK
    <3>8. Evicted'
      <4>1. SUFFICES ASSUME NEW t \in Sessions, Live(t)', reg'[uid[t]] # t
                     PROVE  \E x \in Sessions \ {t} : uid[x] = uid[t] /\ stop[x] # "idle"
        BY <2>1 DEF Evicted
      <4>2. t # cur BY <2>1, <3>2, <4>1 DEF OwnersInv, TypeOK
      <4>3. Live(t) BY <2>1, <4>1, <4>2 DEF Live
      <4>4. reg[uid[t]] # t
        BY <2>1, <3>1, <3>2, <4>1, <4>2, <4>3, ConstantsOK
        DEF OwnersInv, TypeOK, ConstantsOK, Live, Admitted
      <4> QED BY <3>1, <4>3, <4>4 DEF OnceInv, Evicted
    <3> QED BY <3>3, <3>4, <3>5, <3>7, <3>8 DEF OnceInv
  <2> QED BY <2>3, <2>4, <2>6, <2>7
<1> QED BY <1>1, <1>2, <1>3, <1>4, <1>5, <1>6, <1>7, <1>8 DEF Mgr

(* A step of Server.Stop. *)
LEMMA LoginGate ==
    ASSUME ConstantsOK, OwnersInv, OwnersInv', LoginInv, Gate
    PROVE  LoginInv'
<1> USE DEF LoginInv, regVars, mgrVars, sessVars, natsVars, gateVars
<1>1. CASE RangeDelete
  <2>1. /\ UNCHANGED <<addChan, mpc, cur, old, admitted, uid, vrifyed, verifies, run, stop, leaving>>
        /\ gpc = "deleting" /\ gpc' = "range"
        /\ vkey \in Uids /\ victim \in Sessions /\ count \in Int
        /\ reg' = [reg EXCEPT ![vkey] = None] /\ count' = count
    BY <1>1 DEF RangeDelete, OwnersInv, TypeOK, Holding
  <2>2. /\ IsFiniteSet(Registered')
        /\ Cardinality(Registered) \in Nat /\ Cardinality(Registered') \in Nat
        /\ Cardinality(Registered) <= Cardinality(Registered') + 1
        /\ Passage => Passage'
        /\ Named => Named'
    BY <2>1, EntryDeleted DEF OwnersInv
  <2>6. Uncounting' = Uncounting BY <2>1 DEF Uncounting
  <2>3. (Fresh /\ Free /\ Admitted /\ Finite)'
    BY <2>1, <2>2, <2>6 DEF Fresh, Free, Admitted, Finite
  <2>4. Counted'
    <3>1. /\ Adding' = Adding /\ Adding \in Int /\ Deducted = 1 /\ Deducted' = 0
          /\ Cardinality(Uncounting)' = Cardinality(Uncounting) /\ Cardinality(Uncounting) \in Nat
      BY <2>1, <2>6, FS_CardinalityType DEF Adding, Deducted, Finite
    <3>2. VerifiedOnce' =>
              count + Deducted <= Cardinality(Registered) + Adding + Cardinality(Uncounting)
      BY <2>1 DEF Counted, VerifiedOnce
    <3> QED BY <2>1, <2>2, <3>1, <3>2 DEF Counted
  <2>5. ASSUME VerifiedOnce' PROVE OnceInv'
    <3>1. VerifiedOnce /\ OnceInv BY <2>1, <2>5 DEF VerifiedOnce
    <3>2. (Visited /\ Deleting /\ Vrified)' BY <2>1, <3>1 DEF OnceInv, Visited, Deleting, Vrified
    <3>3. (Found /\ Vacant)' BY <2>1, <3>1 DEF OnceInv, Found, Vacant, OwnersInv, TypeOK
    <3>4. Gone'
      <4>1. \A t \in admitted : t \in Sessions /\ uid[t] \in Uids
        BY DEF Admitted, OwnersInv, TypeOK
      <4> QED BY <2>1, <3>1, <4>1, ConstantsOK DEF OnceInv, Gone, OwnersInv, TypeOK, ConstantsOK
    <3>5. Evicted'
      <4>1. SUFFICES ASSUME NEW t \in Sessions, Live(t)', reg'[uid[t]] # t
                     PROVE  \E x \in Sessions \ {t} : uid[x] = uid[t] /\ stop[x] # "idle"
        BY <2>1 DEF Evicted
      <4>2. t # victim /\ Live(t) BY <2>1, <3>1, <4>1 DEF OnceInv, Visited, Live
      <4>3. CASE uid[t] = vkey
        BY <2>1, <3>1, <4>2, <4>3 DEF OnceInv, Visited
      <4>4. CASE uid[t] # vkey
        <5>1. uid[t] \in Uids BY <4>2 DEF Live, Admitted, OwnersInv, TypeOK
        <5> QED BY <2>1, <3>1, <4>1, <4>2, <4>4, <5>1 DEF OnceInv, Evicted, OwnersInv, TypeOK
      <4> QED BY <4>3, <4>4
    <3> QED BY <2>2, <3>1, <3>2, <3>3, <3>4, <3>5 DEF OnceInv
  <2> QED BY <2>2, <2>3, <2>4, <2>5
<1>4. CASE RangeCount
  <2>1. /\ UNCHANGED <<reg, addChan, mpc, cur, old, admitted, uid, vrifyed, verifies, run>>
        /\ UNCHANGED <<stop, leaving, victim, vkey>>
        /\ gpc = "stopping" /\ gpc' = "deleting" /\ Stopped(victim)
        /\ count \in Int /\ count' = count - 1
    BY <1>4 DEF RangeCount, OwnersInv, TypeOK
  <2>2. (Fresh /\ Free /\ Admitted /\ Finite)'
    BY <2>1 DEF Fresh, Free, Admitted, Finite, Registered, Uncounting
  <2>3. Counted'
    <3>1. Registered' = Registered /\ Uncounting' = Uncounting /\ Adding' = Adding
      BY <2>1 DEF Registered, Uncounting, Adding
    <3>2. Deducted' = 1 /\ Deducted = 0 BY <2>1 DEF Deducted
    <3> QED BY <2>1, <3>1, <3>2 DEF Counted, VerifiedOnce
  <2>4. ASSUME VerifiedOnce' PROVE OnceInv'
    <3>1. VerifiedOnce /\ OnceInv BY <2>1, <2>4 DEF VerifiedOnce
    <3>2. (Passage /\ Named /\ Deleting /\ Vrified /\ Gone /\ Found /\ Vacant /\ Evicted)'
      BY <2>1, <3>1
      DEF OnceInv, Passage, InQueue, Placed, Named, Deleting, Vrified, Gone, Found, Vacant,
          Evicted, Live, Registered
    <3>3. Visited' BY <2>1, <3>1 DEF OnceInv, Visited, Stopped
    <3> QED BY <3>2, <3>3 DEF OnceInv
  <2> QED BY <2>2, <2>3, <2>4
<1>2. CASE RangeEnds
  <2>1. VerifiedOnce /\ OnceInv => Visited' BY <1>2 DEF RangeEnds, Visited
  <2> QED BY <1>2, <2>1, LoginQuiet DEF RangeEnds
<1>3. CASE \E u \in Uids : RangeVisit(u)
  <2>1. PICK u \in Uids : RangeVisit(u) BY <1>3
  <2>2. stop' = stop \/ CallStop(reg[u]) BY <2>1 DEF RangeVisit
  <2>3. \A t \in Sessions : stop'[t] = stop[t] \/ (stop[t] = "idle" /\ stop'[t] = "check")
    BY <2>2, CallStopMoves DEF OwnersInv, TypeOK
  <2>4. VerifiedOnce /\ OnceInv => Visited'
    BY <2>1 DEF RangeVisit, OnceInv, Visited, Named, Registered
  <2> QED BY <2>1, <2>3, <2>4, LoginQuiet DEF RangeVisit
<1> QED BY <1>1, <1>2, <1>3, <1>4 DEF Gate

(* A step of the publish handler, once it has a message. *)
LEMMA LoginNats ==
    ASSUME ConstantsOK, OwnersInv, OwnersInv', LoginInv, Nats
    PROVE  LoginInv'
<1>1. /\ UNCHANGED <<reg, count, addChan, mpc, cur, old, admitted, uid, vrifyed, verifies, leaving>>
      /\ UNCHANGED <<run, gpc, victim, vkey>>
      /\ stop' = stop \/ \E s : CallStop(s)
  BY DEF Nats, ReceiveSend, ReceivePush, KickPush, Kicked, WalkEnds, WalkSkip, WalkKick,
         CastSend, CastPush, regVars, mgrVars, sessVars, natsVars, gateVars
<1>2. \A t \in Sessions : stop'[t] = stop[t] \/ (stop[t] = "idle" /\ stop'[t] = "check")
  BY <1>1, CallStopMoves DEF OwnersInv, TypeOK
<1>3. VerifiedOnce /\ OnceInv => Visited'
  BY <1>1, <1>2 DEF OnceInv, Visited, OwnersInv, Holding
<1> QED BY <1>1, <1>2, <1>3, LoginQuiet

(* A step of Session.run of its own accord. *)
LEMMA LoginRun ==
    ASSUME ConstantsOK, OwnersInv, OwnersInv', LoginInv, NEW s \in Sessions, RunSteps(s)
    PROVE  LoginInv'
<1> USE DEF regVars, mgrVars, sessVars, natsVars, gateVars
<1>1. CASE AddSession(s)
  <2>1. /\ UNCHANGED <<reg, count, mpc, cur, old, admitted, uid, vrifyed, verifies, leaving, stop>>
        /\ UNCHANGED <<gpc, victim, vkey>>
        /\ run[s] = "add" /\ run' = [run EXCEPT ![s] = "select"]
        /\ addChan' = Append(addChan, s)
    BY <1>1 DEF AddSession
  <2>2. /\ Len(addChan) \in Nat /\ Len(addChan') = Len(addChan) + 1
        /\ addChan'[Len(addChan) + 1] = s
        /\ \A i \in 1..Len(addChan) : addChan'[i] = addChan[i]
        /\ \A i \in 1..Len(addChan') : i = Len(addChan) + 1 \/ i \in 1..Len(addChan)
    <3>1. addChan \in Seq(Sessions) /\ Len(addChan) \in Nat BY DEF OwnersInv, TypeOK
    <3>2. /\ Len(addChan') = Len(addChan) + 1
          /\ \A i \in 1..Len(addChan) : addChan'[i] = addChan[i]
          /\ addChan'[Len(addChan) + 1] = s
      BY <2>1, <3>1
    <3> QED BY <3>1, <3>2
  <2>3. (Fresh /\ Free /\ Admitted /\ Finite)'
    BY <2>1 DEF LoginInv, Fresh, Free, Admitted, Finite, Registered, Uncounting
  <2>4. Counted' BY <2>1 DEF LoginInv, Counted, VerifiedOnce, Registered, Adding, Uncounting, Deducted
  <2>5. ASSUME VerifiedOnce' PROVE OnceInv'
    <3>1. VerifiedOnce /\ OnceInv BY <2>1, <2>5 DEF LoginInv, VerifiedOnce
    <3>2. (Named /\ Deleting /\ Visited /\ Vrified /\ Gone /\ Found /\ Vacant)'
      BY <2>1, <3>1
      DEF OnceInv, Named, Deleting, Visited, Vrified, Gone, Found, Vacant, Registered
    <3>3. Evicted' BY <2>1, <3>1 DEF OnceInv, Evicted, Live
    <3>4. Passage'
      <4>1. \A t \in Sessions : Placed(t)' <=> Placed(t) BY <2>1 DEF Placed
      <4>2. ~InQueue(s) /\ cur # s /\ ~Placed(s) BY <2>1, <3>1 DEF OnceInv, Passage
      <4>3. \A t \in Sessions : t # s => (InQueue(t)' <=> InQueue(t)) BY <2>2 DEF InQueue
      <4>4. \A t \in Sessions : run'[t] = "add" => t # s /\ run[t] = "add"
        BY <2>1 DEF OwnersInv, TypeOK
      <4>5. \A t \in Sessions : \A i, j \in 1..Len(addChan') :
               addChan'[i] = t /\ addChan'[j] = t => i = j
        <5>1. SUFFICES ASSUME NEW t \in Sessions, NEW i \in 1..Len(addChan'), NEW j \in 1..Len(addChan'),
                              addChan'[i] = t, addChan'[j] = t
                       PROVE  i = j
          OBVIOUS
        <5>2. CASE i \in 1..Len(addChan) /\ j \in 1..Len(addChan)
          BY <2>2, <3>1, <5>1, <5>2 DEF OnceInv, Passage
        <5>3. CASE i = Len(addChan) + 1 \/ j = Len(addChan) + 1
          BY <2>2, <4>2, <5>1, <5>3 DEF InQueue
        <5> QED BY <2>2, <5>2, <5>3
      <4> QED BY <2>1, <3>1, <4>1, <4>2, <4>3, <4>4, <4>5 DEF OnceInv, Passage
    <3> QED BY <3>2, <3>3, <3>4 DEF OnceInv
  <2> QED BY <2>3, <2>4, <2>5 DEF LoginInv
<1>2. CASE TakeReply(s)
  <2>1. VerifiedOnce /\ OnceInv => Visited' BY <1>2 DEF TakeReply, OnceInv, Visited
  <2> QED BY <1>2, <2>1, LoginQuiet DEF TakeReply
<1>3. CASE RunExits(s)
  <2>1. VerifiedOnce /\ OnceInv => Visited' BY <1>3 DEF RunExits, OnceInv, Visited
  <2>2. \A t \in Sessions : run'[t] = "add" => run[t] = "add"
    BY <1>3 DEF RunExits, OwnersInv, TypeOK
  <2> QED BY <1>3, <2>1, <2>2, LoginQuiet DEF RunExits
<1> QED BY <1>1, <1>2, <1>3 DEF RunSteps

(* What clients, the clock and the back end bring about. *)
LEMMA LoginEnvironment ==
    ASSUME ConstantsOK, OwnersInv, OwnersInv', LoginInv, Environment
    PROVE  LoginInv'
<1> USE DEF regVars, mgrVars, sessVars, natsVars, gateVars
<1>1. CASE \E s \in Sessions : Accept(s)
  <2>1. PICK s \in Sessions : Accept(s) BY <1>1
  <2>2. VerifiedOnce /\ OnceInv => Visited' BY <2>1 DEF Accept, OnceInv, Visited
  <2>3. \A t \in Sessions : run'[t] = "add" => run[t] = "add"
    BY <2>1 DEF Accept, OwnersInv, TypeOK
  <2> QED BY <2>1, <2>2, <2>3, LoginQuiet DEF Accept
<1>2. CASE \E s \in Sessions : VerifyFails(s)
  <2>1. PICK s \in Sessions : VerifyFails(s) BY <1>2
  <2>2. /\ UNCHANGED <<reg, count, addChan, mpc, cur, old, admitted, uid, run, leaving, stop>>
        /\ UNCHANGED <<gpc, victim, vkey>>
        /\ vrifyed' = [vrifyed EXCEPT ![s] = FALSE]
        /\ verifies' = [verifies EXCEPT ![s] = @ + 1]
    BY <2>1 DEF VerifyFails
  <2>3. \A t \in Sessions : verifies[t] \in Nat /\ verifies[t] <= verifies'[t]
    BY <2>2 DEF OwnersInv, TypeOK
  <2>4. VerifiedOnce' => VerifiedOnce BY <2>3 DEF VerifiedOnce, OwnersInv, TypeOK
  <2>5. (Fresh /\ Free /\ Admitted /\ Finite)'
    BY <2>2 DEF LoginInv, Fresh, Free, Admitted, Finite, Registered, Uncounting, OwnersInv, TypeOK
  <2>6. Counted' BY <2>2, <2>4 DEF LoginInv, Counted, Registered, Adding, Uncounting, Deducted
  <2>7. ASSUME VerifiedOnce' PROVE OnceInv'
    <3>1. VerifiedOnce /\ OnceInv BY <2>4, <2>7 DEF LoginInv
    <3>2. (Passage /\ Named /\ Deleting /\ Visited /\ Gone /\ Found /\ Vacant /\ Evicted)'
      BY <2>2, <3>1
      DEF OnceInv, Passage, InQueue, Placed, Named, Deleting, Visited, Gone, Found, Vacant,
          Evicted, Live, Registered
    <3>3. uid[s] = None BY <2>2, <2>7 DEF LoginInv, Fresh, VerifiedOnce, OwnersInv, TypeOK
    <3>4. Vrified' BY <2>2, <3>1, <3>3 DEF OnceInv, Vrified, OwnersInv, TypeOK
    <3> QED BY <3>2, <3>4 DEF OnceInv
  <2> QED BY <2>5, <2>6, <2>7 DEF LoginInv
<1>3. CASE \E s \in Sessions : ConnectionFails(s)
  <2>1. PICK s \in Sessions : ConnectionFails(s) BY <1>3
  <2>3. \A t \in Sessions : stop'[t] = stop[t] \/ (stop[t] = "idle" /\ stop'[t] = "check")
    BY <2>1, CallStopMoves DEF ConnectionFails, OwnersInv, TypeOK
  <2>2. VerifiedOnce /\ OnceInv => Visited'
    BY <2>1, <2>3 DEF ConnectionFails, OnceInv, Visited, OwnersInv, Holding
  <2> QED BY <2>1, <2>2, <2>3, LoginQuiet DEF ConnectionFails
<1>4. CASE \E s \in Sessions, u \in Uids : VerifySucceeds(s, u)
  <2>1. PICK s \in Sessions, u \in Uids : VerifySucceeds(s, u) BY <1>4
  <2>2. /\ UNCHANGED <<reg, count, addChan, mpc, cur, old, admitted, leaving, stop>>
        /\ UNCHANGED <<gpc, victim, vkey>>
        /\ uid' = [uid EXCEPT ![s] = u]
        /\ vrifyed' = [vrifyed EXCEPT ![s] = TRUE]
        /\ verifies' = [verifies EXCEPT ![s] = @ + 1]
        /\ run' = [run EXCEPT ![s] = "add"]
    BY <2>1 DEF VerifySucceeds
  <2>3. \A t \in Sessions : verifies[t] \in Nat /\ verifies[t] <= verifies'[t]
    BY <2>2 DEF OwnersInv, TypeOK
  <2>4. VerifiedOnce' => VerifiedOnce BY <2>3 DEF VerifiedOnce, OwnersInv, TypeOK
  <2>5. (Fresh /\ Free /\ Admitted /\ Finite)'
    BY <2>2, ConstantsOK
    DEF LoginInv, Fresh, Free, Admitted, Finite, Registered, Uncounting, OwnersInv, TypeOK, ConstantsOK
  <2>6. Counted' BY <2>2, <2>4 DEF LoginInv, Counted, Registered, Adding, Uncounting, Deducted
  <2>7. ASSUME VerifiedOnce' PROVE OnceInv'
    <3>1. VerifiedOnce /\ OnceInv BY <2>4, <2>7 DEF LoginInv
    <3>2. uid[s] = None BY <2>2, <2>7 DEF LoginInv, Fresh, VerifiedOnce, OwnersInv, TypeOK
    \* A connection that has no id yet is nowhere on the way.
    <3>3. /\ ~InQueue(s) /\ cur # s /\ ~Placed(s)
          /\ \A v \in Uids : reg[v] # s
          /\ \A t \in Sessions : stop[t] \in {"lookup", "delete"} => uid[t] # None
          /\ gpc \in {"stopping", "deleting"} => victim # s
      <4>1. ~InQueue(s) BY <3>2 DEF InQueue, OwnersInv, Queued
      <4>2. cur # s BY <3>2, ConstantsOK DEF LoginInv, Free, OwnersInv, Handling, ConstantsOK
      <4>3. \A v \in Uids : reg[v] # s
        BY <3>1, <3>2, ConstantsOK DEF OnceInv, Named, Registered, ConstantsOK
      <4>4. ~Placed(s) BY <3>2, <4>3 DEF Placed, LoginInv, Admitted
      <4>5. \A t \in Sessions : stop[t] \in {"lookup", "delete"} => uid[t] # None
        BY <3>1, ConstantsOK DEF OnceInv, Deleting, OwnersInv, Leaving, ConstantsOK
      <4>6. gpc \in {"stopping", "deleting"} => victim # s
        BY <3>1, <3>2, ConstantsOK DEF OnceInv, Visited, OwnersInv, Holding, ConstantsOK
      <4> QED BY <4>1, <4>2, <4>3, <4>4, <4>5, <4>6
    <3>4. \A t \in Sessions : t # s => uid'[t] = uid[t] /\ run'[t] = run[t]
      BY <2>2 DEF OwnersInv, TypeOK
    <3>5. Passage'
      BY <2>2, <3>1, <3>3, <3>4 DEF OnceInv, Passage, InQueue, Placed
    <3>6. Named' BY <2>2, <3>1, <3>3, <3>4 DEF OnceInv, Named, Registered, OwnersInv, TypeOK
    <3>7. (Deleting /\ Visited)'
      BY <2>2, <3>1, <3>2, <3>3, <3>4 DEF OnceInv, Deleting, Visited, OwnersInv, Holding
    <3>8. Vrified' BY <2>2, <3>1 DEF OnceInv, Vrified, OwnersInv, TypeOK
    <3>9. \A t \in admitted : t # s BY <3>3 DEF Placed
    <3>10. Gone' BY <2>2, <3>1, <3>4, <3>9 DEF OnceInv, Gone, OwnersInv, TypeOK
    <3>11. (Found /\ Vacant)'
      BY <2>2, <3>1, <3>3, <3>4 DEF OnceInv, Found, Vacant, OwnersInv, Handling
    <3>12. Evicted'
      <4>1. SUFFICES ASSUME NEW t \in Sessions, Live(t), reg[uid'[t]] # t
                     PROVE  \E x \in Sessions \ {t} : uid'[x] = uid'[t] /\ stop[x] # "idle"
        BY <2>2 DEF Evicted, Live
      <4>2. t # s /\ uid[t] # None BY <3>9, <4>1 DEF Live, LoginInv, Admitted
      <4>3. PICK x \in Sessions \ {t} : uid[x] = uid[t] /\ stop[x] # "idle"
        BY <3>1, <3>4, <4>1, <4>2 DEF OnceInv, Evicted
      <4> QED BY <3>2, <3>4, <4>2, <4>3
    <3> QED BY <3>5, <3>6, <3>7, <3>8, <3>10, <3>11, <3>12 DEF OnceInv
  <2> QED BY <2>5, <2>6, <2>7 DEF LoginInv
<1>5. CASE (\E u \in Uids : Expire(u) \/ Receive(u)) \/ BroatCast \/ StopAllSession
  <2>1. /\ UNCHANGED <<reg, count, addChan, mpc, cur, old, admitted, uid, vrifyed, verifies, leaving>>
        /\ UNCHANGED <<run, stop, victim, vkey>> /\ gpc' \in {gpc, "range"}
    BY <1>5 DEF Expire, Receive, BroatCast, StopAllSession
  <2>2. VerifiedOnce /\ OnceInv => Visited' BY <2>1 DEF OnceInv, Visited
  <2>3. gpc' = "deleting" <=> gpc = "deleting"
    BY <1>5 DEF Expire, Receive, BroatCast, StopAllSession
  <2> QED BY <2>1, <2>2, <2>3, LoginQuiet
<1> QED BY <1>1, <1>2, <1>3, <1>4, <1>5 DEF Environment

(* The initial state. *)
LEMMA LoginInit == ASSUME ConstantsOK PROVE Init => LoginInv
<1> SUFFICES ASSUME Init PROVE LoginInv
  OBVIOUS
<1>1. /\ Registered = {} /\ addChan = <<>> /\ mpc = "idle" /\ cur = None /\ gpc = "serving"
      /\ admitted = {} /\ count = 0
      /\ \A u \in Uids : reg[u] = None
      /\ \A s \in Sessions : run[s] = "off" /\ uid[s] = None /\ stop[s] = "idle"
  BY DEF Init, Registered
<1>6. Uncounting = {} BY <1>1 DEF Uncounting
<1>2. Finite /\ Counted BY <1>1, <1>6, FS_EmptySet DEF Finite, Counted, Adding, Deducted
<1>3. Fresh /\ Free /\ Admitted BY <1>1 DEF Fresh, Free, Admitted
<1>4. Passage BY <1>1, ConstantsOK DEF Passage, InQueue, Placed, ConstantsOK
<1>5. Named /\ Deleting /\ Visited /\ Vrified /\ Gone /\ Found /\ Vacant /\ Evicted
  BY <1>1 DEF Named, Deleting, Visited, Vrified, Gone, Found, Vacant, Evicted, Live
<1> QED BY <1>2, <1>3, <1>4, <1>5 DEF LoginInv, OnceInv

(* Every step of the gate preserves the strengthened invariant. *)
LEMMA LoginNext ==
    ASSUME ConstantsOK, OwnersInv, OwnersInv', LoginInv, [Next]_vars PROVE LoginInv'
<1>1. CASE Ended \/ UNCHANGED vars
  <2>1. UNCHANGED vars BY <1>1 DEF Ended
  <2>2. VerifiedOnce /\ OnceInv => Visited'
    BY <2>1 DEF OnceInv, Visited, vars, sessVars, gateVars
  <2> QED BY <2>1, <2>2, LoginQuiet DEF vars, regVars, mgrVars, sessVars, natsVars, gateVars
<1> QED
  BY <1>1, LoginStop, LoginMgr, LoginNats, LoginGate, LoginRun, LoginEnvironment DEF Next

(* Every variable of the gate keeps its type. *)
THEOREM RegistryTypes == ASSUME ConstantsOK PROVE Safety => []TypeOK
<1>1. Init => OwnersInv BY OwnersInit
<1>2. OwnersInv /\ [Next]_vars => OwnersInv' BY OwnersNext
<1>3. OwnersInv => TypeOK BY DEF OwnersInv
<1> QED BY <1>1, <1>2, <1>3, PTL DEF Safety

(* Both strengthened invariants hold for ever. *)
LEMMA LoginsKept == ASSUME ConstantsOK PROVE Safety => [](OwnersInv /\ LoginInv)
<1>1. Init => OwnersInv /\ LoginInv BY OwnersInit, LoginInit
<1>2. OwnersInv /\ LoginInv /\ [Next]_vars => (OwnersInv /\ LoginInv)' BY OwnersNext, LoginNext
<1> QED BY <1>1, <1>2, PTL DEF Safety

(* While every client verifies once, SessionMgr.count is at most what the   *)
(* registry holds and add is about to store, whatever DelSession, add and  *)
(* StopAllSession do to each other: the accept loop never refuses          *)
(* connections for sessions that are gone.                                 *)
THEOREM CountNeverAhead == ASSUME ConstantsOK PROVE Safety => []NeverOvercounts
<1>1. ASSUME OwnersInv, LoginInv PROVE NeverOvercounts
  <2>1. /\ count \in Int /\ Cardinality(Registered) \in Nat /\ Cardinality(Uncounting) \in Nat
        /\ Adding \in Int /\ Deducted \in {0, 1}
    BY <1>1, FS_CardinalityType DEF OwnersInv, TypeOK, LoginInv, Finite, Adding, Deducted
  <2> QED BY <1>1, <2>1 DEF LoginInv, Counted, NeverOvercounts
<1> QED BY <1>1, LoginsKept, PTL

(* While every client verifies once, a session that add stored alive is no *)
(* longer in the registry when its OnStop has ended, although DelSession   *)
(* goes by the id alone and races with add and StopAllSession.             *)
THEOREM StoppedUnregistered == ASSUME ConstantsOK PROVE Safety => []StoppedLeavesRegistry
<1>1. OwnersInv /\ LoginInv => StoppedLeavesRegistry
  BY DEF LoginInv, OnceInv, Gone, Named, Registered, Stopped, StoppedLeavesRegistry
<1> QED BY <1>1, LoginsKept, PTL

(* While every client verifies once, a second login of a user that leaves  *)
(* the first one running takes a third session of that user, whose         *)
(* DelSession deleted an entry that was not its own.                       *)
THEOREM OneLiveSession == ASSUME ConstantsOK PROVE Safety => []OneLivePerUid
<1>1. ASSUME OwnersInv, LoginInv, VerifiedOnce, NEW s \in Sessions, NEW t \in Sessions,
             s # t, Live(s), Live(t), uid[s] = uid[t]
      PROVE  \E x \in Sessions \ {s, t} : uid[x] = uid[s] /\ stop[x] # "idle"
  <2>1. CASE reg[uid[s]] # s
    BY <1>1, <2>1 DEF LoginInv, OnceInv, Evicted, Live
  <2>2. CASE reg[uid[t]] # t
    BY <1>1, <2>2 DEF LoginInv, OnceInv, Evicted, Live
  <2> QED BY <1>1, <2>1, <2>2
<1>2. OwnersInv /\ LoginInv => OneLivePerUid BY <1>1 DEF OneLivePerUid
<1> QED BY <1>2, LoginsKept, PTL

-----------------------------------------------------------------------------
(***************************************************************************)
(* What EntangledByRepeats rests on: every Verify message of a connection  *)
(* is at one place of its way through AddSession, addChan and add, or has  *)
(* passed it, and only one that has passed it lets the connection have     *)
(* replies.                                                                *)
(***************************************************************************)
Entering(s) == IF run[s] = "add" THEN 1 ELSE 0
Handled(s)  == IF cur = s /\ mpc # "store" THEN 1 ELSE 0
Served(s)   == \/ cur = s /\ mpc = "store"
               \/ out[s] > 0
               \/ dst = s
               \/ \E u \in Uids : reg[u] = s
Passed(s)   == IF Served(s) THEN 1 ELSE 0

\* A Verify message is counted for each place.
RepeatInv == \A s \in Sessions :
    verifies[s] >= Cardinality(Waiting(s)) + Entering(s) + Handled(s) + Passed(s)

(* The places of addChan that hold a session are finitely many. *)
LEMMA WaitingFinite ==
    ASSUME addChan \in Seq(Sessions), NEW s
    PROVE  IsFiniteSet(Waiting(s)) /\ Cardinality(Waiting(s)) \in Nat
<1>1. Len(addChan) \in Nat OBVIOUS
<1>2. IsFiniteSet(1..Len(addChan)) BY <1>1, FS_Interval
<1>3. Waiting(s) \in SUBSET (1..Len(addChan)) BY DEF Waiting
<1> QED BY <1>2, <1>3, FS_Subset, FS_CardinalityType

(* A session that enters addChan fills one place more, the others as many. *)
LEMMA WaitingAppend ==
    ASSUME addChan \in Seq(Sessions), NEW t \in Sessions, addChan' = Append(addChan, t), NEW s \in Sessions
    PROVE  Cardinality(Waiting(s))' = Cardinality(Waiting(s)) + (IF s = t THEN 1 ELSE 0)
<1> DEFINE n == Len(addChan)
<1>1. /\ n \in Nat /\ Len(addChan') = n + 1 /\ addChan'[n + 1] = t
      /\ \A i \in 1..n : addChan'[i] = addChan[i]
  OBVIOUS
<1>2. IsFiniteSet(Waiting(s)) /\ Cardinality(Waiting(s)) \in Nat BY WaitingFinite
<1>3. CASE s = t
  <2>1. Waiting(s)' = Waiting(s) \cup {n + 1}
    BY <1>1, <1>3 DEF Waiting
  <2>2. n + 1 \notin Waiting(s) BY <1>1 DEF Waiting
  <2> QED BY <1>2, <1>3, <2>1, <2>2, FS_AddElement
<1>4. CASE s # t
  <2>1. Waiting(s)' = Waiting(s) BY <1>1, <1>4 DEF Waiting
  <2> QED BY <1>2, <1>4, <2>1
<1> QED BY <1>3, <1>4

(* A session that leaves addChan at its head fills one place less. *)
LEMMA WaitingTail ==
    ASSUME addChan \in Seq(Sessions), addChan # <<>>, addChan' = Tail(addChan), NEW s \in Sessions
    PROVE  Cardinality(Waiting(s)) = Cardinality(Waiting(s))' + (IF s = Head(addChan) THEN 1 ELSE 0)
<1> DEFINE n == Len(addChan)
           f == [i \in Waiting(s)' |-> i + 1]
           Rest == Waiting(s) \ {1}
<1>1. /\ n \in Nat /\ n >= 1 /\ Len(addChan') = n - 1 /\ addChan[1] = Head(addChan)
      /\ addChan' \in Seq(Sessions)
      /\ \A i \in 1..(n - 1) : addChan'[i] = addChan[i + 1]
  OBVIOUS
<1>2. IsFiniteSet(Waiting(s)) /\ Cardinality(Waiting(s)) \in Nat
  BY WaitingFinite
<1>7. 1 \in Waiting(s) <=> s = Head(addChan) BY <1>1 DEF Waiting
<1>3. IsFiniteSet(Waiting(s)')
  <2>1. IsFiniteSet(1..Len(addChan')) BY <1>1, FS_Interval
  <2>2. Waiting(s)' \in SUBSET (1..Len(addChan')) BY DEF Waiting
  <2> QED BY <2>1, <2>2, FS_Subset
<1>4. f \in Bijection(Waiting(s)', Rest)
  <2>1. \A i \in Waiting(s)' : i \in 1..(n - 1) /\ addChan[i + 1] = s BY <1>1 DEF Waiting
  <2>2. f \in [Waiting(s)' -> Rest] BY <1>1, <2>1 DEF Waiting
  <2>3. \A i, j \in Waiting(s)' : f[i] = f[j] => i = j BY <2>1
  <2>4. ASSUME NEW k \in Rest PROVE \E i \in Waiting(s)' : f[i] = k
    <3>1. k \in 1..n /\ k # 1 /\ addChan[k] = s BY <2>4 DEF Waiting
    <3>2. k - 1 \in 1..(n - 1) /\ addChan'[k - 1] = s BY <1>1, <3>1
    <3>3. k - 1 \in Waiting(s)' BY <1>1, <3>2 DEF Waiting
    <3>4. f[k - 1] = k BY <3>1, <3>3
    <3> QED BY <3>3, <3>4
  <2> QED BY <2>2, <2>3, <2>4 DEF Bijection, Injection, Surjection, IsInjective
<1>5. Cardinality(Rest) = Cardinality(Waiting(s)')
  BY <1>3, <1>4, FS_Bijection DEF ExistsBijection
<1>6. Cardinality(Rest) = IF 1 \in Waiting(s) THEN Cardinality(Waiting(s)) - 1 ELSE Cardinality(Waiting(s))
  BY <1>2, FS_RemoveElement
<1> QED BY <1>2, <1>5, <1>6, <1>7

(* Steps that leave the way into the registry alone and bring no connection *)
(* its first reply.                                                        *)
LEMMA RepeatQuiet ==
    ASSUME TypeOK, TypeOK', RepeatInv, addChan' = addChan,
           \A s \in Sessions :
               /\ verifies'[s] = verifies[s] \/ verifies'[s] > verifies[s]
               /\ run'[s] = "add" => run[s] = "add"
               /\ cur' = s /\ mpc' # "store" => cur = s /\ mpc # "store"
               /\ Served(s)' => Served(s) \/ (cur = s /\ ~(cur' = s /\ mpc' # "store"))
    PROVE  RepeatInv'
<1>1. SUFFICES ASSUME NEW s \in Sessions PROVE
          verifies'[s] >= Cardinality(Waiting(s))' + Entering(s)' + Handled(s)' + Passed(s)'
  BY DEF RepeatInv
<1>2. Waiting(s)' = Waiting(s) /\ Cardinality(Waiting(s)) \in Nat
  BY WaitingFinite DEF Waiting, TypeOK
<1>3. /\ verifies[s] >= Cardinality(Waiting(s)) + Entering(s) + Handled(s) + Passed(s)
      /\ verifies[s] \in Nat /\ verifies'[s] \in Nat
  BY DEF RepeatInv, TypeOK
<1>4. Entering(s)' <= Entering(s) BY DEF Entering
<1>5. Handled(s)' + Passed(s)' <= Handled(s) + Passed(s)
  BY DEF Handled, Passed, Served
<1>6. /\ Entering(s) \in Int /\ Entering(s)' \in Int
      /\ Handled(s) \in Int /\ Handled(s)' \in Int
      /\ Passed(s) \in Int /\ Passed(s)' \in Int
  BY DEF Entering, Handled, Passed
<1> QED BY <1>2, <1>3, <1>4, <1>5, <1>6

(* A step of SessionMgr.run and add. *)
LEMMA RepeatMgr ==
    ASSUME ConstantsOK, TypeOK, TypeOK', Free, Handling, RepeatInv, Mgr
    PROVE  RepeatInv'
<1> USE DEF regVars, mgrVars, sessVars, natsVars, gateVars, MgrGoes
<1>1. CASE AddTake
  <2>1. /\ UNCHANGED <<reg, uid, verifies, run, out, dst>>
        /\ cur = None /\ mpc = "idle" /\ mpc' \in {"refused", "lookup"}
        /\ addChan # <<>> /\ cur' = Head(addChan) /\ addChan' = Tail(addChan)
    BY <1>1 DEF AddTake, Free
  <2>2. SUFFICES ASSUME NEW s \in Sessions PROVE
            verifies'[s] >= Cardinality(Waiting(s))' + Entering(s)' + Handled(s)' + Passed(s)'
    BY DEF RepeatInv
  <2>3. Cardinality(Waiting(s)) = Cardinality(Waiting(s))' + (IF s = Head(addChan) THEN 1 ELSE 0)
    BY <2>1, WaitingTail DEF TypeOK
  <2>4. Cardinality(Waiting(s)) \in Nat /\ Cardinality(Waiting(s))' \in Nat
    <3>1. addChan \in Seq(Sessions) BY DEF TypeOK
    <3>2. Cardinality(Waiting(s)) \in Nat BY <3>1, WaitingFinite
    <3>3. addChan' \in Seq(Sessions) BY DEF TypeOK
    <3>4. /\ IsFiniteSet(1..Len(addChan')) /\ Waiting(s)' \in SUBSET (1..Len(addChan'))
      BY <3>3, FS_Interval DEF Waiting
    <3>5. Cardinality(Waiting(s)') \in Nat BY <3>4, FS_Subset, FS_CardinalityType
    <3> QED BY <3>2, <3>5
  <2>5. /\ verifies[s] >= Cardinality(Waiting(s)) + Entering(s) + Handled(s) + Passed(s)
        /\ verifies[s] \in Nat
    BY DEF RepeatInv, TypeOK
  <2>6. Entering(s)' = Entering(s) /\ Passed(s)' = Passed(s)
    BY <2>1, ConstantsOK DEF Entering, Passed, Served, ConstantsOK
  <2>7. Handled(s) = 0 /\ Handled(s)' = IF s = Head(addChan) THEN 1 ELSE 0
    BY <2>1, ConstantsOK DEF Handled, ConstantsOK
  <2>8. Entering(s) \in Int /\ Passed(s) \in Int BY DEF Entering, Passed
  <2> QED BY <2>1, <2>3, <2>4, <2>5, <2>6, <2>7, <2>8
<1>2. CASE AddRefused
  BY <1>2, ConstantsOK, RepeatQuiet DEF AddRefused, Served, ConstantsOK
<1>3. CASE AddLookup
  BY <1>3, RepeatQuiet DEF AddLookup, Served
<1>4. CASE AddReplace
  <2>1. \A s \in Sessions, u \in Uids : reg'[u] = s => reg[u] = s
    BY <1>4, ConstantsOK DEF AddReplace, TypeOK, ConstantsOK
  <2> QED BY <1>4, <2>1, RepeatQuiet DEF AddReplace, Served
<1>5. CASE AddReplaced
  BY <1>5, RepeatQuiet DEF AddReplaced, Served
<1>6. CASE AddSign
  BY <1>6, RepeatQuiet DEF AddSign, Served
<1>7. CASE AddPush
  <2>1. \A s \in Sessions : s # cur => out'[s] = out[s]
    BY <1>7 DEF AddPush, Enqueue, TypeOK
  <2> QED BY <1>7, <2>1, RepeatQuiet DEF AddPush, Served
<1>8. CASE AddStore
  <2>1. \A s \in Sessions, u \in Uids : s # cur /\ reg'[u] = s => reg[u] = s
    BY <1>8 DEF AddStore, TypeOK
  <2> QED BY <1>8, <2>1, ConstantsOK, RepeatQuiet DEF AddStore, Served, ConstantsOK
<1> QED BY <1>1, <1>2, <1>3, <1>4, <1>5, <1>6, <1>7, <1>8 DEF Mgr

(* A step of the publish handler. *)
LEMMA RepeatNats ==
    ASSUME ConstantsOK, TypeOK, TypeOK', Holding, RepeatInv, Nats \/ (\E u \in Uids : Receive(u)) \/ BroatCast
    PROVE  RepeatInv'
<1> USE DEF regVars, mgrVars, sessVars, natsVars, gateVars
<1>1. UNCHANGED <<reg, addChan, mpc, cur, verifies, run>>
  BY DEF Nats, ReceiveSend, ReceivePush, KickPush, Kicked, WalkEnds, WalkSkip, WalkKick,
         CastSend, CastPush, Receive, BroatCast
<1>2. dst' \in {dst, None} \/ \E u \in Uids : dst' = reg[u]
  BY DEF Nats, ReceiveSend, ReceivePush, KickPush, Kicked, WalkEnds, WalkSkip, WalkKick,
         CastSend, CastPush, Receive, BroatCast
<1>3. out' = out \/ Enqueue(dst)
  BY DEF Nats, ReceiveSend, ReceivePush, KickPush, Kicked, WalkEnds, WalkSkip, WalkKick,
         CastSend, CastPush, Receive, BroatCast
<1>4. \A s \in Sessions : s # dst => out'[s] = out[s]
  BY <1>3 DEF Enqueue, TypeOK
<1>5. \A s \in Sessions : Served(s)' => Served(s)
  BY <1>1, <1>2, <1>4, ConstantsOK DEF Served, ConstantsOK
<1> QED BY <1>1, <1>5, RepeatQuiet

(* A step of a connection. *)
LEMMA RepeatRun ==
    ASSUME ConstantsOK, TypeOK, TypeOK', RepeatInv, NEW t \in Sessions,
           RunSteps(t) \/ Accept(t) \/ VerifyFails(t) \/ ConnectionFails(t)
           \/ \E u \in Uids : VerifySucceeds(t, u)
    PROVE  RepeatInv'
<1> USE DEF regVars, mgrVars, sessVars, natsVars, gateVars
<1>1. CASE AddSession(t)
  <2>1. /\ UNCHANGED <<reg, mpc, cur, verifies, out, dst>>
        /\ run[t] = "add" /\ run' = [run EXCEPT ![t] = "select"]
        /\ addChan' = Append(addChan, t)
    BY <1>1 DEF AddSession
  <2>2. SUFFICES ASSUME NEW s \in Sessions PROVE
            verifies'[s] >= Cardinality(Waiting(s))' + Entering(s)' + Handled(s)' + Passed(s)'
    BY DEF RepeatInv
  <2>3. /\ Cardinality(Waiting(s))' = Cardinality(Waiting(s)) + (IF s = t THEN 1 ELSE 0)
        /\ Cardinality(Waiting(s)) \in Nat
    BY <2>1, WaitingAppend, WaitingFinite DEF TypeOK
  <2>4. /\ verifies[s] >= Cardinality(Waiting(s)) + Entering(s) + Handled(s) + Passed(s)
        /\ verifies[s] \in Nat
    BY DEF RepeatInv, TypeOK
  <2>5. Handled(s)' = Handled(s) /\ Passed(s)' = Passed(s) BY <2>1 DEF Handled, Passed, Served
  <2>6. Entering(s) = Entering(s)' + (IF s = t THEN 1 ELSE 0) BY <2>1 DEF Entering, TypeOK
  <2>7. Handled(s) \in Int /\ Passed(s) \in Int /\ Entering(s)' \in Int
    BY DEF Handled, Passed, Entering
  <2> QED BY <2>1, <2>3, <2>4, <2>5, <2>6, <2>7
<1>2. ASSUME NEW u \in Uids, VerifySucceeds(t, u) PROVE RepeatInv'
  <2>1. /\ UNCHANGED <<reg, addChan, mpc, cur, out, dst>>
        /\ run[t] = "select" /\ run' = [run EXCEPT ![t] = "add"]
        /\ verifies' = [verifies EXCEPT ![t] = @ + 1]
    BY <1>2 DEF VerifySucceeds
  <2>2. SUFFICES ASSUME NEW s \in Sessions PROVE
            verifies'[s] >= Cardinality(Waiting(s))' + Entering(s)' + Handled(s)' + Passed(s)'
    BY DEF RepeatInv
  <2>3. Waiting(s)' = Waiting(s) /\ Cardinality(Waiting(s)) \in Nat
    <3>1. addChan \in Seq(Sessions) BY DEF TypeOK
    <3>2. Waiting(s)' = Waiting(s) BY <2>1 DEF Waiting
    <3> QED BY <3>1, <3>2, WaitingFinite
  <2>4. /\ verifies[s] >= Cardinality(Waiting(s)) + Entering(s) + Handled(s) + Passed(s)
        /\ verifies[s] \in Nat
    BY DEF RepeatInv, TypeOK
  <2>5. Handled(s)' = Handled(s) /\ Passed(s)' = Passed(s) BY <2>1 DEF Handled, Passed, Served
  <2>6. /\ Entering(s)' = Entering(s) + (IF s = t THEN 1 ELSE 0)
        /\ verifies'[s] = verifies[s] + (IF s = t THEN 1 ELSE 0)
    BY <2>1 DEF Entering, TypeOK
  <2>7. Handled(s) \in Int /\ Passed(s) \in Int /\ Entering(s) \in Int
    BY DEF Handled, Passed, Entering
  <2> QED BY <2>3, <2>4, <2>5, <2>6, <2>7
<1>3. CASE TakeReply(t) \/ RunExits(t)
  <2>1. /\ UNCHANGED <<reg, addChan, mpc, cur, verifies, dst>>
        /\ \A s \in Sessions : run'[s] = "add" => run[s] = "add"
        /\ \A s \in Sessions : out'[s] > 0 => out[s] > 0
    <3>1. CASE TakeReply(t)
      <4>1. /\ UNCHANGED <<reg, addChan, mpc, cur, verifies, dst, run>>
            /\ out[t] > 0 /\ out' = [out EXCEPT ![t] = @ - 1]
        BY <3>1 DEF TakeReply
      <4> QED BY <4>1 DEF TypeOK
    <3>2. CASE RunExits(t)
      <4>1. /\ UNCHANGED <<reg, addChan, mpc, cur, verifies, dst>>
            /\ run' = [run EXCEPT ![t] = "exited"] /\ out' = [out EXCEPT ![t] = 0]
        BY <3>2 DEF RunExits
      <4> QED BY <4>1 DEF TypeOK
    <3> QED BY <1>3, <3>1, <3>2
  <2>2. \A s \in Sessions : Served(s)' => Served(s) BY <2>1 DEF Served
  <2> QED BY <2>1, <2>2, RepeatQuiet
<1>4. CASE Accept(t) \/ VerifyFails(t) \/ ConnectionFails(t)
  <2>1. /\ UNCHANGED <<reg, addChan, mpc, cur, out, dst>>
        /\ \A s \in Sessions : run'[s] = "add" => run[s] = "add"
        /\ \A s \in Sessions : verifies'[s] = verifies[s] \/ verifies'[s] > verifies[s]
    BY <1>4 DEF Accept, VerifyFails, ConnectionFails, TypeOK
  <2>2. \A s \in Sessions : Served(s)' => Served(s) BY <2>1 DEF Served
  <2> QED BY <2>1, <2>2, RepeatQuiet
<1> QED BY <1>1, <1>2, <1>3, <1>4 DEF RunSteps

(* Every step of the gate preserves the count of the Verify messages. *)
LEMMA RepeatNext ==
    ASSUME ConstantsOK, OwnersInv, OwnersInv', Free, RepeatInv, [Next]_vars
    PROVE  RepeatInv'
<1> USE DEF regVars, mgrVars, sessVars, natsVars, gateVars
<1>1. TypeOK /\ TypeOK' /\ Handling /\ Holding BY DEF OwnersInv
<1>2. ASSUME NEW s \in Sessions, OnStop(s) PROVE RepeatInv'
  <2>1. /\ UNCHANGED <<addChan, mpc, cur, verifies, run, out, dst>>
        /\ \A t \in Sessions, u \in Uids : reg'[u] = t => reg[u] = t
    BY <1>1, <1>2, ConstantsOK
    DEF OnStop, StopCheck, DelLookup, DelDelete, DelCount, StopClose, TypeOK, ConstantsOK
  <2> QED BY <1>1, <2>1, RepeatQuiet DEF Served
<1>3. CASE Gate \/ StopAllSession \/ (\E u \in Uids : Expire(u)) \/ Ended \/ UNCHANGED vars
  <2>1. /\ UNCHANGED <<addChan, mpc, cur, verifies, run, out, dst>>
        /\ \A t \in Sessions, u \in Uids : reg'[u] = t => reg[u] = t
    BY <1>1, <1>3, ConstantsOK
    DEF Gate, RangeCount, RangeDelete, RangeEnds, RangeVisit, StopAllSession, Expire, Ended, vars,
        TypeOK, ConstantsOK
  <2> QED BY <1>1, <2>1, RepeatQuiet DEF Served
<1> QED BY <1>1, <1>2, <1>3, RepeatMgr, RepeatNats, RepeatRun DEF Next, Environment

(* The initial state. *)
LEMMA RepeatInit == ASSUME ConstantsOK PROVE Init => RepeatInv
<1> SUFFICES ASSUME Init, NEW s \in Sessions
    PROVE verifies[s] >= Cardinality(Waiting(s)) + Entering(s) + Handled(s) + Passed(s)
  BY DEF RepeatInv
<1>1. Waiting(s) = {} BY DEF Init, Waiting
<1>2. Entering(s) = 0 /\ Handled(s) = 0 /\ Passed(s) = 0
  BY ConstantsOK DEF Init, Entering, Handled, Passed, Served, ConstantsOK
<1>3. verifies[s] = 0 BY DEF Init
<1> QED BY <1>1, <1>2, <1>3, FS_EmptySet

(* The manager and a run goroutine wait for each other for ever only on a  *)
(* connection that has sent Verify three times, and once more for each     *)
(* place of addChan it fills itself.                                       *)
THEOREM EntanglementNeedsRepeats == ASSUME ConstantsOK PROVE Safety => []EntangledByRepeats
<1>1. Init => RepeatInv BY RepeatInit
<1>2. (OwnersInv /\ LoginInv) /\ (OwnersInv /\ LoginInv)' /\ RepeatInv /\ [Next]_vars => RepeatInv'
  BY RepeatNext DEF LoginInv
<1>3. ASSUME OwnersInv, RepeatInv, Entangled
      PROVE  verifies[cur] >= 3 + Cardinality(Waiting(cur))
  <2>1. cur \in Sessions /\ mpc = "push" /\ run[cur] = "add" /\ out[cur] > 0
    BY <1>3, ConstantsOK DEF Entangled, OwnersInv, Handling, TypeOK, ConstantsOK
  <2>2. Entering(cur) = 1 /\ Handled(cur) = 1 /\ Passed(cur) = 1
    BY <2>1 DEF Entering, Handled, Passed, Served
  <2>3. Cardinality(Waiting(cur)) \in Nat /\ verifies[cur] \in Nat
    BY <1>3, <2>1, WaitingFinite DEF OwnersInv, TypeOK
  <2> QED BY <1>3, <2>1, <2>2, <2>3 DEF RepeatInv
<1>4. OwnersInv /\ LoginInv /\ RepeatInv => EntangledByRepeats BY <1>3 DEF EntangledByRepeats
<1> QED BY <1>1, <1>2, <1>4, LoginsKept, PTL DEF Safety

=============================================================================
