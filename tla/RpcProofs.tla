------------------------------ MODULE RpcProofs ------------------------------
(***************************************************************************)
(* Rpc implements Calls for any servers, any capacity of msg_send_chan and *)
(* any number of messages and faults.                                      *)
(***************************************************************************)
EXTENDS Rpc, TLAPS

\* The numbers of messages that have not been sent are not used.
Unsent ==
    \A i \in Msgs : i > sent =>
        /\ result[i] = "none"
        /\ i \notin replies
        /\ \A g \in Goroutines : handled[i][g] = "no"

\* What is held for a goroutine was sent, in this order, and it has not
\* begun with it.
Held ==
    \A g \in Goroutines :
        /\ \A j \in 1 .. Len(box[g]) : box[g][j] <= sent /\ handled[box[g][j]][g] = "no"
        /\ \A j, k \in 1 .. Len(box[g]) : j < k => box[g][j] < box[g][k]

\* A goroutine in HandleMsg has begun with its message and not ended; one in
\* SendMsg is in HandleMsg.
Handling ==
    \A g \in Goroutines :
        /\ at[g] # 0 => handled[at[g]][g] = "begun" /\ at[g] <= sent
        /\ g \in blocked => at[g] # 0

\* A request that is waited for has not returned, and one goroutine waits
\* for it.
Waiting ==
    \A g \in Goroutines : wait[g] # 0 =>
        /\ result[wait[g]] = "none" /\ wait[g] <= sent
        /\ \A h \in Goroutines : wait[h] = wait[g] => h = g

\* An answer under way was given by a handler.
Replies == \A i \in replies : \E g \in Goroutines : handled[i][g] = "answer"

\* The inductive invariant: TypeOK says nothing of how a message gets from
\* one variable to the next.
Inv == TypeOK /\ Unsent /\ Held /\ Handling /\ Waiting /\ Replies

CallsStep == [Contract!Next]_<<handled, result>>

LEMMA InitInv == Init => Inv /\ Contract!Init
<1> SUFFICES ASSUME Init PROVE Inv /\ Contract!Init
  OBVIOUS
<1>1. TypeOK
  BY RpcOK DEF RpcOK, Init, TypeOK, Msgs
<1>2. Unsent /\ Held /\ Handling /\ Waiting /\ Replies
  BY DEF Init, Unsent, Held, Handling, Waiting, Replies
<1>3. Contract!Init
  BY DEF Init, Contract!Init
<1> QED  BY <1>1, <1>2, <1>3 DEF Inv

-----------------------------------------------------------------------------
\* A message is appended to some of the sequences, with the next number.
LEMMA SendHeld ==
  ASSUME Inv, sent < MaxMsgs, sent' = sent + 1, UNCHANGED handled,
         NEW G \in SUBSET Goroutines,
         box' = [g \in Goroutines |-> IF g \in G THEN Append(box[g], sent') ELSE box[g]]
  PROVE  /\ sent' \in Msgs /\ sent' \in 0 .. MaxMsgs
         /\ box' \in [Goroutines -> Seq(Msgs)] /\ Held'
<1>1. sent' \in Msgs /\ sent' \in 0 .. MaxMsgs /\ sent \in Nat
  BY RpcOK DEF RpcOK, Inv, TypeOK, Msgs
<1>2. box' \in [Goroutines -> Seq(Msgs)]
  BY <1>1 DEF Inv, TypeOK
<1>3. Held'
  <2> SUFFICES ASSUME NEW g \in Goroutines
               PROVE  /\ \A j \in 1 .. Len(box'[g]) :
                           box'[g][j] <= sent' /\ handled[box'[g][j]][g] = "no"
                      /\ \A j, k \in 1 .. Len(box'[g]) : j < k => box'[g][j] < box'[g][k]
    BY DEF Held
  <2>1. box[g] \in Seq(Msgs) /\ Msgs \subseteq Nat
    BY DEF Inv, TypeOK, Msgs
  <2>2. \A j \in 1 .. Len(box[g]) : box[g][j] \in Nat /\ box[g][j] < sent'
    <3>1. \A j \in 1 .. Len(box[g]) : box[g][j] <= sent
      BY DEF Inv, Held
    <3>2. \A j \in 1 .. Len(box[g]) : box[g][j] \in Msgs
      BY <2>1
    <3>3. \A j \in 1 .. Len(box[g]) : box[g][j] \in Nat
      BY <2>1, <3>2
    <3> QED  BY <1>1, <3>1, <3>3
  <2>3. \A j \in 1 .. Len(box[g]) : handled[box[g][j]][g] = "no"
    BY DEF Inv, Held
  <2>4. \A j, k \in 1 .. Len(box[g]) : j < k => box[g][j] < box[g][k]
    BY DEF Inv, Held
  <2>5. CASE g \notin G
    <3>1. box'[g] = box[g]
      BY <2>5
    <3>2. \A j \in 1 .. Len(box'[g]) : box'[g][j] <= sent'
      BY <1>1, <2>2, <3>1
    <3> QED  BY <2>3, <2>4, <3>1, <3>2
  <2>6. CASE g \in G
    <3>1. box'[g] = Append(box[g], sent')
      BY <2>6
    <3>2. handled[sent'][g] = "no"
      BY <1>1 DEF Inv, Unsent, Msgs
    <3>3. /\ Len(box'[g]) = Len(box[g]) + 1 /\ Len(box[g]) \in Nat
          /\ \A j \in 1 .. Len(box[g]) : box'[g][j] = box[g][j]
          /\ box'[g][Len(box[g]) + 1] = sent'
      BY <1>1, <2>1, <3>1
    <3>4. \A j \in 1 .. Len(box'[g]) : j \in 1 .. Len(box[g]) \/ j = Len(box[g]) + 1
      BY <3>3
    <3>5. ASSUME NEW j \in 1 .. Len(box'[g])
          PROVE  box'[g][j] <= sent' /\ handled[box'[g][j]][g] = "no"
      BY <1>1, <2>2, <2>3, <3>2, <3>3, <3>4
    <3>6. ASSUME NEW j \in 1 .. Len(box'[g]), NEW k \in 1 .. Len(box'[g]), j < k
          PROVE  box'[g][j] < box'[g][k]
      <4>1. j \in 1 .. Len(box[g])
        BY <3>3, <3>6
      <4> QED  BY <2>2, <2>4, <3>3, <3>4, <3>6, <4>1
    <3> QED  BY <3>5, <3>6
  <2> QED  BY <2>5, <2>6
<1> QED  BY <1>1, <1>2, <1>3

\* PublishMsg, and RequestMsg with or without a handler that waits.
LEMMA SendingSteps ==
  ASSUME Inv,
         \/ \E T \in SUBSET Servers : Publish(T)
         \/ \E t \in Servers : RequestOutside(t)
         \/ \E g \in Goroutines, t \in Servers : Request(g, t)
  PROVE  Inv' /\ CallsStep
<1> USE DEF netVars, running, history
<1>1. UNCHANGED history
  BY DEF Publish, RequestOutside, Request
<1>2. sent < MaxMsgs /\ sent' = sent + 1 /\ UNCHANGED <<up, replies, at, blocked, stream>>
  <2>1. (sent < MaxFirst \/ sent < MaxMsgs) /\ sent' = sent + 1
        /\ UNCHANGED <<up, replies, at, blocked, stream>>
    BY DEF Publish, RequestOutside, Request
  <2> QED  BY <2>1, RpcOK DEF RpcOK, Inv, TypeOK
<1>3. PICK G \in SUBSET Goroutines :
         box' = [g \in Goroutines |-> IF g \in G THEN Append(box[g], sent') ELSE box[g]]
  <2>1. ASSUME NEW T \in SUBSET Servers, Publish(T)
        PROVE  \E G \in SUBSET Goroutines :
                 box' = [g \in Goroutines |-> IF g \in G THEN Append(box[g], sent') ELSE box[g]]
    <3>1. WITNESS {g \in Goroutines : g[2] = "cb" /\ g[1] \in T /\ up[g[1]] = "up"}
                    \in SUBSET Goroutines
    <3> QED  BY <2>1 DEF Publish
  <2>2. ASSUME NEW t \in Servers, box' = [box EXCEPT ![<<t, "req">>] = Append(@, sent')]
        PROVE  \E G \in SUBSET Goroutines :
                 box' = [g \in Goroutines |-> IF g \in G THEN Append(box[g], sent') ELSE box[g]]
    <3>1. {<<t, "req">>} \in SUBSET Goroutines
      BY DEF Goroutines
    <3>2. WITNESS {<<t, "req">>} \in SUBSET Goroutines
    <3> QED  BY <2>2 DEF Inv, TypeOK
  <2> QED  BY <2>1, <2>2 DEF RequestOutside, Request
<1>4. sent' \in Msgs /\ sent' \in 0 .. MaxMsgs /\ box' \in [Goroutines -> Seq(Msgs)] /\ Held'
  BY <1>1, <1>2, <1>3, SendHeld
<1>5. \/ UNCHANGED wait
      \/ \E g \in Goroutines : wait' = [wait EXCEPT ![g] = sent']
  BY DEF Publish, RequestOutside, Request
<1>6. TypeOK'
  BY <1>1, <1>2, <1>4, <1>5 DEF Inv, TypeOK
<1>7. Unsent' /\ Handling' /\ Replies'
  BY <1>1, <1>2 DEF Inv, TypeOK, Unsent, Handling, Replies, Msgs
<1>8. Waiting'
  BY <1>1, <1>2, <1>4, <1>5 DEF Inv, TypeOK, Unsent, Waiting, Msgs
<1> QED  BY <1>1, <1>4, <1>6, <1>7, <1>8 DEF Inv, CallsStep

-----------------------------------------------------------------------------
\* A request returns, with an answer under way or with an error.
LEMMA ReturnSteps ==
  ASSUME Inv, NEW g \in Goroutines, Answered(g) \/ Timeout(g)
  PROVE  Inv' /\ CallsStep
<1> USE DEF netVars
<1> DEFINE i == wait[g]
<1>1. /\ i \in Msgs /\ result[i] = "none" /\ i <= sent
      /\ \A h \in Goroutines : wait[h] = i => h = g
  BY DEF Answered, Timeout, Inv, TypeOK, Waiting, Msgs
<1>2. /\ UNCHANGED <<up, box, sent, at, blocked, stream, handled>>
      /\ replies' \subseteq replies
      /\ wait' = [wait EXCEPT ![g] = 0]
  BY DEF Answered, Timeout
<1>3. \/ result' = [result EXCEPT ![i] = "answer"] /\ i \in replies
      \/ result' = [result EXCEPT ![i] = "error"]
  BY DEF Answered, Timeout
<1>4. TypeOK'
  BY <1>1, <1>2, <1>3 DEF Inv, TypeOK
<1>5. Held' /\ Handling' /\ Replies'
  BY <1>2 DEF Inv, Held, Handling, Replies
<1>6. Unsent'
  <2> SUFFICES ASSUME NEW m \in Msgs, m > sent
               PROVE  /\ result'[m] = "none" /\ m \notin replies'
                      /\ \A h \in Goroutines : handled[m][h] = "no"
    BY <1>2 DEF Unsent
  <2>1. m # i
    BY <1>1 DEF Inv, TypeOK, Msgs
  <2> QED  BY <1>2, <1>3, <2>1 DEF Inv, TypeOK, Unsent
<1>7. Waiting'
  BY <1>1, <1>2, <1>3 DEF Inv, TypeOK, Waiting
<1>8. CallsStep
  <2>1. CASE result' = [result EXCEPT ![i] = "answer"] /\ i \in replies
    <3>1. Contract!Answer(i)
      BY <1>1, <1>2, <2>1 DEF Inv, Replies, Contract!Answer
    <3> QED  BY <1>1, <3>1 DEF CallsStep, Contract!Next
  <2>2. CASE result' = [result EXCEPT ![i] = "error"]
    <3>1. Contract!Fail(i)
      BY <1>1, <1>2, <2>2 DEF Contract!Fail
    <3> QED  BY <1>1, <3>1 DEF CallsStep, Contract!Next
  <2> QED  BY <1>3, <2>1, <2>2
<1> QED  BY <1>4, <1>5, <1>6, <1>7, <1>8 DEF Inv

-----------------------------------------------------------------------------
\* A goroutine is through with the message it handles.
LEMMA EndStep ==
  ASSUME Inv, NEW g \in Goroutines, at[g] # 0, NEW o \in {"nothing", "answer"},
         at' = [at EXCEPT ![g] = 0],
         handled' = [handled EXCEPT ![at[g]][g] = o],
         replies' = replies \/ (replies' = replies \cup {at[g]} /\ o = "answer"),
         blocked' \subseteq blocked, g \notin blocked',
         UNCHANGED <<up, box, sent, wait, stream, result>>
  PROVE  Inv' /\ CallsStep
<1> DEFINE i == at[g]
<1>1. i \in Msgs /\ handled[i][g] = "begun" /\ i <= sent
  BY DEF Inv, TypeOK, Handling
<1>2. handled' \in [Msgs -> [Goroutines -> {"no", "begun", "nothing", "answer"}]]
  BY <1>1 DEF Inv, TypeOK
<1>3. \A m \in Msgs, h \in Goroutines :
        handled'[m][h] = IF m = i /\ h = g THEN o ELSE handled[m][h]
  BY <1>1 DEF Inv, TypeOK
<1>4. TypeOK'
  BY <1>1, <1>2 DEF Inv, TypeOK
<1>5. Unsent'
  BY <1>1, <1>3 DEF Inv, TypeOK, Unsent, Msgs
<1>6. Held'
  <2> SUFFICES ASSUME NEW h \in Goroutines, NEW j \in 1 .. Len(box[h])
               PROVE  handled'[box[h][j]][h] = "no"
    BY DEF Inv, Held
  <2>1. box[h][j] \in Msgs
    <3>1. box[h] \in Seq(Msgs)
      BY DEF Inv, TypeOK
    <3> QED  BY <3>1
  <2>2. handled[box[h][j]][h] = "no"
    BY DEF Inv, Held
  <2> QED  BY <1>1, <1>3, <2>1, <2>2
<1>7. Handling'
  <2> SUFFICES ASSUME NEW h \in Goroutines
               PROVE  /\ at'[h] # 0 => handled'[at'[h]][h] = "begun" /\ at'[h] <= sent
                      /\ h \in blocked' => at'[h] # 0
    BY DEF Handling
  <2>1. CASE h = g
    BY <2>1 DEF Inv, TypeOK
  <2>2. CASE h # g
    <3>1. at'[h] = at[h] /\ at[h] \in Msgs \cup {0}
      BY <2>2 DEF Inv, TypeOK
    <3> QED  BY <1>3, <2>2, <3>1 DEF Inv, Handling
  <2> QED  BY <2>1, <2>2
<1>8. Waiting'
  BY DEF Inv, Waiting
<1>9. Replies'
  <2> SUFFICES ASSUME NEW m \in replies' PROVE \E h \in Goroutines : handled'[m][h] = "answer"
    BY DEF Replies
  <2>1. CASE m \in replies
    <3>1. PICK h \in Goroutines : handled[m][h] = "answer"
      BY <2>1 DEF Inv, Replies
    <3>2. m \in Msgs
      BY <2>1 DEF Inv, TypeOK
    <3> QED  BY <1>1, <1>3, <3>1, <3>2
  <2>2. CASE m = i /\ o = "answer"
    BY <1>1, <1>3, <2>2
  <2> QED  BY <2>1, <2>2
<1>10. CallsStep
  <2>1. Contract!End(i, g)
    BY <1>1 DEF Contract!End
  <2> QED  BY <1>1, <2>1 DEF CallsStep, Contract!Next
<1> QED  BY <1>4, <1>5, <1>6, <1>7, <1>8, <1>9, <1>10 DEF Inv

\* The steps of a goroutine in HandleMsg that are not requests.
LEMMA HandlingSteps ==
  ASSUME Inv, NEW g \in Goroutines, Send(g) \/ SendReleased(g) \/ HandleMsg(g)
  PROVE  Inv' /\ CallsStep
<1> USE DEF netVars
<1>1. at[g] # 0
  BY DEF Send, SendReleased, HandleMsg, Busy, Inv, Handling
<1>2. CASE HandleMsg(g)
  <2>1. g \notin blocked /\ UNCHANGED <<up, box, sent, wait, blocked, stream, result>>
        /\ at' = [at EXCEPT ![g] = 0]
    BY <1>2 DEF HandleMsg, Busy
  <2>2. PICK o \in {"nothing", "answer"} :
          /\ handled' = [handled EXCEPT ![at[g]][g] = o]
          /\ replies' = replies \/ (replies' = replies \cup {at[g]} /\ o = "answer")
    BY <1>2 DEF HandleMsg
  <2> QED  BY <1>1, <2>1, <2>2, EndStep
<1>3. CASE SendReleased(g) \/ (Send(g) /\ up[g[1]] = "stopped")
  <2>1. Panics(g) /\ UNCHANGED <<up, box, sent, wait, stream, result, replies>>
    BY <1>3 DEF Send, SendReleased
  <2> QED  BY <1>1, <2>1, EndStep DEF Panics
<1>4. CASE Send(g) /\ up[g[1]] # "stopped"
  <2>1. /\ UNCHANGED <<up, box, replies, sent, wait, result, at, handled>>
        /\ \/ /\ stream[g[1]] < QMsgLen /\ stream' = [stream EXCEPT ![g[1]] = @ + 1]
              /\ UNCHANGED blocked
           \/ blocked' = blocked \cup {g} /\ UNCHANGED stream
    BY <1>4 DEF Send
  <2>2. TypeOK'
    <3>1. g[1] \in Servers
      BY DEF Goroutines
    <3>2. stream' \in [Servers -> 0 .. QMsgLen]
      <4>1. stream \in [Servers -> 0 .. QMsgLen] /\ QMsgLen \in Nat
        BY RpcOK DEF RpcOK, Inv, TypeOK
      <4>2. stream[g[1]] \in 0 .. QMsgLen
        BY <3>1, <4>1
      <4>3. stream[g[1]] < QMsgLen => stream[g[1]] + 1 \in 0 .. QMsgLen
        BY <4>1, <4>2
      <4> QED  BY <2>1, <3>1, <4>1, <4>3
    <3> QED  BY <2>1, <3>2 DEF Inv, TypeOK
  <2>3. Unsent' /\ Held' /\ Waiting' /\ Replies'
    BY <2>1 DEF Inv, Unsent, Held, Waiting, Replies
  <2>4. Handling'
    BY <1>1, <2>1 DEF Inv, Handling
  <2> QED  BY <2>1, <2>2, <2>3, <2>4 DEF Inv, CallsStep
<1> QED  BY <1>2, <1>3, <1>4

\* NATS or callBack hands a message to HandleMsg.
LEMMA TakeStep ==
  ASSUME Inv, NEW g \in Goroutines, Take(g)
  PROVE  Inv' /\ CallsStep
<1> DEFINE i == Head(box[g])
<1>1. /\ UNCHANGED <<up, replies, sent, wait, blocked, stream, result>>
      /\ at[g] = 0 /\ box[g] # <<>>
      /\ at' = [at EXCEPT ![g] = i] /\ box' = [box EXCEPT ![g] = Tail(box[g])]
      /\ handled' = [handled EXCEPT ![i][g] = "begun"]
  BY DEF Take
<1>2. box[g] \in Seq(Msgs) /\ 1 \in 1 .. Len(box[g]) /\ i = box[g][1]
  BY <1>1 DEF Inv, TypeOK
<1>3. i \in Msgs /\ i <= sent /\ handled[i][g] = "no"
  BY <1>2 DEF Inv, Held
<1>4. \A m \in Msgs, h \in Goroutines :
        handled'[m][h] = IF m = i /\ h = g THEN "begun" ELSE handled[m][h]
  BY <1>1, <1>3 DEF Inv, TypeOK
<1>5. handled' \in [Msgs -> [Goroutines -> {"no", "begun", "nothing", "answer"}]]
  BY <1>1, <1>3 DEF Inv, TypeOK
<1>6. Tail(box[g]) \in Seq(Msgs) /\ Len(Tail(box[g])) = Len(box[g]) - 1
      /\ \A j \in 1 .. Len(box[g]) - 1 : Tail(box[g])[j] = box[g][j + 1]
  BY <1>1, <1>2
<1>7. TypeOK'
  <2>1. box' \in [Goroutines -> Seq(Msgs)]
    BY <1>1, <1>6 DEF Inv, TypeOK
  <2> QED  BY <1>1, <1>3, <1>5, <2>1 DEF Inv, TypeOK
<1>8. Unsent'
  BY <1>1, <1>3, <1>4 DEF Inv, TypeOK, Unsent, Msgs
<1>9. Held'
  <2> SUFFICES ASSUME NEW h \in Goroutines
               PROVE  /\ \A j \in 1 .. Len(box'[h]) :
                           box'[h][j] <= sent /\ handled'[box'[h][j]][h] = "no"
                      /\ \A j, k \in 1 .. Len(box'[h]) : j < k => box'[h][j] < box'[h][k]
    BY <1>1 DEF Held
  <2>1. box[h] \in Seq(Msgs) /\ \A j \in 1 .. Len(box[h]) : box[h][j] \in Msgs
    <3>1. box[h] \in Seq(Msgs)
      BY DEF Inv, TypeOK
    <3> QED  BY <3>1
  <2>2. \A j \in 1 .. Len(box[h]) : box[h][j] <= sent /\ handled[box[h][j]][h] = "no"
    BY DEF Inv, Held
  <2>3. \A j, k \in 1 .. Len(box[h]) : j < k => box[h][j] < box[h][k]
    BY DEF Inv, Held
  <2>4. CASE h # g
    <3>1. box'[h] = box[h]
      BY <1>1, <2>4 DEF Inv, TypeOK
    <3> QED  BY <1>4, <2>1, <2>2, <2>3, <2>4, <3>1
  <2>5. CASE h = g
    <3>1. /\ Len(box'[g]) = Len(box[g]) - 1
          /\ \A j \in 1 .. Len(box'[g]) : box'[g][j] = box[g][j + 1] /\ j + 1 \in 1 .. Len(box[g])
      BY <1>1, <1>2, <1>6 DEF Inv, TypeOK
    <3>2. ASSUME NEW j \in 1 .. Len(box'[g])
          PROVE  box'[g][j] <= sent /\ handled'[box'[g][j]][g] = "no"
      <4>1. box[g][1] < box[g][j + 1] /\ box[g][j + 1] \in Msgs /\ i \in Msgs
        BY <1>2, <1>3, <2>1, <2>3, <2>5, <3>1
      <4>2. box[g][j + 1] # i
        BY <1>2, <4>1 DEF Msgs
      <4> QED  BY <1>4, <2>2, <2>5, <3>1, <4>1, <4>2
    <3>3. ASSUME NEW j \in 1 .. Len(box'[g]), NEW k \in 1 .. Len(box'[g]), j < k
          PROVE  box'[g][j] < box'[g][k]
      BY <2>3, <2>5, <3>1, <3>3
    <3> QED  BY <2>5, <3>2, <3>3
  <2> QED  BY <2>4, <2>5
<1>10. Handling'
  <2> SUFFICES ASSUME NEW h \in Goroutines
               PROVE  /\ at'[h] # 0 => handled'[at'[h]][h] = "begun" /\ at'[h] <= sent
                      /\ h \in blocked => at'[h] # 0
    BY <1>1 DEF Handling
  <2>1. CASE h = g
    <3>1. at'[h] = i
      BY <1>1, <2>1 DEF Inv, TypeOK
    <3> QED  BY <1>3, <1>4, <2>1, <3>1 DEF Msgs
  <2>2. CASE h # g
    <3>1. at'[h] = at[h] /\ at[h] \in Msgs \cup {0}
      BY <1>1, <2>2 DEF Inv, TypeOK
    <3> QED  BY <1>4, <2>2, <3>1 DEF Inv, Handling
  <2> QED  BY <2>1, <2>2
<1>11. Waiting'
  BY <1>1 DEF Inv, Waiting
<1>12. Replies'
  <2> SUFFICES ASSUME NEW m \in replies PROVE \E h \in Goroutines : handled'[m][h] = "answer"
    BY <1>1 DEF Replies
  <2>1. PICK h \in Goroutines : handled[m][h] = "answer"
    BY DEF Inv, Replies
  <2>2. m \in Msgs
    BY DEF Inv, TypeOK
  <2> QED  BY <1>3, <1>4, <2>1, <2>2
<1>13. CallsStep
  <2>1. Contract!Begin(i, g)
    BY <1>1, <1>3 DEF Contract!Begin
  <2> QED  BY <1>3, <2>1 DEF CallsStep, Contract!Next
<1> QED  BY <1>7, <1>8, <1>9, <1>10, <1>11, <1>12, <1>13 DEF Inv

-----------------------------------------------------------------------------
\* NATS, and the lives of the servers: goroutines lose what they have.
LEMMA ServerSteps ==
  ASSUME Inv,
         \/ \E i \in Msgs : DropReply(i)
         \/ \E s \in Servers : Done(s) \/ Exit(s) \/ Restart(s)
  PROVE  Inv' /\ CallsStep
<1> USE DEF running, history
<1>1. /\ UNCHANGED <<sent, handled, result>> /\ replies' \subseteq replies
      /\ blocked' \subseteq blocked
  BY DEF DropReply, Done, Exit, Restart
<1>2. up' \in [Servers -> {"up", "stopped", "down"}] /\ stream' \in [Servers -> 0 .. QMsgLen]
  <2>1. \/ UNCHANGED <<up, stream>>
        \/ \E s \in Servers :
             \/ up' = [up EXCEPT ![s] = "stopped"] /\ UNCHANGED stream
             \/ up' = [up EXCEPT ![s] = "up"] /\ UNCHANGED stream
             \/ up' = [up EXCEPT ![s] = "down"] /\ stream' = [stream EXCEPT ![s] = 0]
    BY DEF DropReply, Done, Exit, Restart
  <2>2. 0 \in 0 .. QMsgLen
    BY RpcOK DEF RpcOK
  <2> QED  BY <2>1, <2>2 DEF Inv, TypeOK
<1>3. box' \in [Goroutines -> Seq(Msgs)]
      /\ \A g \in Goroutines : box'[g] = box[g] \/ box'[g] = <<>>
  <2>1. UNCHANGED box \/ \E s \in Servers : Emptied(s)
    BY DEF DropReply, Done, Exit, Restart
  <2>2. CASE UNCHANGED box
    BY <2>2 DEF Inv, TypeOK
  <2>3. ASSUME NEW s \in Servers, Emptied(s)
        PROVE  box' \in [Goroutines -> Seq(Msgs)]
               /\ \A g \in Goroutines : box'[g] = box[g] \/ box'[g] = <<>>
    <3>1. <<>> \in Seq(Msgs)
      OBVIOUS
    <3> QED  BY <2>3, <3>1 DEF Emptied, Inv, TypeOK
  <2> QED  BY <2>1, <2>2, <2>3
<1>4. /\ at' \in [Goroutines -> Msgs \cup {0}] /\ wait' \in [Goroutines -> Msgs \cup {0}]
      /\ \A g \in Goroutines :
           /\ at'[g] = at[g] \/ (at'[g] = 0 /\ g \notin blocked')
           /\ wait'[g] = wait[g] \/ wait'[g] = 0
  BY DEF DropReply, Done, Exit, Restart, Inv, TypeOK
<1>5. TypeOK'
  BY <1>1, <1>2, <1>3, <1>4 DEF Inv, TypeOK
<1>6. Held'
  <2> SUFFICES ASSUME NEW g \in Goroutines
               PROVE  /\ \A j \in 1 .. Len(box'[g]) :
                           box'[g][j] <= sent /\ handled[box'[g][j]][g] = "no"
                      /\ \A j, k \in 1 .. Len(box'[g]) : j < k => box'[g][j] < box'[g][k]
    BY <1>1 DEF Held
  <2>1. CASE box'[g] = box[g]
    BY <2>1 DEF Inv, Held
  <2>2. CASE box'[g] = <<>>
    BY <2>2
  <2> QED  BY <1>3, <2>1, <2>2
<1>7. Unsent' /\ Replies'
  BY <1>1 DEF Inv, Unsent, Replies
<1>8. Handling'
  <2> SUFFICES ASSUME NEW g \in Goroutines
               PROVE  /\ at'[g] # 0 => handled[at'[g]][g] = "begun" /\ at'[g] <= sent
                      /\ g \in blocked' => at'[g] # 0
    BY <1>1 DEF Handling
  <2>1. at'[g] = at[g] \/ (at'[g] = 0 /\ g \notin blocked')
    BY <1>4
  <2> QED  BY <1>1, <2>1 DEF Inv, Handling
<1>9. Waiting'
  <2> SUFFICES ASSUME NEW g \in Goroutines, wait'[g] # 0
               PROVE  /\ result[wait'[g]] = "none" /\ wait'[g] <= sent
                      /\ \A h \in Goroutines : wait'[h] = wait'[g] => h = g
    BY <1>1 DEF Waiting
  <2>1. wait'[g] = wait[g]
    BY <1>4
  <2>2. ASSUME NEW h \in Goroutines, wait'[h] = wait'[g] PROVE wait[h] = wait[g]
    <3>1. wait'[h] = wait[h] \/ wait'[h] = 0
      BY <1>4
    <3> QED  BY <2>1, <2>2, <3>1
  <2> QED  BY <2>1, <2>2 DEF Inv, Waiting
<1> QED  BY <1>1, <1>5, <1>6, <1>7, <1>8, <1>9 DEF Inv, CallsStep

-----------------------------------------------------------------------------
LEMMA Preserved == Inv /\ [Next]_vars => Inv' /\ CallsStep
<1> SUFFICES ASSUME Inv, [Next]_vars PROVE Inv' /\ CallsStep
  OBVIOUS
<1>1. CASE UNCHANGED vars
  BY <1>1 DEF vars, netVars, running, history, Inv, TypeOK, Unsent, Held, Handling, Waiting,
         Replies, CallsStep
<1>2. CASE Next
  BY <1>2, SendingSteps, ReturnSteps, HandlingSteps, TakeStep, ServerSteps DEF Next, Steps
<1> QED  BY <1>1, <1>2

\* The inductive invariant holds always.
THEOREM InvAlways == Safety => []Inv
  BY InitInv, Preserved, PTL DEF Safety

\* Every variable keeps its type, msg_send_chan of every server its capacity.
THEOREM RpcTypes == Safety => []TypeOK
<1>1. Inv => TypeOK
  BY DEF Inv
<1> QED  BY <1>1, InvAlways, PTL

\* However many servers call each other, stop, crash and come back: a
\* message is handled at most once by each, and RequestMsg returns once per
\* request, with an answer only if a handler of that request gave one.
THEOREM RpcImplementsCalls == Safety => CallsSpec
<1>1. Init => Contract!Init
  BY InitInv
<1>2. Inv /\ [Next]_vars => [Contract!Next]_<<handled, result>>
  BY Preserved DEF CallsStep
<1> QED  BY <1>1, <1>2, InvAlways, PTL DEF Safety, CallsSpec, Contract!Spec
=============================================================================
