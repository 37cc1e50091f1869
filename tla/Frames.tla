------------------------------- MODULE Frames -------------------------------
(***************************************************************************)
(* One direction of a TCP connection of the gate: OnSend and OnReceive of  *)
(* gate/connect/tcp/connect.go, a frame being a header that holds the size *)
(* and then that many bytes.  Both ends are taken to frame as Connect does *)
(* with the same options.                                                  *)
(*                                                                         *)
(* Session.run calls OnSend for the messages of out, and so does Kick, a   *)
(* method that module.Session offers to any goroutine (none in the         *)
(* repository calls it), without a lock: they share the cache in which     *)
(* OnSend builds the frame.  A write that runs into its deadline may have  *)
(* written a part of the frame; run logs the error and goes on.            *)
(*                                                                         *)
(* A byte has Base values instead of 256, and a body repeats one of them.  *)
(* Sizes do not fit the header where MaxPacketSize allows them to exceed   *)
(* what it can hold.                                                       *)
(***************************************************************************)
EXTENDS Integers, Sequences, SequencesExt

CONSTANTS
    Base,       \* values of a byte
    HeadSizes,  \* values of NetHeadSize: 2, and 4 for any other
    MaxSizes,   \* values of MaxPacketSize
    MaxSends    \* bound: messages that run sends

ASSUME ConfigOK ==
    /\ Base \in Nat \ {0, 1} /\ HeadSizes \subseteq {2, 4} /\ MaxSends \in Nat
    /\ MaxSizes \subseteq Nat /\ \A h \in HeadSizes, m \in MaxSizes : h < m

Senders == {"run", "kick"}

VARIABLES
    headSize, maxSize, bigEndian,   \* the options
    pc, data,   \* by sender: the place in OnSend, and its argument
    sends,      \* by sender: calls of OnSend left
    cache,      \* c.cache
    isClose,    \* the sending end has closed the connection
    wire,       \* bytes written and not yet read
    reader,     \* what OnReceive reads, "head" or "body", or its error: "closed" or "refused"
    size,       \* the size it has read, 0 while it reads a header
    sent,       \* history: arguments of OnSend that it wrote in full
    received,   \* history: what OnReceive has got
    garbled     \* history: two were in OnSend at once, or a part of a frame was written

optVars  == <<headSize, maxSize, bigEndian>>
sendVars == <<pc, data, sends, cache, isClose, sent, garbled>>
recvVars == <<reader, size, received>>
vars     == <<optVars, sendVars, recvVars, wire>>

\* The arguments of OnSend, as Marshal makes them: nothing of a message without
\* fields, else at least a tag and a value.  For run, of every such size up to
\* one too large, for Kick the same small message.
Bodies(w) ==
    IF w = "kick" THEN {<<0, 0>>}
    ELSE { [i \in 1 .. n |-> 1] : n \in (0 .. maxSize - headSize + 1) \ {1} }

\* OnInit.
Init ==
    /\ headSize \in HeadSizes /\ maxSize \in MaxSizes /\ bigEndian \in BOOLEAN
    /\ pc = [w \in Senders |-> "idle"] /\ data = [w \in Senders |-> << >>]
    /\ sends = [run |-> MaxSends, kick |-> 1]
    /\ cache = [i \in 1 .. maxSize |-> 0] /\ isClose = FALSE
    /\ wire = << >> /\ reader = "head" /\ size = 0
    /\ sent = << >> /\ received = << >> /\ garbled = FALSE

-----------------------------------------------------------------------------
(* The header: PutUint16 or PutUint32 of the size cut to that width, and   *)
(* Uint16 or Uint32.                                                       *)

\* Where the k-th byte of the header is, from the least significant on.
Order(k) == IF bigEndian THEN headSize + 1 - k ELSE k

\* How many sizes the header tells apart.
Sizes == IF headSize = 2 THEN Base * Base ELSE Base * Base * Base * Base

PutSize(sz) ==
    LET sz1 == sz \div Base  sz2 == sz1 \div Base  sz3 == sz2 \div Base
        byte == <<sz % Base, sz1 % Base, sz2 % Base, sz3 % Base>>
    IN  [i \in 1 .. headSize |-> byte[Order(i)]]

\* Mistake: the receiver reads the header in the other byte order.
SizeSwapped(h) ==
    LET byte(k) == h[headSize + 1 - Order(k)] IN
    IF headSize = 2 THEN byte(1) + Base * byte(2)
    ELSE byte(1) + Base * (byte(2) + Base * (byte(3) + Base * byte(4)))

Size(h) ==
    LET byte(k) == h[Order(k)] IN
    IF headSize = 2 THEN byte(1) + Base * byte(2)
    ELSE byte(1) + Base * (byte(2) + Base * (byte(3) + Base * byte(4)))

SizeOK(sz) == sz + headSize <= maxSize /\ sz > 0

-----------------------------------------------------------------------------
(* OnSend, by w. *)

At(w, from, to) == pc[w] = from /\ pc' = [pc EXCEPT ![w] = to]

Return(w) == At(w, "write", "idle") /\ data' = [data EXCEPT ![w] = << >>]

\* Bound: a stream known to be garbled is read to its end, nothing is added.
MoreToSend(w) == sends[w] > 0 /\ ~garbled

Alone(w) == \A v \in Senders \ {w} : pc[v] = "idle"

\* An error where the connection is closed or the size is not good; else the
\* header goes to the cache.
PutHead(w) ==
    /\ MoreToSend(w) /\ sends' = [sends EXCEPT ![w] = @ - 1]
    /\ \E d \in Bodies(w) :
         IF isClose \/ ~SizeOK(Len(d))
           THEN pc[w] = "idle" /\ UNCHANGED <<pc, data, cache, garbled>>
           ELSE /\ At(w, "idle", "copy")
                /\ data' = [data EXCEPT ![w] = d]
                /\ cache' = PutSize(Len(d)) \o SubSeq(cache, headSize + 1, maxSize)
                /\ garbled' = ~Alone(w)
    /\ UNCHANGED <<optVars, isClose, sent, recvVars, wire>>

Copy(w) ==
    /\ At(w, "copy", "write")
    /\ cache' = [i \in 1 .. maxSize |-> IF i - headSize \in DOMAIN data[w]
                                         THEN data[w][i - headSize] ELSE cache[i]]
    /\ UNCHANGED <<optVars, data, sends, isClose, sent, garbled, recvVars, wire>>

\* What OnSend passes to Write: as long as its own message is.
Frame(w) == SubSeq(cache, 1, headSize + Len(data[w]))

Write(w) ==
    /\ Return(w) /\ ~isClose
    /\ wire' = wire \o Frame(w) /\ sent' = Append(sent, data[w])
    /\ UNCHANGED <<optVars, sends, cache, isClose, garbled, recvVars>>

\* The write deadline passes, or the connection is closed: OnSend returns an
\* error when n bytes have been written.
WriteFails(w) ==
    /\ Return(w)
    /\ \E n \in 0 .. Len(Frame(w)) - 1 :
         /\ isClose => n = 0
         /\ wire' = wire \o SubSeq(Frame(w), 1, n)
         /\ garbled' = (garbled \/ n > 0)
    /\ UNCHANGED <<optVars, sends, cache, isClose, sent, recvVars>>

OnClose ==
    /\ ~isClose /\ isClose' = TRUE
    /\ UNCHANGED <<optVars, pc, data, sends, cache, sent, garbled, recvVars, wire>>

-----------------------------------------------------------------------------
(* OnReceive, called again until it returns an error. *)

\* Mistake: the largest size that OnSend accepts is refused.
ReadHeadStrict ==
    /\ reader = "head" /\ Len(wire) >= headSize
    /\ LET sz == Size(SubSeq(wire, 1, headSize))
       IN  IF SizeOK(sz) /\ sz + headSize # maxSize
             THEN reader' = "body" /\ size' = sz
             ELSE reader' = "refused" /\ UNCHANGED size
    /\ wire' = SubSeq(wire, headSize + 1, Len(wire))
    /\ UNCHANGED <<optVars, sendVars, received>>

ReadHead ==
    /\ reader = "head" /\ Len(wire) >= headSize
    /\ LET sz == Size(SubSeq(wire, 1, headSize))
       IN  IF SizeOK(sz)
             THEN reader' = "body" /\ size' = sz
             ELSE reader' = "refused" /\ UNCHANGED size
    /\ wire' = SubSeq(wire, headSize + 1, Len(wire))
    /\ UNCHANGED <<optVars, sendVars, received>>

\* Unmarshal refuses fewer than two bytes, takes what Marshal made, and may
\* refuse what nobody sent.
ReadBody ==
    /\ reader = "body" /\ Len(wire) >= size
    /\ LET body == SubSeq(wire, 1, size)
       IN  \/ Len(body) >= 2 /\ reader' = "head" /\ received' = Append(received, body)
           \/ /\ Len(body) < 2 \/ body \notin Range(sent)
              /\ reader' = "refused" /\ UNCHANGED received
    /\ wire' = SubSeq(wire, size + 1, Len(wire)) /\ size' = 0
    /\ UNCHANGED <<optVars, sendVars>>

\* The read deadline passes, or the other end has closed.
ReadFails ==
    /\ reader \notin {"closed", "refused"}
    /\ reader' = "closed"
    /\ UNCHANGED <<optVars, sendVars, size, received, wire>>

-----------------------------------------------------------------------------
OnSend(w)  == PutHead(w) \/ Copy(w) \/ Write(w) \/ WriteFails(w)
OnReceive  == ReadHead \/ ReadBody
Next == (\E w \in Senders : OnSend(w)) \/ OnClose \/ OnReceive \/ ReadFails

\* The reader goes on when there is enough to read.
Safety == Init /\ [][Next]_vars
Spec   == Safety /\ WF_vars(OnReceive)

-----------------------------------------------------------------------------
(* Properties. *)

\* What can garble the stream: two in OnSend at once, a frame written in
\* part, or a size that PutUint16 has cut.
Garbled == garbled \/ \E i \in DOMAIN sent : Len(sent[i]) >= Sizes

\* Whatever the header's width and byte order, up to the largest packet and
\* however long frames wait to be read: OnReceive gets exactly what OnSend
\* wrote, in that order, and refuses none of it, unless the stream was
\* garbled.
FramesIntact ==
    Garbled \/ (IsPrefix(received, sent) /\ reader # "refused")

\* Each message that OnSend wrote in full is received, unless the receiver
\* gives up at its deadline or the stream was garbled.
AllArrive ==
    \A n \in 1 .. MaxSends + 1 :
        Len(sent) >= n ~> (Len(received) >= n \/ reader = "closed" \/ Garbled)
=============================================================================
