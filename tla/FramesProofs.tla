----------------------------- MODULE FramesProofs -----------------------------
(***************************************************************************)
(* Theorems about one direction of a TCP connection, for either width and  *)
(* byte order of the header, any number of byte values, any packet size    *)
(* and any number of messages.                                             *)
(***************************************************************************)
EXTENDS Frames, SequenceTheorems, TLAPS

-----------------------------------------------------------------------------
(* A size that fits the header is read as it was written. *)

LEMMA Digit ==
    ASSUME NEW n \in Nat, NEW b \in Nat \ {0}
    PROVE  /\ n \div b \in Nat /\ n % b \in 0 .. b - 1
           /\ n = (n % b) + b * (n \div b)
  BY SMT

LEMMA Shift ==
    ASSUME NEW n \in Nat, NEW b \in Nat \ {0}, NEW m \in Nat, n < b * m
    PROVE  n \div b < m
<1> DEFINE q == n \div b
<1>1. q \in Nat /\ b * q <= n BY Digit
<1> HIDE DEF q
<1>2. ASSUME q >= m PROVE FALSE
  <2>1. b * q >= b * m BY <1>1, <1>2
  <2> QED BY <1>1, <2>1
<1> QED BY <1>1, <1>2 DEF q

LEMMA LastDigit == ASSUME NEW n \in Nat, NEW b \in Nat \ {0}, n < b PROVE n % b = n
  BY SMT

LEMMA HeaderReads ==
    ASSUME ConfigOK, headSize \in {2, 4}, NEW n \in Nat, n < Sizes,
           NEW h, \A j \in 1 .. headSize : h[j] = PutSize(n)[j]
    PROVE  Size(h) = n
<1> DEFINE n1 == n \div Base
           n2 == n1 \div Base
           n3 == n2 \div Base
           byte == <<n % Base, n1 % Base, n2 % Base, n3 % Base>>
<1>1. \A k \in 1 .. headSize : Order(k) \in 1 .. headSize /\ Order(Order(k)) = k
  BY DEF Order
<1>2. ASSUME NEW k \in 1 .. headSize PROVE h[Order(k)] = byte[k]
  <2>1. h[Order(k)] = PutSize(n)[Order(k)] BY <1>1
  <2>2. PutSize(n) = [i \in 1 .. headSize |-> byte[Order(i)]] BY Zenon DEF PutSize
  <2> HIDE DEF byte
  <2> QED BY <1>1, <2>1, <2>2
<1>3. /\ byte[1] = n % Base /\ byte[2] = n1 % Base
      /\ byte[3] = n2 % Base /\ byte[4] = n3 % Base
  <2> HIDE DEF n1, n2, n3
  <2> QED OBVIOUS
<1>4. Base \in Nat \ {0} BY DEF ConfigOK
<1>5. n1 \in Nat /\ n = (n % Base) + Base * n1 BY <1>4, Digit
<1> HIDE DEF byte, n1
<1>6. n2 \in Nat /\ n1 = (n1 % Base) + Base * n2 BY <1>4, <1>5, Digit
<1> HIDE DEF n2
<1>7. n3 \in Nat /\ n2 = (n2 % Base) + Base * n3 BY <1>4, <1>6, Digit
<1> HIDE DEF n3
<1>8. CASE headSize = 2
  <2>1. n1 < Base BY <1>4, <1>8, Shift DEF Sizes, n1
  <2>2. n1 % Base = n1 BY <1>4, <1>5, <2>1, LastDigit
  <2>3. Size(h) = h[Order(1)] + Base * h[Order(2)] BY <1>8 DEF Size
  <2>4. h[Order(1)] = n % Base /\ h[Order(2)] = n1 BY <1>2, <1>3, <1>8, <2>2
  <2> QED BY <1>5, <2>3, <2>4
<1>9. CASE headSize = 4
  <2> DEFINE B2 == Base * Base
             B3 == Base * B2
  <2>1. B2 \in Nat /\ B3 \in Nat /\ n < Base * B3
    <3>1. Base * Base * Base * Base = Base * (Base * (Base * Base)) BY <1>4
    <3> QED BY <1>4, <1>9, <3>1 DEF Sizes
  <2>2. n1 < B3
    <3> HIDE DEF B3
    <3> QED BY <1>4, <2>1, Shift DEF n1
  <2>3. n2 < B2
    <3> HIDE DEF B2
    <3> QED BY <1>4, <1>5, <2>1, <2>2, Shift DEF n2
  <2>4. n3 < Base BY <1>4, <1>6, <2>3, Shift DEF n3
  <2>5. n3 % Base = n3 BY <1>4, <1>7, <2>4, LastDigit
  <2>6. Size(h) = h[Order(1)] + Base * (h[Order(2)] + Base * (h[Order(3)] + Base * h[Order(4)]))
    BY <1>9 DEF Size
  <2>7. /\ h[Order(1)] = n % Base /\ h[Order(2)] = n1 % Base
        /\ h[Order(3)] = n2 % Base /\ h[Order(4)] = n3
    BY <1>2, <1>3, <1>9, <2>5
  <2> QED BY <1>5, <1>6, <1>7, <2>6, <2>7
<1> QED BY <1>8, <1>9

-----------------------------------------------------------------------------
(* The invariant. *)

Types ==
    /\ headSize \in {2, 4} /\ maxSize \in Nat /\ headSize < maxSize
    /\ pc \in [Senders -> {"idle", "copy", "write"}]
    /\ data \in [Senders -> Seq(Int)]
    /\ cache \in Seq(Int) /\ Len(cache) = maxSize
    /\ reader \in {"head", "body", "closed", "refused"}
    /\ wire \in Seq(Int) /\ size \in Nat
    /\ sent \in Seq(Seq(Int)) /\ received \in Seq(Seq(Int))

\* The bytes of a sequence from the place p on are the frame of m, as far as
\* p leaves any of them in it.
Framed(bytes, p, m) ==
    /\ \A j \in 1 .. headSize : p + j > 0 => bytes[p + j] = PutSize(Len(m))[j]
    /\ \A j \in 1 .. Len(m) : bytes[p + headSize + j] = m[j]

\* The sizes of what OnSend writes: what it accepts of what Marshal makes.
GoodSize(n) == SizeOK(n) /\ n >= 2

\* What is in OnSend is of a good size.  While the stream is not garbled it is
\* there alone, and the cache holds as much of its frame as it has put there.
Sending ==
    \A w \in Senders : pc[w] # "idle" =>
        /\ GoodSize(Len(data[w]))
        /\ garbled \/
              /\ Alone(w)
              /\ \A j \in 1 .. headSize : cache[j] = PutSize(Len(data[w]))[j]
              /\ pc[w] = "write" =>
                    \A j \in 1 .. Len(data[w]) : cache[headSize + j] = data[w][j]

GoodSizes == \A i \in 1 .. Len(sent) : GoodSize(Len(sent[i]))

InOrder ==
    /\ Len(received) <= Len(sent)
    /\ \A i \in 1 .. Len(received) : received[i] = sent[i]

\* The wire holds the frames of what has been sent and not been received, one
\* after the other, each ending at its place in off.  The first has lost its
\* header when OnReceive has read that.
LaidOut(off) ==
    LET k == Len(received)  n == Len(sent) IN
    /\ off \in [k .. n -> Int]
    /\ off[k] = IF reader = "body" THEN 0 - headSize ELSE 0
    /\ off[n] = Len(wire)
    /\ \A i \in k + 1 .. n : off[i] = off[i - 1] + headSize + Len(sent[i])
    /\ \A i, j \in k .. n : i <= j => off[i] <= off[j]
    /\ \A i \in k + 1 .. n : Framed(wire, off[i - 1], sent[i])

Stream ==
    reader \in {"head", "body"} =>
        /\ \E off : LaidOut(off)
        /\ reader = "body" => Len(received) < Len(sent) /\ size = Len(sent[Len(received) + 1])

Intact == InOrder /\ Stream /\ reader # "refused"

FramesInv == Types /\ Sending /\ GoodSizes /\ (Garbled \/ Intact)

-----------------------------------------------------------------------------
(* Sequences of bytes. *)

LEMMA SeqOfFunction ==
    ASSUME NEW n \in Nat, NEW f \in [1 .. n -> Int]
    PROVE  f \in Seq(Int) /\ Len(f) = n
<1>1. f \in Seq(Int) BY SeqDef
<1>2. DOMAIN f = 1 .. n /\ DOMAIN f = 1 .. Len(f) /\ Len(f) \in Nat BY <1>1, LenProperties
<1> QED BY <1>1, <1>2

\* What is left of s when n elements have been read.
LEMMA Rest ==
    ASSUME NEW s \in Seq(Int), NEW n \in 0 .. Len(s)
    PROVE  /\ SubSeq(s, n + 1, Len(s)) \in Seq(Int)
           /\ Len(SubSeq(s, n + 1, Len(s))) = Len(s) - n
           /\ \A i \in 1 .. Len(s) - n : SubSeq(s, n + 1, Len(s))[i] = s[n + i]
<1>1. Len(s) \in Nat /\ n \in Nat /\ \A i \in n + 1 .. Len(s) : s[i] \in Int
  BY ElementOfSeq, LenProperties
<1>2. /\ SubSeq(s, n + 1, Len(s)) \in Seq(Int)
      /\ Len(SubSeq(s, n + 1, Len(s))) = IF n + 1 <= Len(s) THEN Len(s) - (n + 1) + 1 ELSE 0
      /\ \A i \in 1 .. Len(s) - (n + 1) + 1 : SubSeq(s, n + 1, Len(s))[i] = s[(n + 1) + i - 1]
  BY <1>1, SubSeqProperties
<1> QED BY <1>1, <1>2

\* The first n elements of s.
LEMMA First ==
    ASSUME NEW s \in Seq(Int), NEW n \in 0 .. Len(s)
    PROVE  /\ SubSeq(s, 1, n) \in Seq(Int) /\ Len(SubSeq(s, 1, n)) = n
           /\ \A i \in 1 .. n : SubSeq(s, 1, n)[i] = s[i]
<1>1. Len(s) \in Nat /\ n \in Nat /\ \A i \in 1 .. n : s[i] \in Int
  BY ElementOfSeq, LenProperties
<1>2. /\ SubSeq(s, 1, n) \in Seq(Int)
      /\ Len(SubSeq(s, 1, n)) = IF 1 <= n THEN n - 1 + 1 ELSE 0
      /\ \A i \in 1 .. n - 1 + 1 : SubSeq(s, 1, n)[i] = s[1 + i - 1]
  BY <1>1, SubSeqProperties
<1> QED BY <1>1, <1>2

\* Two, one after the other.
LEMMA Joint ==
    ASSUME NEW s \in Seq(Int), NEW u \in Seq(Int)
    PROVE  /\ s \o u \in Seq(Int) /\ Len(s \o u) = Len(s) + Len(u)
           /\ \A i \in 1 .. Len(s) : (s \o u)[i] = s[i]
           /\ \A i \in 1 .. Len(u) : (s \o u)[Len(s) + i] = u[i]
<1>1. Len(s) \in Nat /\ Len(u) \in Nat BY LenProperties
<1>2. /\ s \o u \in Seq(Int) /\ Len(s \o u) = Len(s) + Len(u)
      /\ \A i \in 1 .. Len(s) + Len(u) :
            (s \o u)[i] = IF i <= Len(s) THEN s[i] ELSE u[i - Len(s)]
  BY ConcatProperties
<1>3. ASSUME NEW i \in 1 .. Len(u) PROVE (s \o u)[Len(s) + i] = u[i]
  <2>1. Len(s) + i \in 1 .. Len(s) + Len(u) /\ ~ (Len(s) + i <= Len(s)) /\ (Len(s) + i) - Len(s) = i
    BY <1>1
  <2> QED BY <1>2, <2>1
<1> QED BY <1>1, <1>2, <1>3

LEMMA HeaderBytes ==
    ASSUME ConfigOK, headSize \in {2, 4}, NEW n \in Nat
    PROVE  PutSize(n) \in Seq(Int) /\ Len(PutSize(n)) = headSize
<1> DEFINE n1 == n \div Base
           n2 == n1 \div Base
           n3 == n2 \div Base
           byte == <<n % Base, n1 % Base, n2 % Base, n3 % Base>>
<1>1. Base \in Nat \ {0} BY DEF ConfigOK
<1>2. n1 \in Nat /\ n % Base \in Int BY <1>1, Digit
<1>3. n2 \in Nat /\ n1 % Base \in Int
  <2> HIDE DEF n1
  <2> QED BY <1>1, <1>2, Digit
<1>4. n3 \in Nat /\ n2 % Base \in Int
  <2> HIDE DEF n2
  <2> QED BY <1>1, <1>3, Digit
<1>5. n3 % Base \in Int
  <2> HIDE DEF n3
  <2> QED BY <1>1, <1>4, Digit
<1>6. byte \in [1 .. 4 -> Int]
  <2> HIDE DEF n1, n2, n3
  <2> QED BY <1>2, <1>3, <1>4, <1>5
<1>7. PutSize(n) = [i \in 1 .. headSize |-> byte[Order(i)]] BY Zenon DEF PutSize
<1> HIDE DEF byte
<1>8. \A i \in 1 .. headSize : Order(i) \in 1 .. 4 BY DEF Order
<1>9. PutSize(n) \in [1 .. headSize -> Int] BY <1>6, <1>7, <1>8
<1> QED BY <1>9, SeqOfFunction

-----------------------------------------------------------------------------
(* The types. *)

LEMMA BodyTypes ==
    ASSUME ConfigOK, Types, NEW w \in Senders, NEW d \in Bodies(w)
    PROVE  d \in Seq(Int) /\ (SizeOK(Len(d)) => GoodSize(Len(d)))
<1>1. CASE w = "kick"
  <2>1. d = <<0, 0>> BY <1>1 DEF Bodies
  <2> QED BY <2>1 DEF GoodSize
<1>2. CASE w # "kick"
  <2>1. PICK n \in (0 .. maxSize - headSize + 1) \ {1} : d = [i \in 1 .. n |-> 1]
    BY <1>2 DEF Bodies
  <2>2. n \in Nat /\ d \in [1 .. n -> Int] BY <2>1
  <2>3. d \in Seq(Int) /\ Len(d) = n BY <2>2, SeqOfFunction
  <2> QED BY <2>1, <2>3 DEF GoodSize, SizeOK
<1> QED BY <1>1, <1>2

LEMMA TypesInit == ASSUME ConfigOK, Init PROVE Types
<1>1. headSize \in {2, 4} /\ maxSize \in Nat /\ headSize < maxSize BY DEF ConfigOK, Init
<1>2. cache \in [1 .. maxSize -> Int] BY DEF Init
<1>3. cache \in Seq(Int) /\ Len(cache) = maxSize BY <1>1, <1>2, SeqOfFunction
<1>4. << >> \in Seq(Int) /\ << >> \in Seq(Seq(Int)) BY EmptySeq
<1> QED BY <1>1, <1>3, <1>4 DEF Types, Init

\* What Write is given is the header and the body that the cache holds.
LEMMA FrameTypes ==
    ASSUME Types, Sending, NEW w \in Senders, pc[w] = "write"
    PROVE  /\ GoodSize(Len(data[w])) /\ Len(data[w]) \in Nat
           /\ Frame(w) \in Seq(Int) /\ Len(Frame(w)) = headSize + Len(data[w])
           /\ \A i \in 1 .. headSize + Len(data[w]) : Frame(w)[i] = cache[i]
<1>1. GoodSize(Len(data[w])) BY DEF Sending
<1>2. Len(data[w]) \in Nat BY LenProperties DEF Types
<1>3. headSize + Len(data[w]) \in 0 .. Len(cache) BY <1>1, <1>2 DEF GoodSize, SizeOK, Types
<1>4. cache \in Seq(Int) BY DEF Types
<1> QED BY <1>1, <1>2, <1>3, <1>4, First DEF Frame

\* The cache with another header.
LEMMA HeadCached ==
    ASSUME ConfigOK, Types, NEW n \in Nat,
           NEW c, c = PutSize(n) \o SubSeq(cache, headSize + 1, maxSize)
    PROVE  /\ c \in Seq(Int) /\ Len(c) = maxSize
           /\ \A j \in 1 .. headSize : c[j] = PutSize(n)[j]
<1> DEFINE p == PutSize(n)
           r == SubSeq(cache, headSize + 1, maxSize)
<1>1. p \in Seq(Int) /\ Len(p) = headSize BY HeaderBytes DEF Types
<1>2. headSize \in 0 .. Len(cache) /\ cache \in Seq(Int) /\ Len(cache) = maxSize BY DEF Types
<1>3. r \in Seq(Int) /\ Len(r) = maxSize - headSize BY <1>2, Rest
<1>4. headSize \in Nat /\ maxSize \in Nat /\ headSize < maxSize BY DEF Types
<1>5. c = p \o r OBVIOUS
<1> HIDE DEF p, r
<1>6. /\ p \o r \in Seq(Int) /\ Len(p \o r) = Len(p) + Len(r)
      /\ \A j \in 1 .. Len(p) : (p \o r)[j] = p[j]
  BY <1>1, <1>3, Joint
<1>7. Len(c) = maxSize
  <2>1. Len(c) = headSize + (maxSize - headSize) BY <1>1, <1>3, <1>5, <1>6
  <2> QED BY <1>4, <2>1
<1> QED BY <1>1, <1>5, <1>6, <1>7 DEF p

\* The cache with another body.
LEMMA BodyCached ==
    ASSUME Types, NEW w \in Senders, SizeOK(Len(data[w])),
           NEW c, c = [i \in 1 .. maxSize |-> IF i - headSize \in DOMAIN data[w]
                                              THEN data[w][i - headSize] ELSE cache[i]]
    PROVE  /\ c \in Seq(Int) /\ Len(c) = maxSize
           /\ \A j \in 1 .. headSize : c[j] = cache[j]
           /\ \A j \in 1 .. Len(data[w]) : c[headSize + j] = data[w][j]
<1> DEFINE d == data[w]
<1>1. /\ d \in Seq(Int) /\ Len(d) \in Nat /\ DOMAIN d = 1 .. Len(d)
      /\ \A j \in 1 .. Len(d) : d[j] \in Int
  BY LenProperties, ElementOfSeq DEF Types
<1>2. \A i \in 1 .. maxSize : cache[i] \in Int BY ElementOfSeq DEF Types
<1>3. Len(d) + headSize <= maxSize BY DEF SizeOK
<1>4. headSize \in Nat /\ maxSize \in Nat BY DEF Types
<1> HIDE DEF d
<1>5. c = [i \in 1 .. maxSize |-> IF i - headSize \in DOMAIN d THEN d[i - headSize] ELSE cache[i]]
  BY DEF d
<1>6. c \in [1 .. maxSize -> Int] BY <1>1, <1>2, <1>4, <1>5
<1>7. \A j \in 1 .. headSize : c[j] = cache[j]
  <2>1. headSize < maxSize BY DEF Types
  <2> QED BY <1>1, <1>4, <1>5, <2>1
<1>8. \A j \in 1 .. Len(d) : c[headSize + j] = d[j]
  <2> TAKE j \in 1 .. Len(d)
  <2>1. headSize + j \in 1 .. maxSize /\ (headSize + j) - headSize = j /\ j \in DOMAIN d
    BY <1>1, <1>3, <1>4
  <2> QED BY <1>5, <2>1
<1> QED BY <1>4, <1>6, <1>7, <1>8, SeqOfFunction DEF d

LEMMA SizeTypes ==
    ASSUME ConfigOK, headSize \in {2, 4}, NEW h \in Seq(Int), Len(h) = headSize
    PROVE  Size(h) \in Int
<1>1. \A k \in 1 .. headSize : h[Order(k)] \in Int BY ElementOfSeq DEF Order
<1>2. Base \in Int BY DEF ConfigOK
<1>3. CASE headSize = 2 BY <1>1, <1>2, <1>3 DEF Size
<1>4. CASE headSize = 4
  <2>1. Size(h) = h[Order(1)] + Base * (h[Order(2)] + Base * (h[Order(3)] + Base * h[Order(4)]))
    BY <1>4 DEF Size
  <2> QED BY <1>1, <1>2, <1>4, <2>1
<1> QED BY <1>3, <1>4

LEMMA TypesStep == ASSUME ConfigOK, Types, Sending, [Next]_vars PROVE Types'
<1>1. ASSUME NEW w \in Senders, PutHead(w) PROVE Types'
  <2>1. PICK d \in Bodies(w) :
          IF isClose \/ ~SizeOK(Len(d))
            THEN pc[w] = "idle" /\ UNCHANGED <<pc, data, cache, garbled>>
            ELSE /\ At(w, "idle", "copy")
                 /\ data' = [data EXCEPT ![w] = d]
                 /\ cache' = PutSize(Len(d)) \o SubSeq(cache, headSize + 1, maxSize)
                 /\ garbled' = ~Alone(w)
    BY <1>1 DEF PutHead
  <2>2. d \in Seq(Int) /\ Len(d) \in Nat BY BodyTypes, LenProperties
  <2>3. cache' \in Seq(Int) /\ Len(cache') = maxSize
    <3>1. CASE isClose \/ ~SizeOK(Len(d)) BY <2>1, <3>1 DEF Types
    <3>2. CASE ~ (isClose \/ ~SizeOK(Len(d))) BY <2>1, <2>2, <3>2, HeadCached
    <3> QED BY <3>1, <3>2
  <2>4. /\ pc' \in [Senders -> {"idle", "copy", "write"}]
        /\ data' \in [Senders -> Seq(Int)]
    BY <2>1, <2>2 DEF Types, At
  <2>5. UNCHANGED <<optVars, sent, recvVars, wire>> BY <1>1 DEF PutHead
  <2> QED BY <2>3, <2>4, <2>5 DEF Types, optVars, recvVars
<1>2. ASSUME NEW w \in Senders, Copy(w) PROVE Types'
  <2>1. GoodSize(Len(data[w])) BY <1>2 DEF Copy, At, Sending
  <2>2. cache' \in Seq(Int) /\ Len(cache') = maxSize
    BY <1>2, <2>1, BodyCached DEF Copy, GoodSize
  <2> QED BY <1>2, <2>2 DEF Types, Copy, At, optVars, recvVars
<1>3. ASSUME NEW w \in Senders, Write(w) PROVE Types'
  <2>1. Frame(w) \in Seq(Int) BY <1>3, FrameTypes DEF Write, Return, At
  <2>2. wire' \in Seq(Int) BY <1>3, <2>1, Joint DEF Write, Types
  <2>3. data[w] \in Seq(Int) /\ << >> \in Seq(Int) BY EmptySeq DEF Types
  <2>4. sent' \in Seq(Seq(Int)) BY <1>3, <2>3 DEF Write, Types
  <2> QED BY <1>3, <2>2, <2>3, <2>4 DEF Types, Write, Return, At, optVars, recvVars
<1>4. ASSUME NEW w \in Senders, WriteFails(w) PROVE Types'
  <2>1. PICK n \in 0 .. Len(Frame(w)) - 1 : wire' = wire \o SubSeq(Frame(w), 1, n)
    BY <1>4 DEF WriteFails
  <2>2. Frame(w) \in Seq(Int) BY <1>4, FrameTypes DEF WriteFails, Return, At
  <2>3. n \in 0 .. Len(Frame(w)) BY <2>1, <2>2, LenProperties
  <2>4. SubSeq(Frame(w), 1, n) \in Seq(Int) BY <2>2, <2>3, First
  <2>5. wire' \in Seq(Int) BY <2>1, <2>4, Joint DEF Types
  <2>6. << >> \in Seq(Int) BY EmptySeq
  <2> QED BY <1>4, <2>5, <2>6 DEF Types, WriteFails, Return, At, optVars, recvVars
<1>5. CASE OnClose \/ ReadFails \/ UNCHANGED vars
  BY <1>5 DEF Types, OnClose, ReadFails, vars, optVars, recvVars, sendVars
<1>6. CASE ReadHead
  <2>1. headSize \in 0 .. Len(wire) /\ wire \in Seq(Int)
    BY <1>6, LenProperties DEF ReadHead, Types
  <2>2. wire' \in Seq(Int) BY <1>6, <2>1, Rest DEF ReadHead
  <2> DEFINE sz == Size(SubSeq(wire, 1, headSize))
  <2>3. sz \in Int BY <2>1, First, SizeTypes DEF Types
  <2>4. IF SizeOK(sz) THEN reader' = "body" /\ size' = sz ELSE reader' = "refused" /\ UNCHANGED size
    BY <1>6, Zenon DEF ReadHead
  <2> HIDE DEF sz
  <2>5. size' \in Nat /\ reader' \in {"body", "refused"} BY <2>3, <2>4 DEF Types, SizeOK
  <2> QED BY <1>6, <2>2, <2>5 DEF Types, ReadHead, optVars, sendVars
<1>7. CASE ReadBody
  <2>1. size \in 0 .. Len(wire) /\ wire \in Seq(Int)
    BY <1>7, LenProperties DEF ReadBody, Types
  <2>2. wire' \in Seq(Int) BY <1>7, <2>1, Rest DEF ReadBody
  <2> DEFINE body == SubSeq(wire, 1, size)
  <2>3. body \in Seq(Int) BY <2>1, First
  <2>4. \/ received' = Append(received, body) /\ reader' = "head"
        \/ received' = received /\ reader' = "refused"
    BY <1>7 DEF ReadBody
  <2> HIDE DEF body
  <2>5. received \in Seq(Seq(Int)) /\ Append(received, body) \in Seq(Seq(Int))
    BY <2>3, AppendProperties DEF Types
  <2>6. received' \in Seq(Seq(Int)) BY <2>4, <2>5, Zenon
  <2> QED BY <1>7, <2>2, <2>4, <2>6 DEF Types, ReadBody, optVars, sendVars
<1> QED BY <1>1, <1>2, <1>3, <1>4, <1>5, <1>6, <1>7 DEF Next, OnSend, OnReceive

-----------------------------------------------------------------------------
(* The sender: what is in OnSend without company has the cache to itself.  *)

LEMMA SendingStep == ASSUME ConfigOK, Types, Sending, [Next]_vars PROVE Sending'
<1>1. UNCHANGED optVars /\ headSize' = headSize /\ maxSize' = maxSize
  BY DEF Next, OnSend, PutHead, Copy, Write, WriteFails, OnClose, OnReceive, ReadHead, ReadBody,
         ReadFails, vars, optVars
<1>2. \A n : PutSize(n)' = PutSize(n) /\ GoodSize(n)' = GoodSize(n)
  BY <1>1 DEF PutSize, Order, GoodSize, SizeOK, optVars
<1>3. ASSUME NEW w \in Senders, PutHead(w) PROVE Sending'
  <2>1. PICK d \in Bodies(w) :
          IF isClose \/ ~SizeOK(Len(d))
            THEN pc[w] = "idle" /\ UNCHANGED <<pc, data, cache, garbled>>
            ELSE /\ At(w, "idle", "copy")
                 /\ data' = [data EXCEPT ![w] = d]
                 /\ cache' = PutSize(Len(d)) \o SubSeq(cache, headSize + 1, maxSize)
                 /\ garbled' = ~Alone(w)
    BY <1>3 DEF PutHead
  <2>2. CASE UNCHANGED <<pc, data, cache, garbled>> BY <1>1, <1>2, <2>2 DEF Sending, Alone
  <2>3. CASE ~ (isClose \/ ~SizeOK(Len(d)))
    <3>1. /\ GoodSize(Len(d)) /\ garbled' = ~Alone(w)
          /\ pc' = [pc EXCEPT ![w] = "copy"] /\ data' = [data EXCEPT ![w] = d]
      BY <2>1, <2>3, BodyTypes DEF At
    <3>2. Len(d) \in Nat BY BodyTypes, LenProperties
    <3>3. \A j \in 1 .. headSize : cache'[j] = PutSize(Len(d))[j]
      BY <2>1, <2>3, <3>2, HeadCached
    <3>4. pc'[w] = "copy" /\ data'[w] = d BY <3>1 DEF Types
    <3>5. \A v \in Senders \ {w} : pc'[v] = pc[v] /\ data'[v] = data[v] BY <3>1 DEF Types
    <3>6. ASSUME NEW v \in Senders \ {w}, pc'[v] # "idle" PROVE GoodSize(Len(data'[v])) /\ garbled'
      BY <3>1, <3>5, <3>6 DEF Sending, Alone
    <3>7. garbled' \/ Alone(w)'
      <4>1. garbled' \/ Alone(w) BY <3>1, Zenon
      <4> QED BY <3>5, <4>1 DEF Alone
    <3> QED BY <1>1, <1>2, <3>1, <3>3, <3>4, <3>6, <3>7 DEF Sending
  <2> QED BY <2>1, <2>2, <2>3
<1>4. ASSUME NEW w \in Senders, Copy(w) PROVE Sending'
  <2>1. /\ pc[w] = "copy" /\ pc' = [pc EXCEPT ![w] = "write"]
        /\ data' = data /\ garbled' = garbled
    BY <1>4 DEF Copy, At
  <2>2. GoodSize(Len(data[w])) BY <2>1 DEF Sending
  <2>3. /\ \A j \in 1 .. headSize : cache'[j] = cache[j]
        /\ \A j \in 1 .. Len(data[w]) : cache'[headSize + j] = data[w][j]
    <3>1. SizeOK(Len(data[w])) BY <2>2 DEF GoodSize
    <3> QED BY <1>4, <3>1, BodyCached DEF Copy
  <2>4. \A v \in Senders \ {w} : pc'[v] = pc[v] BY <2>1 DEF Types
  <2>5. Alone(w) => Alone(w)' BY <2>4 DEF Alone
  <2>6. ASSUME NEW v \in Senders \ {w}, pc'[v] # "idle" PROVE GoodSize(Len(data'[v])) /\ garbled'
    <3>1. ~ Alone(w) BY <2>4, <2>6 DEF Alone
    <3> QED BY <2>1, <2>4, <2>6, <3>1 DEF Sending
  <2>7. \/ garbled
        \/ Alone(w) /\ \A j \in 1 .. headSize : cache[j] = PutSize(Len(data[w]))[j]
    BY <2>1 DEF Sending
  <2> QED BY <1>1, <1>2, <2>1, <2>2, <2>3, <2>5, <2>6, <2>7 DEF Sending
<1>5. ASSUME NEW w \in Senders, Write(w) \/ WriteFails(w) PROVE Sending'
  <2>1. /\ pc' = [pc EXCEPT ![w] = "idle"] /\ data' = [data EXCEPT ![w] = << >>]
        /\ cache' = cache
    BY <1>5 DEF Write, WriteFails, Return, At
  <2>2. \A v \in Senders \ {w} : pc'[v] = pc[v] /\ data'[v] = data[v] BY <2>1 DEF Types
  <2>3. pc'[w] = "idle" /\ (garbled => garbled')
    <3>1. garbled => garbled' BY <1>5, Zenon DEF Write, WriteFails
    <3> QED BY <2>1, <3>1 DEF Types
  <2>4. \A v \in Senders \ {w} : Alone(v) => Alone(v)' BY <2>2, <2>3 DEF Alone
  <2> QED BY <1>1, <1>2, <2>1, <2>2, <2>3, <2>4 DEF Sending
<1>6. CASE UNCHANGED <<pc, data, cache, garbled>>
  BY <1>1, <1>2, <1>6 DEF Sending, Alone
<1> QED
  BY <1>3, <1>4, <1>5, <1>6
  DEF Next, OnSend, OnClose, OnReceive, ReadHead, ReadBody, ReadFails, vars, sendVars

\* What is written in full was of a good size.
LEMMA GoodSizesStep ==
    ASSUME Types, Sending, GoodSizes, [Next]_vars
    PROVE  GoodSizes'
<1>1. UNCHANGED optVars
  BY DEF Next, OnSend, PutHead, Copy, Write, WriteFails, OnClose, OnReceive, ReadHead, ReadBody,
         ReadFails, vars
<1>2. \A n : GoodSize(n)' = GoodSize(n) BY <1>1 DEF GoodSize, SizeOK, optVars
<1>3. ASSUME NEW w \in Senders, Write(w) PROVE GoodSizes'
  <2>1. GoodSize(Len(data[w])) BY <1>3, FrameTypes DEF Write, Return, At
  <2>2. sent' = Append(sent, data[w]) BY <1>3 DEF Write
  <2>3. /\ Len(sent') = Len(sent) + 1 /\ sent'[Len(sent) + 1] = data[w]
        /\ \A i \in 1 .. Len(sent) : sent'[i] = sent[i]
    BY <2>2, AppendProperties DEF Types
  <2>4. Len(sent) \in Nat BY LenProperties DEF Types
  <2>5. ASSUME NEW i \in 1 .. Len(sent') PROVE GoodSize(Len(sent'[i]))
    <3>1. CASE i = Len(sent) + 1 BY <2>1, <2>3, <3>1
    <3>2. CASE i # Len(sent) + 1
      <4>1. i \in 1 .. Len(sent) BY <2>3, <2>4, <3>2
      <4> QED BY <2>3, <4>1 DEF GoodSizes
    <3> QED BY <3>1, <3>2
  <2> QED BY <1>2, <2>5 DEF GoodSizes
<1>4. CASE UNCHANGED sent BY <1>2, <1>4 DEF GoodSizes
<1> QED
  BY <1>3, <1>4
  DEF Next, OnSend, PutHead, Copy, WriteFails, OnClose, OnReceive, ReadHead, ReadBody,
      ReadFails, vars, sendVars

(* A garbled stream stays so. *)
LEMMA GarbledStays == ASSUME Types, Garbled, [Next]_vars PROVE Garbled'
<1>1. UNCHANGED optVars
  BY DEF Next, OnSend, PutHead, Copy, Write, WriteFails, OnClose, OnReceive, ReadHead, ReadBody,
         ReadFails, vars
<1>2. Sizes' = Sizes BY <1>1 DEF Sizes, optVars
<1>3. garbled => garbled'
  <2>1. ASSUME NEW w \in Senders, OnSend(w) PROVE garbled => garbled'
    BY <2>1, Zenon DEF OnSend, PutHead, MoreToSend, Copy, Write, WriteFails
  <2>2. CASE ~ \E w \in Senders : OnSend(w)
    BY <2>2, Zenon DEF Next, OnClose, OnReceive, ReadHead, ReadBody, ReadFails, vars, sendVars
  <2> QED BY <2>1, <2>2
<1>4. ASSUME NEW i \in 1 .. Len(sent) PROVE i \in 1 .. Len(sent') /\ sent'[i] = sent[i]
  <2>1. ASSUME NEW w \in Senders, Write(w) PROVE i \in 1 .. Len(sent') /\ sent'[i] = sent[i]
    <3>1. sent' = Append(sent, data[w]) BY <2>1 DEF Write
    <3>2. Len(sent) \in Nat BY LenProperties DEF Types
    <3> QED BY <3>1, <3>2, AppendProperties DEF Types
  <2>2. CASE sent' = sent BY <2>2
  <2> QED
    BY <2>1, <2>2
    DEF Next, OnSend, PutHead, Copy, WriteFails, OnClose, OnReceive, ReadHead, ReadBody,
        ReadFails, vars, sendVars
<1>5. sent \in Seq(Seq(Int)) /\ sent' \in Seq(Seq(Int))
  <2>1. sent' = sent \/ \E w \in Senders : sent' = Append(sent, data[w])
    BY DEF Next, OnSend, PutHead, Copy, Write, WriteFails, OnClose, OnReceive, ReadHead, ReadBody,
           ReadFails, vars, sendVars
  <2>2. \A w \in Senders : Append(sent, data[w]) \in Seq(Seq(Int))
    BY AppendProperties DEF Types
  <2>3. sent \in Seq(Seq(Int)) BY DEF Types
  <2> QED BY <2>1, <2>2, <2>3, Zenon
<1>6. DOMAIN sent = 1 .. Len(sent) /\ DOMAIN sent' = 1 .. Len(sent') BY <1>5, LenProperties
<1> QED BY <1>2, <1>3, <1>4, <1>6, Zenon DEF Garbled

-----------------------------------------------------------------------------
(* Frames on the wire: more is written behind them, and what is before     *)
(* them is read.                                                           *)

LEMMA FramedStays ==
    ASSUME headSize \in {2, 4}, NEW s \in Seq(Int), NEW u \in Seq(Int), NEW m \in Seq(Int),
           NEW p \in Int, 0 - headSize <= p, p + headSize + Len(m) <= Len(s), Framed(s, p, m)
    PROVE  Framed(s \o u, p, m)
<1>1. \A i \in 1 .. Len(s) : (s \o u)[i] = s[i] BY Joint
<1>2. Len(s) \in Nat /\ Len(m) \in Nat BY LenProperties
<1>3. ASSUME NEW j \in 1 .. headSize, p + j > 0 PROVE (s \o u)[p + j] = PutSize(Len(m))[j]
  <2>1. p + j \in 1 .. Len(s) BY <1>2, <1>3
  <2> QED BY <1>1, <1>3, <2>1 DEF Framed
<1>4. ASSUME NEW j \in 1 .. Len(m) PROVE (s \o u)[p + headSize + j] = m[j]
  <2>1. p + headSize + j \in 1 .. Len(s) BY <1>2
  <2> QED BY <1>1, <2>1 DEF Framed
<1> QED BY <1>3, <1>4 DEF Framed

LEMMA FramedBehind ==
    ASSUME headSize \in {2, 4}, NEW s \in Seq(Int), NEW u \in Seq(Int), NEW m \in Seq(Int),
           Len(u) = headSize + Len(m), Framed(u, 0, m)
    PROVE  Framed(s \o u, Len(s), m)
<1>1. \A i \in 1 .. Len(u) : (s \o u)[Len(s) + i] = u[i] BY Joint
<1>2. Len(s) \in Nat /\ Len(m) \in Nat BY LenProperties
<1>3. ASSUME NEW j \in 1 .. headSize PROVE (s \o u)[Len(s) + j] = PutSize(Len(m))[j]
  <2>1. j \in 1 .. Len(u) /\ 0 + j > 0 /\ 0 + j = j BY <1>2
  <2> QED BY <1>1, <2>1 DEF Framed
<1>4. ASSUME NEW j \in 1 .. Len(m) PROVE (s \o u)[Len(s) + headSize + j] = m[j]
  <2>1. headSize + j \in 1 .. Len(u) /\ 0 + headSize + j = headSize + j
        /\ Len(s) + headSize + j = Len(s) + (headSize + j)
    BY <1>2
  <2> QED BY <1>1, <2>1 DEF Framed
<1> QED BY <1>3, <1>4 DEF Framed

LEMMA FramedRest ==
    ASSUME headSize \in {2, 4}, NEW s \in Seq(Int), NEW n \in 0 .. Len(s), NEW m \in Seq(Int),
           NEW p \in Int, 0 - headSize <= p - n, p + headSize + Len(m) <= Len(s), Framed(s, p, m)
    PROVE  Framed(SubSeq(s, n + 1, Len(s)), p - n, m)
<1> DEFINE r == SubSeq(s, n + 1, Len(s))
<1>1. \A i \in 1 .. Len(s) - n : r[i] = s[n + i] BY Rest
<1>2. Len(s) \in Nat /\ Len(m) \in Nat /\ n \in Nat BY LenProperties
<1> HIDE DEF r
<1>3. ASSUME NEW j \in 1 .. headSize, p - n + j > 0 PROVE r[p - n + j] = PutSize(Len(m))[j]
  <2>1. p - n + j \in 1 .. Len(s) - n /\ n + (p - n + j) = p + j /\ p + j > 0 BY <1>2, <1>3
  <2>2. r[p - n + j] = s[p + j] BY <1>1, <2>1
  <2> QED BY <2>1, <2>2 DEF Framed
<1>4. ASSUME NEW j \in 1 .. Len(m) PROVE r[p - n + headSize + j] = m[j]
  <2>1. p - n + headSize + j \in 1 .. Len(s) - n
        /\ n + (p - n + headSize + j) = p + headSize + j
    BY <1>2
  <2>2. r[p - n + headSize + j] = s[p + headSize + j] BY <1>1, <2>1
  <2> QED BY <2>2 DEF Framed
<1>5. Framed(r, p - n, m) BY <1>3, <1>4 DEF Framed
<1> QED BY <1>5 DEF r

-----------------------------------------------------------------------------
(* The stream, step by step. *)

LEMMA OptionsStay ==
    ASSUME [Next]_vars
    PROVE  /\ UNCHANGED <<headSize, maxSize, bigEndian>>
           /\ \A n : PutSize(n)' = PutSize(n)
           /\ \A s, p, m : Framed(s, p, m)' <=> Framed(s, p, m)
<1>1. UNCHANGED <<headSize, maxSize, bigEndian>>
  BY DEF Next, OnSend, PutHead, Copy, Write, WriteFails, OnClose, OnReceive, ReadHead, ReadBody,
         ReadFails, vars, optVars
<1>2. \A n : PutSize(n)' = PutSize(n) BY <1>1 DEF PutSize, Order
<1>3. \A s, p, m : Framed(s, p, m)' <=> Framed(s, p, m) BY <1>1, <1>2 DEF Framed
<1> QED BY <1>1, <1>2, <1>3

\* Where the frames are.
LEMMA Laid ==
    ASSUME Types, NEW off, LaidOut(off), Len(received) <= Len(sent),
           NEW i \in Len(received) + 1 .. Len(sent)
    PROVE  /\ sent[i] \in Seq(Int) /\ Len(sent[i]) \in Nat
           /\ off[i - 1] \in Int /\ off[i] \in Int
           /\ off[i] = off[i - 1] + headSize + Len(sent[i])
           /\ off[Len(received)] <= off[i - 1] /\ off[i] <= Len(wire)
           /\ Framed(wire, off[i - 1], sent[i])
<1> DEFINE k == Len(received)
           n == Len(sent)
<1>1. k \in Nat /\ n \in Nat BY LenProperties DEF Types
<1>2. i \in k .. n /\ i - 1 \in k .. n /\ k \in k .. n /\ n \in k .. n /\ i \in 1 .. n
      /\ k <= i - 1 /\ i <= n
  BY <1>1
<1>3. off \in [k .. n -> Int] BY DEF LaidOut
<1>4. off[i - 1] \in Int /\ off[i] \in Int
  <2> HIDE DEF k, n
  <2> QED BY <1>2, <1>3
<1>5. sent[i] \in Seq(Int) BY <1>2, ElementOfSeq DEF Types
<1>6. Len(sent[i]) \in Nat BY <1>5, LenProperties
<1>7. off[i] = off[i - 1] + headSize + Len(sent[i]) BY Zenon DEF LaidOut
<1>8. off[k] <= off[i - 1] /\ off[i] <= off[n] BY <1>2, Zenon DEF LaidOut
<1>9. off[n] = Len(wire) /\ Framed(wire, off[i - 1], sent[i]) BY Zenon DEF LaidOut
<1> QED BY <1>4, <1>5, <1>6, <1>7, <1>8, <1>9

\* OnSend writes a frame behind the others.
LEMMA WriteIntact ==
    ASSUME ConfigOK, Types, Sending, Intact, ~ garbled,
           NEW w \in Senders, Write(w)
    PROVE  Intact'
<1> DEFINE m == data[w]
           f == Frame(w)
           k == Len(received)
           n == Len(sent)
<1>1. [Next]_vars BY DEF Next, OnSend
<1>2. /\ f \in Seq(Int) /\ m \in Seq(Int) /\ Len(m) \in Nat /\ Len(f) = headSize + Len(m)
      /\ headSize \in {2, 4} /\ wire \in Seq(Int) /\ Len(wire) \in Nat
      /\ k \in Nat /\ n \in Nat /\ k <= n
  BY FrameTypes, LenProperties DEF Write, Return, At, Types, Intact, InOrder
<1>3. Framed(f, 0, m)
  <2>1. pc[w] = "write" BY DEF Write, Return, At
  <2>2. /\ \A j \in 1 .. headSize : cache[j] = PutSize(Len(m))[j]
        /\ \A j \in 1 .. Len(m) : cache[headSize + j] = m[j]
    BY <2>1 DEF Sending
  <2>3. \A i \in 1 .. headSize + Len(m) : f[i] = cache[i] BY <2>1, FrameTypes
  <2> HIDE DEF m, f
  <2>4. ASSUME NEW j \in 1 .. headSize PROVE f[0 + j] = PutSize(Len(m))[j]
    <3>1. j \in 1 .. headSize + Len(m) /\ 0 + j = j BY <1>2
    <3> QED BY <2>2, <2>3, <3>1
  <2>5. ASSUME NEW j \in 1 .. Len(m) PROVE f[0 + headSize + j] = m[j]
    <3>1. headSize + j \in 1 .. headSize + Len(m) /\ 0 + headSize + j = headSize + j BY <1>2
    <3> QED BY <2>2, <2>3, <3>1
  <2> QED BY <2>4, <2>5 DEF Framed
<1>4. wire' = wire \o f /\ sent' = Append(sent, m) /\ UNCHANGED recvVars
  BY DEF Write
<1>5. /\ Len(sent') = n + 1 /\ sent'[n + 1] = m
      /\ \A i \in 1 .. n : sent'[i] = sent[i]
      /\ Len(wire') = Len(wire) + headSize + Len(m)
  <2>1. m \in Seq(Int) /\ sent \in Seq(Seq(Int)) BY DEF Types
  <2>2. /\ Len(sent') = n + 1 /\ sent'[n + 1] = m
        /\ \A i \in 1 .. n : sent'[i] = sent[i]
    BY <1>4, <2>1, AppendProperties
  <2>3. Len(wire') = Len(wire) + Len(f)
    <3> HIDE DEF f
    <3> QED BY <1>2, <1>4, Joint
  <2> HIDE DEF m, f
  <2> QED BY <1>2, <2>2, <2>3
<1>6. InOrder'
  <2>1. received' = received /\ \A i \in 1 .. k : received[i] = sent[i]
    BY <1>4 DEF recvVars, Intact, InOrder
  <2>2. \A i \in 1 .. k : i \in 1 .. n BY <1>2
  <2> HIDE DEF n, m
  <2> QED BY <1>2, <1>5, <2>1, <2>2 DEF InOrder
<1>7. ASSUME NEW off, LaidOut(off) PROVE \E off2 : LaidOut(off2)'
  <2>0. PICK off2 : off2 = [i \in k .. n + 1 |-> IF i = n + 1 THEN Len(wire') ELSE off[i]]
    OBVIOUS
  <2>1. off \in [k .. n -> Int] /\ off[n] = Len(wire) BY Zenon, <1>7 DEF LaidOut
  <2>2. off[k] = (IF reader = "body" THEN 0 - headSize ELSE 0) BY Zenon, <1>7 DEF LaidOut
  <2>3. \A i, j \in k .. n : i <= j => off[i] <= off[j] BY Zenon, <1>7 DEF LaidOut
  <2>4. \A i \in k + 1 .. n :
          /\ off[i] = off[i - 1] + headSize + Len(sent[i]) /\ off[i] <= Len(wire)
          /\ off[i - 1] \in Int /\ 0 - headSize <= off[i - 1] /\ sent[i] \in Seq(Int)
          /\ Len(sent[i]) \in Nat /\ Framed(wire, off[i - 1], sent[i])
    <3> TAKE i \in k + 1 .. n
    <3>1. /\ off[i] = off[i - 1] + headSize + Len(sent[i]) /\ off[i] <= Len(wire)
          /\ off[i - 1] \in Int /\ off[k] <= off[i - 1] /\ sent[i] \in Seq(Int)
          /\ Len(sent[i]) \in Nat /\ Framed(wire, off[i - 1], sent[i])
      BY <1>2, <1>7, Laid
    <3>2. 0 - headSize <= off[k] /\ off[k] \in Int BY <1>2, <2>2
    <3> HIDE DEF k, n
    <3> QED BY <1>2, <3>1, <3>2
  <2> HIDE DEF m, f, k, n
  <2>5. off2 \in [k .. n + 1 -> Int] BY <1>2, <1>5, <2>0, <2>1
  <2>6. off2[n + 1] = Len(wire') /\ \A i \in k .. n : off2[i] = off[i] BY <1>2, <2>0
  <2>7. off2[k] = (IF reader = "body" THEN 0 - headSize ELSE 0) BY <1>2, <2>2, <2>6
  <2>8. \A i, j \in k .. n + 1 : i <= j => off2[i] <= off2[j]
    <3> TAKE i, j \in k .. n + 1
    <3>1. CASE j # n + 1 BY <1>2, <2>3, <2>6, <3>1
    <3>2. CASE i = n + 1 BY <1>2, <1>5, <2>6, <3>2
    <3>3. CASE j = n + 1 /\ i # n + 1
      <4>1. off2[i] = off[i] /\ off[i] <= off[n] /\ off[i] \in Int BY <1>2, <2>1, <2>3, <2>6, <3>3
      <4> QED BY <1>2, <1>5, <2>1, <2>6, <3>3, <4>1
    <3> QED BY <3>1, <3>2, <3>3
  <2>9. ASSUME NEW i \in k + 1 .. n + 1
        PROVE  /\ off2[i] = off2[i - 1] + headSize + Len(sent'[i])
               /\ Framed(wire', off2[i - 1], sent'[i])
    <3>1. CASE i # n + 1
      <4>1. i \in k + 1 .. n /\ i \in 1 .. n /\ i \in k .. n /\ i - 1 \in k .. n BY <1>2, <3>1
      <4>2. off2[i] = off[i] /\ off2[i - 1] = off[i - 1] /\ sent'[i] = sent[i]
        BY <1>5, <2>6, <4>1
      <4>3. off[i - 1] + headSize + Len(sent[i]) <= Len(wire) BY <2>4, <4>1
      <4>4. Framed(wire \o f, off[i - 1], sent[i]) BY <1>2, <2>4, <4>1, <4>3, FramedStays
      <4> QED BY <1>4, <2>4, <4>1, <4>2, <4>4
    <3>2. CASE i = n + 1
      <4>1. i - 1 = n /\ n \in k .. n BY <1>2, <3>2
      <4>2. off2[i - 1] = Len(wire) BY <2>1, <2>6, <4>1
      <4>3. Framed(wire \o f, Len(wire), m) BY <1>2, <1>3, FramedBehind
      <4> QED BY <1>4, <1>5, <2>6, <3>2, <4>2, <4>3
    <3> QED BY <3>1, <3>2
  <2>10. LaidOut(off2)'
    <3>1. Len(received') = k /\ reader' = reader BY <1>4 DEF recvVars, k
    <3>2. headSize' = headSize /\ \A s, p, x : Framed(s, p, x)' <=> Framed(s, p, x)
      BY <1>1, OptionsStay
    <3> QED BY <1>5, <2>5, <2>6, <2>7, <2>8, <2>9, <3>1, <3>2 DEF LaidOut
  <2> QED BY <2>10
<1>8. Stream'
  <2>1. /\ reader' = reader /\ received' = received /\ size' = size BY <1>4 DEF recvVars
  <2>2. reader = "body" => k + 1 \in 1 .. n BY <1>2 DEF Intact, Stream
  <2> QED BY <1>2, <1>5, <1>7, <2>1, <2>2 DEF Intact, Stream
<1> QED BY <1>4, <1>6, <1>8 DEF Intact, recvVars

\* OnReceive reads the header of the first frame.
LEMMA ReadHeadIntact ==
    ASSUME ConfigOK, Types, GoodSizes, Intact, ~ Garbled, ReadHead
    PROVE  Intact'
<1> DEFINE k == Len(received)
           n == Len(sent)
           m == sent[k + 1]
           h == SubSeq(wire, 1, headSize)
<1>1. [Next]_vars BY DEF Next, OnReceive
<1>2. /\ headSize \in {2, 4} /\ wire \in Seq(Int) /\ Len(wire) \in Nat
      /\ headSize \in 0 .. Len(wire)
      /\ k \in Nat /\ n \in Nat /\ k <= n
      /\ sent \in Seq(Seq(Int)) /\ DOMAIN sent = 1 .. n
  BY LenProperties DEF ReadHead, Types, Intact, InOrder
<1>3. PICK off : LaidOut(off) BY DEF Intact, Stream, ReadHead
<1>4. reader = "head" /\ off[k] = 0 /\ off[n] = Len(wire) BY <1>3 DEF LaidOut, ReadHead
<1>5. k + 1 \in 1 .. n /\ k + 1 \in k + 1 .. n /\ (k + 1) - 1 = k
  <2> HIDE DEF k, n
  <2> QED BY <1>2, <1>4
<1>6. m \in Seq(Int) /\ Len(m) \in Nat /\ Framed(wire, 0, m)
  <2>1. sent[k + 1] \in Seq(Int) /\ Len(sent[k + 1]) \in Nat /\ Framed(wire, off[(k + 1) - 1], sent[k + 1])
    BY <1>2, <1>3, <1>5, Laid
  <2> QED BY <1>4, <1>5, <2>1
<1>7. SizeOK(Len(m)) /\ Len(m) < Sizes
  <2>1. SizeOK(Len(m)) BY <1>5 DEF GoodSizes, GoodSize
  <2>2. Sizes \in Nat
    <3>1. Base \in Nat BY DEF ConfigOK
    <3> QED BY <3>1 DEF Sizes
  <2>3. ~ (Len(m) >= Sizes) BY <1>2, <1>5 DEF Garbled
  <2> QED BY <1>6, <2>1, <2>2, <2>3
<1>8. Size(h) = Len(m)
  <2>1. \A j \in 1 .. headSize : h[j] = wire[j] BY <1>2, First
  <2> HIDE DEF h, m
  <2>2. ASSUME NEW j \in 1 .. headSize PROVE h[j] = PutSize(Len(m))[j]
    <3>1. 0 + j > 0 /\ 0 + j = j BY <1>2
    <3> QED BY <1>6, <2>1, <3>1 DEF Framed
  <2> QED BY <1>2, <1>6, <1>7, <2>2, HeaderReads
<1>9. reader' = "body" /\ size' = Len(m)
  <2>1. IF SizeOK(Size(h)) THEN reader' = "body" /\ size' = Size(h)
                          ELSE reader' = "refused" /\ UNCHANGED size
    BY Zenon DEF ReadHead
  <2> QED BY <1>7, <1>8, <2>1
<1>10. wire' = SubSeq(wire, headSize + 1, Len(wire)) /\ received' = received /\ sent' = sent
  BY DEF ReadHead, sendVars
<1>11. Len(wire') = Len(wire) - headSize BY <1>2, <1>10, Rest
<1>12. \E off2 : LaidOut(off2)'
  <2>1. PICK off2 : off2 = [i \in k .. n |-> off[i] - headSize] OBVIOUS
  <2>2. off \in [k .. n -> Int] BY Zenon, <1>3 DEF LaidOut
  <2>3. \A i, j \in k .. n : i <= j => off[i] <= off[j] BY Zenon, <1>3 DEF LaidOut
  <2>4. ASSUME NEW i \in k + 1 .. n
        PROVE  /\ off[i] = off[i - 1] + headSize + Len(sent[i]) /\ off[i] <= Len(wire)
               /\ off[i - 1] \in Int /\ 0 <= off[i - 1] /\ sent[i] \in Seq(Int)
               /\ Len(sent[i]) \in Nat /\ Framed(wire, off[i - 1], sent[i])
    <3>1. /\ off[i] = off[i - 1] + headSize + Len(sent[i]) /\ off[i] <= Len(wire)
          /\ off[i - 1] \in Int /\ off[k] <= off[i - 1] /\ sent[i] \in Seq(Int)
          /\ Len(sent[i]) \in Nat /\ Framed(wire, off[i - 1], sent[i])
      BY <1>2, <1>3, Laid
    <3> QED BY <1>4, <3>1
  <2> HIDE DEF k, n, m
  <2>5. off2 \in [k .. n -> Int] /\ \A i \in k .. n : off2[i] = off[i] - headSize
    BY <1>2, <2>1, <2>2
  <2>6. off2[k] = 0 - headSize /\ off2[n] = Len(wire')
    BY <1>2, <1>4, <1>11, <2>5
  <2>7. \A i, j \in k .. n : i <= j => off2[i] <= off2[j] BY <1>2, <2>2, <2>3, <2>5
  <2>8. ASSUME NEW i \in k + 1 .. n
        PROVE  /\ off2[i] = off2[i - 1] + headSize + Len(sent[i])
               /\ Framed(wire', off2[i - 1], sent[i])
    <3>1. i \in k .. n /\ i - 1 \in k .. n BY <1>2
    <3>2. off2[i] = off[i] - headSize /\ off2[i - 1] = off[i - 1] - headSize BY <2>5, <3>1
    <3>3. /\ 0 - headSize <= off[i - 1] - headSize
          /\ off[i - 1] + headSize + Len(sent[i]) <= Len(wire)
      <4>1. /\ off[i] = off[i - 1] + headSize + Len(sent[i]) /\ off[i] <= Len(wire)
            /\ off[i - 1] \in Int /\ 0 <= off[i - 1]
        BY <2>4
      <4>2. 0 - headSize <= off[i - 1] - headSize BY <1>2, <4>1
      <4> QED BY <4>1, <4>2
    <3>4. Framed(wire', off[i - 1] - headSize, sent[i])
      BY <1>2, <1>10, <2>4, <3>3, FramedRest
    <3> QED BY <1>2, <2>4, <3>2, <3>4
  <2>9. headSize' = headSize /\ \A s, p, x : Framed(s, p, x)' <=> Framed(s, p, x)
    BY <1>1, OptionsStay
  <2>10. LaidOut(off2)'
    BY <1>9, <1>10, <2>5, <2>6, <2>7, <2>8, <2>9 DEF LaidOut, k, n
  <2> QED BY <2>10
<1> QED
  <2>1. InOrder' BY <1>10 DEF Intact, InOrder
  <2>2. Stream' BY <1>2, <1>5, <1>9, <1>10, <1>12 DEF Stream
  <2> QED BY <1>9, <2>1, <2>2 DEF Intact

\* OnReceive reads the body of the first frame.
LEMMA ReadBodyIntact ==
    ASSUME ConfigOK, Types, GoodSizes, Intact, ReadBody
    PROVE  Intact'
<1> DEFINE k == Len(received)
           n == Len(sent)
           m == sent[k + 1]
           body == SubSeq(wire, 1, size)
<1>1. [Next]_vars BY DEF Next, OnReceive
<1>2. /\ headSize \in {2, 4} /\ wire \in Seq(Int) /\ Len(wire) \in Nat
      /\ size \in 0 .. Len(wire) /\ size \in Nat
      /\ k \in Nat /\ n \in Nat /\ k < n /\ k <= n /\ size = Len(m)
      /\ sent \in Seq(Seq(Int)) /\ DOMAIN sent = 1 .. n
  BY LenProperties DEF ReadBody, Types, Intact, Stream
<1>3. PICK off : LaidOut(off) BY DEF Intact, Stream, ReadBody
<1>4. reader = "body" /\ off[k] = 0 - headSize /\ off[n] = Len(wire) BY <1>3 DEF LaidOut, ReadBody
<1>5. k + 1 \in 1 .. n /\ k + 1 \in k + 1 .. n /\ (k + 1) - 1 = k BY <1>2
<1>6. /\ m \in Seq(Int) /\ Len(m) \in Nat /\ Framed(wire, 0 - headSize, m)
      /\ off[k + 1] = size
  <2>1. /\ sent[k + 1] \in Seq(Int) /\ Len(sent[k + 1]) \in Nat
        /\ Framed(wire, off[(k + 1) - 1], sent[k + 1])
        /\ off[k + 1] = off[(k + 1) - 1] + headSize + Len(sent[k + 1])
    BY <1>2, <1>3, <1>5, Laid
  <2> HIDE DEF k, n
  <2>2. off[(k + 1) - 1] = 0 - headSize BY <1>4, <1>5
  <2>3. off[k + 1] = 0 - headSize + headSize + Len(sent[k + 1]) BY <2>1, <2>2
  <2>4. off[k + 1] = size
    <3>1. size = Len(sent[k + 1]) BY <1>2
    <3>2. size \in Int /\ headSize \in Int BY <1>2
    <3>3. off[k + 1] = (0 - headSize) + headSize + size BY <2>3, <3>1
    <3> QED BY <3>2, <3>3
  <2>5. Framed(wire, 0 - headSize, m) BY <2>1, <2>2, Zenon
  <2> QED BY <2>1, <2>4, <2>5
<1>7. body = m
  <2>1. body \in Seq(Int) /\ Len(body) = size /\ \A j \in 1 .. size : body[j] = wire[j]
    BY <1>2, First
  <2> HIDE DEF body, m
  <2>2. ASSUME NEW j \in 1 .. size PROVE body[j] = m[j]
    <3>1. 0 - headSize + headSize + j = j BY <1>2
    <3> QED BY <1>2, <1>6, <2>1, <3>1 DEF Framed
  <2> QED BY <1>2, <1>6, <2>1, <2>2, SeqEqual
<1>8. body \in Range(sent) /\ Len(body) >= 2
  BY <1>2, <1>5, <1>7 DEF Range, GoodSizes, GoodSize
<1>9. /\ reader' = "head" /\ received' = Append(received, m)
      /\ wire' = SubSeq(wire, size + 1, Len(wire)) /\ sent' = sent
  <2>1. /\ \/ Len(body) >= 2 /\ reader' = "head" /\ received' = Append(received, body)
           \/ Len(body) < 2 \/ body \notin Range(sent)
        /\ wire' = SubSeq(wire, size + 1, Len(wire)) /\ sent' = sent
    BY DEF ReadBody, sendVars
  <2>2. Len(body) \in Nat /\ Len(body) >= 2 BY <1>6, <1>7, <1>8
  <2> HIDE DEF body, m
  <2>3. ~ (Len(body) < 2) BY <2>2
  <2> QED BY <1>7, <1>8, <2>1, <2>3, Zenon
<1>10. Len(wire') = Len(wire) - size BY <1>2, <1>9, Rest
<1>11. /\ Len(received') = k + 1 /\ received'[k + 1] = m
       /\ \A i \in 1 .. k : received'[i] = received[i]
  <2>1. m \in Seq(Int) /\ received \in Seq(Seq(Int)) BY <1>6 DEF Types
  <2> HIDE DEF m
  <2> QED BY <1>9, <2>1, AppendProperties
<1>12. \E off2 : LaidOut(off2)'
  <2>1. PICK off2 : off2 = [i \in k + 1 .. n |-> off[i] - size] OBVIOUS
  <2>2. off \in [k .. n -> Int] BY Zenon, <1>3 DEF LaidOut
  <2>3. \A i, j \in k .. n : i <= j => off[i] <= off[j] BY Zenon, <1>3 DEF LaidOut
  <2>4. ASSUME NEW i \in (k + 1) + 1 .. n
        PROVE  /\ off[i] = off[i - 1] + headSize + Len(sent[i]) /\ off[i] <= Len(wire)
               /\ off[i - 1] \in Int /\ size <= off[i - 1] /\ sent[i] \in Seq(Int)
               /\ Len(sent[i]) \in Nat /\ Framed(wire, off[i - 1], sent[i])
    <3>1. i \in k + 1 .. n /\ k + 1 \in k .. n /\ i - 1 \in k .. n /\ k + 1 <= i - 1
      BY <1>2
    <3>2. /\ off[i] = off[i - 1] + headSize + Len(sent[i]) /\ off[i] <= Len(wire)
          /\ off[i - 1] \in Int /\ sent[i] \in Seq(Int)
          /\ Len(sent[i]) \in Nat /\ Framed(wire, off[i - 1], sent[i])
      BY <1>2, <1>3, <3>1, Laid
    <3>3. off[k + 1] <= off[i - 1] BY <2>3, <3>1
    <3> QED BY <1>6, <3>2, <3>3
  <2> HIDE DEF k, n, m
  <2>5. off2 \in [k + 1 .. n -> Int] /\ \A i \in k + 1 .. n : off2[i] = off[i] - size
    BY <1>2, <2>1, <2>2
  <2>6. off2[k + 1] = 0 /\ off2[n] = Len(wire')
    <3>1. k + 1 \in k + 1 .. n /\ n \in k + 1 .. n BY <1>2
    <3>2. off2[k + 1] = off[k + 1] - size /\ off2[n] = off[n] - size BY <2>5, <3>1
    <3> QED BY <1>2, <1>4, <1>6, <1>10, <3>2
  <2>7. \A i, j \in k + 1 .. n : i <= j => off2[i] <= off2[j] BY <1>2, <2>2, <2>3, <2>5
  <2>8. ASSUME NEW i \in (k + 1) + 1 .. n
        PROVE  /\ off2[i] = off2[i - 1] + headSize + Len(sent[i])
               /\ Framed(wire', off2[i - 1], sent[i])
    <3>1. i \in k + 1 .. n /\ i - 1 \in k + 1 .. n BY <1>2
    <3>2. off2[i] = off[i] - size /\ off2[i - 1] = off[i - 1] - size BY <2>5, <3>1
    <3>3. /\ off[i] = off[i - 1] + headSize + Len(sent[i]) /\ off[i] <= Len(wire)
          /\ off[i - 1] \in Int /\ size <= off[i - 1] /\ Len(sent[i]) \in Nat
      BY <2>4
    <3>4. 0 - headSize <= off[i - 1] - size BY <1>2, <3>3
    <3>5. off[i - 1] + headSize + Len(sent[i]) <= Len(wire) BY <3>3
    <3>6. Framed(wire', off[i - 1] - size, sent[i])
      BY <1>2, <1>9, <2>4, <3>4, <3>5, FramedRest
    <3> QED BY <1>2, <3>2, <3>3, <3>6
  <2>9. headSize' = headSize /\ \A s, p, x : Framed(s, p, x)' <=> Framed(s, p, x)
    BY <1>1, OptionsStay
  <2>10. LaidOut(off2)'
    BY <1>9, <1>11, <2>5, <2>6, <2>7, <2>8, <2>9 DEF LaidOut, n
  <2> QED BY <2>10
<1> QED
  <2>1. InOrder'
    <3>1. \A i \in 1 .. k : received[i] = sent[i] BY DEF Intact, InOrder
    <3>2. sent' = sent /\ Len(sent') = n BY <1>9
    <3>3. m = sent[k + 1] OBVIOUS
    <3> HIDE DEF k, n, m
    <3>4. Len(received') <= Len(sent') BY <1>2, <1>11, <3>2
    <3>5. ASSUME NEW i \in 1 .. k + 1 PROVE received'[i] = sent[i]
      <4>1. CASE i = k + 1 BY <1>11, <3>3, <4>1
      <4>2. CASE i \in 1 .. k BY <1>11, <3>1, <4>2
      <4> QED BY <1>2, <4>1, <4>2
    <3>6. \A i \in 1 .. Len(received') : received'[i] = sent'[i] BY <1>11, <3>2, <3>5
    <3> QED BY <3>4, <3>6 DEF InOrder
  <2>2. Stream' BY <1>9, <1>12 DEF Stream
  <2> QED BY <1>9, <2>1, <2>2 DEF Intact

-----------------------------------------------------------------------------
LEMMA FramesInit == ASSUME ConfigOK, Init PROVE FramesInv
<1>1. Types BY TypesInit
<1>2. Sending /\ GoodSizes
  <2>1. Len(sent) = 0 BY EmptySeq DEF Init
  <2> QED BY <2>1 DEF Init, Sending, GoodSizes
<1>3. Intact
  <2>1. Len(sent) = 0 /\ Len(received) = 0 /\ Len(wire) = 0 /\ reader = "head"
    BY EmptySeq DEF Init
  <2>2. PICK off : off = [i \in 0 .. 0 |-> 0] OBVIOUS
  <2>3. off \in [0 .. 0 -> Int] /\ off[0] = 0 BY <2>2
  <2>4. LaidOut(off) BY <2>1, <2>3 DEF LaidOut
  <2> QED BY <2>1, <2>4 DEF Intact, InOrder, Stream
<1> QED BY <1>1, <1>2, <1>3 DEF FramesInv

LEMMA IntactStep ==
    ASSUME ConfigOK, FramesInv, [Next]_vars, ~ Garbled'
    PROVE  Intact'
<1> USE DEF FramesInv
<1>1. ~ Garbled BY GarbledStays
<1>2. ~ garbled /\ ~ garbled' BY <1>1 DEF Garbled
<1>3. Intact BY <1>1
<1>4. ASSUME NEW w \in Senders, Write(w) PROVE Intact' BY <1>2, <1>3, <1>4, WriteIntact
<1>5. CASE ReadHead BY <1>1, <1>3, <1>5, ReadHeadIntact
<1>6. CASE ReadBody BY <1>3, <1>6, ReadBodyIntact
<1>7. CASE ReadFails BY <1>3, <1>7 DEF Intact, InOrder, Stream, ReadFails, sendVars
<1>8. CASE UNCHANGED <<wire, sent, recvVars>>
  <2>1. headSize' = headSize /\ \A s, p, x : Framed(s, p, x)' <=> Framed(s, p, x)
    BY OptionsStay
  <2>2. /\ wire' = wire /\ sent' = sent /\ reader' = reader /\ size' = size
        /\ received' = received
    BY <1>8 DEF recvVars
  <2>3. \A off : LaidOut(off)' <=> LaidOut(off) BY <2>1, <2>2 DEF LaidOut
  <2> QED BY <1>3, <2>2, <2>3 DEF Intact, InOrder, Stream
<1>9. ASSUME NEW w \in Senders, WriteFails(w) PROVE UNCHANGED <<wire, sent, recvVars>>
  <2>1. PICK n \in 0 .. Len(Frame(w)) - 1 :
          wire' = wire \o SubSeq(Frame(w), 1, n) /\ garbled' = (garbled \/ n > 0)
    BY <1>9 DEF WriteFails
  <2>2. n = 0
    <3>1. ~ (n > 0) BY <1>2, <2>1, Zenon
    <3> QED BY <2>1, <3>1
  <2>3. SubSeq(Frame(w), 1, n) = << >> BY <2>2, SubSeqEmpty
  <2>4. wire' = wire BY <2>1, <2>3, ConcatEmptySeq DEF Types
  <2> QED BY <1>9, <2>4 DEF WriteFails
<1> QED
  BY <1>4, <1>5, <1>6, <1>7, <1>8, <1>9
  DEF Next, OnSend, PutHead, Copy, OnClose, OnReceive, vars, sendVars

LEMMA FramesStep == ASSUME ConfigOK, FramesInv, [Next]_vars PROVE FramesInv'
<1>1. Types' /\ Sending' /\ GoodSizes'
  BY TypesStep, SendingStep, GoodSizesStep DEF FramesInv
<1> QED BY <1>1, IntactStep DEF FramesInv

LEMMA FramesImplied == ASSUME FramesInv PROVE FramesIntact
<1> SUFFICES ASSUME Intact PROVE FramesIntact BY DEF FramesInv, FramesIntact
<1> DEFINE n == Len(received)
<1>1. /\ n \in Nat /\ Len(sent) \in Nat /\ n <= Len(sent)
      /\ received \in Seq(Seq(Int)) /\ sent \in Seq(Seq(Int))
  BY LenProperties DEF FramesInv, Types, Intact, InOrder
<1>2. SubSeq(received, 1, n) = received BY <1>1, SubSeqFull
<1>3. SubSeq(sent, 1, n) = received
  <2>1. \A i \in 1 .. n : sent[i] \in Seq(Int) BY <1>1, ElementOfSeq
  <2>2. /\ SubSeq(sent, 1, n) \in Seq(Seq(Int))
        /\ Len(SubSeq(sent, 1, n)) = IF 1 <= n THEN n - 1 + 1 ELSE 0
        /\ \A i \in 1 .. n - 1 + 1 : SubSeq(sent, 1, n)[i] = sent[1 + i - 1]
    BY <1>1, <2>1, SubSeqProperties
  <2> DEFINE u == SubSeq(sent, 1, n)
  <2> HIDE DEF u
  <2>3. Len(u) = n /\ \A i \in 1 .. n : u[i] = sent[i] BY <1>1, <2>2 DEF u
  <2>4. \A i \in 1 .. n : u[i] = received[i] BY <2>3 DEF Intact, InOrder
  <2> QED BY <1>1, <2>2, <2>3, <2>4, SeqEqual DEF u
<1> QED BY <1>1, <1>2, <1>3 DEF FramesIntact, IsPrefix, Intact

(* For either header, any packet size and any messages: OnReceive gets     *)
(* exactly what OnSend wrote, in that order, and refuses none of it, unless *)
(* two were in OnSend at once, a frame was written in part, or a size did  *)
(* not fit the header.                                                     *)
THEOREM FramesArriveIntact == ASSUME ConfigOK PROVE Safety => []FramesIntact
<1>1. Init => FramesInv BY FramesInit
<1>2. FramesInv /\ [Next]_vars => FramesInv' BY FramesStep
<1>3. FramesInv => FramesIntact BY FramesImplied
<1> QED BY <1>1, <1>2, <1>3, PTL DEF Safety
=============================================================================
