-------------------------- MODULE TransportProofs --------------------------
(***************************************************************************)
(* Theorems about Transport.tla, for messages of any number and size and   *)
(* buffers of any capacity: what the two threads of a side put on the      *)
(* socket is received as whole messages, each once and in order, and a     *)
(* Reply is queued only for a request that is awaited.                     *)
(***************************************************************************)
EXTENDS Transport, SequenceTheorems, FiniteSetTheorems, WellFoundedInduction, TLAPS

\* Chunks and who sends them.
Chunks == {c \in [msg : Messages, at : Nat] : c.at \in 1 .. c.msg.size}

\* What side s has in hand and is still to take, in the order it was sent.
Stream(s) == in[s] \o pipe[s]

\* The chunk b may come right after a.
Follows(a, b) == IF a.at = a.msg.size THEN b.at = 1 ELSE b = Chunk(a.msg, a.at + 1)

\* A sequence of chunks that starts with a message, each chunk behind the one
\* it follows.
Framed(c) ==
  /\ c # <<>> => c[1].at = 1
  /\ \A i \in DOMAIN c : i + 1 \in DOMAIN c => Follows(c[i], c[i + 1])

\* A sequence that ends with a whole message, or with the k-th chunk of m.
Closed(c)     == c # <<>> => c[Len(c)].at = c[Len(c)].msg.size
Open(c, m, k) == c # <<>> /\ c[Len(c)] = Chunk(m, k)

\* Messages of a kind that start in a sequence: at i, at some place, at one at most.
Starts(c, k, i) == c[i].at = 1 /\ c[i].msg.kind = k
Has(c, k)  == \E i \in DOMAIN c : Starts(c, k, i)
Once(c, k) == \A i, j \in DOMAIN c : Starts(c, k, i) /\ Starts(c, k, j) => i = j

\* The message a thread is sending is on its way in part.
AppMid(s)  == out[s].app # 0 /\ out[s].app # Head(todo[s]).size
ConnMid(s) == out[s].conn # 0 /\ out[s].conn # asked[s][1].answer

RangeInv ==
  /\ pipe \in [Sides -> Seq(Chunks)] /\ in \in [Sides -> Seq(Chunks)]
  /\ l \in [Sides -> {"free", "app", "conn"}]
  /\ todo \in [Sides -> Seq(Sent)]
  /\ app \in [Sides -> {"ready", "sending", "awaiting"}]
  /\ conn \in [Sides -> {"poll", "ready", "receiving", "answer", "sending"}]
  /\ out \in [Sides -> [app : Nat, conn : Nat]]
  /\ asked \in [Sides -> Seq(Sent)]
  /\ replies \in [Sides -> {0, 1}]
  /\ \A s \in Sides : Len(pipe[s]) <= Buffer

\* Where the threads of a side are, and what they hold there.
PlaceInv(s) ==
  /\ (l[s] = "app") <=> (app[s] = "sending")
  /\ (l[s] = "conn") <=> (conn[s] \in {"receiving", "sending"})
  /\ app[s] = "sending" => todo[s] # <<>> /\ out[s].app <= Head(todo[s]).size
  /\ app[s] # "sending" => out[s].app = 0
  /\ conn[s] \in {"answer", "sending"} => Len(asked[s]) = 1 /\ asked[s][1].kind = "ask"
  /\ conn[s] \notin {"answer", "sending"} => asked[s] = <<>>
  /\ conn[s] = "sending" => out[s].conn <= asked[s][1].answer
  /\ conn[s] # "sending" => out[s].conn = 0

\* What is in hand is the start of one message.
HandInv(s) ==
  /\ conn[s] # "receiving" => in[s] = <<>>
  /\ in[s] # <<>> => Len(in[s]) <= in[s][1].msg.size
  /\ \A i \in DOMAIN in[s] : in[s][i] = Chunk(in[s][1].msg, i)

\* What is on its way to side s, and how its peer is to go on.
StreamInv(s) ==
  /\ Framed(Stream(s))
  /\ AppMid(Peer(s)) => Open(Stream(s), Head(todo[Peer(s)]), out[Peer(s)].app)
  /\ ConnMid(Peer(s)) => Open(Stream(s), Answer(asked[Peer(s)][1]), out[Peer(s)].conn)
  /\ ~AppMid(Peer(s)) /\ ~ConnMid(Peer(s)) => Closed(Stream(s))

\* The application of side s has sent a request, or begun to.
Asking(s) == \/ app[s] = "awaiting"
             \/ app[s] = "sending" /\ out[s].app # 0 /\ Head(todo[s]).kind = "ask"

\* The request is taken and its Reply not begun.
Serving(s) == asked[s] # <<>> /\ out[s].conn = 0

\* A request is on its way as c, or being served, or its Reply is on its way as d,
\* or queued: at one place at a time, and only while the application asks.
Passing(c, serving, d, queued, asking) ==
  /\ Once(c, "ask") /\ Once(d, "reply")
  /\ Has(c, "ask") => ~serving
  /\ Has(c, "ask") \/ serving => ~Has(d, "reply")
  /\ Has(c, "ask") \/ serving \/ Has(d, "reply") => queued = 0
  /\ Has(c, "ask") \/ serving \/ Has(d, "reply") \/ queued # 0 => asking

RequestInv(s) == Passing(Stream(Peer(s)), Serving(Peer(s)), Stream(s), replies[s], Asking(s))

IInv == RangeInv /\ \A s \in Sides : PlaceInv(s) /\ HandInv(s) /\ StreamInv(s) /\ RequestInv(s)

----------------------------------------------------------------------------
(* Sequences of chunks.                                                    *)

\* A chunk is added to what is on its way.
LEMMA ConcatAppend ==
  ASSUME NEW a \in Seq(Chunks), NEW b \in Seq(Chunks), NEW x \in Chunks
  PROVE  a \o Append(b, x) = Append(a \o b, x)
<1> DEFINE u == a \o Append(b, x)
           v == Append(a \o b, x)
<1>1. /\ a \o b \in Seq(Chunks) /\ Append(b, x) \in Seq(Chunks)
      /\ Len(a \o b) = Len(a) + Len(b) /\ Len(a) \in Nat /\ Len(b) \in Nat
      /\ Len(Append(b, x)) = Len(b) + 1
  BY ConcatProperties
<1>2. u \in Seq(Chunks) /\ v \in Seq(Chunks) /\ Len(u) = Len(a) + Len(b) + 1 /\ Len(v) = Len(u)
  BY <1>1, ConcatProperties
<1>3. ASSUME NEW i \in 1 .. Len(u) PROVE u[i] = v[i]
  <2>1. u[i] = IF i <= Len(a) THEN a[i] ELSE Append(b, x)[i - Len(a)]
    BY <1>1, <1>2, <1>3, ConcatProperties
  <2>2. CASE i = Len(a) + Len(b) + 1
    BY <1>1, <1>2, <2>1, <2>2
  <2>3. CASE i # Len(a) + Len(b) + 1
    <3>1. i \in 1 .. Len(a) + Len(b)
      BY <1>1, <1>2, <2>3
    <3>2. v[i] = (a \o b)[i]
      BY <1>1, <3>1
    <3>3. (a \o b)[i] = IF i <= Len(a) THEN a[i] ELSE b[i - Len(a)]
      BY <3>1, ConcatProperties
    <3>4. i > Len(a) => Append(b, x)[i - Len(a)] = b[i - Len(a)]
      BY <1>1, <3>1
    <3> QED
      BY <1>1, <2>1, <3>1, <3>2, <3>3, <3>4
  <2> QED
    BY <2>2, <2>3
<1> HIDE DEF u, v
<1>4. u = v
  BY <1>2, <1>3, SeqEqual
<1> QED
  BY <1>4 DEF u, v

\* A chunk is taken in hand: nothing changes in their order.
LEMMA ConcatMove ==
  ASSUME NEW S, NEW a \in Seq(S), NEW b \in Seq(S), b # <<>>
  PROVE  Append(a, Head(b)) \o Tail(b) = a \o b
<1> DEFINE p == Append(a, Head(b))
           q == Tail(b)
           u == p \o q
           v == a \o b
<1>1. /\ Len(a) \in Nat /\ Len(b) \in Nat \ {0} /\ Head(b) = b[1] /\ Head(b) \in S
      /\ p \in Seq(S) /\ Len(p) = Len(a) + 1
      /\ q \in Seq(S) /\ Len(q) = Len(b) - 1
      /\ \A i \in 1 .. Len(a) : p[i] = a[i]
      /\ p[Len(a) + 1] = b[1]
      /\ \A i \in 1 .. Len(b) - 1 : q[i] = b[i + 1]
  OBVIOUS
<1> HIDE DEF p, q
<1>2. /\ u \in Seq(S) /\ v \in Seq(S) /\ Len(u) = Len(a) + Len(b) /\ Len(v) = Len(u)
      /\ \A i \in 1 .. Len(u) : /\ u[i] = IF i <= Len(a) + 1 THEN p[i] ELSE q[i - (Len(a) + 1)]
                                /\ v[i] = IF i <= Len(a) THEN a[i] ELSE b[i - Len(a)]
  <2>1. /\ u \in Seq(S) /\ Len(u) = Len(p) + Len(q)
        /\ \A i \in 1 .. Len(p) + Len(q) : u[i] = IF i <= Len(p) THEN p[i] ELSE q[i - Len(p)]
    BY <1>1, ConcatProperties
  <2>2. /\ v \in Seq(S) /\ Len(v) = Len(a) + Len(b)
        /\ \A i \in 1 .. Len(a) + Len(b) : v[i] = IF i <= Len(a) THEN a[i] ELSE b[i - Len(a)]
    BY <1>1, ConcatProperties
  <2> HIDE DEF u, v
  <2> QED
    BY <1>1, <2>1, <2>2
<1> HIDE DEF u, v
<1>3. ASSUME NEW i \in 1 .. Len(u) PROVE u[i] = v[i]
  <2>1. CASE i <= Len(a)
    <3>1. i \in 1 .. Len(a) /\ i <= Len(a) + 1
      BY <1>1, <1>2, <2>1
    <3>2. u[i] = p[i] /\ v[i] = a[i]
      BY <1>2, <2>1, <3>1
    <3> QED
      BY <1>1, <3>1, <3>2
  <2>2. CASE i = Len(a) + 1
    <3>1. i <= Len(a) + 1 /\ ~(i <= Len(a)) /\ i - Len(a) = 1
      BY <1>1, <2>2
    <3>2. u[i] = p[i] /\ v[i] = b[i - Len(a)]
      BY <1>2, <3>1
    <3> QED
      BY <1>1, <2>2, <3>1, <3>2
  <2>3. CASE i > Len(a) + 1
    <3>1. i - (Len(a) + 1) \in 1 .. Len(b) - 1 /\ (i - (Len(a) + 1)) + 1 = i - Len(a)
      BY <1>1, <1>2, <2>3
    <3>2. ~(i <= Len(a) + 1) /\ ~(i <= Len(a))
      BY <1>1, <1>2, <2>3
    <3>3. u[i] = q[i - (Len(a) + 1)] /\ v[i] = b[i - Len(a)]
      BY <1>2, <3>2
    <3>4. q[i - (Len(a) + 1)] = b[(i - (Len(a) + 1)) + 1]
      BY <1>1, <3>1
    <3> QED
      BY <3>1, <3>3, <3>4
  <2> QED
    BY <1>1, <1>2, <2>1, <2>2, <2>3
<1>4. u = v
  BY <1>2, <1>3, SeqEqual
<1> QED
  BY <1>4 DEF u, v, p, q

\* A chunk that goes on where the sequence ends.
LEMMA FramedAppend ==
  ASSUME NEW c \in Seq(Chunks), NEW x \in Chunks, Framed(c),
         \/ Closed(c) /\ x.at = 1
         \/ Open(c, x.msg, x.at - 1)
  PROVE  /\ Framed(Append(c, x))
         /\ Append(c, x) # <<>> /\ Append(c, x)[Len(Append(c, x))] = x
<1> DEFINE d == Append(c, x)
<1>1. /\ DOMAIN c = 1 .. Len(c) /\ DOMAIN d = 1 .. Len(c) + 1 /\ Len(c) \in Nat
      /\ d[Len(c) + 1] = x /\ Len(d) = Len(c) + 1 /\ d # <<>>
      /\ \A i \in 1 .. Len(c) : d[i] = c[i]
      /\ c # <<>> <=> Len(c) # 0
  OBVIOUS
<1> HIDE DEF d
<1>2. x.at \in Nat /\ x.msg \in Messages /\ x.at <= x.msg.size /\ x = Chunk(x.msg, x.at)
      /\ x.msg.size \in Nat
  BY TransportAssumption DEF Chunks, Chunk, Messages, Answer, Message
<1>3. c # <<>> => Follows(c[Len(c)], x)
  BY <1>2 DEF Closed, Open, Follows, Chunk
<1>4. d[1].at = 1
  BY <1>1, <1>2 DEF Framed, Open
<1>5. ASSUME NEW i \in DOMAIN d, i + 1 \in DOMAIN d PROVE Follows(d[i], d[i + 1])
  <2>1. CASE i = Len(c)
    BY <1>1, <1>3, <1>5, <2>1
  <2>2. CASE i # Len(c)
    <3>1. i \in DOMAIN c /\ i + 1 \in DOMAIN c
      BY <1>1, <1>5, <2>2
    <3> QED
      BY <1>1, <3>1 DEF Framed
  <2> QED
    BY <2>1, <2>2
<1> QED
  BY <1>1, <1>4, <1>5 DEF Framed, d

\* A sequence of a whole message, and what is left when it is dropped.
Whole(a) == /\ a # <<>> /\ Len(a) = a[1].msg.size
            /\ \A i \in DOMAIN a : a[i] = Chunk(a[1].msg, i)

LEMMA ConcatFacts ==
  ASSUME NEW a \in Seq(Chunks), NEW b \in Seq(Chunks), Whole(a)
  PROVE  /\ a \o b \in Seq(Chunks) /\ Len(a \o b) = Len(a) + Len(b)
         /\ Len(a) \in Nat \ {0} /\ Len(b) \in Nat
         /\ DOMAIN a = 1 .. Len(a) /\ DOMAIN b = 1 .. Len(b)
         /\ \A i \in 1 .. Len(a \o b) : (a \o b)[i] = IF i <= Len(a) THEN a[i] ELSE b[i - Len(a)]
<1>1. Len(a) \in Nat \ {0} /\ Len(b) \in Nat
  BY DEF Whole
<1>2. DOMAIN a = 1 .. Len(a) /\ DOMAIN b = 1 .. Len(b)
  OBVIOUS
<1>3. /\ a \o b \in Seq(Chunks) /\ Len(a \o b) = Len(a) + Len(b)
      /\ \A i \in 1 .. Len(a) + Len(b) :
           (a \o b)[i] = IF i <= Len(a) THEN a[i] ELSE b[i - Len(a)]
  BY ConcatProperties
<1> QED
  BY <1>1, <1>2, <1>3

LEMMA FramedDrop ==
  ASSUME NEW a \in Seq(Chunks), NEW b \in Seq(Chunks), Whole(a), Framed(a \o b)
  PROVE  /\ Framed(b)
         /\ Closed(a \o b) => Closed(b)
         /\ \A m, k : Open(a \o b, m, k) /\ k # m.size => Open(b, m, k)
<1> DEFINE c == a \o b
<1>1. /\ c \in Seq(Chunks) /\ Len(c) = Len(a) + Len(b) /\ Len(a) \in Nat \ {0} /\ Len(b) \in Nat
      /\ DOMAIN a = 1 .. Len(a) /\ DOMAIN b = 1 .. Len(b)
      /\ \A i \in 1 .. Len(c) : c[i] = IF i <= Len(a) THEN a[i] ELSE b[i - Len(a)]
  BY ConcatFacts
<1> HIDE DEF c
<1>2. DOMAIN c = 1 .. Len(a) + Len(b)
  BY <1>1
<1>3. c[Len(a)].at = c[Len(a)].msg.size
  <2>1. Len(a) \in 1 .. Len(c) /\ Len(a) \in DOMAIN a
    BY <1>1
  <2>2. c[Len(a)] = Chunk(a[1].msg, Len(a))
    BY <1>1, <2>1 DEF Whole
  <2> QED
    BY <2>2 DEF Whole, Chunk
<1>4. ASSUME NEW i \in 1 .. Len(b) PROVE Len(a) + i \in 1 .. Len(c) /\ c[Len(a) + i] = b[i]
  <2>1. Len(a) + i \in 1 .. Len(c) /\ ~(Len(a) + i <= Len(a)) /\ (Len(a) + i) - Len(a) = i
    BY <1>1
  <2> QED
    BY <1>1, <2>1
<1>5. ASSUME b # <<>> PROVE b[1].at = 1
  <2>1. 1 \in 1 .. Len(b)
    BY <1>1, <1>5
  <2>2. Len(a) \in DOMAIN c /\ Len(a) + 1 \in DOMAIN c /\ c[Len(a) + 1] = b[1]
    BY <1>1, <1>2, <1>4, <2>1
  <2> QED
    BY <1>3, <2>2 DEF Framed, Follows, c
<1>6. ASSUME NEW i \in DOMAIN b, i + 1 \in DOMAIN b PROVE Follows(b[i], b[i + 1])
  <2>1. /\ Len(a) + i \in DOMAIN c /\ (Len(a) + i) + 1 \in DOMAIN c
        /\ c[Len(a) + i] = b[i] /\ c[(Len(a) + i) + 1] = b[i + 1]
    <3>1. (Len(a) + i) + 1 = Len(a) + (i + 1)
      BY <1>1, <1>6
    <3> QED
      BY <1>1, <1>2, <1>4, <1>6, <3>1
  <2> QED
    BY <2>1 DEF Framed, c
<1>7. b # <<>> => c # <<>> /\ c[Len(c)] = b[Len(b)]
  BY <1>1, <1>4
<1>8. Closed(c) => Closed(b)
  BY <1>7 DEF Closed
<1>9. ASSUME NEW m, NEW k, Open(c, m, k), k # m.size PROVE Open(b, m, k)
  <2>1. CASE b = <<>>
    <3>1. Len(c) = Len(a)
      BY <1>1, <2>1
    <3> QED
      BY <1>3, <1>9, <3>1 DEF Open, Chunk
  <2>2. CASE b # <<>>
    BY <1>7, <1>9, <2>2 DEF Open
  <2> QED
    BY <2>1, <2>2
<1> QED
  BY <1>5, <1>6, <1>8, <1>9 DEF Framed, c

\* Messages that start in a sequence, when a chunk is added
LEMMA StartsAppend ==
  ASSUME NEW c \in Seq(Chunks), NEW x \in Chunks, NEW k
  PROVE  /\ ~(x.at = 1 /\ x.msg.kind = k) =>
              /\ Has(Append(c, x), k) <=> Has(c, k)
              /\ Once(c, k) => Once(Append(c, x), k)
         /\ ~Has(c, k) => Once(Append(c, x), k)
<1> DEFINE d == Append(c, x)
<1>1. /\ DOMAIN c = 1 .. Len(c) /\ DOMAIN d = 1 .. Len(c) + 1 /\ Len(c) \in Nat
      /\ d[Len(c) + 1] = x
      /\ \A i \in 1 .. Len(c) : d[i] = c[i]
  OBVIOUS
<1> HIDE DEF d
<1>2. \A i \in 1 .. Len(c) : Starts(d, k, i) <=> Starts(c, k, i)
  BY <1>1 DEF Starts
<1>3. Starts(d, k, Len(c) + 1) <=> x.at = 1 /\ x.msg.kind = k
  BY <1>1 DEF Starts
<1>4. ASSUME ~(x.at = 1 /\ x.msg.kind = k)
      PROVE  (Has(d, k) <=> Has(c, k)) /\ (Once(c, k) => Once(d, k))
  BY <1>1, <1>2, <1>3, <1>4 DEF Has, Once
<1>5. ASSUME ~Has(c, k) PROVE Once(d, k)
  BY <1>1, <1>2, <1>5 DEF Has, Once
<1> QED
  BY <1>4, <1>5 DEF d

\* or a whole message is dropped.
LEMMA StartsDrop ==
  ASSUME NEW a \in Seq(Chunks), NEW b \in Seq(Chunks), Whole(a), NEW k
  PROVE  /\ Once(a \o b, k) => Once(b, k)
         /\ a[1].msg.kind # k => (Has(a \o b, k) <=> Has(b, k))
         /\ a[1].msg.kind = k => Has(a \o b, k)
         /\ a[1].msg.kind = k /\ Once(a \o b, k) => ~Has(b, k)
<1> DEFINE c == a \o b
<1>1. /\ c \in Seq(Chunks) /\ Len(c) = Len(a) + Len(b) /\ Len(a) \in Nat \ {0} /\ Len(b) \in Nat
      /\ DOMAIN a = 1 .. Len(a) /\ DOMAIN b = 1 .. Len(b)
      /\ \A i \in 1 .. Len(c) : c[i] = IF i <= Len(a) THEN a[i] ELSE b[i - Len(a)]
  BY ConcatFacts
<1> HIDE DEF c
<1>2. DOMAIN c = 1 .. Len(a) + Len(b)
  BY <1>1
<1>3. ASSUME NEW i \in 1 .. Len(b)
      PROVE  Len(a) + i \in DOMAIN c /\ (Starts(c, k, Len(a) + i) <=> Starts(b, k, i))
  <2>1. Len(a) + i \in 1 .. Len(c) /\ ~(Len(a) + i <= Len(a)) /\ (Len(a) + i) - Len(a) = i
    BY <1>1
  <2> QED
    BY <1>1, <2>1 DEF Starts
<1>4. 1 \in DOMAIN c /\ (Starts(c, k, 1) <=> a[1].msg.kind = k)
  <2>1. 1 \in 1 .. Len(c) /\ 1 <= Len(a) /\ 1 \in DOMAIN a
    BY <1>1
  <2>2. c[1] = a[1]
    BY <1>1, <2>1
  <2>3. a[1].at = 1
    <3>1. a[1] = Chunk(a[1].msg, 1)
      BY <2>1 DEF Whole
    <3> QED
      BY <3>1 DEF Chunk
  <2> QED
    BY <1>1, <1>2, <2>1, <2>2, <2>3 DEF Starts
<1>5. ASSUME NEW i \in DOMAIN c, Starts(c, k, i), i # 1
      PROVE  i - Len(a) \in DOMAIN b /\ Starts(b, k, i - Len(a))
  <2>1. ~(i <= Len(a))
    <3> SUFFICES ASSUME i <= Len(a) PROVE FALSE
      OBVIOUS
    <3>1. i \in DOMAIN a /\ c[i] = a[i]
      BY <1>1, <1>2, <1>5
    <3>2. c[i].at = i
      BY <3>1 DEF Whole, Chunk
    <3> QED
      BY <1>5, <3>2 DEF Starts
  <2>2. c[i] = b[i - Len(a)] /\ i - Len(a) \in 1 .. Len(b)
    BY <1>1, <1>2, <1>5, <2>1
  <2> QED
    BY <1>1, <1>5, <2>2 DEF Starts
<1>6. ASSUME Once(c, k) PROVE Once(b, k)
  <2> SUFFICES ASSUME NEW i \in 1 .. Len(b), NEW j \in 1 .. Len(b), Starts(b, k, i), Starts(b, k, j)
               PROVE  i = j
    BY <1>1 DEF Once
  <2>1. Len(a) + i = Len(a) + j
    BY <1>3, <1>6 DEF Once
  <2> QED
    BY <1>1, <2>1
<1>7. ASSUME a[1].msg.kind # k PROVE Has(c, k) <=> Has(b, k)
  <2>1. ASSUME Has(c, k) PROVE Has(b, k)
    BY <1>4, <1>5, <1>7, <2>1 DEF Has
  <2>2. ASSUME Has(b, k) PROVE Has(c, k)
    BY <1>1, <1>3, <2>2 DEF Has
  <2> QED
    BY <2>1, <2>2
<1>8. ASSUME a[1].msg.kind = k PROVE Has(c, k)
  BY <1>4, <1>8 DEF Has
<1>9. ASSUME a[1].msg.kind = k, Once(c, k), Has(b, k) PROVE FALSE
  <2>1. PICK i \in 1 .. Len(b) : Starts(b, k, i)
    BY <1>1, <1>9 DEF Has
  <2>2. Len(a) + i = 1
    BY <1>3, <1>4, <1>9, <2>1 DEF Once
  <2> QED
    BY <1>1, <2>2
<1> QED
  BY <1>6, <1>7, <1>8, <1>9 DEF c

----------------------------------------------------------------------------
(* A request and its Reply on their way.                                   *)

\* The request's first chunk is sent.
LEMMA PassRequest ==
  ASSUME NEW c \in Seq(Chunks), NEW d, NEW sv \in BOOLEAN, NEW q, NEW x \in Chunks,
         Passing(c, sv, d, q, FALSE)
  PROVE  Passing(Append(c, x), sv, d, q, TRUE)
<1>1. ~Has(c, "ask") /\ ~sv /\ ~Has(d, "reply") /\ q = 0
  BY DEF Passing
<1>2. Once(Append(c, x), "ask")
  BY <1>1, StartsAppend
<1> QED
  BY <1>1, <1>2 DEF Passing

\* The request is complete and taken.
LEMMA PassServe ==
  ASSUME NEW a \in Seq(Chunks), NEW b \in Seq(Chunks), Whole(a), a[1].msg.kind = "ask",
         NEW d, NEW q, NEW as \in BOOLEAN, Passing(a \o b, FALSE, d, q, as)
  PROVE  Passing(b, TRUE, d, q, as)
<1>1. Has(a \o b, "ask") /\ ~Has(b, "ask") /\ Once(b, "ask")
  BY StartsDrop DEF Passing
<1> QED
  BY <1>1 DEF Passing

\* The Reply's first chunk is sent.
LEMMA PassReply ==
  ASSUME NEW c, NEW d \in Seq(Chunks), NEW q, NEW as \in BOOLEAN, NEW x \in Chunks,
         Passing(c, TRUE, d, q, as)
  PROVE  Passing(c, FALSE, Append(d, x), q, as)
<1>1. ~Has(c, "ask") /\ ~Has(d, "reply") /\ q = 0 /\ as
  BY DEF Passing
<1>2. Once(Append(d, x), "reply")
  BY <1>1, StartsAppend
<1> QED
  BY <1>1, <1>2 DEF Passing

\* The Reply is complete and queued.
LEMMA PassQueue ==
  ASSUME NEW c, NEW a \in Seq(Chunks), NEW b \in Seq(Chunks), Whole(a), a[1].msg.kind = "reply",
         NEW sv \in BOOLEAN, NEW q, NEW as \in BOOLEAN, Passing(c, sv, a \o b, q, as)
  PROVE  q = 0 /\ Passing(c, sv, b, 1, as)
<1>1. Has(a \o b, "reply") /\ ~Has(b, "reply") /\ Once(b, "reply")
  BY StartsDrop DEF Passing
<1> QED
  BY <1>1 DEF Passing

\* The Reply is taken from the queue.
LEMMA PassTake ==
  ASSUME NEW c, NEW sv \in BOOLEAN, NEW d, NEW q, NEW as \in BOOLEAN, q # 0,
         Passing(c, sv, d, q, as)
  PROVE  Passing(c, sv, d, 0, FALSE)
BY DEF Passing

\* Other chunks and messages make no difference.
LEMMA PassOther ==
  ASSUME NEW c \in Seq(Chunks), NEW d \in Seq(Chunks), NEW sv \in BOOLEAN, NEW q,
         NEW as \in BOOLEAN, Passing(c, sv, d, q, as), NEW x \in Chunks
  PROVE  /\ ~(x.at = 1 /\ x.msg.kind = "ask") => Passing(Append(c, x), sv, d, q, as)
         /\ ~(x.at = 1 /\ x.msg.kind = "reply") => Passing(c, sv, Append(d, x), q, as)
<1>1. ASSUME ~(x.at = 1 /\ x.msg.kind = "ask") PROVE Passing(Append(c, x), sv, d, q, as)
  <2>1. /\ Has(Append(c, x), "ask") <=> Has(c, "ask")
        /\ Once(c, "ask") => Once(Append(c, x), "ask")
    BY <1>1, StartsAppend
  <2> QED
    BY <2>1 DEF Passing
<1>2. ASSUME ~(x.at = 1 /\ x.msg.kind = "reply") PROVE Passing(c, sv, Append(d, x), q, as)
  <2>1. /\ Has(Append(d, x), "reply") <=> Has(d, "reply")
        /\ Once(d, "reply") => Once(Append(d, x), "reply")
    BY <1>2, StartsAppend
  <2> QED
    BY <2>1 DEF Passing
<1> QED
  BY <1>1, <1>2

LEMMA PassDropTo ==
  ASSUME NEW a \in Seq(Chunks), NEW b \in Seq(Chunks), Whole(a), a[1].msg.kind # "ask",
         NEW sv \in BOOLEAN, NEW d, NEW q, NEW as \in BOOLEAN, Passing(a \o b, sv, d, q, as)
  PROVE  Passing(b, sv, d, q, as)
<1>1. (Has(a \o b, "ask") <=> Has(b, "ask")) /\ (Once(a \o b, "ask") => Once(b, "ask"))
  BY StartsDrop
<1> QED
  BY <1>1 DEF Passing

LEMMA PassDropBack ==
  ASSUME NEW a \in Seq(Chunks), NEW b \in Seq(Chunks), Whole(a), a[1].msg.kind # "reply",
         NEW c, NEW sv \in BOOLEAN, NEW q, NEW as \in BOOLEAN, Passing(c, sv, a \o b, q, as)
  PROVE  Passing(c, sv, b, q, as)
<1>1. (Has(a \o b, "reply") <=> Has(b, "reply")) /\ (Once(a \o b, "reply") => Once(b, "reply"))
  BY StartsDrop
<1> QED
  BY <1>1 DEF Passing

----------------------------------------------------------------------------
(* What the steps have in common.                                          *)

LEMMA PeerFacts ==
  ASSUME NEW s \in Sides
  PROVE  /\ Peer(s) \in Sides /\ Peer(s) # s /\ Peer(Peer(s)) = s
         /\ \A t \in Sides : t = s \/ t = Peer(s)
BY DEF Sides, Peer

LEMMA AnswerFacts ==
  ASSUME NEW m \in Sent
  PROVE  /\ m \in Messages /\ m.size \in Nat \ {0} /\ m.kind \in {"put", "ask"} /\ m.answer \in Nat
         /\ m.kind = "ask" => /\ Answer(m) \in Messages /\ Answer(m).size = m.answer
                              /\ Answer(m).kind = "reply" /\ m.answer # 0
BY TransportAssumption DEF Messages, Answer, Message

\* A side's next message is one that its application sends.
LEMMA TodoFacts ==
  ASSUME RangeInv, NEW s \in Sides, todo[s] # <<>>
  PROVE  Head(todo[s]) \in Sent /\ Tail(todo[s]) \in Seq(Sent)
<1>1. todo[s] \in Seq(Sent)
  BY DEF RangeInv
<1> QED
  BY <1>1

\* The request being answered.
LEMMA AskedFacts ==
  ASSUME RangeInv, NEW s \in Sides, PlaceInv(s), conn[s] \in {"answer", "sending"}
  PROVE  asked[s][1] \in Sent /\ asked[s][1].kind = "ask" /\ asked[s] # <<>>
<1>1. asked[s] \in Seq(Sent) /\ Len(asked[s]) = 1 /\ asked[s][1].kind = "ask"
  BY DEF RangeInv, PlaceInv
<1> QED
  BY <1>1

\* What is on its way to a side is a sequence of chunks.
LEMMA StreamType ==
  ASSUME RangeInv, NEW s \in Sides
  PROVE  /\ pipe[s] \in Seq(Chunks) /\ in[s] \in Seq(Chunks) /\ Stream(s) \in Seq(Chunks)
<1>1. pipe[s] \in Seq(Chunks) /\ in[s] \in Seq(Chunks)
  BY DEF RangeInv
<1> QED
  BY <1>1, ConcatProperties DEF Stream

\* A step that leaves what is on its way and how it goes on as it is.
LEMMA StreamKept ==
  ASSUME \A t \in Sides : StreamInv(t),
         \A t \in Sides : /\ Stream(t)' = Stream(t)
                          /\ AppMid(t)' <=> AppMid(t)
                          /\ AppMid(t) => Head(todo[t])' = Head(todo[t]) /\ out[t].app' = out[t].app
                          /\ ConnMid(t)' <=> ConnMid(t)
                          /\ ConnMid(t) => asked[t]' = asked[t] /\ out[t].conn' = out[t].conn
  PROVE  \A t \in Sides : StreamInv(t)'
<1> SUFFICES ASSUME NEW t \in Sides PROVE StreamInv(t)'
  OBVIOUS
<1>1. PICK p \in Sides : p = Peer(t)
  BY PeerFacts
<1>2. /\ Stream(t)' = Stream(t)
      /\ AppMid(p)' <=> AppMid(p)
      /\ AppMid(p) => Head(todo[p])' = Head(todo[p]) /\ out[p].app' = out[p].app
      /\ ConnMid(p)' <=> ConnMid(p)
      /\ ConnMid(p) => asked[p]' = asked[p] /\ out[p].conn' = out[p].conn
  OBVIOUS
<1>3. /\ Framed(Stream(t))
      /\ AppMid(p) => Open(Stream(t), Head(todo[p]), out[p].app)
      /\ ConnMid(p) => Open(Stream(t), Answer(asked[p][1]), out[p].conn)
      /\ ~AppMid(p) /\ ~ConnMid(p) => Closed(Stream(t))
  BY <1>1 DEF StreamInv
<1>4. /\ Framed(Stream(t)')
      /\ AppMid(p)' => Open(Stream(t)', Head(todo[p])', out[p].app')
      /\ ConnMid(p)' => Open(Stream(t)', Answer(asked[p]'[1]), out[p].conn')
      /\ ~AppMid(p)' /\ ~ConnMid(p)' => Closed(Stream(t)')
  BY <1>2, <1>3
<1> QED
  BY <1>1, <1>4 DEF StreamInv, Framed, Open, Closed

\* A step that leaves where requests and Replies are as it is.
LEMMA RequestKept ==
  ASSUME \A t \in Sides : RequestInv(t),
         \A t \in Sides : /\ Stream(t)' = Stream(t)
                          /\ Serving(t)' <=> Serving(t)
                          /\ Asking(t)' <=> Asking(t)
                          /\ replies[t]' = replies[t]
  PROVE  \A t \in Sides : RequestInv(t)'
<1> SUFFICES ASSUME NEW t \in Sides PROVE RequestInv(t)'
  OBVIOUS
<1>1. PICK p \in Sides : p = Peer(t)
  BY PeerFacts
<1>2. Passing(Stream(p), Serving(p), Stream(t), replies[t], Asking(t))
  BY <1>1 DEF RequestInv
<1>3. Passing(Stream(p)', Serving(p)', Stream(t)', replies[t]', Asking(t)')
  BY <1>2 DEF Passing
<1> QED
  BY <1>1, <1>3 DEF RequestInv, Passing, Once, Has, Starts

----------------------------------------------------------------------------
(* The application's thread.                                               *)

LEMMA StepAppLock ==
  ASSUME IInv, NEW s \in Sides, AppLock(s)
  PROVE  IInv'
<1>1. /\ app[s] = "ready" /\ todo[s] # <<>> /\ l[s] = "free"
      /\ l' = [l EXCEPT ![s] = "app"] /\ app' = [app EXCEPT ![s] = "sending"]
      /\ UNCHANGED <<pipe, todo, conn, out, in, asked, replies, got>>
  BY DEF AppLock, Take
<1>2. RangeInv'
  BY <1>1 DEF IInv, RangeInv
<1>3. out[s].app = 0 /\ Head(todo[s]).size \in Nat \ {0}
  BY <1>1, TodoFacts, AnswerFacts DEF IInv, PlaceInv
<1>4. ASSUME NEW t \in Sides PROVE PlaceInv(t)'
  <2>1. PlaceInv(t)
    BY DEF IInv
  <2>2. CASE t = s
    BY <1>1, <1>3, <2>1, <2>2 DEF PlaceInv, IInv, RangeInv
  <2>3. CASE t # s
    <3>1. app'[t] = app[t] /\ l'[t] = l[t]
      BY <1>1, <2>3 DEF IInv, RangeInv
    <3> QED
      BY <1>1, <2>1, <3>1 DEF PlaceInv
  <2> QED
    BY <2>2, <2>3
<1>5. ASSUME NEW t \in Sides PROVE HandInv(t)'
  BY <1>1 DEF IInv, HandInv
<1>6. ASSUME NEW t \in Sides
      PROVE  /\ Stream(t)' = Stream(t) /\ (AppMid(t)' <=> AppMid(t)) /\ (ConnMid(t)' <=> ConnMid(t))
             /\ Serving(t)' <=> Serving(t)
  BY <1>1 DEF Stream, AppMid, ConnMid, Serving
<1>7. ASSUME NEW t \in Sides PROVE Asking(t)' <=> Asking(t)
  <2>1. CASE t = s
    BY <1>1, <1>3, <2>1 DEF Asking, IInv, RangeInv
  <2>2. CASE t # s
    <3>1. app'[t] = app[t]
      BY <1>1, <2>2 DEF IInv, RangeInv
    <3> QED
      BY <1>1, <3>1 DEF Asking
  <2> QED
    BY <2>1, <2>2
<1>8. \A t \in Sides : StreamInv(t)'
  BY <1>1, <1>6, StreamKept DEF IInv
<1>9. \A t \in Sides : RequestInv(t)'
  BY <1>1, <1>6, <1>7, RequestKept DEF IInv
<1> QED
  BY <1>2, <1>4, <1>5, <1>8, <1>9 DEF IInv

LEMMA StepAppUnlock ==
  ASSUME IInv, NEW s \in Sides, AppUnlock(s)
  PROVE  IInv'
<1>1. /\ app[s] = "sending" /\ out[s].app = Head(todo[s]).size
      /\ l' = [l EXCEPT ![s] = "free"] /\ out' = [out EXCEPT ![s].app = 0]
      /\ app' = [app EXCEPT ![s] = IF Head(todo[s]).kind = "ask" THEN "awaiting" ELSE "ready"]
      /\ todo' = [todo EXCEPT ![s] = Tail(todo[s])]
      /\ UNCHANGED <<pipe, conn, in, asked, replies, got>>
  BY DEF AppUnlock, Release
<1>2. RangeInv /\ PlaceInv(s)
  BY DEF IInv
<1>3. /\ todo[s] # <<>> /\ Tail(todo[s]) \in Seq(Sent)
      /\ Head(todo[s]).size \in Nat \ {0} /\ l[s] = "app"
  BY <1>1, <1>2, TodoFacts, AnswerFacts DEF PlaceInv
<1>4. /\ app'[s] = IF Head(todo[s]).kind = "ask" THEN "awaiting" ELSE "ready"
      /\ l'[s] = "free" /\ out'[s].app = 0 /\ out'[s].conn = out[s].conn
      /\ \A t \in Sides : t # s => /\ app'[t] = app[t] /\ l'[t] = l[t] /\ out'[t] = out[t]
                                   /\ todo'[t] = todo[t]
  BY <1>1, <1>2 DEF RangeInv
<1>5. RangeInv'
  <2>1. app' \in [Sides -> {"ready", "sending", "awaiting"}] /\ l' \in [Sides -> {"free", "app", "conn"}]
    BY <1>1, <1>2 DEF RangeInv
  <2>2. out' \in [Sides -> [app : Nat, conn : Nat]]
    BY <1>1, <1>2 DEF RangeInv
  <2>3. todo' \in [Sides -> Seq(Sent)]
    BY <1>1, <1>2, <1>3 DEF RangeInv
  <2> QED
    BY <1>1, <1>2, <2>1, <2>2, <2>3 DEF RangeInv
<1>6. ASSUME NEW t \in Sides PROVE PlaceInv(t)'
  <2>1. PlaceInv(t)
    BY DEF IInv
  <2>2. CASE t = s
    BY <1>1, <1>3, <1>4, <2>1, <2>2 DEF PlaceInv
  <2>3. CASE t # s
    BY <1>1, <1>4, <2>1, <2>3 DEF PlaceInv
  <2> QED
    BY <2>2, <2>3
<1>7. ASSUME NEW t \in Sides PROVE HandInv(t)'
  BY <1>1 DEF IInv, HandInv
<1>8. ASSUME NEW t \in Sides
      PROVE  /\ Stream(t)' = Stream(t)
             /\ AppMid(t)' <=> AppMid(t)
             /\ AppMid(t) => Head(todo[t])' = Head(todo[t]) /\ out[t].app' = out[t].app
             /\ ConnMid(t)' <=> ConnMid(t)
             /\ ConnMid(t) => asked[t]' = asked[t] /\ out[t].conn' = out[t].conn
             /\ Serving(t)' <=> Serving(t)
             /\ Asking(t)' <=> Asking(t)
  <2>1. Stream(t)' = Stream(t)
    BY <1>1 DEF Stream
  <2>2. CASE t = s
    BY <1>1, <1>3, <1>4, <2>1, <2>2 DEF AppMid, ConnMid, Serving, Asking
  <2>3. CASE t # s
    BY <1>1, <1>4, <2>1, <2>3 DEF AppMid, ConnMid, Serving, Asking
  <2> QED
    BY <2>2, <2>3
<1>9. \A t \in Sides : StreamInv(t)'
  BY <1>8, StreamKept DEF IInv
<1>10. \A t \in Sides : RequestInv(t)'
  BY <1>1, <1>8, RequestKept DEF IInv
<1> QED
  BY <1>5, <1>6, <1>7, <1>9, <1>10 DEF IInv

LEMMA StepAppReply ==
  ASSUME IInv, NEW s \in Sides, AppReply(s)
  PROVE  IInv'
<1>1. /\ app[s] = "awaiting" /\ replies[s] > 0
      /\ replies' = [replies EXCEPT ![s] = replies[s] - 1] /\ app' = [app EXCEPT ![s] = "ready"]
      /\ UNCHANGED <<pipe, l, todo, conn, out, in, asked, got>>
  BY DEF AppReply
<1>2. RangeInv /\ PlaceInv(s)
  BY DEF IInv
<1>3. /\ app'[s] = "ready" /\ replies[s] = 1 /\ replies'[s] = 0
      /\ \A t \in Sides : t # s => app'[t] = app[t] /\ replies'[t] = replies[t]
  BY <1>1, <1>2 DEF RangeInv
<1>4. RangeInv'
  BY <1>1, <1>2, <1>3 DEF RangeInv
<1>5. ASSUME NEW t \in Sides PROVE PlaceInv(t)'
  <2>1. PlaceInv(t)
    BY DEF IInv
  <2>2. CASE t = s
    BY <1>1, <1>3, <2>1, <2>2 DEF PlaceInv
  <2>3. CASE t # s
    BY <1>1, <1>3, <2>1, <2>3 DEF PlaceInv
  <2> QED
    BY <2>2, <2>3
<1>6. ASSUME NEW t \in Sides PROVE HandInv(t)'
  BY <1>1 DEF IInv, HandInv
<1>7. ASSUME NEW t \in Sides
      PROVE  /\ Stream(t)' = Stream(t) /\ (AppMid(t)' <=> AppMid(t)) /\ (ConnMid(t)' <=> ConnMid(t))
             /\ Serving(t)' <=> Serving(t)
  BY <1>1 DEF Stream, AppMid, ConnMid, Serving
<1>8. \A t \in Sides : StreamInv(t)'
  BY <1>1, <1>7, StreamKept DEF IInv
<1>9. ASSUME NEW t \in Sides PROVE RequestInv(t)'
  <2>1. PICK p \in Sides : p = Peer(t)
    BY PeerFacts
  <2>2. Passing(Stream(p), Serving(p), Stream(t), replies[t], Asking(t))
    BY <2>1 DEF IInv, RequestInv
  <2>3. Passing(Stream(p)', Serving(p)', Stream(t)', replies[t]', Asking(t)')
    <3>1. Stream(p)' = Stream(p) /\ Stream(t)' = Stream(t) /\ (Serving(p)' <=> Serving(p))
      BY <1>7
    <3>2. CASE t = s
      <4>1. ~Asking(t)' /\ replies'[t] = 0 /\ replies[t] # 0
        BY <1>1, <1>3, <3>2 DEF Asking
      <4> QED
        BY <2>2, <3>1, <4>1 DEF Passing
    <3>3. CASE t # s
      <4>1. (Asking(t)' <=> Asking(t)) /\ replies'[t] = replies[t]
        BY <1>1, <1>3, <3>3 DEF Asking
      <4> QED
        BY <2>2, <3>1, <4>1 DEF Passing
    <3> QED
      BY <3>2, <3>3
  <2> QED
    BY <2>1, <2>3 DEF RequestInv, Passing, Once, Has, Starts
<1> QED
  BY <1>4, <1>5, <1>6, <1>8, <1>9 DEF IInv

----------------------------------------------------------------------------
(* The Connection thread.                                                  *)

LEMMA StepPoll ==
  ASSUME IInv, NEW s \in Sides, Poll(s)
  PROVE  IInv'
<1>1. /\ conn[s] = "poll" /\ conn' = [conn EXCEPT ![s] = "ready"]
      /\ UNCHANGED <<pipe, l, todo, app, out, in, asked, replies, got>>
  BY DEF Poll
<1>2. RangeInv
  BY DEF IInv
<1>3. conn'[s] = "ready" /\ \A t \in Sides : t # s => conn'[t] = conn[t]
  BY <1>1, <1>2 DEF RangeInv
<1>4. RangeInv'
  BY <1>1, <1>2 DEF RangeInv
<1>5. ASSUME NEW t \in Sides PROVE PlaceInv(t)' /\ HandInv(t)'
  <2>1. PlaceInv(t) /\ HandInv(t)
    BY DEF IInv
  <2>2. CASE t = s
    BY <1>1, <1>3, <2>1, <2>2 DEF PlaceInv, HandInv
  <2>3. CASE t # s
    BY <1>1, <1>3, <2>1, <2>3 DEF PlaceInv, HandInv
  <2> QED
    BY <2>2, <2>3
<1>6. ASSUME NEW t \in Sides
      PROVE  /\ Stream(t)' = Stream(t) /\ (AppMid(t)' <=> AppMid(t)) /\ (ConnMid(t)' <=> ConnMid(t))
             /\ (Serving(t)' <=> Serving(t)) /\ (Asking(t)' <=> Asking(t))
  BY <1>1 DEF Stream, AppMid, ConnMid, Serving, Asking
<1>7. \A t \in Sides : StreamInv(t)'
  BY <1>1, <1>6, StreamKept DEF IInv
<1>8. \A t \in Sides : RequestInv(t)'
  BY <1>1, <1>6, RequestKept DEF IInv
<1> QED
  BY <1>4, <1>5, <1>7, <1>8 DEF IInv

LEMMA StepConnLock ==
  ASSUME IInv, NEW s \in Sides, RecvLock(s) \/ AnswerLock(s)
  PROVE  IInv'
<1>1. /\ \/ conn[s] = "ready" /\ conn' = [conn EXCEPT ![s] = "receiving"]
         \/ conn[s] = "answer" /\ conn' = [conn EXCEPT ![s] = "sending"]
      /\ l[s] = "free" /\ l' = [l EXCEPT ![s] = "conn"]
      /\ UNCHANGED <<pipe, todo, app, out, in, asked, replies, got>>
  BY DEF RecvLock, AnswerLock, Take
<1>2. RangeInv
  BY DEF IInv
<1>3. /\ l'[s] = "conn" /\ \A t \in Sides : t # s => conn'[t] = conn[t] /\ l'[t] = l[t]
      /\ \/ conn[s] = "ready" /\ conn'[s] = "receiving"
         \/ conn[s] = "answer" /\ conn'[s] = "sending"
  BY <1>1, <1>2 DEF RangeInv
<1>4. RangeInv'
  BY <1>1, <1>2 DEF RangeInv
<1>5. ASSUME NEW t \in Sides PROVE PlaceInv(t)' /\ HandInv(t)'
  <2>1. PlaceInv(t) /\ HandInv(t)
    BY DEF IInv
  <2>2. CASE t = s
    <3>1. HandInv(t)'
      BY <1>1, <1>3, <2>1, <2>2 DEF HandInv
    <3>2. CASE conn[s] = "ready"
      BY <1>1, <1>3, <2>1, <2>2, <3>1, <3>2 DEF PlaceInv
    <3>3. CASE conn[s] = "answer"
      <4>1. out[s].conn = 0 /\ asked[s][1].answer \in Nat
        BY <1>2, <2>1, <2>2, <3>3, AskedFacts, AnswerFacts DEF PlaceInv
      <4> QED
        BY <1>1, <1>3, <2>1, <2>2, <3>1, <3>3, <4>1 DEF PlaceInv
    <3> QED
      BY <1>3, <3>2, <3>3
  <2>3. CASE t # s
    BY <1>1, <1>3, <2>1, <2>3 DEF PlaceInv, HandInv
  <2> QED
    BY <2>2, <2>3
<1>6. ASSUME NEW t \in Sides
      PROVE  /\ Stream(t)' = Stream(t) /\ (AppMid(t)' <=> AppMid(t)) /\ (ConnMid(t)' <=> ConnMid(t))
             /\ (Serving(t)' <=> Serving(t)) /\ (Asking(t)' <=> Asking(t))
  BY <1>1 DEF Stream, AppMid, ConnMid, Serving, Asking
<1>7. \A t \in Sides : StreamInv(t)'
  BY <1>1, <1>6, StreamKept DEF IInv
<1>8. \A t \in Sides : RequestInv(t)'
  BY <1>1, <1>6, RequestKept DEF IInv
<1> QED
  BY <1>4, <1>5, <1>7, <1>8 DEF IInv

LEMMA ChunkFacts ==
  ASSUME NEW c \in Chunks
  PROVE  /\ c.msg \in Messages /\ c.msg.size \in Nat /\ c.at \in 1 .. c.msg.size
         /\ c = Chunk(c.msg, c.at)
BY TransportAssumption DEF Chunks, Chunk, Messages, Answer, Message

\* The next chunk goes on with the message in hand, or starts one.
LEMMA NextInHand ==
  ASSUME NEW a \in Seq(Chunks), NEW b \in Seq(Chunks), b # <<>>, Framed(a \o b),
         a # <<>> => Len(a) < a[1].msg.size,
         \A i \in DOMAIN a : a[i] = Chunk(a[1].msg, i)
  PROVE  LET e == Append(a, Head(b)) IN
         /\ e # <<>> /\ Len(e) <= e[1].msg.size
         /\ \A i \in DOMAIN e : e[i] = Chunk(e[1].msg, i)
<1> DEFINE e == Append(a, Head(b))
           c == a \o b
<1>1. /\ Len(a) \in Nat /\ Len(b) \in Nat \ {0} /\ Head(b) = b[1] /\ b[1] \in Chunks
      /\ DOMAIN a = 1 .. Len(a) /\ DOMAIN e = 1 .. Len(a) + 1 /\ Len(e) = Len(a) + 1 /\ e # <<>>
      /\ e[Len(a) + 1] = b[1]
      /\ \A i \in 1 .. Len(a) : e[i] = a[i]
      /\ a = <<>> <=> Len(a) = 0
  <2>1. Head(b) = b[1] /\ b[1] \in Chunks /\ Len(b) \in Nat \ {0}
    OBVIOUS
  <2> QED
    BY <2>1
<1>2. /\ c \in Seq(Chunks) /\ Len(c) = Len(a) + Len(b)
      /\ \A i \in 1 .. Len(a) + Len(b) : c[i] = IF i <= Len(a) THEN a[i] ELSE b[i - Len(a)]
  BY ConcatProperties
<1> HIDE DEF e, c
<1>3. DOMAIN c = 1 .. Len(a) + Len(b) /\ c # <<>>
  BY <1>1, <1>2
<1>4. c[Len(a) + 1] = b[1]
  <2>1. Len(a) + 1 \in 1 .. Len(a) + Len(b) /\ ~(Len(a) + 1 <= Len(a)) /\ (Len(a) + 1) - Len(a) = 1
    BY <1>1
  <2> QED
    BY <1>2, <2>1
<1>5. b[1].at \in 1 .. b[1].msg.size /\ b[1] = Chunk(b[1].msg, b[1].at) /\ b[1].msg.size \in Nat
  BY <1>1, ChunkFacts
<1>6. CASE a = <<>>
  <2>1. Len(a) = 0 /\ c[1] = b[1]
    BY <1>1, <1>4, <1>6
  <2>2. b[1].at = 1
    BY <1>3, <2>1 DEF Framed, c
  <2>3. e[1] = b[1] /\ DOMAIN e = {1} /\ Len(e) = 1
    BY <1>1, <2>1
  <2> QED
    BY <1>1, <1>5, <2>2, <2>3 DEF e
<1>7. CASE a # <<>>
  <2>1. Len(a) \in 1 .. Len(a) /\ Len(a) \in DOMAIN c /\ Len(a) + 1 \in DOMAIN c /\ c[Len(a)] = a[Len(a)]
    BY <1>1, <1>2, <1>3, <1>7
  <2>2. Follows(a[Len(a)], b[1])
    BY <1>4, <2>1 DEF Framed, c
  <2>3. a[Len(a)].at = Len(a) /\ a[Len(a)].msg = a[1].msg
    BY <1>1, <2>1 DEF Chunk
  <2>4. b[1] = Chunk(a[1].msg, Len(a) + 1)
    BY <1>1, <1>7, <2>2, <2>3 DEF Follows
  <2>5. e[1] = a[1] /\ a[1].msg.size \in Nat
    <3>1. 1 \in DOMAIN a /\ a[1] \in Chunks
      BY <1>1, <1>7
    <3> QED
      BY <1>1, <3>1, ChunkFacts
  <2>6. Len(e) <= e[1].msg.size
    BY <1>1, <1>7, <2>5
  <2>7. ASSUME NEW i \in DOMAIN e PROVE e[i] = Chunk(e[1].msg, i)
    BY <1>1, <2>4, <2>5, <2>7
  <2> QED
    BY <1>1, <2>6, <2>7 DEF e
<1> QED
  BY <1>6, <1>7

LEMMA StepRecvChunk ==
  ASSUME IInv, NEW s \in Sides, RecvChunk(s)
  PROVE  IInv'
<1>1. /\ conn[s] = "receiving" /\ ~Complete(s) /\ pipe[s] # <<>>
      /\ in' = [in EXCEPT ![s] = Append(in[s], Head(pipe[s]))]
      /\ pipe' = [pipe EXCEPT ![s] = Tail(pipe[s])]
      /\ UNCHANGED <<l, todo, app, conn, out, asked, replies, got>>
  BY DEF RecvChunk
<1>2. RangeInv /\ HandInv(s) /\ Framed(Stream(s))
  BY DEF IInv, StreamInv
<1>3. /\ pipe[s] \in Seq(Chunks) /\ in[s] \in Seq(Chunks)
      /\ Head(pipe[s]) \in Chunks /\ Tail(pipe[s]) \in Seq(Chunks)
      /\ Len(Tail(pipe[s])) = Len(pipe[s]) - 1 /\ Len(pipe[s]) \in Nat
      /\ Append(in[s], Head(pipe[s])) \in Seq(Chunks)
  BY <1>1, <1>2, StreamType
<1>4. /\ in'[s] = Append(in[s], Head(pipe[s])) /\ pipe'[s] = Tail(pipe[s])
      /\ \A t \in Sides : t # s => in'[t] = in[t] /\ pipe'[t] = pipe[t]
  BY <1>1, <1>2 DEF RangeInv
<1>5. RangeInv'
  <2>1. pipe' \in [Sides -> Seq(Chunks)] /\ in' \in [Sides -> Seq(Chunks)]
    BY <1>1, <1>2, <1>3 DEF RangeInv
  <2>2. ASSUME NEW t \in Sides PROVE Len(pipe'[t]) <= Buffer
    <3>1. Buffer \in Nat
      BY TransportAssumption
    <3>2. Len(pipe[s]) <= Buffer /\ Len(pipe[t]) <= Buffer
      BY <1>2 DEF RangeInv
    <3>3. CASE t = s
      <4>1. Len(pipe'[t]) = Len(pipe[t]) - 1
        BY <1>3, <1>4, <3>3
      <4>2. Len(pipe[t]) \in Nat
        BY <1>3, <3>3
      <4> QED
        BY <3>1, <3>2, <4>1, <4>2
    <3>4. CASE t # s
      BY <1>4, <3>2, <3>4
    <3> QED
      BY <3>3, <3>4
  <2> QED
    BY <1>1, <1>2, <2>1, <2>2 DEF RangeInv
<1>6. ASSUME NEW t \in Sides PROVE PlaceInv(t)'
  BY <1>1 DEF IInv, PlaceInv
<1>7. ASSUME NEW t \in Sides PROVE HandInv(t)'
  <2>1. CASE t = s
    <3>1. Len(in[s]) \in Nat /\ (in[s] # <<>> => in[s][1].msg.size \in Nat)
      <4>1. in[s] # <<>> => in[s][1] \in Chunks
        BY <1>3
      <4> QED
        BY <1>3, <4>1, ChunkFacts
    <3>2. in[s] # <<>> => Len(in[s]) < in[s][1].msg.size
      BY <1>1, <1>2, <3>1 DEF Complete, HandInv
    <3>3. \A i \in DOMAIN in[s] : in[s][i] = Chunk(in[s][1].msg, i)
      BY <1>2 DEF HandInv
    <3>4. /\ in'[s] # <<>> /\ Len(in'[s]) <= in'[s][1].msg.size
          /\ \A i \in DOMAIN in'[s] : in'[s][i] = Chunk(in'[s][1].msg, i)
      BY <1>1, <1>2, <1>3, <1>4, <3>2, <3>3, NextInHand DEF Stream
    <3> QED
      BY <1>1, <2>1, <3>4 DEF HandInv
  <2>2. CASE t # s
    BY <1>1, <1>4, <2>2 DEF IInv, HandInv
  <2> QED
    BY <2>1, <2>2
<1>8. ASSUME NEW t \in Sides PROVE Stream(t)' = Stream(t)
  <2>1. CASE t = s
    <3>1. Append(in[s], Head(pipe[s])) \o Tail(pipe[s]) = in[s] \o pipe[s]
      BY <1>1, <1>3, ConcatMove
    <3> QED
      BY <1>4, <2>1, <3>1 DEF Stream
  <2>2. CASE t # s
    BY <1>4, <2>2 DEF Stream
  <2> QED
    BY <2>1, <2>2
<1>9. ASSUME NEW t \in Sides
      PROVE  /\ (AppMid(t)' <=> AppMid(t)) /\ (ConnMid(t)' <=> ConnMid(t))
             /\ (Serving(t)' <=> Serving(t)) /\ (Asking(t)' <=> Asking(t))
  BY <1>1 DEF AppMid, ConnMid, Serving, Asking
<1>10. \A t \in Sides : StreamInv(t)'
  BY <1>1, <1>8, <1>9, StreamKept DEF IInv
<1>11. \A t \in Sides : RequestInv(t)'
  BY <1>1, <1>8, <1>9, RequestKept DEF IInv
<1> QED
  BY <1>5, <1>6, <1>7, <1>10, <1>11 DEF IInv

LEMMA StepAnswerUnlock ==
  ASSUME IInv, NEW s \in Sides, AnswerUnlock(s)
  PROVE  IInv'
<1>1. /\ conn[s] = "sending" /\ out[s].conn = asked[s][1].answer
      /\ l' = [l EXCEPT ![s] = "free"] /\ out' = [out EXCEPT ![s].conn = 0]
      /\ asked' = [asked EXCEPT ![s] = <<>>] /\ conn' = [conn EXCEPT ![s] = "poll"]
      /\ UNCHANGED <<pipe, todo, app, in, replies, got>>
  BY DEF AnswerUnlock, Release
<1>2. RangeInv /\ PlaceInv(s)
  BY DEF IInv
<1>3. asked[s][1].answer \in Nat \ {0} /\ l[s] = "conn"
  BY <1>1, <1>2, AskedFacts, AnswerFacts DEF PlaceInv
<1>4. /\ conn'[s] = "poll" /\ l'[s] = "free" /\ out'[s].app = out[s].app /\ out'[s].conn = 0
      /\ asked'[s] = <<>>
      /\ \A t \in Sides : t # s => /\ conn'[t] = conn[t] /\ l'[t] = l[t] /\ out'[t] = out[t]
                                   /\ asked'[t] = asked[t]
  BY <1>1, <1>2 DEF RangeInv
<1>5. RangeInv'
  <2>1. conn' \in [Sides -> {"poll", "ready", "receiving", "answer", "sending"}]
        /\ l' \in [Sides -> {"free", "app", "conn"}]
    BY <1>1, <1>2 DEF RangeInv
  <2>2. out' \in [Sides -> [app : Nat, conn : Nat]]
    BY <1>1, <1>2 DEF RangeInv
  <2>3. asked' \in [Sides -> Seq(Sent)]
    BY <1>1, <1>2 DEF RangeInv
  <2> QED
    BY <1>1, <1>2, <2>1, <2>2, <2>3 DEF RangeInv
<1>6. ASSUME NEW t \in Sides PROVE PlaceInv(t)' /\ HandInv(t)'
  <2>1. PlaceInv(t) /\ HandInv(t)
    BY DEF IInv
  <2>2. CASE t = s
    BY <1>1, <1>3, <1>4, <2>1, <2>2 DEF PlaceInv, HandInv
  <2>3. CASE t # s
    BY <1>1, <1>4, <2>1, <2>3 DEF PlaceInv, HandInv
  <2> QED
    BY <2>2, <2>3
<1>7. ASSUME NEW t \in Sides
      PROVE  /\ Stream(t)' = Stream(t)
             /\ AppMid(t)' <=> AppMid(t)
             /\ AppMid(t) => Head(todo[t])' = Head(todo[t]) /\ out[t].app' = out[t].app
             /\ ConnMid(t)' <=> ConnMid(t)
             /\ ConnMid(t) => asked[t]' = asked[t] /\ out[t].conn' = out[t].conn
             /\ Serving(t)' <=> Serving(t)
             /\ Asking(t)' <=> Asking(t)
  <2>1. Stream(t)' = Stream(t)
    BY <1>1 DEF Stream
  <2>2. CASE t = s
    BY <1>1, <1>3, <1>4, <2>1, <2>2 DEF AppMid, ConnMid, Serving, Asking
  <2>3. CASE t # s
    BY <1>1, <1>4, <2>1, <2>3 DEF AppMid, ConnMid, Serving, Asking
  <2> QED
    BY <2>2, <2>3
<1>8. \A t \in Sides : StreamInv(t)'
  BY <1>7, StreamKept DEF IInv
<1>9. \A t \in Sides : RequestInv(t)'
  BY <1>1, <1>7, RequestKept DEF IInv
<1> QED
  BY <1>5, <1>6, <1>8, <1>9 DEF IInv

----------------------------------------------------------------------------
(* Sending.                                                                *)

\* The chunk after the first k of m.
LEMMA PushFacts ==
  ASSUME NEW c \in Seq(Chunks), NEW m \in Messages, NEW k \in Nat, m.size \in Nat, k < m.size,
         Framed(c), k = 0 => Closed(c), k # 0 => Open(c, m, k),
         NEW x, x = Chunk(m, k + 1)
  PROVE  /\ x \in Chunks
         /\ Framed(Append(c, x))
         /\ k + 1 # m.size => Open(Append(c, x), m, k + 1)
         /\ k + 1 = m.size => Closed(Append(c, x))
<1>1. x.msg = m /\ x.at = k + 1 /\ x \in [msg : Messages, at : Nat]
  BY DEF Chunk
<1>2. x \in Chunks
  BY <1>1 DEF Chunks
<1>3. \/ Closed(c) /\ x.at = 1
      \/ Open(c, x.msg, x.at - 1)
  BY <1>1
<1>4. /\ Framed(Append(c, x))
      /\ Append(c, x) # <<>> /\ Append(c, x)[Len(Append(c, x))] = x
  BY <1>2, <1>3, FramedAppend
<1> QED
  BY <1>1, <1>2, <1>4 DEF Open, Closed

\* A chunk enters the sockets' buffer towards side p.
LEMMA PushStreams ==
  ASSUME RangeInv, NEW p \in Sides, NEW x \in Chunks, Len(pipe[p]) < Buffer,
         pipe' = [pipe EXCEPT ![p] = Append(pipe[p], x)], in' = in
  PROVE  /\ Stream(p)' = Append(Stream(p), x)
         /\ \A t \in Sides : t # p => Stream(t)' = Stream(t)
         /\ pipe' \in [Sides -> Seq(Chunks)] /\ \A t \in Sides : Len(pipe'[t]) <= Buffer
<1>1. pipe[p] \in Seq(Chunks) /\ in[p] \in Seq(Chunks) /\ Len(pipe[p]) \in Nat /\ Buffer \in Nat
  <2>1. pipe[p] \in Seq(Chunks) /\ in[p] \in Seq(Chunks)
    BY StreamType
  <2> QED
    BY <2>1, TransportAssumption
<1>2. /\ pipe'[p] = Append(pipe[p], x) /\ \A t \in Sides : t # p => pipe'[t] = pipe[t]
      /\ pipe' \in [Sides -> Seq(Chunks)]
  BY <1>1 DEF RangeInv
<1>3. in[p] \o Append(pipe[p], x) = Append(in[p] \o pipe[p], x)
  <2>1. pipe[p] \in Seq(Chunks) /\ in[p] \in Seq(Chunks)
    BY <1>1
  <2> QED
    BY <2>1, ConcatAppend
<1>4. Len(pipe'[p]) = Len(pipe[p]) + 1
  BY <1>1, <1>2
<1>5. ASSUME NEW t \in Sides PROVE Len(pipe'[t]) <= Buffer
  <2>1. CASE t = p
    BY <1>1, <1>4, <2>1
  <2>2. CASE t # p
    BY <1>2, <2>2 DEF RangeInv
  <2> QED
    BY <2>1, <2>2
<1> QED
  BY <1>2, <1>3, <1>5 DEF Stream

LEMMA StepAppPush ==
  ASSUME IInv, NEW s \in Sides, AppPush(s)
  PROVE  IInv'
<1>1. PICK p \in Sides : p = Peer(s) /\ p # s /\ Peer(p) = s /\ \A t \in Sides : t = s \/ t = p
  BY PeerFacts
<1>2. PICK m : m = Head(todo[s])
  OBVIOUS
<1>3. PICK k : k = out[s].app
  OBVIOUS
<1>4. PICK x : x = Chunk(m, k + 1)
  OBVIOUS
<1>5. /\ app[s] = "sending" /\ k < m.size /\ Len(pipe[p]) < Buffer
      /\ pipe' = [pipe EXCEPT ![p] = Append(pipe[p], x)]
      /\ out' = [out EXCEPT ![s].app = k + 1]
      /\ UNCHANGED <<l, todo, app, conn, in, asked, replies, got>>
  BY <1>1, <1>2, <1>3, <1>4 DEF AppPush, Push
<1>6. RangeInv /\ PlaceInv(s)
  BY DEF IInv
<1>7. /\ todo[s] # <<>> /\ m \in Sent /\ m \in Messages /\ m.size \in Nat \ {0}
      /\ m.kind \in {"put", "ask"} /\ k \in Nat
      /\ out[s].conn = 0 /\ conn[s] # "sending"
  <2>1. todo[s] # <<>>
    BY <1>5, <1>6 DEF PlaceInv
  <2>2. m \in Sent
    BY <1>2, <1>6, <2>1, TodoFacts
  <2>3. conn[s] # "sending" /\ out[s].conn = 0
    BY <1>5, <1>6 DEF PlaceInv
  <2> QED
    BY <1>3, <1>6, <2>1, <2>2, <2>3, AnswerFacts DEF RangeInv
<1>8. /\ out'[s].app = k + 1 /\ out'[s].conn = out[s].conn
      /\ \A t \in Sides : t # s => out'[t] = out[t]
      /\ out' \in [Sides -> [app : Nat, conn : Nat]]
  <2>1. out \in [Sides -> [app : Nat, conn : Nat]] /\ k + 1 \in Nat
    BY <1>6, <1>7 DEF RangeInv
  <2>2. out' = [out EXCEPT ![s].app = k + 1]
    BY <1>5
  <2> QED
    BY <2>1, <2>2
<1>9. /\ StreamInv(p) /\ Stream(p) \in Seq(Chunks) /\ Stream(s) \in Seq(Chunks)
  BY <1>6, StreamType DEF IInv
<1>10. /\ Framed(Stream(p)) /\ (k = 0 => Closed(Stream(p))) /\ (k # 0 => Open(Stream(p), m, k))
  BY <1>1, <1>2, <1>3, <1>5, <1>7, <1>9 DEF StreamInv, AppMid, ConnMid
<1>11. /\ x \in Chunks
       /\ Framed(Append(Stream(p), x))
       /\ k + 1 # m.size => Open(Append(Stream(p), x), m, k + 1)
       /\ k + 1 = m.size => Closed(Append(Stream(p), x))
  BY <1>4, <1>5, <1>7, <1>9, <1>10, PushFacts
<1>12. /\ Stream(p)' = Append(Stream(p), x) /\ Stream(s)' = Stream(s)
       /\ pipe' \in [Sides -> Seq(Chunks)] /\ \A t \in Sides : Len(pipe'[t]) <= Buffer
  BY <1>1, <1>5, <1>6, <1>11, PushStreams
<1>13. RangeInv'
  BY <1>5, <1>6, <1>8, <1>12 DEF RangeInv
<1>14. ASSUME NEW t \in Sides PROVE PlaceInv(t)' /\ HandInv(t)'
  <2>1. PlaceInv(t) /\ HandInv(t)
    BY DEF IInv
  <2>2. CASE t = s
    BY <1>2, <1>5, <1>7, <1>8, <2>1, <2>2 DEF PlaceInv, HandInv
  <2>3. CASE t # s
    BY <1>5, <1>8, <2>1, <2>3 DEF PlaceInv, HandInv
  <2> QED
    BY <2>2, <2>3
<1>15. StreamInv(p)'
  <2>1. /\ AppMid(s)' <=> k + 1 # m.size
        /\ ~ConnMid(s)' /\ Head(todo[s])' = m /\ out[s].app' = k + 1
    BY <1>2, <1>5, <1>7, <1>8 DEF AppMid, ConnMid
  <2>2. /\ Framed(Stream(p)')
        /\ AppMid(s)' => Open(Stream(p)', Head(todo[s])', out[s].app')
        /\ ~AppMid(s)' /\ ~ConnMid(s)' => Closed(Stream(p)')
    BY <1>11, <1>12, <2>1
  <2> QED
    BY <1>1, <2>1, <2>2 DEF StreamInv, Framed, Open, Closed
<1>16. StreamInv(s)'
  <2>1. /\ AppMid(p)' <=> AppMid(p)
        /\ Head(todo[p])' = Head(todo[p]) /\ out[p].app' = out[p].app
        /\ ConnMid(p)' <=> ConnMid(p)
        /\ asked[p]' = asked[p] /\ out[p].conn' = out[p].conn
    BY <1>1, <1>5, <1>8 DEF AppMid, ConnMid
  <2>2. /\ Framed(Stream(s))
        /\ AppMid(p) => Open(Stream(s), Head(todo[p]), out[p].app)
        /\ ConnMid(p) => Open(Stream(s), Answer(asked[p][1]), out[p].conn)
        /\ ~AppMid(p) /\ ~ConnMid(p) => Closed(Stream(s))
    BY <1>1 DEF IInv, StreamInv
  <2>3. /\ Framed(Stream(s)')
        /\ AppMid(p)' => Open(Stream(s)', Head(todo[p])', out[p].app')
        /\ ConnMid(p)' => Open(Stream(s)', Answer(asked[p]'[1]), out[p].conn')
        /\ ~AppMid(p)' /\ ~ConnMid(p)' => Closed(Stream(s)')
    BY <1>12, <2>1, <2>2
  <2> QED
    BY <1>1, <2>3 DEF StreamInv, Framed, Open, Closed
<1>17. ASSUME NEW t \in Sides PROVE Serving(t)' <=> Serving(t)
  BY <1>5, <1>8 DEF Serving
<1>18. x.at = k + 1 /\ x.msg = m
  BY <1>4 DEF Chunk
<1>19. RequestInv(s)'
  <2>1. Passing(Stream(p), Serving(p), Stream(s), replies[s], Asking(s))
    BY <1>1 DEF IInv, RequestInv
  <2>2. Serving(p) \in BOOLEAN /\ Asking(s) \in BOOLEAN
    BY DEF Serving, Asking
  <2>3. Passing(Append(Stream(p), x), Serving(p), Stream(s), replies[s], Asking(s)')
    <3>1. CASE k = 0 /\ m.kind = "ask"
      <4>1. ~Asking(s) /\ Asking(s)'
        BY <1>2, <1>3, <1>5, <1>8, <3>1 DEF Asking
      <4>2. Passing(Stream(p), Serving(p), Stream(s), replies[s], FALSE)
        BY <2>1, <4>1 DEF Passing
      <4>3. Passing(Append(Stream(p), x), Serving(p), Stream(s), replies[s], TRUE)
        BY <1>9, <1>11, <2>2, <4>2, PassRequest
      <4> QED
        BY <4>1, <4>3 DEF Passing
    <3>2. CASE ~(k = 0 /\ m.kind = "ask")
      <4>1. Asking(s)' <=> Asking(s)
        BY <1>2, <1>3, <1>5, <1>7, <1>8, <3>2 DEF Asking
      <4>2. ~(x.at = 1 /\ x.msg.kind = "ask")
        BY <1>7, <1>18, <3>2
      <4>3. Passing(Append(Stream(p), x), Serving(p), Stream(s), replies[s], Asking(s))
        BY <1>9, <1>11, <2>1, <2>2, <4>2, PassOther
      <4> QED
        BY <4>1, <4>3 DEF Passing
    <3> QED
      BY <3>1, <3>2
  <2>4. Passing(Stream(p)', Serving(p)', Stream(s)', replies[s]', Asking(s)')
    BY <1>5, <1>12, <1>17, <2>3 DEF Passing
  <2> QED
    BY <1>1, <2>4 DEF RequestInv, Passing, Once, Has, Starts
<1>20. RequestInv(p)'
  <2>1. Passing(Stream(s), Serving(s), Stream(p), replies[p], Asking(p))
    BY <1>1 DEF IInv, RequestInv
  <2>2. Serving(s) \in BOOLEAN /\ Asking(p) \in BOOLEAN
    BY DEF Serving, Asking
  <2>3. x.msg.kind # "reply"
    BY <1>7, <1>18
  <2>4. Passing(Stream(s), Serving(s), Append(Stream(p), x), replies[p], Asking(p))
    BY <1>9, <1>11, <2>1, <2>2, <2>3, PassOther
  <2>5. Asking(p)' <=> Asking(p)
    BY <1>1, <1>5, <1>8 DEF Asking
  <2>6. Passing(Stream(s)', Serving(s)', Stream(p)', replies[p]', Asking(p)')
    BY <1>5, <1>12, <1>17, <2>4, <2>5 DEF Passing
  <2> QED
    BY <1>1, <2>6 DEF RequestInv, Passing, Once, Has, Starts
<1>21. \A t \in Sides : StreamInv(t)' /\ RequestInv(t)'
  BY <1>1, <1>15, <1>16, <1>19, <1>20
<1> QED
  BY <1>13, <1>14, <1>21 DEF IInv

LEMMA StepAnswerPush ==
  ASSUME IInv, NEW s \in Sides, AnswerPush(s)
  PROVE  IInv'
<1>1. PICK p \in Sides : p = Peer(s) /\ p # s /\ Peer(p) = s /\ \A t \in Sides : t = s \/ t = p
  BY PeerFacts
<1>2. PICK m : m = Answer(asked[s][1])
  OBVIOUS
<1>3. PICK k : k = out[s].conn
  OBVIOUS
<1>4. PICK x : x = Chunk(m, k + 1)
  OBVIOUS
<1>5. /\ conn[s] = "sending" /\ k < m.size /\ Len(pipe[p]) < Buffer
      /\ pipe' = [pipe EXCEPT ![p] = Append(pipe[p], x)]
      /\ out' = [out EXCEPT ![s].conn = k + 1]
      /\ UNCHANGED <<l, todo, app, conn, in, asked, replies, got>>
  BY <1>1, <1>2, <1>3, <1>4 DEF AnswerPush, Push
<1>6. RangeInv /\ PlaceInv(s)
  BY DEF IInv
<1>7. /\ asked[s] # <<>> /\ m \in Messages /\ m.size \in Nat \ {0} /\ m.size = asked[s][1].answer
      /\ m.kind = "reply" /\ k \in Nat
      /\ out[s].app = 0 /\ app[s] # "sending"
  <2>1. asked[s] # <<>> /\ asked[s][1] \in Sent /\ asked[s][1].kind = "ask"
    BY <1>5, <1>6, AskedFacts
  <2>2. /\ m \in Messages /\ m.size \in Nat \ {0} /\ m.size = asked[s][1].answer
        /\ m.kind = "reply"
    BY <1>2, <2>1, AnswerFacts
  <2>3. app[s] # "sending" /\ out[s].app = 0
    BY <1>5, <1>6 DEF PlaceInv
  <2>4. k \in Nat
    BY <1>3, <1>6 DEF RangeInv
  <2> QED
    BY <2>1, <2>2, <2>3, <2>4
<1>8. /\ out'[s].conn = k + 1 /\ out'[s].app = out[s].app
      /\ \A t \in Sides : t # s => out'[t] = out[t]
      /\ out' \in [Sides -> [app : Nat, conn : Nat]]
  <2>1. out \in [Sides -> [app : Nat, conn : Nat]] /\ k + 1 \in Nat
    BY <1>6, <1>7 DEF RangeInv
  <2>2. out' = [out EXCEPT ![s].conn = k + 1]
    BY <1>5
  <2> QED
    BY <2>1, <2>2
<1>9. /\ StreamInv(p) /\ Stream(p) \in Seq(Chunks) /\ Stream(s) \in Seq(Chunks)
  BY <1>6, StreamType DEF IInv
<1>10. /\ Framed(Stream(p)) /\ (k = 0 => Closed(Stream(p))) /\ (k # 0 => Open(Stream(p), m, k))
  BY <1>1, <1>2, <1>3, <1>5, <1>7, <1>9 DEF StreamInv, AppMid, ConnMid
<1>11. /\ x \in Chunks
       /\ Framed(Append(Stream(p), x))
       /\ k + 1 # m.size => Open(Append(Stream(p), x), m, k + 1)
       /\ k + 1 = m.size => Closed(Append(Stream(p), x))
  BY <1>4, <1>5, <1>7, <1>9, <1>10, PushFacts
<1>12. /\ Stream(p)' = Append(Stream(p), x) /\ Stream(s)' = Stream(s)
       /\ pipe' \in [Sides -> Seq(Chunks)] /\ \A t \in Sides : Len(pipe'[t]) <= Buffer
  BY <1>1, <1>5, <1>6, <1>11, PushStreams
<1>13. RangeInv'
  BY <1>5, <1>6, <1>8, <1>12 DEF RangeInv
<1>14. ASSUME NEW t \in Sides PROVE PlaceInv(t)' /\ HandInv(t)'
  <2>1. PlaceInv(t) /\ HandInv(t)
    BY DEF IInv
  <2>2. CASE t = s
    BY <1>5, <1>7, <1>8, <2>1, <2>2 DEF PlaceInv, HandInv
  <2>3. CASE t # s
    BY <1>5, <1>8, <2>1, <2>3 DEF PlaceInv, HandInv
  <2> QED
    BY <2>2, <2>3
<1>15. StreamInv(p)'
  <2>1. /\ ConnMid(s)' <=> k + 1 # m.size
        /\ ~AppMid(s)' /\ Answer(asked[s]'[1]) = m /\ out[s].conn' = k + 1
    BY <1>2, <1>5, <1>7, <1>8 DEF AppMid, ConnMid
  <2>2. /\ Framed(Stream(p)')
        /\ ConnMid(s)' => Open(Stream(p)', Answer(asked[s]'[1]), out[s].conn')
        /\ ~AppMid(s)' /\ ~ConnMid(s)' => Closed(Stream(p)')
    BY <1>11, <1>12, <2>1
  <2> QED
    BY <1>1, <2>1, <2>2 DEF StreamInv, Framed, Open, Closed
<1>16. StreamInv(s)'
  <2>1. /\ AppMid(p)' <=> AppMid(p)
        /\ Head(todo[p])' = Head(todo[p]) /\ out[p].app' = out[p].app
        /\ ConnMid(p)' <=> ConnMid(p)
        /\ asked[p]' = asked[p] /\ out[p].conn' = out[p].conn
    BY <1>1, <1>5, <1>8 DEF AppMid, ConnMid
  <2>2. /\ Framed(Stream(s))
        /\ AppMid(p) => Open(Stream(s), Head(todo[p]), out[p].app)
        /\ ConnMid(p) => Open(Stream(s), Answer(asked[p][1]), out[p].conn)
        /\ ~AppMid(p) /\ ~ConnMid(p) => Closed(Stream(s))
    BY <1>1 DEF IInv, StreamInv
  <2>3. /\ Framed(Stream(s)')
        /\ AppMid(p)' => Open(Stream(s)', Head(todo[p])', out[p].app')
        /\ ConnMid(p)' => Open(Stream(s)', Answer(asked[p]'[1]), out[p].conn')
        /\ ~AppMid(p)' /\ ~ConnMid(p)' => Closed(Stream(s)')
    BY <1>12, <2>1, <2>2
  <2> QED
    BY <1>1, <2>3 DEF StreamInv, Framed, Open, Closed
<1>17. ASSUME NEW t \in Sides PROVE Asking(t)' <=> Asking(t)
  <2>1. out'[t].app = out[t].app
    BY <1>8
  <2> QED
    BY <1>5, <2>1 DEF Asking
<1>18. x.at = k + 1 /\ x.msg = m
  BY <1>4 DEF Chunk
<1>19. RequestInv(s)'
  <2>1. Passing(Stream(p), Serving(p), Stream(s), replies[s], Asking(s))
    BY <1>1 DEF IInv, RequestInv
  <2>2. Serving(p) \in BOOLEAN /\ Asking(s) \in BOOLEAN
    BY DEF Serving, Asking
  <2>3. x.msg.kind # "ask"
    BY <1>7, <1>18
  <2>4. Passing(Append(Stream(p), x), Serving(p), Stream(s), replies[s], Asking(s))
    BY <1>9, <1>11, <2>1, <2>2, <2>3, PassOther
  <2>5. Serving(p)' <=> Serving(p)
    BY <1>1, <1>5, <1>8 DEF Serving
  <2>6. Passing(Stream(p)', Serving(p)', Stream(s)', replies[s]', Asking(s)')
    BY <1>5, <1>12, <1>17, <2>4, <2>5 DEF Passing
  <2> QED
    BY <1>1, <2>6 DEF RequestInv, Passing, Once, Has, Starts
<1>20. RequestInv(p)'
  <2>1. Passing(Stream(s), Serving(s), Stream(p), replies[p], Asking(p))
    BY <1>1 DEF IInv, RequestInv
  <2>2. Serving(s) \in BOOLEAN /\ Asking(p) \in BOOLEAN
    BY DEF Serving, Asking
  <2>3. ~Serving(s)'
    BY <1>7, <1>8 DEF Serving
  <2>4. Passing(Stream(s), FALSE, Append(Stream(p), x), replies[p], Asking(p))
    <3>1. CASE k = 0
      <4>1. Serving(s)
        BY <1>3, <1>7, <3>1 DEF Serving
      <4>2. Passing(Stream(s), TRUE, Stream(p), replies[p], Asking(p))
        BY <2>1, <4>1 DEF Passing
      <4> QED
        BY <1>9, <1>11, <2>2, <4>2, PassReply
    <3>2. CASE k # 0
      <4>1. ~Serving(s) /\ x.at # 1
        BY <1>3, <1>7, <1>18, <3>2 DEF Serving
      <4>2. Passing(Stream(s), Serving(s), Append(Stream(p), x), replies[p], Asking(p))
        BY <1>9, <1>11, <2>1, <2>2, <4>1, PassOther
      <4> QED
        BY <4>1, <4>2 DEF Passing
    <3> QED
      BY <3>1, <3>2
  <2>5. Passing(Stream(s)', Serving(s)', Stream(p)', replies[p]', Asking(p)')
    BY <1>5, <1>12, <1>17, <2>3, <2>4 DEF Passing
  <2> QED
    BY <1>1, <2>5 DEF RequestInv, Passing, Once, Has, Starts
<1>21. \A t \in Sides : StreamInv(t)' /\ RequestInv(t)'
  BY <1>1, <1>15, <1>16, <1>19, <1>20
<1> QED
  BY <1>13, <1>14, <1>21 DEF IInv

----------------------------------------------------------------------------
(* Taking a whole message.                                                 *)

LEMMA StepRecvUnlock ==
  ASSUME IInv, NEW s \in Sides, RecvUnlock(s)
  PROVE  IInv'
<1>1. PICK p \in Sides : p = Peer(s) /\ p # s /\ Peer(p) = s /\ \A t \in Sides : t = s \/ t = p
  BY PeerFacts
<1>2. PICK m : m = in[s][1].msg
  OBVIOUS
<1>3. /\ conn[s] = "receiving" /\ in[s] # <<>> /\ Len(in[s]) = m.size
      /\ l' = [l EXCEPT ![s] = "free"] /\ in' = [in EXCEPT ![s] = <<>>]
      /\ replies' = [replies EXCEPT ![s] = IF m.kind = "reply" THEN replies[s] + 1 ELSE replies[s]]
      /\ asked' = [asked EXCEPT ![s] = IF m.kind = "ask" THEN <<m>> ELSE <<>>]
      /\ conn' = [conn EXCEPT ![s] = IF m.kind = "ask" THEN "answer" ELSE "poll"]
      /\ UNCHANGED <<pipe, todo, app, out>>
  BY <1>2 DEF RecvUnlock, Release, Complete
<1>4. RangeInv /\ PlaceInv(s) /\ HandInv(s)
  BY DEF IInv
<1>5. /\ in[s] \in Seq(Chunks) /\ pipe[s] \in Seq(Chunks)
      /\ Stream(s) = in[s] \o pipe[s] /\ Stream(p) \in Seq(Chunks)
  BY <1>4, StreamType DEF Stream
<1>6. Whole(in[s]) /\ in[s][1].msg.kind = m.kind
  BY <1>2, <1>3, <1>4 DEF Whole, HandInv
<1>7. m \in Messages /\ (m.kind = "ask" => m \in Sent)
  <2>1. in[s][1] \in Chunks
    BY <1>3, <1>5
  <2>2. m \in Messages
    BY <1>2, <2>1, ChunkFacts
  <2> QED
    BY <2>2 DEF Messages, Answer, Message
<1>8. out[s].conn = 0 /\ asked[s] = <<>> /\ l[s] = "conn"
  BY <1>3, <1>4 DEF PlaceInv
<1>9. /\ l'[s] = "free" /\ in'[s] = <<>>
      /\ asked'[s] = IF m.kind = "ask" THEN <<m>> ELSE <<>>
      /\ conn'[s] = IF m.kind = "ask" THEN "answer" ELSE "poll"
      /\ replies'[s] = IF m.kind = "reply" THEN replies[s] + 1 ELSE replies[s]
      /\ \A t \in Sides : t # s => /\ l'[t] = l[t] /\ in'[t] = in[t] /\ asked'[t] = asked[t]
                                   /\ conn'[t] = conn[t] /\ replies'[t] = replies[t]
  BY <1>3, <1>4 DEF RangeInv
<1>10. Stream(s)' = pipe[s] /\ Stream(p)' = Stream(p)
  <2>1. <<>> \o pipe[s] = pipe[s]
    BY <1>5, ConcatEmptySeq
  <2> QED
    BY <1>1, <1>3, <1>9, <2>1 DEF Stream
<1>11. ASSUME NEW t \in Sides
       PROVE  (AppMid(t)' <=> AppMid(t)) /\ (Asking(t)' <=> Asking(t))
  BY <1>3 DEF AppMid, Asking
<1>12. ~ConnMid(s) /\ ~ConnMid(s)' /\ ~Serving(s) /\ (Serving(s)' <=> m.kind = "ask")
  <2>1. out[s].conn = 0 /\ out'[s].conn = 0
    BY <1>3, <1>8
  <2>2. ~ConnMid(s) /\ ~ConnMid(s)' /\ ~Serving(s)
    BY <1>8, <2>1 DEF ConnMid, Serving
  <2>3. asked'[s] # <<>> <=> m.kind = "ask"
    BY <1>9
  <2> QED
    BY <2>1, <2>2, <2>3 DEF Serving
<1>13. (ConnMid(p)' <=> ConnMid(p)) /\ (Serving(p)' <=> Serving(p)) /\ asked[p]' = asked[p]
  BY <1>1, <1>3, <1>9 DEF ConnMid, Serving
<1>14. StreamInv(s)'
  <2>1. /\ Framed(Stream(s))
        /\ AppMid(p) => Open(Stream(s), Head(todo[p]), out[p].app)
        /\ ConnMid(p) => Open(Stream(s), Answer(asked[p][1]), out[p].conn)
        /\ ~AppMid(p) /\ ~ConnMid(p) => Closed(Stream(s))
    BY <1>1 DEF IInv, StreamInv
  <2>2. /\ Framed(pipe[s])
        /\ Closed(Stream(s)) => Closed(pipe[s])
        /\ \A n, k : Open(Stream(s), n, k) /\ k # n.size => Open(pipe[s], n, k)
    BY <1>5, <1>6, <2>1, FramedDrop
  <2>3. AppMid(p) => out[p].app # Head(todo[p]).size
    BY DEF AppMid
  <2>4. ConnMid(p) => out[p].conn # Answer(asked[p][1]).size
    BY DEF ConnMid, Answer, Message
  <2>5. /\ Framed(Stream(s)')
        /\ AppMid(p)' => Open(Stream(s)', Head(todo[p])', out[p].app')
        /\ ConnMid(p)' => Open(Stream(s)', Answer(asked[p]'[1]), out[p].conn')
        /\ ~AppMid(p)' /\ ~ConnMid(p)' => Closed(Stream(s)')
    <3>1. AppMid(p) => Open(pipe[s], Head(todo[p]), out[p].app)
      BY <2>1, <2>2, <2>3
    <3>2. ConnMid(p) => Open(pipe[s], Answer(asked[p][1]), out[p].conn)
      BY <2>1, <2>2, <2>4
    <3>3. ~AppMid(p) /\ ~ConnMid(p) => Closed(pipe[s])
      BY <2>1, <2>2
    <3> QED
      BY <1>3, <1>10, <1>11, <1>13, <2>2, <3>1, <3>2, <3>3
  <2> QED
    BY <1>1, <2>5 DEF StreamInv, Framed, Open, Closed
<1>15. StreamInv(p)'
  <2>1. /\ Framed(Stream(p))
        /\ AppMid(s) => Open(Stream(p), Head(todo[s]), out[s].app)
        /\ ~AppMid(s) /\ ~ConnMid(s) => Closed(Stream(p))
    BY <1>1 DEF IInv, StreamInv
  <2>2. /\ Framed(Stream(p)')
        /\ AppMid(s)' => Open(Stream(p)', Head(todo[s])', out[s].app')
        /\ ~AppMid(s)' /\ ~ConnMid(s)' => Closed(Stream(p)')
    BY <1>3, <1>10, <1>11, <1>12, <2>1
  <2> QED
    BY <1>1, <1>12, <2>2 DEF StreamInv, Framed, Open, Closed
<1>16. /\ Passing(Stream(p), Serving(p), pipe[s], replies'[s], Asking(s))
       /\ replies'[s] \in {0, 1}
  <2>1. Passing(Stream(p), Serving(p), in[s] \o pipe[s], replies[s], Asking(s))
    BY <1>1, <1>5 DEF IInv, RequestInv
  <2>2. Serving(p) \in BOOLEAN /\ Asking(s) \in BOOLEAN
    BY DEF Serving, Asking
  <2>3. CASE m.kind = "reply"
    <3>1. replies[s] = 0 /\ Passing(Stream(p), Serving(p), pipe[s], 1, Asking(s))
      BY <1>5, <1>6, <2>1, <2>2, <2>3, PassQueue
    <3> QED
      BY <1>9, <2>3, <3>1
  <2>4. CASE m.kind # "reply"
    <3>1. Passing(Stream(p), Serving(p), pipe[s], replies[s], Asking(s))
      BY <1>5, <1>6, <2>1, <2>2, <2>4, PassDropBack
    <3> QED
      BY <1>4, <1>9, <2>4, <3>1 DEF RangeInv
  <2> QED
    BY <2>3, <2>4
<1>17. Passing(pipe[s], m.kind = "ask", Stream(p), replies[p], Asking(p))
  <2>1. Passing(in[s] \o pipe[s], Serving(s), Stream(p), replies[p], Asking(p))
    BY <1>1, <1>5 DEF IInv, RequestInv
  <2>2. Serving(s) \in BOOLEAN /\ Asking(p) \in BOOLEAN
    BY DEF Serving, Asking
  <2>3. CASE m.kind = "ask"
    <3>1. Passing(pipe[s], TRUE, Stream(p), replies[p], Asking(p))
      <4>1. in[s][1].msg.kind = "ask" /\ in[s] \in Seq(Chunks) /\ pipe[s] \in Seq(Chunks)
        BY <1>5, <1>6, <2>3
      <4>2. Passing(in[s] \o pipe[s], FALSE, Stream(p), replies[p], Asking(p))
        BY <1>12, <2>1 DEF Passing
      <4> QED
        BY <1>6, <2>2, <4>1, <4>2, PassServe
    <3> QED
      BY <2>3, <3>1 DEF Passing
  <2>4. CASE m.kind # "ask"
    <3>1. Passing(pipe[s], Serving(s), Stream(p), replies[p], Asking(p))
      BY <1>5, <1>6, <2>1, <2>2, <2>4, PassDropTo
    <3> QED
      BY <1>12, <2>4, <3>1 DEF Passing
  <2> QED
    BY <2>3, <2>4
<1>18. RequestInv(s)'
  <2>1. Passing(Stream(p)', Serving(p)', Stream(s)', replies'[s], Asking(s)')
    BY <1>10, <1>11, <1>13, <1>16 DEF Passing
  <2> QED
    BY <1>1, <2>1 DEF RequestInv, Passing, Once, Has, Starts
<1>19. RequestInv(p)'
  <2>1. Passing(Stream(s)', Serving(s)', Stream(p)', replies'[p], Asking(p)')
    <3>1. replies'[p] = replies[p]
      BY <1>1, <1>9
    <3> QED
      BY <1>10, <1>11, <1>12, <1>17, <3>1 DEF Passing
  <2> QED
    BY <1>1, <2>1 DEF RequestInv, Passing, Once, Has, Starts
<1>20. RangeInv'
  <2>1. in' \in [Sides -> Seq(Chunks)]
    BY <1>3, <1>4 DEF RangeInv
  <2>2. l' \in [Sides -> {"free", "app", "conn"}]
    BY <1>3, <1>4 DEF RangeInv
  <2>3. conn' \in [Sides -> {"poll", "ready", "receiving", "answer", "sending"}]
    BY <1>3, <1>4 DEF RangeInv
  <2>4. asked' \in [Sides -> Seq(Sent)]
    BY <1>3, <1>4, <1>7 DEF RangeInv
  <2>5. replies' \in [Sides -> {0, 1}]
    BY <1>3, <1>4, <1>9, <1>16 DEF RangeInv
  <2> QED
    BY <1>3, <1>4, <2>1, <2>2, <2>3, <2>4, <2>5 DEF RangeInv
<1>21. ASSUME NEW t \in Sides PROVE PlaceInv(t)' /\ HandInv(t)'
  <2>1. PlaceInv(t) /\ HandInv(t)
    BY DEF IInv
  <2>2. CASE t = s
    <3>1. HandInv(t)'
      BY <1>9, <2>2 DEF HandInv
    <3>2. app[s] # "sending"
      BY <1>3, <1>4 DEF PlaceInv
    <3>3. CASE m.kind = "ask"
      <4>1. Len(asked'[s]) = 1 /\ asked'[s][1] = m /\ conn'[s] = "answer"
        BY <1>9, <3>3
      <4> QED
        BY <1>3, <1>8, <1>9, <2>1, <2>2, <3>1, <3>2, <3>3, <4>1 DEF PlaceInv
    <3>4. CASE m.kind # "ask"
      BY <1>3, <1>8, <1>9, <2>1, <2>2, <3>1, <3>2, <3>4 DEF PlaceInv
    <3> QED
      BY <3>3, <3>4
  <2>3. CASE t # s
    BY <1>3, <1>9, <2>1, <2>3 DEF PlaceInv, HandInv
  <2> QED
    BY <2>2, <2>3
<1>22. \A t \in Sides : StreamInv(t)' /\ RequestInv(t)'
  BY <1>1, <1>14, <1>15, <1>18, <1>19
<1> QED
  BY <1>20, <1>21, <1>22 DEF IInv

----------------------------------------------------------------------------
(* The invariant.                                                          *)

LEMMA InitFacts == Init => IInv
<1> SUFFICES ASSUME Init PROVE IInv
  OBVIOUS
<1>1. RangeInv
  <2>1. \A s \in Sides : Sends[s] \in Seq(Sent) /\ Buffer \in Nat
    BY TransportAssumption
  <2> QED
    BY <2>1 DEF Init, RangeInv
<1>2. ASSUME NEW s \in Sides
      PROVE  /\ pipe[s] = <<>> /\ in[s] = <<>> /\ l[s] = "free" /\ app[s] = "ready"
             /\ conn[s] = "poll" /\ out[s].app = 0 /\ out[s].conn = 0
             /\ asked[s] = <<>> /\ replies[s] = 0
  BY DEF Init
<1>3. ASSUME NEW s \in Sides PROVE PlaceInv(s) /\ HandInv(s)
  BY <1>2 DEF PlaceInv, HandInv
<1>4. ASSUME NEW s \in Sides
      PROVE  Stream(s) = <<>> /\ ~AppMid(s) /\ ~ConnMid(s) /\ ~Serving(s) /\ ~Asking(s)
  BY <1>2 DEF Stream, AppMid, ConnMid, Serving, Asking
<1>5. ASSUME NEW s \in Sides PROVE StreamInv(s) /\ RequestInv(s)
  <2>1. Peer(s) \in Sides
    BY PeerFacts
  <2>2. DOMAIN Stream(s) = {} /\ DOMAIN Stream(Peer(s)) = {}
    BY <1>4, <2>1
  <2>3. StreamInv(s)
    BY <1>4, <2>1, <2>2 DEF StreamInv, Framed, Closed
  <2>4. RequestInv(s)
    BY <1>2, <1>4, <2>1, <2>2 DEF RequestInv, Passing, Has, Once
  <2> QED
    BY <2>3, <2>4
<1> QED
  BY <1>1, <1>3, <1>5 DEF IInv

LEMMA NextFacts == IInv /\ [Next]_vars => IInv'
<1> SUFFICES ASSUME IInv, [Next]_vars PROVE IInv'
  OBVIOUS
<1>1. CASE UNCHANGED vars
  <2>1. UNCHANGED <<pipe, l, todo, app, conn, out, in, asked, replies>>
    BY <1>1 DEF vars
  <2>2. ASSUME NEW t \in Sides
        PROVE  /\ Stream(t)' = Stream(t) /\ (AppMid(t)' <=> AppMid(t)) /\ (ConnMid(t)' <=> ConnMid(t))
               /\ (Serving(t)' <=> Serving(t)) /\ (Asking(t)' <=> Asking(t))
    BY <2>1 DEF Stream, AppMid, ConnMid, Serving, Asking
  <2>3. \A t \in Sides : StreamInv(t)'
    BY <2>1, <2>2, StreamKept DEF IInv
  <2>4. \A t \in Sides : RequestInv(t)'
    BY <2>1, <2>2, RequestKept DEF IInv
  <2>5. RangeInv' /\ \A t \in Sides : PlaceInv(t)' /\ HandInv(t)'
    BY <2>1 DEF IInv, RangeInv, PlaceInv, HandInv
  <2> QED
    BY <2>3, <2>4, <2>5 DEF IInv
<1>2. CASE Next
  <2>1. PICK s \in Sides : App(s) \/ Conn(s)
    BY <1>2 DEF Next
  <2>2. CASE App(s)
    BY <2>2, StepAppLock, StepAppPush, StepAppUnlock, StepAppReply DEF App
  <2>3. CASE Conn(s)
    BY <2>3, StepPoll, StepConnLock, StepRecvChunk, StepRecvUnlock, StepAnswerPush, StepAnswerUnlock
       DEF Conn
  <2> QED
    BY <2>1, <2>2, <2>3
<1> QED
  BY <1>1, <1>2

LEMMA Invariance == Spec => []IInv
BY InitFacts, NextFacts, PTL DEF Spec

----------------------------------------------------------------------------

\* A thread is inside send_message or recv_message exactly while it holds l_, the
\* sockets hold no more than their buffers do, and at most one Reply is queued.
THEOREM TypeCorrect == Spec => []TypeOK
<1>1. IInv => TypeOK
  <2> SUFFICES ASSUME IInv, NEW s \in Sides
               PROVE  /\ \A i \in DOMAIN (pipe[s] \o in[s]) : (pipe[s] \o in[s])[i].msg \in Messages
                      /\ Len(pipe[s]) <= Buffer
                      /\ (l[s] = "app") <=> (app[s] = "sending")
                      /\ (l[s] = "conn") <=> (conn[s] \in {"receiving", "sending"})
                      /\ out[s].app > 0 => app[s] = "sending"
                      /\ out[s].conn > 0 => conn[s] = "sending"
                      /\ replies[s] \in {0, 1}
    BY DEF TypeOK
  <2>1. RangeInv /\ PlaceInv(s)
    BY DEF IInv
  <2>2. pipe[s] \in Seq(Chunks) /\ in[s] \in Seq(Chunks)
    BY <2>1, StreamType
  <2> DEFINE q == pipe[s] \o in[s]
  <2>3. q \in Seq(Chunks)
    BY <2>2, ConcatProperties
  <2> HIDE DEF q
  <2>4. ASSUME NEW i \in DOMAIN q PROVE q[i].msg \in Messages
    <3>1. q[i] \in Chunks
      BY <2>3
    <3> QED
      BY <3>1, ChunkFacts
  <2> QED
    BY <2>1, <2>4 DEF q, RangeInv, PlaceInv
<1> QED
  BY <1>1, Invariance, PTL

\* What recv_message hands over (connection.h:87-100) is one message of the
\* peer's, every chunk of it once and in order, whichever of its threads sent it
\* and whatever the other one sent before and after.
WholeMessages ==
  \A s \in Sides : Complete(s) => \A i \in DOMAIN in[s] : in[s][i] = Chunk(in[s][1].msg, i)

THEOREM WholeCorrect == Spec => []WholeMessages
<1>1. IInv => WholeMessages
  BY DEF IInv, HandInv, WholeMessages
<1> QED
  BY <1>1, Invariance, PTL

\* A Reply is queued (connection.h:135) only for a side whose application has sent
\* a request that no Reply was taken for: process_reply_ takes the answer to its
\* own request.
ReplyAwaited == \A s \in Sides : replies[s] # 0 => Asking(s)

THEOREM ReplyAwaitedCorrect == Spec => []ReplyAwaited
<1>1. IInv => ReplyAwaited
  BY DEF IInv, RequestInv, Passing, ReplyAwaited
<1> QED
  BY <1>1, Invariance, PTL

----------------------------------------------------------------------------
(* The messages of a sequence of chunks.                                   *)

\* Induction over the naturals, on a set instead of a predicate.
LEMMA Least ==
  ASSUME NEW T, T \subseteq Nat, T # {}
  PROVE  \E n \in T : \A m \in T : n <= m
<1> DEFINE R == OpToRel(<, Nat)
<1>1. IsWellFoundedOn(R, Nat)
  BY NatLessThanWellFounded
<1>2. \A x, y \in Nat : x < y => <<x, y>> \in R
  BY DEF OpToRel
<1> HIDE DEF R
<1>3. PICK n \in T : \A m \in T : ~(<<m, n>> \in R)
  BY <1>1, WFMin
<1>4. n \in Nat /\ \A m \in T : m \in Nat
  OBVIOUS
<1>5. \A m \in T : ~(m < n)
  BY <1>2, <1>3, <1>4
<1> QED
  BY <1>4, <1>5

LEMMA Induct ==
  ASSUME NEW S, 0 \in S, \A n \in Nat : n \in S => n + 1 \in S
  PROVE  Nat \subseteq S
<1> SUFFICES ASSUME ~(Nat \subseteq S) PROVE FALSE
  OBVIOUS
<1>1. PICK n \in Nat \ S : \A m \in Nat \ S : n <= m
  BY Least
<1>2. n - 1 \in Nat /\ n = (n - 1) + 1
  BY <1>1
<1>3. n - 1 \in S
  BY <1>1, <1>2
<1> QED
  BY <1>1, <1>2, <1>3

\* How many messages have started, chunk by chunk.
LEMMA RankFacts ==
  ASSUME NEW c, NEW i \in Nat
  PROVE  /\ Rank(c, 0) = 0
         /\ Rank(c, i) \in Nat
         /\ Rank(c, i + 1) = IF c[i + 1].at = 1 THEN Rank(c, i) + 1 ELSE Rank(c, i)
<1> DEFINE P(n) == {j \in 1 .. n : c[j].at = 1}
<1>1. P(0) = {}
  OBVIOUS
<1>2. Rank(c, 0) = 0
  BY <1>1, FS_EmptySet DEF Rank
<1>3. IsFiniteSet(P(i)) /\ Cardinality(P(i)) \in Nat
  <2>1. IsFiniteSet(1 .. i)
    BY FS_Interval
  <2>2. P(i) \subseteq 1 .. i
    OBVIOUS
  <2> QED
    BY <2>1, <2>2, FS_Subset, FS_CardinalityType
<1>4. CASE c[i + 1].at = 1
  <2>1. P(i + 1) = P(i) \cup {i + 1}
    BY <1>4
  <2>2. i + 1 \notin P(i)
    OBVIOUS
  <2>3. Cardinality(P(i) \cup {i + 1}) = Cardinality(P(i)) + 1
    BY <1>3, <2>2, FS_AddElement
  <2> QED
    BY <1>2, <1>3, <1>4, <2>1, <2>3 DEF Rank
<1>5. CASE c[i + 1].at # 1
  <2>1. P(i + 1) = P(i)
    BY <1>5
  <2> QED
    BY <1>2, <1>3, <1>5, <2>1 DEF Rank
<1> QED
  BY <1>4, <1>5

\* Later is no less, and more when a message starts there.
LEMMA RankStays ==
  ASSUME NEW c, NEW i \in Nat, NEW j \in Nat, i <= j
  PROVE  Rank(c, i) <= Rank(c, j)
<1> DEFINE S == {d \in Nat : Rank(c, i) <= Rank(c, i + d)}
<1>1. 0 \in S
  BY RankFacts
<1>2. ASSUME NEW d \in Nat, d \in S PROVE d + 1 \in S
  <2>1. i + d \in Nat /\ (i + d) + 1 = i + (d + 1)
    OBVIOUS
  <2>2. Rank(c, i + d) <= Rank(c, i + (d + 1))
    BY <2>1, RankFacts
  <2>3. Rank(c, i) \in Nat /\ Rank(c, i + d) \in Nat /\ Rank(c, i + (d + 1)) \in Nat
    BY <2>1, RankFacts
  <2> QED
    BY <1>2, <2>2, <2>3
<1> HIDE DEF S
<1>3. Nat \subseteq S
  BY <1>1, <1>2, Induct
<1>4. j - i \in Nat /\ i + (j - i) = j
  OBVIOUS
<1> QED
  BY <1>3, <1>4 DEF S

LEMMA RankGrows ==
  ASSUME NEW c, NEW i \in Nat, NEW j \in Nat, i < j, c[j].at = 1
  PROVE  Rank(c, i) < Rank(c, j)
<1>1. j - 1 \in Nat /\ (j - 1) + 1 = j /\ i <= j - 1
  OBVIOUS
<1>2. Rank(c, i) <= Rank(c, j - 1)
  BY <1>1, RankStays
<1>3. Rank(c, j) = Rank(c, j - 1) + 1
  BY <1>1, RankFacts
<1> QED
  BY <1>1, <1>2, <1>3, RankFacts

\* Every count is reached by some message's first chunk.
LEMMA RankOnto ==
  ASSUME NEW c, NEW n \in Nat, NEW k \in 1 .. Rank(c, n)
  PROVE  \E i \in 1 .. n : c[i].at = 1 /\ Rank(c, i) = k
<1> DEFINE S == {m \in Nat : \A x \in 1 .. Rank(c, m) :
                               \E i \in 1 .. m : c[i].at = 1 /\ Rank(c, i) = x}
<1>1. 0 \in S
  BY RankFacts
<1>2. ASSUME NEW m \in Nat, m \in S PROVE m + 1 \in S
  <2> SUFFICES ASSUME NEW x \in 1 .. Rank(c, m + 1)
               PROVE  \E i \in 1 .. m + 1 : c[i].at = 1 /\ Rank(c, i) = x
    OBVIOUS
  <2>1. /\ Rank(c, m) \in Nat
        /\ Rank(c, m + 1) = IF c[m + 1].at = 1 THEN Rank(c, m) + 1 ELSE Rank(c, m)
    BY RankFacts
  <2>2. CASE x \in 1 .. Rank(c, m)
    BY <1>2, <2>2
  <2>3. CASE x \notin 1 .. Rank(c, m)
    <3>1. c[m + 1].at = 1 /\ x = Rank(c, m + 1)
      BY <2>1, <2>3
    <3> QED
      BY <3>1
  <2> QED
    BY <2>2, <2>3
<1> HIDE DEF S
<1>3. n \in S
  BY <1>1, <1>2, Induct
<1> QED
  BY <1>3 DEF S

\* The message that starts at a chunk is the one its count names.
LEMMA HeadsFacts ==
  ASSUME NEW c \in Seq(Chunks)
  PROVE  /\ Heads(c) \in Seq(Messages) /\ Len(Heads(c)) = Rank(c, Len(c))
         /\ Len(Heads(c)) \in Nat /\ DOMAIN Heads(c) = 1 .. Rank(c, Len(c))
         /\ \A i \in 1 .. Len(c) : c[i].at = 1 =>
              Rank(c, i) \in 1 .. Rank(c, Len(c)) /\ Heads(c)[Rank(c, i)] = c[i].msg
<1>1. Len(c) \in Nat /\ DOMAIN c = 1 .. Len(c) /\ \A i \in 1 .. Len(c) : c[i] \in Chunks
  OBVIOUS
<1> DEFINE At(k) == CHOOSE i \in DOMAIN c : c[i].at = 1 /\ Rank(c, i) = k
<1>2. Rank(c, Len(c)) \in Nat
  BY <1>1, RankFacts
<1>3. Heads(c) = [k \in 1 .. Rank(c, Len(c)) |-> c[At(k)].msg]
  BY DEF Heads
<1>4. ASSUME NEW k \in 1 .. Rank(c, Len(c))
      PROVE  At(k) \in 1 .. Len(c) /\ c[At(k)].at = 1 /\ Rank(c, At(k)) = k
  <2>1. \E i \in DOMAIN c : c[i].at = 1 /\ Rank(c, i) = k
    BY <1>1, RankOnto
  <2> QED
    BY <1>1, <2>1
<1> HIDE DEF At
<1>5. \A k \in 1 .. Rank(c, Len(c)) : c[At(k)].msg \in Messages
  BY <1>1, <1>4 DEF Chunks
<1>6. ASSUME NEW i \in 1 .. Len(c), c[i].at = 1
      PROVE  Rank(c, i) \in 1 .. Rank(c, Len(c)) /\ Heads(c)[Rank(c, i)] = c[i].msg
  <2>1. i \in Nat /\ 0 < i
    BY <1>1
  <2>2. Rank(c, i) \in Nat /\ Rank(c, 0) = 0 /\ Rank(c, 0) < Rank(c, i)
    BY <1>6, <2>1, RankFacts, RankGrows
  <2>3. Rank(c, i) <= Rank(c, Len(c))
    BY <1>1, <1>2, <2>1, <2>2, RankFacts, RankStays
  <2>4. Rank(c, i) \in 1 .. Rank(c, Len(c))
    BY <1>2, <2>2, <2>3
  <2>5. PICK j \in 1 .. Len(c) : j = At(Rank(c, i)) /\ c[j].at = 1 /\ Rank(c, j) = Rank(c, i)
    BY <1>4, <2>4
  <2>6. j = i
    <3>1. j \in Nat
      BY <1>1
    <3>2. ~(i < j) /\ ~(j < i)
      BY <1>6, <2>1, <2>2, <2>5, <3>1, RankGrows
    <3> QED
      BY <2>1, <3>1, <3>2
  <2> QED
    BY <1>3, <2>4, <2>5, <2>6
<1> DEFINE h == Heads(c)
<1>7. h \in Seq(Messages) /\ Len(h) = Rank(c, Len(c)) /\ DOMAIN h = 1 .. Rank(c, Len(c))
  <2>1. h = [k \in 1 .. Rank(c, Len(c)) |-> c[At(k)].msg]
    BY <1>3
  <2> HIDE DEF h
  <2>2. h \in [1 .. Rank(c, Len(c)) -> Messages]
    BY <1>5, <2>1
  <2> QED
    BY <1>2, <2>2
<1> HIDE DEF h
<1>8. Len(h) \in Nat
  BY <1>2, <1>7
<1> QED
  BY <1>6, <1>7, <1>8 DEF h

\* A chunk is added: it starts a message, or goes on with the last one.
LEMMA HeadsAppend ==
  ASSUME NEW c \in Seq(Chunks), NEW x \in Chunks
  PROVE  Heads(Append(c, x)) = IF x.at = 1 THEN Append(Heads(c), x.msg) ELSE Heads(c)
<1> DEFINE d == Append(c, x)
           n == Len(c)
           h == Heads(c)
           g == Heads(d)
<1>1. /\ n \in Nat /\ d \in Seq(Chunks) /\ Len(d) = n + 1 /\ d[n + 1] = x
      /\ \A i \in 1 .. n : d[i] = c[i]
  OBVIOUS
<1>2. /\ h \in Seq(Messages) /\ Len(h) = Rank(c, n)
      /\ g \in Seq(Messages) /\ Len(g) = Rank(d, n + 1)
      /\ Rank(c, n) \in Nat
      /\ \A i \in 1 .. n : c[i].at = 1 => h[Rank(c, i)] = c[i].msg
      /\ \A i \in 1 .. n + 1 : d[i].at = 1 => g[Rank(d, i)] = d[i].msg
  BY <1>1, HeadsFacts, RankFacts
<1> HIDE DEF d, h, g
<1>3. \A i \in 0 .. n : Rank(d, i) = Rank(c, i)
  <2> SUFFICES ASSUME NEW i \in 0 .. n PROVE Rank(d, i) = Rank(c, i)
    OBVIOUS
  <2>1. \A j \in 1 .. i : d[j] = c[j]
    BY <1>1
  <2>2. {j \in 1 .. i : d[j].at = 1} = {j \in 1 .. i : c[j].at = 1}
    BY <2>1
  <2> QED
    BY <2>2 DEF Rank
<1>4. Rank(d, n + 1) = IF x.at = 1 THEN Rank(c, n) + 1 ELSE Rank(c, n)
  <2>1. n \in 0 .. n
    BY <1>1
  <2>2. Rank(d, n) = Rank(c, n)
    BY <1>3, <2>1
  <2>3. Rank(d, n + 1) = IF d[n + 1].at = 1 THEN Rank(d, n) + 1 ELSE Rank(d, n)
    BY <1>1, RankFacts
  <2> QED
    BY <1>1, <2>2, <2>3
<1>5. ASSUME NEW k \in 1 .. Rank(c, n) PROVE g[k] = h[k]
  <2>1. PICK i \in 1 .. n : c[i].at = 1 /\ Rank(c, i) = k
    BY <1>1, RankOnto
  <2>2. d[i] = c[i] /\ Rank(d, i) = k
    BY <1>1, <1>3, <2>1
  <2>3. i \in 1 .. n + 1
    BY <1>1
  <2> QED
    BY <1>2, <2>1, <2>2, <2>3
<1>6. CASE x.at = 1
  <2>1. Rank(d, n + 1) = Rank(c, n) + 1
    BY <1>4, <1>6
  <2>2. n + 1 \in 1 .. n + 1
    BY <1>1
  <2>3. g[Rank(c, n) + 1] = x.msg
    BY <1>1, <1>2, <1>6, <2>1, <2>2
  <2>4. x.msg \in Messages
    BY DEF Chunks
  <2> DEFINE e == Append(h, x.msg)
  <2>5. /\ e \in Seq(Messages) /\ Len(e) = Rank(c, n) + 1 /\ e[Rank(c, n) + 1] = x.msg
        /\ \A k \in 1 .. Rank(c, n) : e[k] = h[k]
    BY <1>2, <2>4
  <2> HIDE DEF e
  <2>6. \A k \in 1 .. Len(g) : g[k] = e[k]
    BY <1>2, <1>5, <2>1, <2>3, <2>5
  <2>7. g = e
    BY <1>2, <2>1, <2>5, <2>6, SeqEqual
  <2> QED
    BY <1>6, <2>7 DEF e, d, g, h
<1>7. CASE x.at # 1
  <2>1. Len(g) = Len(h) /\ \A k \in 1 .. Len(g) : g[k] = h[k]
    BY <1>2, <1>4, <1>5, <1>7
  <2>2. g = h
    BY <1>2, <2>1, SeqEqual
  <2> QED
    BY <1>7, <2>2 DEF d, g, h
<1> QED
  BY <1>6, <1>7

\* A whole message is first of those that start in a sequence it begins, and the
\* others are those that start behind it.
LEMMA HeadsDrop ==
  ASSUME NEW a \in Seq(Chunks), NEW b \in Seq(Chunks), Whole(a)
  PROVE  /\ Heads(a \o b) # <<>> /\ Head(Heads(a \o b)) = a[1].msg
         /\ Tail(Heads(a \o b)) = Heads(b)
<1> DEFINE c == a \o b
           h == Heads(c)
           g == Heads(b)
           m == Len(a)
           n == Len(b)
<1>1. /\ c \in Seq(Chunks) /\ Len(c) = m + n /\ m \in Nat \ {0} /\ n \in Nat
      /\ DOMAIN a = 1 .. m
      /\ \A i \in 1 .. m + n : c[i] = IF i <= m THEN a[i] ELSE b[i - m]
  BY ConcatFacts
<1>2. /\ h \in Seq(Messages) /\ Len(h) = Rank(c, m + n)
      /\ g \in Seq(Messages) /\ Len(g) = Rank(b, n)
      /\ Rank(b, n) \in Nat
      /\ \A i \in 1 .. m + n : c[i].at = 1 => h[Rank(c, i)] = c[i].msg
      /\ \A i \in 1 .. n : b[i].at = 1 => g[Rank(b, i)] = b[i].msg
  <2>1. Len(h) = Rank(c, Len(c)) /\ Len(c) = m + n
    BY <1>1, HeadsFacts
  <2> QED
    BY <1>1, <2>1, HeadsFacts, RankFacts
<1> HIDE DEF c, h, g
<1>3. \A i \in 1 .. m : c[i] = a[i] /\ a[i] = Chunk(a[1].msg, i)
  <2>1. \A i \in 1 .. m : i \in 1 .. m + n /\ i <= m
    BY <1>1
  <2> QED
    BY <1>1, <2>1 DEF Whole
<1>4. ASSUME NEW i \in 1 .. m PROVE c[i].at = i /\ c[i].msg = a[1].msg
  <2>1. PICK x : x = a[1].msg
    OBVIOUS
  <2>2. c[i] = [msg |-> x, at |-> i]
    BY <1>3, <2>1 DEF Chunk
  <2>3. c[i].at = i /\ c[i].msg = x
    BY <2>2
  <2> QED
    BY <2>1, <2>3
<1>5. Rank(c, 1) = 1 /\ Rank(c, m) = 1
  <2>1. 1 \in 1 .. m
    BY <1>1
  <2>2. {j \in 1 .. m : c[j].at = 1} = {1} /\ {j \in 1 .. 1 : c[j].at = 1} = {1}
    BY <1>4, <2>1
  <2> QED
    BY <2>2, FS_Singleton DEF Rank
<1>6. \A i \in 1 .. n : m + i \in 1 .. m + n /\ c[m + i] = b[i]
  <2> SUFFICES ASSUME NEW i \in 1 .. n PROVE m + i \in 1 .. m + n /\ c[m + i] = b[i]
    OBVIOUS
  <2>1. m + i \in 1 .. m + n /\ ~(m + i <= m) /\ (m + i) - m = i
    BY <1>1
  <2> QED
    BY <1>1, <2>1
<1>7. \A i \in 0 .. n : Rank(c, m + i) = Rank(b, i) + 1
  <2> DEFINE S == {i \in Nat : i <= n => Rank(c, m + i) = Rank(b, i) + 1}
  <2>1. 0 \in S
    BY <1>1, <1>5, RankFacts
  <2>2. ASSUME NEW i \in Nat, i \in S PROVE i + 1 \in S
    <3> SUFFICES ASSUME i + 1 <= n PROVE Rank(c, m + (i + 1)) = Rank(b, i + 1) + 1
      OBVIOUS
    <3>1. m + i \in Nat /\ (m + i) + 1 = m + (i + 1) /\ i <= n /\ i + 1 \in 1 .. n
      BY <1>1
    <3>2. c[m + (i + 1)] = b[i + 1]
      BY <1>6, <3>1
    <3>3. Rank(c, m + (i + 1)) = IF b[i + 1].at = 1 THEN Rank(c, m + i) + 1 ELSE Rank(c, m + i)
      <4>1. /\ Rank(c, (m + i) + 1)
                 = IF c[(m + i) + 1].at = 1 THEN Rank(c, m + i) + 1 ELSE Rank(c, m + i)
        BY <3>1, RankFacts
      <4> QED
        BY <3>1, <3>2, <4>1
    <3>4. /\ Rank(b, i + 1) = IF b[i + 1].at = 1 THEN Rank(b, i) + 1 ELSE Rank(b, i)
          /\ Rank(b, i) \in Nat
      BY RankFacts
    <3>5. Rank(c, m + i) = Rank(b, i) + 1
      BY <2>2, <3>1
    <3> QED
      BY <3>3, <3>4, <3>5
  <2> HIDE DEF S
  <2>3. Nat \subseteq S
    BY <2>1, <2>2, Induct
  <2> QED
    BY <1>1, <2>3 DEF S
<1>8. Len(h) = Len(g) + 1
  BY <1>1, <1>2, <1>7
<1>9. h[1] = a[1].msg
  <2>1. 1 \in 1 .. m + n /\ 1 \in 1 .. m
    BY <1>1
  <2> QED
    BY <1>2, <1>4, <1>5, <2>1
<1>10. ASSUME NEW k \in 1 .. Len(g) PROVE h[k + 1] = g[k]
  <2>1. PICK i \in 1 .. n : b[i].at = 1 /\ Rank(b, i) = k
    BY <1>1, <1>2, RankOnto
  <2>2. c[m + i] = b[i] /\ m + i \in 1 .. m + n /\ Rank(c, m + i) = k + 1
    BY <1>1, <1>6, <1>7, <2>1
  <2> QED
    BY <1>2, <2>1, <2>2
<1>11. h # <<>> /\ Head(h) = a[1].msg /\ Tail(h) \in Seq(Messages) /\ Len(Tail(h)) = Len(g)
       /\ \A k \in 1 .. Len(g) : Tail(h)[k] = g[k]
  BY <1>2, <1>8, <1>9, <1>10
<1>12. Tail(h) = g
  BY <1>2, <1>11, SeqEqual
<1> QED
  BY <1>11, <1>12 DEF c, h, g

----------------------------------------------------------------------------
(* A connection is a queue of messages.                                    *)

\* The messages that a side has still to receive, as Channel's queue.
Queue == [s \in Sides |-> Frames(s)]

\* A step that leaves what is on its way as it is.
LEMMA FifoKept ==
  ASSUME \A t \in Sides : Stream(t)' = Stream(t)
  PROVE  Queue' = Queue
<1>1. ASSUME NEW t \in Sides PROVE Frames(t)' = Frames(t)
  <2>1. PICK c : c = in[t] \o pipe[t]
    OBVIOUS
  <2>2. in'[t] \o pipe'[t] = c
    BY <2>1 DEF Stream
  <2> QED
    BY <2>1, <2>2 DEF Frames
<1> QED
  BY <1>1 DEF Queue

\* A thread sends a chunk of m: with the first one m is sent.
LEMMA FifoPush ==
  ASSUME RangeInv, NEW p \in Sides, NEW m \in Messages, NEW k \in Nat, Len(pipe[p]) < Buffer,
         NEW x \in Chunks, x = Chunk(m, k + 1),
         pipe' = [pipe EXCEPT ![p] = Append(pipe[p], x)], in' = in, got' = got
  PROVE  FIFO!SendTo(p, m) \/ UNCHANGED <<Queue, got>>
<1>1. /\ Stream(p)' = Append(Stream(p), x) /\ Stream(p) \in Seq(Chunks)
      /\ \A t \in Sides : t # p => Stream(t)' = Stream(t)
  BY PushStreams, StreamType
<1>2. x.msg = m /\ x.at = k + 1
  BY DEF Chunk
<1>3. PICK c \in Seq(Chunks) : c = Stream(p) /\ c = in[p] \o pipe[p]
  BY <1>1 DEF Stream
<1>4. Frames(p) = Heads(c) /\ Frames(p)' = Heads(Append(c, x))
  <2>1. in'[p] \o pipe'[p] = Append(c, x)
    BY <1>1, <1>3 DEF Stream
  <2> QED
    BY <1>3, <2>1 DEF Frames
<1>5. ASSUME NEW t \in Sides, t # p PROVE Frames(t)' = Frames(t)
  <2>1. in'[t] \o pipe'[t] = in[t] \o pipe[t]
    BY <1>1, <1>5 DEF Stream
  <2> QED
    BY <2>1 DEF Frames
<1>6. CASE k = 0
  <2>1. Heads(Append(c, x)) = Append(Heads(c), m)
    <3>1. Heads(Append(c, x)) = IF x.at = 1 THEN Append(Heads(c), x.msg) ELSE Heads(c)
      BY <1>3, HeadsAppend
    <3> QED
      BY <1>2, <1>6, <3>1
  <2>2. Queue' = [Queue EXCEPT ![p] = Append(@, m)]
    BY <1>4, <1>5, <2>1 DEF Queue
  <2> QED
    BY <2>2 DEF FIFO!SendTo, Queue
<1>7. CASE k # 0
  <2>1. Heads(Append(c, x)) = Heads(c)
    <3>1. Heads(Append(c, x)) = IF x.at = 1 THEN Append(Heads(c), x.msg) ELSE Heads(c)
      BY <1>3, HeadsAppend
    <3> QED
      BY <1>2, <1>7, <3>1
  <2> QED
    BY <1>4, <1>5, <2>1 DEF Queue
<1> QED
  BY <1>6, <1>7

\* The message in hand is the first of them.
LEMMA FifoRecvUnlock ==
  ASSUME IInv, NEW s \in Sides, RecvUnlock(s)
  PROVE  FIFO!ReceiveAt(s)
<1>1. PICK m : m = in[s][1].msg
  OBVIOUS
<1>2. /\ in[s] # <<>> /\ Len(in[s]) = m.size
      /\ in' = [in EXCEPT ![s] = <<>>] /\ got' = [got EXCEPT ![s] = <<m>>] /\ pipe' = pipe
  BY <1>1 DEF RecvUnlock, Complete
<1>3. RangeInv /\ HandInv(s)
  BY DEF IInv
<1>4. in[s] \in Seq(Chunks) /\ pipe[s] \in Seq(Chunks)
  BY <1>3, StreamType
<1>5. Whole(in[s])
  BY <1>1, <1>2, <1>3 DEF Whole, HandInv
<1>6. /\ in'[s] = <<>> /\ pipe'[s] = pipe[s]
      /\ \A t \in Sides : t # s => in'[t] = in[t] /\ pipe'[t] = pipe[t]
  BY <1>2, <1>3 DEF RangeInv
<1>7. Frames(s) # <<>> /\ Head(Frames(s)) = m /\ Tail(Frames(s)) = Heads(pipe[s])
  BY <1>1, <1>4, <1>5, HeadsDrop DEF Frames
<1>8. Frames(s)' = Heads(pipe[s])
  <2>1. <<>> \o pipe[s] = pipe[s]
    BY <1>4, ConcatEmptySeq
  <2>2. in'[s] \o pipe'[s] = pipe[s]
    BY <1>6, <2>1
  <2> QED
    BY <2>2 DEF Frames
<1>9. \A t \in Sides : t # s => Frames(t)' = Frames(t)
  BY <1>6 DEF Frames
<1>10. Queue' = [Queue EXCEPT ![s] = Tail(@)] /\ Queue[s] # <<>> /\ Head(Queue[s]) = m
  BY <1>7, <1>8, <1>9 DEF Queue
<1> QED
  BY <1>2, <1>10 DEF FIFO!ReceiveAt, Queue

\* Every other step is one of the two threads' own business.
LEMMA FifoNext == IInv /\ [Next]_vars => [FIFO!CNext]_<<Queue, got>>
<1> SUFFICES ASSUME IInv, [Next]_vars PROVE [FIFO!CNext]_<<Queue, got>>
  OBVIOUS
<1>1. RangeInv
  BY DEF IInv
<1>2. ASSUME UNCHANGED <<pipe, in, got>> PROVE UNCHANGED <<Queue, got>>
  <2>1. \A t \in Sides : Stream(t)' = Stream(t)
    BY <1>2 DEF Stream
  <2> QED
    BY <1>2, <2>1, FifoKept
<1>3. CASE UNCHANGED vars
  BY <1>2, <1>3 DEF vars
<1>4. CASE Next
  <2>1. PICK s \in Sides : App(s) \/ Conn(s)
    BY <1>4 DEF Next
  <2>2. PICK p \in Sides : p = Peer(s)
    BY PeerFacts
  <2>3. CASE AppPush(s)
    <3>1. PICK m : m = Head(todo[s])
      OBVIOUS
    <3>2. PICK k : k = out[s].app
      OBVIOUS
    <3>3. PICK x : x = Chunk(m, k + 1)
      OBVIOUS
    <3>4. /\ app[s] = "sending" /\ k < m.size /\ Len(pipe[p]) < Buffer
          /\ pipe' = [pipe EXCEPT ![p] = Append(pipe[p], x)] /\ in' = in /\ got' = got
      BY <2>2, <2>3, <3>1, <3>2, <3>3 DEF AppPush, Push
    <3>5. todo[s] # <<>>
      BY <3>4 DEF IInv, PlaceInv
    <3>6. m \in Sent
      BY <1>1, <3>1, <3>5, TodoFacts
    <3>7. m \in Messages /\ m.size \in Nat /\ k \in Nat
      BY <1>1, <3>2, <3>6, AnswerFacts DEF RangeInv
    <3>8. x \in Chunks
      BY <3>3, <3>4, <3>7 DEF Chunks, Chunk
    <3>9. FIFO!SendTo(p, m) \/ UNCHANGED <<Queue, got>>
      BY <1>1, <3>3, <3>4, <3>7, <3>8, FifoPush
    <3> QED
      BY <3>7, <3>9 DEF FIFO!CNext
  <2>4. CASE AnswerPush(s)
    <3>1. PICK m : m = Answer(asked[s][1])
      OBVIOUS
    <3>2. PICK k : k = out[s].conn
      OBVIOUS
    <3>3. PICK x : x = Chunk(m, k + 1)
      OBVIOUS
    <3>4. /\ conn[s] = "sending" /\ k < m.size /\ Len(pipe[p]) < Buffer
          /\ pipe' = [pipe EXCEPT ![p] = Append(pipe[p], x)] /\ in' = in /\ got' = got
      BY <2>2, <2>4, <3>1, <3>2, <3>3 DEF AnswerPush, Push
    <3>5. PlaceInv(s)
      BY DEF IInv
    <3>6. asked[s][1] \in Sent /\ asked[s][1].kind = "ask"
      BY <1>1, <3>4, <3>5, AskedFacts
    <3>7. m \in Messages /\ m.size \in Nat /\ k \in Nat
      BY <1>1, <3>1, <3>2, <3>6, AnswerFacts DEF RangeInv
    <3>8. x \in Chunks
      BY <3>3, <3>4, <3>7 DEF Chunks, Chunk
    <3>9. FIFO!SendTo(p, m) \/ UNCHANGED <<Queue, got>>
      BY <1>1, <3>3, <3>4, <3>7, <3>8, FifoPush
    <3> QED
      BY <3>7, <3>9 DEF FIFO!CNext
  <2>5. CASE RecvUnlock(s)
    BY <2>5, FifoRecvUnlock DEF FIFO!CNext
  <2>6. CASE RecvChunk(s)
    <3>1. /\ pipe[s] # <<>> /\ got' = got
          /\ in' = [in EXCEPT ![s] = Append(in[s], Head(pipe[s]))]
          /\ pipe' = [pipe EXCEPT ![s] = Tail(pipe[s])]
      BY <2>6 DEF RecvChunk
    <3>2. pipe[s] \in Seq(Chunks) /\ in[s] \in Seq(Chunks)
      BY <1>1, StreamType
    <3>3. /\ in'[s] = Append(in[s], Head(pipe[s])) /\ pipe'[s] = Tail(pipe[s])
          /\ \A t \in Sides : t # s => in'[t] = in[t] /\ pipe'[t] = pipe[t]
      BY <1>1, <3>1 DEF RangeInv
    <3>4. Append(in[s], Head(pipe[s])) \o Tail(pipe[s]) = in[s] \o pipe[s]
      BY <3>1, <3>2, ConcatMove
    <3>5. \A t \in Sides : Stream(t)' = Stream(t)
      BY <3>3, <3>4 DEF Stream
    <3> QED
      BY <3>1, <3>5, FifoKept
  <2>7. CASE AppLock(s) \/ AppUnlock(s) \/ AppReply(s)
    BY <1>2, <2>7 DEF AppLock, AppUnlock, AppReply
  <2>8. CASE Poll(s) \/ RecvLock(s) \/ AnswerLock(s) \/ AnswerUnlock(s)
    BY <1>2, <2>8 DEF Poll, RecvLock, AnswerLock, AnswerUnlock
  <2> QED
    BY <2>1, <2>3, <2>4, <2>5, <2>6, <2>7, <2>8 DEF App, Conn
<1> QED
  BY <1>3, <1>4

\* Nothing is on its way at first.
LEMMA FifoInit == Init => FIFO!CInit
<1> SUFFICES ASSUME Init PROVE FIFO!CInit
  OBVIOUS
<1>1. ASSUME NEW s \in Sides PROVE Frames(s) = <<>>
  <2>1. in[s] = <<>> /\ pipe[s] = <<>> 
    BY DEF Init
  <2>2. PICK c \in Seq(Chunks) : c = in[s] \o pipe[s] /\ c = <<>>
    <3>1. <<>> \in Seq(Chunks)
      OBVIOUS
    <3>2. <<>> \o <<>> = <<>>
      BY <3>1, ConcatEmptySeq
    <3> QED
      BY <2>1, <3>1, <3>2
  <2>3. Len(Heads(c)) = 0 /\ Heads(c) \in Seq(Messages)
    BY <2>2, HeadsFacts, RankFacts
  <2> QED
    BY <2>2, <2>3 DEF Frames
<1> QED
  BY <1>1 DEF Init, FIFO!CInit

\* Whatever the two threads of either side do (connection.h:71-79, 87-100), the bytes
\* on a connection are the messages its sides sent, each received once, whole and in
\* that order: Connection implements the queue of messages that Channel promises.
THEOREM FifoCorrect == Spec => Fifo
<1>1. IInv /\ [Next]_vars => [FIFO!CNext]_<<Queue, got>>
  BY FifoNext
<1> QED
  BY <1>1, FifoInit, Invariance, PTL DEF Spec, Fifo, FIFO!CSpec, Queue

=============================================================================
