-------------------------- MODULE RmrStreamProofs --------------------------
(***************************************************************************)
(* Proofs about RmrStream, for any number of descriptors and connections,  *)
(* any streams and every way to cut them up: the types, that the messages  *)
(* that come out are those that were sent, each as soon as its last byte   *)
(* has come, and that the accumulator has room for them.                   *)
(***************************************************************************)
EXTENDS RmrStream, FiniteSetTheorems, SequenceTheorems, TLAPS

-----------------------------------------------------------------------------
(* The inductive invariant *)

\* The bytes of a stream that have been handled, and where the message begins
\* that is being collected.
Done(fd) == at[fd] - IF cb = fd THEN Len(buf) ELSE 0
From(fd) == Start(ends[fd], Len(out[fd]) + 1)

\* The messages given out are the first ones of the stream, and what has been
\* handled ends in the next one.
Progress(fd) ==
  /\ Len(out[fd]) <= Len(ends[fd])
  /\ \A n \in 1 .. Len(out[fd]) : out[fd][n] = Frame(ends[fd], n)
  /\ From(fd) <= Done(fd)
  /\ Len(out[fd]) < Len(ends[fd]) => Done(fd) < ends[fd][Len(out[fd]) + 1]
  /\ at[fd] <= End(ends[fd])

\* The river has the bytes since then.  Either its length field is not complete,
\* or its size is that of the message.
Collected(fd) ==
  LET r == river[fd]
  IN  /\ (r.state = "new" /\ open[fd]) => (at[fd] = 0 /\ out[fd] = <<>>)
      /\ r.state = "good" =>
           /\ open[fd]
           /\ r.accum = Bytes(From(fd), Done(fd))
           /\ r.ipt = Done(fd) - From(fd)
           /\ \/ r.size = -1 /\ r.ipt < SzField /\ r.nbytes = Normal
              \/ /\ Len(out[fd]) < Len(ends[fd])
                 /\ r.size = Size(ends[fd], Len(out[fd]) + 1)
                 /\ r.size <= r.nbytes

\* The buffer of a callback has the bytes that have come and are not handled.
BufferRest ==
  cb # Nil => /\ Len(buf) <= at[cb]
              /\ buf = Bytes(Done(cb), at[cb])
              /\ river[cb].state = "good"

StreamInv == TypeOK /\ BufferRest /\ \A fd \in Fds : Progress(fd) /\ Collected(fd)

-----------------------------------------------------------------------------
(* Runs of bytes *)

\* A run of bytes is a sequence.
LEMMA BytesSeq ==
  ASSUME NEW a \in Nat, NEW b \in Nat, a <= b
  PROVE  /\ Bytes(a, b) \in Seq(Nat)
         /\ Len(Bytes(a, b)) = b - a
         /\ \A i \in 1 .. (b - a) : Bytes(a, b)[i] = a + i
<1>1. b - a \in Nat
  OBVIOUS
<1>2. Bytes(a, b) \in [1 .. (b - a) -> Nat]
  BY DEF Bytes
<1>3. Bytes(a, b) \in Seq(Nat)
  BY <1>1, <1>2, SeqDef
<1>4. Len(Bytes(a, b)) \in Nat /\ DOMAIN Bytes(a, b) = 1 .. Len(Bytes(a, b))
  BY <1>3, LenProperties
<1>5. DOMAIN Bytes(a, b) = 1 .. (b - a)
  BY DEF Bytes
<1>6. Len(Bytes(a, b)) = b - a
  <2>1. ASSUME NEW k \in Nat, NEW m \in Nat, 1 .. k = 1 .. m PROVE k = m
    <3>1. k = 0 \/ k \in 1 .. k
      OBVIOUS
    <3>2. m = 0 \/ m \in 1 .. m
      OBVIOUS
    <3> QED
      BY <2>1, <3>1, <3>2
  <2> QED
    BY <1>1, <1>4, <1>5, <2>1
<1> QED
  BY <1>3, <1>6 DEF Bytes

\* An empty one.
LEMMA BytesEmpty ==
  ASSUME NEW a \in Nat, NEW b \in Nat, a <= b
  PROVE  Bytes(a, b) = <<>> <=> a = b
<1>1. Bytes(a, b) \in Seq(Nat) /\ Len(Bytes(a, b)) = b - a
  BY BytesSeq
<1>2. Bytes(a, b) = <<>> <=> Len(Bytes(a, b)) = 0
  BY <1>1, EmptySeq
<1> QED
  BY <1>1, <1>2

\* Two in a row.
LEMMA BytesJoin ==
  ASSUME NEW a \in Nat, NEW b \in Nat, NEW c \in Nat, a <= b, b <= c
  PROVE  Bytes(a, b) \o Bytes(b, c) = Bytes(a, c)
<1> DEFINE s == Bytes(a, b)
           t == Bytes(b, c)
           u == Bytes(a, c)
<1>1. s \in Seq(Nat) /\ Len(s) = b - a /\ \A i \in 1 .. (b - a) : s[i] = a + i
  BY BytesSeq
<1>2. t \in Seq(Nat) /\ Len(t) = c - b /\ \A i \in 1 .. (c - b) : t[i] = b + i
  BY BytesSeq
<1>3. u \in Seq(Nat) /\ Len(u) = c - a /\ \A i \in 1 .. (c - a) : u[i] = a + i
  BY BytesSeq
<1> HIDE DEF s, t, u
<1>4. /\ s \o t \in Seq(Nat)
      /\ Len(s \o t) = Len(s) + Len(t)
      /\ \A i \in 1 .. Len(s) + Len(t) : (s \o t)[i] = IF i <= Len(s) THEN s[i] ELSE t[i - Len(s)]
  BY <1>1, <1>2, ConcatProperties
<1>5. Len(s \o t) = Len(u)
  BY <1>1, <1>2, <1>3, <1>4
<1>6. ASSUME NEW i \in 1 .. Len(s \o t) PROVE (s \o t)[i] = u[i]
  <2>1. (s \o t)[i] = IF i <= b - a THEN s[i] ELSE t[i - (b - a)]
    BY <1>1, <1>2, <1>4
  <2>2. i \in 1 .. (c - a)
    BY <1>3, <1>5
  <2>3. CASE i <= b - a
    BY <1>1, <1>3, <2>1, <2>2, <2>3
  <2>4. CASE ~(i <= b - a)
    BY <1>2, <1>3, <2>1, <2>2, <2>4
  <2> QED
    BY <2>3, <2>4
<1>7. s \o t = u
  BY <1>3, <1>4, <1>5, <1>6, SeqEqual
<1> QED
  BY <1>7 DEF s, t, u

\* A part of one, from the byte after the first m to the n-th.
Part(s, m, n) == SubSeq(s, m + 1, n)
LEMMA BytesPart ==
  ASSUME NEW a \in Nat, NEW b \in Nat, NEW m \in Nat, NEW n \in Nat, a <= b, m <= n, n <= b - a
  PROVE  Part(Bytes(a, b), m, n) = Bytes(a + m, a + n)
<1> DEFINE s == Bytes(a, b)
           u == Bytes(a + m, a + n)
           v == SubSeq(s, m + 1, n)
<1>1. s \in Seq(Nat) /\ Len(s) = b - a /\ \A i \in 1 .. (b - a) : s[i] = a + i
  BY BytesSeq
<1>2. u \in Seq(Nat) /\ Len(u) = n - m /\ \A i \in 1 .. (n - m) : u[i] = a + m + i
  <2>1. a + m \in Nat /\ a + n \in Nat /\ a + m <= a + n /\ (a + n) - (a + m) = n - m
    OBVIOUS
  <2>2. /\ u \in Seq(Nat) /\ Len(u) = (a + n) - (a + m)
        /\ \A i \in 1 .. ((a + n) - (a + m)) : u[i] = (a + m) + i
    BY <2>1, BytesSeq
  <2> HIDE DEF u
  <2> QED
    BY <2>1, <2>2
<1>3. \A i \in m + 1 .. n : s[i] \in Nat
  BY <1>1
<1> HIDE DEF s, u
<1>4. /\ v \in Seq(Nat)
      /\ Len(v) = IF m + 1 <= n THEN n - (m + 1) + 1 ELSE 0
      /\ \A i \in 1 .. n - (m + 1) + 1 : v[i] = s[m + 1 + i - 1]
  BY <1>3, SubSeqProperties
<1> HIDE DEF v
<1>5. Len(v) = n - m
  BY <1>4
<1>6. ASSUME NEW i \in 1 .. Len(v) PROVE v[i] = u[i]
  <2>1. i \in 1 .. (n - m) /\ i \in 1 .. n - (m + 1) + 1 /\ m + i \in 1 .. (b - a) /\ m + 1 + i - 1 = m + i
    BY <1>5
  <2>2. v[i] = s[m + i]
    BY <1>4, <2>1
  <2> QED
    BY <1>1, <1>2, <2>1, <2>2
<1>7. v = u
  BY <1>2, <1>4, <1>5, <1>6, SeqEqual
<1> QED
  BY <1>7 DEF s, u, v, Part

\* The first bytes of a run, and the others.
LEMMA BytesSplit ==
  ASSUME NEW a \in Nat, NEW b \in Nat, NEW c \in Nat, a <= b, b <= c
  PROVE  /\ SubSeq(Bytes(a, c), 1, b - a) = Bytes(a, b)
         /\ SubSeq(Bytes(a, c), (b - a) + 1, c - a) = Bytes(b, c)
<1>1. Part(Bytes(a, c), 0, b - a) = Bytes(a + 0, a + (b - a))
  BY BytesPart
<1>2. Part(Bytes(a, c), b - a, c - a) = Bytes(a + (b - a), a + (c - a))
  BY BytesPart
<1>3. Part(Bytes(a, c), 0, b - a) = Bytes(a, b) /\ Part(Bytes(a, c), b - a, c - a) = Bytes(b, c)
  BY <1>1, <1>2
<1>4. 0 + 1 = 1
  OBVIOUS
<1>5. SubSeq(Bytes(a, c), 0 + 1, b - a) = Bytes(a, b)
  BY <1>3, Zenon DEF Part
<1>6. SubSeq(Bytes(a, c), 1, b - a) = Bytes(a, b)
  BY <1>4, <1>5, Zenon
<1> QED
  BY <1>3, <1>6, Zenon DEF Part

-----------------------------------------------------------------------------
(* Streams *)

\* Where the messages of a stream begin and end.
LEMMA StreamFacts ==
  ASSUME NEW e \in Streams \cup {<<>>}
  PROVE  /\ e \in Seq(Nat) /\ Len(e) \in Nat /\ DOMAIN e = 1 .. Len(e)
         /\ \A n \in 1 .. Len(e) : e[n] \in Nat
         /\ \A n \in 1 .. Len(e) : \A m \in 1 .. n - 1 : e[m] < e[n]
         /\ \A n \in 0 .. Len(e) : Start(e, n + 1) = IF n = 0 THEN 0 ELSE e[n]
         /\ \A n \in 0 .. Len(e) : Start(e, n + 1) \in Nat
         /\ \A n \in 0 .. Len(e) - 1 : /\ Size(e, n + 1) = e[n + 1] - Start(e, n + 1)
                                       /\ Size(e, n + 1) >= SzField
                                       /\ Start(e, n + 1) < e[n + 1]
<1>1. e \in Seq(Nat)
  BY StreamAssumption, EmptySeq
<1>2. Len(e) \in Nat /\ DOMAIN e = 1 .. Len(e) /\ \A n \in 1 .. Len(e) : e[n] \in Nat
  BY <1>1, LenProperties, ElementOfSeq
<1>3. \A n \in 1 .. Len(e) : Size(e, n) >= SzField /\ \A m \in 1 .. n - 1 : e[m] < e[n]
  <2>1. CASE e \in Streams
    BY <1>2, <2>1, StreamAssumption
  <2>2. CASE e = <<>>
    <3>1. Len(e) = 0
      BY <2>2
    <3> QED
      BY <3>1
  <2> QED
    BY <2>1, <2>2
<1>4. \A n \in 0 .. Len(e) : Start(e, n + 1) = IF n = 0 THEN 0 ELSE e[n]
  BY <1>2 DEF Start
<1>5. \A n \in 0 .. Len(e) : Start(e, n + 1) \in Nat
  BY <1>2, <1>4
<1>6. ASSUME NEW n \in 0 .. Len(e) - 1
      PROVE  /\ Size(e, n + 1) = e[n + 1] - Start(e, n + 1)
             /\ Size(e, n + 1) >= SzField
             /\ Start(e, n + 1) < e[n + 1]
  <2>1. n + 1 \in 1 .. Len(e) /\ n \in 0 .. Len(e) /\ SzField \in Nat /\ SzField > 0
    BY <1>2, StreamAssumption
  <2>2. Size(e, n + 1) = e[n + 1] - Start(e, n + 1)
    BY DEF Size
  <2>3. Size(e, n + 1) >= SzField
    BY <1>3, <2>1
  <2>4. e[n + 1] \in Nat /\ Start(e, n + 1) \in Nat
    BY <1>2, <1>5, <2>1
  <2> QED
    BY <2>1, <2>2, <2>3, <2>4
<1> QED
  BY <1>1, <1>2, <1>3, <1>4, <1>5, <1>6

\* The last message is not exceeded before all are there.
LEMMA StartInStream ==
  ASSUME NEW e \in Streams \cup {<<>>}, NEW n \in 0 .. Len(e)
  PROVE  End(e) \in Nat /\ Start(e, n + 1) <= End(e)
<1>1. /\ Len(e) \in Nat /\ Len(e) \in 0 .. Len(e)
      /\ \A k \in 1 .. Len(e) : e[k] \in Nat
      /\ \A k \in 1 .. Len(e) : \A m \in 1 .. k - 1 : e[m] < e[k]
      /\ \A k \in 0 .. Len(e) : Start(e, k + 1) = IF k = 0 THEN 0 ELSE e[k]
  BY StreamFacts
<1>2. End(e) = IF Len(e) = 0 THEN 0 ELSE e[Len(e)]
  BY <1>1 DEF End
<1>3. Start(e, n + 1) = IF n = 0 THEN 0 ELSE e[n]
  BY <1>1
<1>4. CASE n = 0
  BY <1>1, <1>2, <1>3, <1>4
<1>5. CASE n # 0
  <2>1. n \in 1 .. Len(e) /\ Len(e) \in 1 .. Len(e) /\ (n = Len(e) \/ n \in 1 .. Len(e) - 1)
    BY <1>1, <1>5
  <2>2. e[n] <= e[Len(e)] /\ e[Len(e)] \in Nat
    BY <1>1, <2>1
  <2> QED
    BY <1>1, <1>2, <1>3, <1>5, <2>2
<1> QED
  BY <1>4, <1>5

\* The length that is read from the first bytes of a message (extract_mlen).
LEMMA LengthRead ==
  ASSUME NEW e \in Streams \cup {<<>>}, NEW n \in 0 .. Len(e) - 1,
         NEW bytes, bytes[1] = Start(e, n + 1) + 1
  PROVE  extract_mlen(e, bytes) = Size(e, n + 1)
<1>1. /\ Len(e) \in Nat /\ DOMAIN e = 1 .. Len(e)
      /\ \A k \in 1 .. Len(e) : e[k] \in Nat
      /\ \A k \in 1 .. Len(e) : \A m \in 1 .. k - 1 : e[m] < e[k]
      /\ \A k \in 0 .. Len(e) : Start(e, k + 1) = IF k = 0 THEN 0 ELSE e[k]
      /\ \A k \in 0 .. Len(e) - 1 : Start(e, k + 1) < e[k + 1]
  BY StreamFacts
<1>2. \A k \in 0 .. Len(e) - 1 : \A m \in 0 .. k - 1 : Start(e, m + 1) < Start(e, k + 1)
  <2> SUFFICES ASSUME NEW k \in 0 .. Len(e) - 1, NEW m \in 0 .. k - 1
               PROVE  Start(e, m + 1) < Start(e, k + 1)
    OBVIOUS
  <2>1. k \in 1 .. Len(e) /\ m \in 0 .. Len(e) - 1 /\ m + 1 \in 1 .. Len(e) /\ k \in 0 .. Len(e)
    BY <1>1
  <2>2. Start(e, k + 1) = e[k] /\ Start(e, m + 1) < e[m + 1] /\ m \in 0 .. Len(e) /\ Start(e, m + 1) = IF m = 0 THEN 0 ELSE e[m]
    BY <1>1, <2>1
  <2>3. m + 1 = k \/ m + 1 \in 1 .. k - 1
    BY <2>1
  <2>4. e[m + 1] <= e[k] /\ e[m + 1] \in Nat /\ e[k] \in Nat
    BY <1>1, <2>1, <2>3
  <2>5. Start(e, m + 1) \in Nat
    BY <1>1, <2>1, <2>2
  <2> QED
    BY <2>2, <2>4, <2>5
<1>3. \A i \in DOMAIN e : Start(e, i) + 1 = bytes[1] => i = n + 1
  <2> SUFFICES ASSUME NEW i \in DOMAIN e, Start(e, i) = Start(e, n + 1) PROVE i = n + 1
    <3>1. \A i \in DOMAIN e : Start(e, i) \in Nat
      <4> SUFFICES ASSUME NEW i \in DOMAIN e PROVE Start(e, i) \in Nat
        OBVIOUS
      <4>1. i - 1 \in 0 .. Len(e) /\ (i - 1) + 1 = i
        BY <1>1
      <4> QED
        BY <4>1, StreamFacts
    <3>2. n \in 0 .. Len(e)
      BY <1>1
    <3>3. Start(e, n + 1) \in Nat
      BY <3>2, StreamFacts
    <3> QED
      BY <3>1, <3>3
  <2> DEFINE k == i - 1
  <2>1. k \in 0 .. Len(e) - 1 /\ i = k + 1
    BY <1>1
  <2>2. k \in 0 .. n - 1 \/ n \in 0 .. k - 1 \/ k = n
    BY <1>1, <2>1
  <2>3. Start(e, k + 1) \in Nat
    BY <1>1, <2>1
  <2> HIDE DEF k
  <2> QED
    BY <1>2, <2>1, <2>2, <2>3
<1>4. n + 1 \in DOMAIN e /\ Start(e, n + 1) + 1 = bytes[1]
  BY <1>1
<1>5. (CHOOSE i \in DOMAIN e : Start(e, i) + 1 = bytes[1]) = n + 1
  BY <1>3, <1>4
<1> QED
  BY <1>4, <1>5 DEF extract_mlen

-----------------------------------------------------------------------------
(* A turn of the callback *)

\* The positions are in order.
LEMMA InOrder ==
  ASSUME StreamInv, NEW fd \in Fds
  PROVE  /\ ends[fd] \in Streams \cup {<<>>} /\ Len(ends[fd]) \in Nat
         /\ Len(out[fd]) \in 0 .. Len(ends[fd])
         /\ From(fd) \in Nat /\ Done(fd) \in Nat /\ at[fd] \in Nat
         /\ From(fd) <= Done(fd) /\ Done(fd) <= at[fd] /\ at[fd] <= End(ends[fd])
<1>1. ends[fd] \in Streams \cup {<<>>} /\ out[fd] \in Seq(Seq(Nat)) /\ at[fd] \in Nat /\ buf \in Seq(Nat)
  BY DEF StreamInv, TypeOK
<1>2. Len(ends[fd]) \in Nat
  BY <1>1, StreamFacts
<1>3. Len(out[fd]) \in Nat /\ Len(buf) \in Nat
  BY <1>1, LenProperties
<1>4. Len(out[fd]) \in 0 .. Len(ends[fd]) /\ From(fd) <= Done(fd) /\ at[fd] <= End(ends[fd])
  BY <1>2, <1>3 DEF StreamInv, Progress
<1>5. From(fd) \in Nat
  BY <1>1, <1>4, StreamFacts DEF From
<1>6. Done(fd) \in Nat /\ Done(fd) <= at[fd]
  <2>1. CASE cb = fd
    <3>1. cb # Nil
      BY <2>1, StreamAssumption
    <3>2. Len(buf) <= at[fd]
      BY <2>1, <3>1 DEF StreamInv, BufferRest
    <3> QED
      BY <1>1, <1>3, <2>1, <3>2 DEF Done
  <2>2. CASE cb # fd
    BY <1>1, <2>2 DEF Done
  <2> QED
    BY <2>1, <2>2
<1> QED
  BY <1>1, <1>2, <1>4, <1>5, <1>6

\* What a turn finds: a message that is begun or to begin, and bytes of it.
LEMMA TurnFinds ==
  ASSUME StreamInv, cb # Nil
  PROVE  /\ cb \in Fds /\ Len(out[cb]) \in 0 .. Len(ends[cb]) - 1
         /\ ends[cb] \in Streams \cup {<<>>}
         /\ From(cb) \in Nat /\ Done(cb) \in Nat /\ at[cb] \in Nat
         /\ From(cb) <= Done(cb) /\ Done(cb) < at[cb] /\ at[cb] <= End(ends[cb])
         /\ ends[cb][Len(out[cb]) + 1] \in Nat
         /\ Done(cb) < ends[cb][Len(out[cb]) + 1]
         /\ Size(ends[cb], Len(out[cb]) + 1) = ends[cb][Len(out[cb]) + 1] - From(cb)
         /\ Size(ends[cb], Len(out[cb]) + 1) >= SzField
         /\ buf = Bytes(Done(cb), at[cb]) /\ Len(buf) = at[cb] - Done(cb) /\ buf \in Seq(Nat)
<1>1. cb \in Fds /\ buf # <<>> /\ buf \in Seq(Nat)
  BY DEF StreamInv, TypeOK
<1> DEFINE e == ends[cb]
           n == Len(out[cb])
<1>2. /\ e \in Streams \cup {<<>>} /\ Len(e) \in Nat /\ n \in 0 .. Len(e)
      /\ From(cb) \in Nat /\ Done(cb) \in Nat /\ at[cb] \in Nat
      /\ From(cb) <= Done(cb) /\ Done(cb) <= at[cb] /\ at[cb] <= End(e)
  BY <1>1, InOrder
<1>3. buf = Bytes(Done(cb), at[cb])
  BY DEF StreamInv, BufferRest
<1>4. Done(cb) # at[cb]
  BY <1>1, <1>2, <1>3, BytesEmpty
<1>5. Len(buf) = at[cb] - Done(cb)
  BY <1>2, <1>3, BytesSeq
<1>6. n # Len(e)
  <2> SUFFICES ASSUME n = Len(e) PROVE FALSE
    OBVIOUS
  <2>1. From(cb) = End(e)
    BY DEF From, End
  <2>2. End(e) \in Nat
    BY <1>2, StartInStream
  <2> QED
    BY <1>2, <1>4, <2>1, <2>2
<1>7. n \in 0 .. Len(e) - 1
  BY <1>2, <1>6
<1>8. Done(cb) < e[n + 1]
  BY <1>1, <1>2, <1>7 DEF StreamInv, Progress
<1>9. e[n + 1] \in Nat
  <2>1. n + 1 \in 1 .. Len(e)
    BY <1>2, <1>7
  <2> QED
    BY <1>2, <2>1, StreamFacts
<1>10. Size(e, n + 1) = e[n + 1] - From(cb) /\ Size(e, n + 1) >= SzField
  BY <1>2, <1>7, StreamFacts DEF From
<1> QED
  BY <1>1, <1>2, <1>3, <1>4, <1>5, <1>7, <1>8, <1>9, <1>10

\* The river a turn finds.
LEMMA RiverFound ==
  ASSUME StreamInv, cb # Nil
  PROVE  /\ river[cb] \in RiverType /\ river[cb].state = "good"
         /\ river[cb].accum = Bytes(From(cb), Done(cb))
         /\ river[cb].ipt = Done(cb) - From(cb)
         /\ \/ river[cb].size = -1 /\ river[cb].ipt < SzField /\ river[cb].nbytes = Normal
            \/ /\ river[cb].size = Size(ends[cb], Len(out[cb]) + 1)
               /\ river[cb].size <= river[cb].nbytes
<1>1. cb \in Fds
  BY DEF StreamInv, TypeOK
<1>2. river[cb] \in RiverType
  BY <1>1 DEF StreamInv, TypeOK
<1>3. river[cb].state = "good"
  BY DEF StreamInv, BufferRest
<1> QED
  BY <1>1, <1>2, <1>3 DEF StreamInv, Collected

\* A river is the record of its fields.
LEMMA RiverFields ==
  ASSUME NEW q, q = [f \in {"state", "accum", "nbytes", "ipt", "size"} |-> q[f]]
  PROVE  q = [state |-> q.state, accum |-> q.accum, nbytes |-> q.nbytes, ipt |-> q.ipt, size |-> q.size]
OBVIOUS

\* A river with all but its state updated.
Updated(r, a, i, z, nb) == [r EXCEPT !.accum = a, !.ipt = i, !.size = z, !.nbytes = nb]
LEMMA UpdateAll ==
  ASSUME NEW r \in RiverType, NEW a, NEW nb, NEW i, NEW z
  PROVE  Updated(r, a, i, z, nb)
           = [state |-> r.state, accum |-> a, nbytes |-> nb, ipt |-> i, size |-> z]
<1> DEFINE F == {"state", "accum", "nbytes", "ipt", "size"}
           q == [r EXCEPT !.accum = a, !.ipt = i, !.size = z, !.nbytes = nb]
<1>1. DOMAIN r = F
  BY DEF RiverType
<1>2. /\ q = [f \in F |-> q[f]] /\ q.state = r.state /\ q.accum = a
      /\ q.ipt = i /\ q.size = z /\ q.nbytes = nb
  BY <1>1
<1> HIDE DEF q
<1>3. q = [state |-> q.state, accum |-> q.accum, nbytes |-> q.nbytes, ipt |-> q.ipt, size |-> q.size]
  BY <1>2, RiverFields
<1>4. q = [state |-> r.state, accum |-> a, nbytes |-> nb, ipt |-> i, size |-> z]
  BY <1>2, <1>3
<1> QED
  BY <1>4 DEF q, Updated

\* A river with its size updated.
LEMMA UpdateSize ==
  ASSUME NEW r \in RiverType, NEW a, NEW nb, NEW i, NEW z
  PROVE  [r EXCEPT !.size = z, !.nbytes = nb]
           = [state |-> r.state, accum |-> r.accum, nbytes |-> nb, ipt |-> r.ipt, size |-> z]
<1> DEFINE F == {"state", "accum", "nbytes", "ipt", "size"}
           q == [r EXCEPT !.size = z, !.nbytes = nb]
<1>1. DOMAIN r = F
  BY DEF RiverType
<1>2. /\ q = [f \in F |-> q[f]] /\ q.state = r.state /\ q.accum = r.accum
      /\ q.ipt = r.ipt /\ q.size = z /\ q.nbytes = nb
  BY <1>1
<1> HIDE DEF q
<1>3. q = [state |-> q.state, accum |-> q.accum, nbytes |-> q.nbytes, ipt |-> q.ipt, size |-> q.size]
  BY <1>2, RiverFields
<1>4. q = [state |-> r.state, accum |-> r.accum, nbytes |-> nb, ipt |-> r.ipt, size |-> z]
  BY <1>2, <1>3
<1> QED
  BY <1>4 DEF q

\* A river with its bytes updated.
LEMMA UpdatePlace ==
  ASSUME NEW r \in RiverType, NEW a, NEW nb, NEW i, NEW z
  PROVE  [r EXCEPT !.accum = a, !.ipt = i]
           = [state |-> r.state, accum |-> a, nbytes |-> r.nbytes, ipt |-> i, size |-> r.size]
<1> DEFINE F == {"state", "accum", "nbytes", "ipt", "size"}
           q == [r EXCEPT !.accum = a, !.ipt = i]
<1>1. DOMAIN r = F
  BY DEF RiverType
<1>2. /\ q = [f \in F |-> q[f]] /\ q.state = r.state /\ q.accum = a
      /\ q.ipt = i /\ q.size = r.size /\ q.nbytes = r.nbytes
  BY <1>1
<1> HIDE DEF q
<1>3. q = [state |-> q.state, accum |-> q.accum, nbytes |-> q.nbytes, ipt |-> q.ipt, size |-> q.size]
  BY <1>2, RiverFields
<1>4. q = [state |-> r.state, accum |-> a, nbytes |-> r.nbytes, ipt |-> i, size |-> r.size]
  BY <1>2, <1>3
<1> QED
  BY <1>4 DEF q

\* A river after a message.
LEMMA UpdateFresh ==
  ASSUME NEW r \in RiverType
  PROVE  Fresh(r) = [state |-> r.state, accum |-> <<>>, nbytes |-> Normal, ipt |-> 0, size |-> -1]
<1>1. Fresh(r) = Updated(r, <<>>, 0, -1, Normal)
  BY DEF Fresh, RiverType, Updated
<1> QED
  BY <1>1, UpdateAll

\* Once the length is known the river has the message up to some byte and the
\* buffer has the rest.
LEMMA LengthKnown ==
  ASSUME StreamInv, cb # Nil,
         river[cb].size > 0 \/ SzField - river[cb].ipt <= Len(buf)
  PROVE  \E g \in Nat, nb \in Nat :
           /\ From(cb) <= g /\ g <= at[cb] /\ g <= ends[cb][Len(out[cb]) + 1]
           /\ Size(ends[cb], Len(out[cb]) + 1) <= nb
           /\ Sized(river[cb]) =
                [r |-> [state |-> "good", accum |-> Bytes(From(cb), g), nbytes |-> nb,
                        ipt |-> g - From(cb), size |-> Size(ends[cb], Len(out[cb]) + 1)],
                 b |-> Bytes(g, at[cb])]
<1> DEFINE r == river[cb]
           e == ends[cb]
           n == Len(out[cb])
           p == From(cb)
           h == Done(cb)
           t == at[cb]
           z == Size(e, n + 1)
           x == e[n + 1]
<1>1. /\ n \in 0 .. Len(e) - 1 /\ e \in Streams \cup {<<>>}
      /\ p \in Nat /\ h \in Nat /\ t \in Nat /\ p <= h /\ h < t
      /\ x \in Nat /\ h < x /\ z = x - p /\ z >= SzField
      /\ buf = Bytes(h, t) /\ Len(buf) = t - h
  BY TurnFinds
<1>2. /\ r \in RiverType /\ r.state = "good" /\ r.accum = Bytes(p, h) /\ r.ipt = h - p
      /\ \/ r.size = -1 /\ r.ipt < SzField /\ r.nbytes = Normal
         \/ r.size = z /\ r.size <= r.nbytes
  BY RiverFound
<1>3. SzField \in Nat /\ SzField > 0 /\ Normal \in Nat /\ Fudge \in Nat /\ p = Start(e, n + 1)
  BY StreamAssumption DEF From
<1>4. r.nbytes \in Nat
  BY <1>2 DEF RiverType
<1>5. Buffer(r, z) \in Nat /\ z <= Buffer(r, z)
  <2>1. z \in Nat
    <3> HIDE DEF z, x, p, h
    <3> QED
      BY <1>1
  <2> HIDE DEF r, z
  <2> QED
    BY <1>3, <1>4, <2>1 DEF Buffer
<1>6. r = [state |-> r.state, accum |-> r.accum, nbytes |-> r.nbytes, ipt |-> r.ipt, size |-> r.size]
  BY <1>2 DEF RiverType
<1>7. r.size > 0 \/ SzField - r.ipt <= Len(buf)
  OBVIOUS
<1>8. p = Start(e, n + 1) /\ z = Size(e, n + 1)
  BY DEF From
<1>s. Sized(r) = LET need == SzField - r.ipt
                     head == IF r.ipt > 0 THEN Put(r, need) ELSE buf
                     size == extract_mlen(e, head)
                 IN  IF r.size > 0 THEN [r |-> r, b |-> buf]
                     ELSE IF r.ipt > 0
                     THEN [r |-> [r EXCEPT !.accum = head, !.ipt = SzField, !.size = size,
                                           !.nbytes = Buffer(r, size)],
                           b |-> Rest(buf, need)]
                     ELSE [r |-> [r EXCEPT !.size = size, !.nbytes = Buffer(r, size)], b |-> buf]
  BY DEF Sized
<1> DEFINE R(g, nb) == [r |-> [state |-> "good", accum |-> Bytes(p, g), nbytes |-> nb, ipt |-> g - p, size |-> z],
                        b |-> Bytes(g, t)]
<1> SUFFICES \E g \in Nat, nb \in Nat : p <= g /\ g <= t /\ g <= x /\ z <= nb /\ Sized(r) = R(g, nb)
  OBVIOUS
<1> HIDE DEF r, e, n, p, h, t, z, x
<1>9. CASE r.size > 0
  <2>1. r.size = z /\ r.size <= r.nbytes
    BY <1>2, <1>9
  <2>2. Sized(r) = [r |-> r, b |-> buf]
    BY <1>s, <1>9
  <2>3. Sized(r) = R(h, r.nbytes)
    BY <1>1, <1>2, <1>6, <2>1, <2>2
  <2>4. h <= t /\ h <= x
    BY <1>1
  <2> HIDE DEF R
  <2> QED
    BY <1>1, <1>4, <2>1, <2>3, <2>4
<1>10. CASE ~(r.size > 0)
  <2>0. r.size = -1 /\ r.ipt < SzField /\ r.nbytes = Normal
    BY <1>1, <1>2, <1>3, <1>10
  <2>1. CASE r.ipt > 0
    <3> DEFINE need == SzField - r.ipt
               g == p + SzField
    <3>1. g \in Nat /\ g <= t /\ g <= x /\ p <= g /\ h <= t /\ h <= g /\ need = g - h
      <4>1. r.ipt = h - p /\ h - p < SzField /\ SzField - (h - p) <= t - h
        BY <1>1, <1>2, <1>7, <1>10, <2>0
      <4>2. need = SzField - (h - p)
        BY <4>1
      <4> HIDE DEF need
      <4>3. g \in Nat /\ p <= g /\ h <= t
        BY <1>1, <1>3
      <4>4. g <= t /\ h <= g
        BY <1>1, <1>3, <4>1
      <4>5. g <= x
        BY <1>1, <1>3
      <4>6. need = g - h
        BY <1>1, <1>3, <4>2
      <4> QED
        BY <4>3, <4>4, <4>5, <4>6
    <3> HIDE DEF g
    <3>2. SubSeq(r.accum, 1, r.ipt) = Bytes(p, h)
      <4>1. h <= h
        BY <1>1
      <4>2. SubSeq(Bytes(p, h), 1, h - p) = Bytes(p, h)
        BY <1>1, <4>1, BytesSplit
      <4> QED
        BY <1>2, <4>2, Zenon
    <3>3. SubSeq(buf, 1, need) = Bytes(h, g)
      <4> HIDE DEF need
      <4> QED
        BY <1>1, <3>1, BytesSplit
    <3>4. Put(r, need) = Bytes(p, g)
      <4>1. Bytes(p, h) \o Bytes(h, g) = Bytes(p, g)
        BY <1>1, <3>1, BytesJoin
      <4> HIDE DEF need
      <4> QED
        BY <3>2, <3>3, <4>1 DEF Put
    <3>5. Rest(buf, need) = Bytes(g, t)
      <4> HIDE DEF need
      <4>1. SubSeq(Bytes(h, t), (g - h) + 1, t - h) = Bytes(g, t)
        <5>1. h \in Nat /\ g \in Nat /\ t \in Nat /\ h <= g /\ g <= t
          BY <1>1, <3>1
        <5> QED
          BY <5>1, BytesSplit
      <4> QED
        BY <1>1, <3>1, <4>1 DEF Rest
    <3>6. extract_mlen(e, Bytes(p, g)) = z
      <4>1. 1 \in 1 .. (g - p)
        BY <1>1, <1>3, <3>1 DEF g
      <4>2. Bytes(p, g)[1] = p + 1
        BY <1>1, <3>1, <4>1, BytesSeq
      <4> QED
        BY <1>1, <1>8, <4>2, LengthRead
    <3>7. Sized(r) = [r |-> [r EXCEPT !.accum = Bytes(p, g), !.ipt = SzField, !.size = z, !.nbytes = Buffer(r, z)],
                      b |-> Bytes(g, t)]
      BY <1>s, <1>10, <2>1, <3>4, <3>5, <3>6 DEF need
    <3>8. SzField = g - p
      BY <1>1, <1>3 DEF g
    <3>9. [r EXCEPT !.accum = Bytes(p, g), !.ipt = SzField, !.size = z, !.nbytes = Buffer(r, z)]
            = [state |-> "good", accum |-> Bytes(p, g), nbytes |-> Buffer(r, z), ipt |-> g - p, size |-> z]
      <4>0. r \in RiverType
        BY <1>2
      <4>1. Updated(r, Bytes(p, g), SzField, z, Buffer(r, z))
              = [state |-> r.state, accum |-> Bytes(p, g), nbytes |-> Buffer(r, z), ipt |-> SzField, size |-> z]
        BY <4>0, UpdateAll
      <4> QED
        BY <1>2, <3>8, <4>1, Zenon DEF Updated
    <3>10. Sized(r) = R(g, Buffer(r, z))
      BY <3>7, <3>9
    <3> HIDE DEF R
    <3> QED
      BY <1>5, <3>1, <3>10
  <2>2. CASE ~(r.ipt > 0)
    <3>1. h = p /\ r.ipt = 0
      BY <1>1, <1>2, <2>2
    <3>2. extract_mlen(e, buf) = z
      <4>1. 1 \in 1 .. (t - h) /\ h <= t
        BY <1>1
      <4>2. buf[1] = p + 1
        BY <1>1, <3>1, <4>1, BytesSeq
      <4> QED
        BY <1>1, <1>8, <4>2, LengthRead
    <3>3. Sized(r) = [r |-> [r EXCEPT !.size = z, !.nbytes = Buffer(r, z)], b |-> buf]
      BY <1>s, <1>10, <2>2, <3>2
    <3>4. [r EXCEPT !.size = z, !.nbytes = Buffer(r, z)]
            = [state |-> "good", accum |-> Bytes(p, h), nbytes |-> Buffer(r, z), ipt |-> h - p, size |-> z]
      <4>0. r \in RiverType
        BY <1>2
      <4>1. [r EXCEPT !.size = z, !.nbytes = Buffer(r, z)]
              = [state |-> r.state, accum |-> r.accum, nbytes |-> Buffer(r, z), ipt |-> r.ipt, size |-> z]
        BY <4>0, UpdateSize, Zenon
      <4> QED
        BY <1>2, <4>1, Zenon
    <3>5. Sized(r) = R(h, Buffer(r, z))
      BY <1>1, <3>3, <3>4
    <3>6. h <= t /\ h <= x
      BY <1>1
    <3> HIDE DEF R
    <3> QED
      BY <1>1, <1>5, <3>5, <3>6
  <2> QED
    BY <2>1, <2>2
<1> QED
  BY <1>9, <1>10

\* A river with the bytes from a to b, of the n-th message of stream e.
Holds(q, e, n, a, b) ==
  /\ q \in RiverType /\ q.state = "good"
  /\ q.accum = Bytes(a, b) /\ q.ipt = b - a
  /\ \/ q.size = -1 /\ q.ipt < SzField /\ q.nbytes = Normal
     \/ n <= Len(e) /\ q.size = Size(e, n) /\ q.size <= q.nbytes

\* A turn that keeps all there is, because the message is not complete.
Keeps ==
  /\ at[cb] < ends[cb][Len(out[cb]) + 1]
  /\ out' = out /\ buf' = <<>> /\ cb' = Nil
  /\ \E q : /\ Holds(q, ends[cb], Len(out[cb]) + 1, From(cb), at[cb])
            /\ river' = [river EXCEPT ![cb] = q]

\* A turn that gives a message out and leaves the bytes after it.
Gives ==
  LET x == ends[cb][Len(out[cb]) + 1]
  IN  /\ x <= at[cb]
      /\ out' = [out EXCEPT ![cb] = Append(@, Frame(ends[cb], Len(out[cb]) + 1))]
      /\ buf' = Bytes(x, at[cb])
      /\ cb' = IF x = at[cb] THEN Nil ELSE cb
      /\ \E q : /\ Holds(q, ends[cb], Len(out[cb]) + 2, x, x)
                /\ river' = [river EXCEPT ![cb] = q]

\* A turn with a part of the length field keeps it.
LEMMA PartIsKept ==
  ASSUME StreamInv, cb # Nil, TakePartOfSize(river[cb])
  PROVE  Keeps
<1> DEFINE r == river[cb]
           e == ends[cb]
           n == Len(out[cb])
           p == From(cb)
           h == Done(cb)
           t == at[cb]
           z == Size(e, n + 1)
           x == e[n + 1]
           a == Put(r, Len(buf))
           i == r.ipt + Len(buf)
           q == [r EXCEPT !.accum = a, !.ipt = i]
<1>1. /\ cb \in Fds /\ p \in Nat /\ h \in Nat /\ t \in Nat /\ p <= h /\ h < t
      /\ x \in Nat /\ z = x - p /\ z >= SzField
      /\ buf = Bytes(h, t) /\ Len(buf) = t - h
  BY TurnFinds
<1>2. /\ r \in RiverType /\ r.state = "good" /\ r.accum = Bytes(p, h) /\ r.ipt = h - p
      /\ \/ r.size = -1 /\ r.ipt < SzField /\ r.nbytes = Normal
         \/ r.size = z /\ r.size <= r.nbytes
  BY RiverFound
<1>3. r.size <= 0 /\ SzField - r.ipt > Len(buf) /\ out' = out /\ buf' = <<>> /\ cb' = Nil
  BY DEF TakePartOfSize, Handled
<1>4. river' = [river EXCEPT ![cb] = q]
  <2>1. river' = [river EXCEPT ![cb].accum = a, ![cb].ipt = i]
    BY DEF TakePartOfSize
  <2>2. river \in [Fds -> RiverType]
    BY DEF StreamInv, TypeOK
  <2> HIDE DEF a, i
  <2> QED
    BY <1>1, <2>1, <2>2
<1>5. SzField \in Nat /\ SzField > 0 /\ Normal \in Nat
  BY StreamAssumption
<1>6. q = [state |-> r.state, accum |-> a, nbytes |-> r.nbytes, ipt |-> i, size |-> r.size]
  <2> HIDE DEF a, i, r
  <2> QED
    BY <1>2, UpdatePlace
<1>7. a = Bytes(p, t) /\ i = t - p
  <2> HIDE DEF p, h, t, r
  <2>1. h <= h /\ t <= t /\ h <= t
    BY <1>1
  <2>2. SubSeq(Bytes(p, h), 1, h - p) = Bytes(p, h) /\ SubSeq(Bytes(h, t), 1, t - h) = Bytes(h, t)
    BY <1>1, <2>1, BytesSplit
  <2>3. SubSeq(r.accum, 1, r.ipt) = Bytes(p, h)
    BY <1>2, <2>2, Zenon
  <2>4. SubSeq(buf, 1, Len(buf)) = Bytes(h, t)
    BY <1>1, <2>2, Zenon
  <2>5. Bytes(p, h) \o Bytes(h, t) = Bytes(p, t)
    BY <1>1, <2>1, BytesJoin
  <2>6. a = Bytes(p, t)
    BY <2>3, <2>4, <2>5 DEF Put
  <2>7. i = t - p
    BY <1>1, <1>2
  <2> QED
    BY <2>6, <2>7
<1> HIDE DEF a, i, q, p, h, t, r, z, x
<1>8. r.size = -1 /\ r.nbytes = Normal
  BY <1>1, <1>2, <1>3, <1>5
<1>9. t - p < SzField /\ t < x
  BY <1>1, <1>2, <1>3, <1>5
<1>10. Bytes(p, t) \in Seq(Nat) /\ t - p \in Nat
  <2>1. p <= t
    BY <1>1
  <2> QED
    BY <1>1, <2>1, BytesSeq
<1>11. q = [state |-> "good", accum |-> Bytes(p, t), nbytes |-> Normal, ipt |-> t - p, size |-> -1]
  BY <1>2, <1>6, <1>7, <1>8, Zenon
<1>12. q \in RiverType /\ q.state = "good" /\ q.accum = Bytes(p, t) /\ q.ipt = t - p /\ q.size = -1 /\ q.nbytes = Normal
  BY <1>5, <1>10, <1>11 DEF RiverType
<1>13. Holds(q, e, n + 1, p, t)
  BY <1>9, <1>12 DEF Holds
<1> QED
  BY <1>3, <1>4, <1>9, <1>13, Zenon DEF Keeps, p, t, x

\* A turn with the length of the message keeps what there is of it or gives it
\* out.
LEMMA MessageIsTaken ==
  ASSUME StreamInv, cb # Nil, TakeMessage(river[cb])
  PROVE  Keeps \/ Gives
<1> DEFINE r == river[cb]
           e == ends[cb]
           n == Len(out[cb])
           p == From(cb)
           t == at[cb]
           z == Size(e, n + 1)
           x == e[n + 1]
           s == Sized(r)
<1>1. /\ cb \in Fds /\ p \in Nat /\ t \in Nat /\ x \in Nat /\ z = x - p /\ z >= SzField
      /\ n \in 0 .. Len(e) - 1 /\ e \in Streams \cup {<<>>}
  BY TurnFinds
<1>2. r.size > 0 \/ SzField - r.ipt <= Len(buf)
  BY DEF TakeMessage
<1>3. PICK g \in Nat, nb \in Nat :
        /\ p <= g /\ g <= t /\ g <= x /\ z <= nb
        /\ s = [r |-> [state |-> "good", accum |-> Bytes(p, g), nbytes |-> nb, ipt |-> g - p, size |-> z],
                b |-> Bytes(g, t)]
  BY <1>2, LengthKnown, Zenon
<1> DEFINE have == s.r.ipt + Len(s.b)
           need == s.r.size - s.r.ipt
           all  == SubSeq(s.r.accum, 1, s.r.ipt)
<1>4. IF Missing(s.r.size, have)
      THEN /\ river' = [river EXCEPT ![cb] = [s.r EXCEPT !.accum = all \o s.b, !.ipt = have]]
           /\ Handled(<<>>)
           /\ UNCHANGED out
      ELSE /\ out' = [out EXCEPT ![cb] = Append(@, all \o SubSeq(s.b, 1, need))]
           /\ river' = [river EXCEPT ![cb] = Fresh(s.r)]
           /\ Handled(Rest(s.b, need))
  BY DEF TakeMessage
<1>5. SzField \in Nat /\ SzField > 0 /\ Normal \in Nat
  BY StreamAssumption
<1>6. p = Start(e, n + 1) /\ Len(e) \in Nat
  BY <1>1, StreamFacts DEF From
<1> HIDE DEF p, t, r, z, x, s, e, n
<1>7. /\ s.r.accum = Bytes(p, g) /\ s.r.ipt = g - p /\ s.r.size = z /\ s.b = Bytes(g, t)
      /\ s.r.state = "good" /\ s.r.nbytes = nb
  BY <1>3
<1>8. /\ Bytes(p, g) \in Seq(Nat) /\ g - p \in Nat /\ z \in Nat
      /\ Bytes(g, t) \in Seq(Nat) /\ Len(Bytes(g, t)) = t - g
  <2>1. Bytes(p, g) \in Seq(Nat)
    BY <1>1, <1>3, BytesSeq
  <2>2. Bytes(g, t) \in Seq(Nat) /\ Len(Bytes(g, t)) = t - g
    BY <1>1, <1>3, BytesSeq
  <2>3. p <= g /\ g <= x
    BY <1>3
  <2>4. g - p \in Nat /\ z \in Nat
    BY <1>1, <1>5, <2>3
  <2> QED
    BY <2>1, <2>2, <2>4
<1>9. s.r \in RiverType
  BY <1>3, <1>8 DEF RiverType
<1>10. have = t - p /\ need = x - g
  <2>1. have = (g - p) + (t - g)
    BY <1>7, <1>8, Zenon
  <2>2. need = z - (g - p)
    BY <1>7, Zenon
  <2> HIDE DEF have, need
  <2> QED
    BY <1>1, <2>1, <2>2
<1>11. all = Bytes(p, g)
  <2>1. g <= g
    OBVIOUS
  <2>2. SubSeq(Bytes(p, g), 1, g - p) = Bytes(p, g)
    BY <1>1, <1>3, <2>1, BytesSplit
  <2> QED
    BY <1>7, <2>2, Zenon
<1> HIDE DEF have, need, all
<1>12. CASE Missing(s.r.size, have)
  <2>1. t < x
    BY <1>1, <1>7, <1>10, <1>12 DEF Missing
  <2>2. river' = [river EXCEPT ![cb] = [s.r EXCEPT !.accum = all \o s.b, !.ipt = have]] /\ Handled(<<>>) /\ out' = out
    BY <1>4, <1>12, Zenon
  <2> DEFINE a == all \o s.b
             q == [s.r EXCEPT !.accum = a, !.ipt = have]
  <2>3. a = Bytes(p, t)
    <3>1. Bytes(p, g) \o Bytes(g, t) = Bytes(p, t)
      BY <1>1, <1>3, BytesJoin
    <3> QED
      BY <1>7, <1>11, <3>1, Zenon
  <2> HIDE DEF a
  <2>4. q = [state |-> s.r.state, accum |-> a, nbytes |-> s.r.nbytes, ipt |-> have, size |-> s.r.size]
    <3> DEFINE o == s.r
    <3>1. o \in RiverType
      BY <1>9
    <3> HIDE DEF o
    <3>2. [o EXCEPT !.accum = a, !.ipt = have]
            = [state |-> o.state, accum |-> a, nbytes |-> o.nbytes, ipt |-> have, size |-> o.size]
      BY <3>1, UpdatePlace
    <3> QED
      BY <3>2 DEF o
  <2>5. q = [state |-> "good", accum |-> Bytes(p, t), nbytes |-> nb, ipt |-> t - p, size |-> z]
    BY <1>7, <1>10, <2>3, <2>4, Zenon
  <2>6. Bytes(p, t) \in Seq(Nat) /\ t - p \in Nat
    <3>1. p <= t
      BY <1>1, <1>3
    <3> QED
      BY <1>1, <3>1, BytesSeq
  <2> HIDE DEF q
  <2>7. q \in RiverType /\ q.state = "good" /\ q.accum = Bytes(p, t) /\ q.ipt = t - p /\ q.size = z /\ q.nbytes = nb
    BY <1>8, <2>5, <2>6 DEF RiverType
  <2>8. n + 1 <= Len(e)
    BY <1>1, <1>6
  <2>9. Holds(q, e, n + 1, p, t)
    BY <1>3, <2>7, <2>8 DEF Holds, z
  <2>10. river' = [river EXCEPT ![cb] = q]
    BY <2>2 DEF q, a
  <2>11. buf' = <<>> /\ cb' = Nil
    BY <2>2 DEF Handled
  <2>12. Keeps
    BY <2>1, <2>2, <2>9, <2>10, <2>11, Zenon DEF Keeps, p, t, x, n, e
  <2> QED
    BY <2>12
<1>13. CASE ~Missing(s.r.size, have)
  <2>1. x <= t
    BY <1>1, <1>7, <1>10, <1>13 DEF Missing
  <2>2. /\ out' = [out EXCEPT ![cb] = Append(@, all \o SubSeq(s.b, 1, need))]
        /\ river' = [river EXCEPT ![cb] = Fresh(s.r)]
        /\ Handled(Rest(s.b, need))
    BY <1>4, <1>13, Zenon
  <2>3. SubSeq(s.b, 1, need) = Bytes(g, x) /\ Rest(s.b, need) = Bytes(x, t)
    <3>1. SubSeq(Bytes(g, t), 1, x - g) = Bytes(g, x) /\ SubSeq(Bytes(g, t), (x - g) + 1, t - g) = Bytes(x, t)
      BY <1>1, <1>3, <2>1, BytesSplit
    <3> QED
      BY <1>7, <1>8, <1>10, <3>1, Zenon DEF Rest
  <2>4. all \o SubSeq(s.b, 1, need) = Frame(e, n + 1)
    <3>1. Bytes(p, g) \o Bytes(g, x) = Bytes(p, x)
      BY <1>1, <1>3, BytesJoin
    <3>2. Frame(e, n + 1) = Bytes(p, x)
      BY <1>6 DEF Frame, x
    <3> QED
      BY <1>11, <2>3, <3>1, <3>2, Zenon
  <2> DEFINE q == Fresh(s.r)
  <2>5. q = [state |-> s.r.state, accum |-> <<>>, nbytes |-> Normal, ipt |-> 0, size |-> -1]
    <3> DEFINE o == s.r
    <3>1. o \in RiverType
      BY <1>9
    <3> HIDE DEF o
    <3>2. Fresh(o) = [state |-> o.state, accum |-> <<>>, nbytes |-> Normal, ipt |-> 0, size |-> -1]
      BY <3>1, UpdateFresh
    <3> QED
      BY <3>2 DEF o
  <2> HIDE DEF q
  <2>6. /\ q \in RiverType /\ q.state = "good" /\ q.accum = <<>> /\ q.ipt = 0
        /\ q.size = -1 /\ q.nbytes = Normal
    BY <1>5, <1>7, <2>5 DEF RiverType
  <2>7. Bytes(x, x) = <<>> /\ x - x = 0
    BY <1>1, BytesEmpty
  <2>8. Holds(q, e, n + 2, x, x)
    BY <1>5, <2>6, <2>7 DEF Holds
  <2>9. Bytes(x, t) = <<>> <=> x = t
    BY <1>1, <2>1, BytesEmpty
  <2>10. buf' = Bytes(x, t) /\ cb' = IF Bytes(x, t) = <<>> THEN Nil ELSE cb
    BY <2>2, <2>3, Zenon DEF Handled
  <2>11. cb' = IF x = t THEN Nil ELSE cb
    BY <2>9, <2>10
  <2>12. out' = [out EXCEPT ![cb] = Append(@, Frame(e, n + 1))]
    BY <2>2, <2>4, Zenon
  <2>13. river' = [river EXCEPT ![cb] = q]
    BY <2>2 DEF q
  <2>14. Gives
    BY <2>1, <2>8, <2>10, <2>11, <2>12, <2>13, Zenon DEF Gives, t, x, n, e
  <2> QED
    BY <2>14
<1> QED
  BY <1>12, <1>13

-----------------------------------------------------------------------------
(* The invariant is kept *)

\* A step that leaves a descriptor alone.
LEMMA OtherKept ==
  ASSUME StreamInv, NEW fd \in Fds, cb # fd, cb' # fd,
         river'[fd] = river[fd], out'[fd] = out[fd], ends'[fd] = ends[fd],
         at'[fd] = at[fd], open'[fd] = open[fd]
  PROVE  Progress(fd)' /\ Collected(fd)'
<1>1. Progress(fd) /\ Collected(fd)
  BY DEF StreamInv
<1>2. Done(fd) = at[fd] - 0 /\ Done(fd)' = at[fd] - 0
  BY DEF Done
<1>3. From(fd)' = From(fd)
  BY DEF From
<1>4. Progress(fd)'
  BY <1>1, <1>2, <1>3 DEF Progress
<1>5. Collected(fd)'
  BY <1>1, <1>2, <1>3 DEF Collected
<1> QED
  BY <1>4, <1>5

\* A turn finds its descriptor open.
LEMMA TurnIsOpen ==
  ASSUME StreamInv, cb # Nil
  PROVE  cb \in Fds /\ open[cb]
<1>1. cb \in Fds
  BY DEF StreamInv, TypeOK
<1>2. river[cb].state = "good"
  BY DEF StreamInv, BufferRest
<1> QED
  BY <1>1, <1>2 DEF StreamInv, Collected

\* A turn that keeps what there is.
LEMMA KeepsInv ==
  ASSUME StreamInv, cb # Nil, Keeps, UNCHANGED <<conns, open, ends, at>>
  PROVE  StreamInv'
<1>1. /\ cb \in Fds /\ Len(out[cb]) \in 0 .. Len(ends[cb]) - 1
      /\ ends[cb] \in Streams \cup {<<>>}
      /\ From(cb) \in Nat /\ Done(cb) \in Nat /\ at[cb] \in Nat
      /\ From(cb) <= Done(cb) /\ Done(cb) < at[cb] /\ at[cb] <= End(ends[cb])
  BY TurnFinds
<1>2. PICK q : Holds(q, ends[cb], Len(out[cb]) + 1, From(cb), at[cb]) /\ river' = [river EXCEPT ![cb] = q]
  BY DEF Keeps
<1>3. at[cb] < ends[cb][Len(out[cb]) + 1] /\ out' = out /\ buf' = <<>> /\ cb' = Nil
  BY DEF Keeps
<1>4. TypeOK
  BY DEF StreamInv
<1>5. open[cb]
  BY TurnIsOpen
<1>6. TypeOK'
  <2>1. river' \in [Fds -> RiverType]
    BY <1>2, <1>4 DEF TypeOK, Holds
  <2>2. buf' \in Seq(Nat) /\ cb' \in Fds \cup {Nil} /\ (cb' = Nil <=> buf' = <<>>)
    BY <1>3
  <2>3. open' \in [Fds -> BOOLEAN]
    BY <1>4, Zenon DEF TypeOK
  <2>4. conns' \in [Fds -> Nat] /\ ends' \in [Fds -> Streams \cup {<<>>}] /\ at' \in [Fds -> Nat] /\ out' \in [Fds -> Seq(Seq(Nat))]
    BY <1>3, <1>4 DEF TypeOK
  <2> QED
    BY <2>1, <2>2, <2>3, <2>4, Zenon DEF TypeOK
<1>7. BufferRest'
  BY <1>3 DEF BufferRest
<1>8. ASSUME NEW fd \in Fds PROVE Progress(fd)' /\ Collected(fd)'
  <2>1. CASE fd # cb
    <3>1. cb' # fd
      BY <1>3, StreamAssumption
    <3>2. river'[fd] = river[fd]
      BY <1>2, <1>4, <2>1 DEF TypeOK
    <3> QED
      BY <1>3, <2>1, <3>1, <3>2, OtherKept
  <2>2. CASE fd = cb
    <3>1. Done(fd)' = at[fd] /\ From(fd)' = From(fd)
      BY <1>1, <1>3, <2>2 DEF Done, From
    <3>2. river'[fd] = q
      BY <1>2, <1>4, <2>2 DEF TypeOK
    <3>3. Len(out[fd]) \in Nat /\ Len(ends[fd]) \in Nat /\ Len(out[fd]) <= Len(ends[fd]) /\ From(fd) <= at[fd]
      <4>1. Len(ends[cb]) \in Nat
        BY <1>1, StreamFacts
      <4> QED
        BY <1>1, <2>2, <4>1
    <3>4. \A n \in 1 .. Len(out[fd]) : out[fd][n] = Frame(ends[fd], n)
      BY DEF StreamInv, Progress
    <3>5. (Len(out[fd]) < Len(ends[fd]) => at[fd] < ends[fd][Len(out[fd]) + 1])'
      BY <1>3, <2>2
    <3>6. Holds(river'[fd], ends[fd], Len(out[fd]) + 1, From(fd), at[fd])
      BY <1>2, <2>2, <3>2
    <3>7. Progress(fd)'
      BY <1>1, <1>3, <2>2, <3>1, <3>3, <3>4, <3>5 DEF Progress
    <3>8. Len(out[fd]) + 1 <= Len(ends[fd]) => Len(out[fd]) < Len(ends[fd])
      BY <3>3
    <3>9. Collected(fd)'
      BY <1>3, <1>5, <2>2, <3>1, <3>6, <3>8 DEF Collected, Holds
    <3> QED
      BY <3>7, <3>9
  <2> QED
    BY <2>1, <2>2
<1> QED
  BY <1>6, <1>7, <1>8 DEF StreamInv

\* A turn that gives a message out.
LEMMA GivesInv ==
  ASSUME StreamInv, cb # Nil, Gives, UNCHANGED <<conns, open, ends, at>>
  PROVE  StreamInv'
<1> DEFINE e == ends[cb]
           n == Len(out[cb])
           t == at[cb]
           x == e[n + 1]
<1>1. cb \in Fds /\ n \in 0 .. Len(e) - 1 /\ e \in Streams \cup {<<>>} /\ t \in Nat /\ t <= End(e) /\ x \in Nat
  BY TurnFinds
<1>2. /\ x <= t /\ out' = [out EXCEPT ![cb] = Append(@, Frame(e, n + 1))]
      /\ buf' = Bytes(x, t) /\ cb' = IF x = t THEN Nil ELSE cb
  BY DEF Gives
<1>3. PICK q : Holds(q, e, n + 2, x, x) /\ river' = [river EXCEPT ![cb] = q]
  BY DEF Gives
<1>4. TypeOK /\ open[cb]
  BY TurnIsOpen DEF StreamInv
<1>5. /\ Len(e) \in Nat /\ \A k \in 1 .. Len(e) : e[k] \in Nat
      /\ \A k \in 1 .. Len(e) : \A m \in 1 .. k - 1 : e[m] < e[k]
      /\ \A k \in 0 .. Len(e) : Start(e, k + 1) \in Nat
      /\ \A k \in 0 .. Len(e) : Start(e, k + 1) = IF k = 0 THEN 0 ELSE e[k]
      /\ \A k \in 0 .. Len(e) - 1 : Start(e, k + 1) < e[k + 1]
  BY <1>1, StreamFacts
<1>6. Bytes(x, t) \in Seq(Nat) /\ Len(Bytes(x, t)) = t - x /\ (Bytes(x, t) = <<>> <=> x = t)
  BY <1>1, <1>2, BytesSeq, BytesEmpty
<1>7. Frame(e, n + 1) \in Seq(Nat)
  <2>1. n \in 0 .. Len(e)
    BY <1>1, <1>5
  <2>2. Start(e, n + 1) \in Nat /\ Start(e, n + 1) <= x
    <3>1. Start(e, n + 1) \in Nat /\ Start(e, n + 1) < e[n + 1]
      BY <1>1, <1>5, <2>1
    <3> HIDE DEF x, n, e
    <3> QED
      BY <1>1, <3>1 DEF x
  <2> QED
    BY <1>1, <2>2, BytesSeq DEF Frame
<1>8. out[cb] \in Seq(Seq(Nat))
  BY <1>1, <1>4 DEF TypeOK
<1>9. /\ Append(out[cb], Frame(e, n + 1)) \in Seq(Seq(Nat))
      /\ Len(Append(out[cb], Frame(e, n + 1))) = n + 1
      /\ \A i \in 1 .. n : Append(out[cb], Frame(e, n + 1))[i] = out[cb][i]
      /\ Append(out[cb], Frame(e, n + 1))[n + 1] = Frame(e, n + 1)
  BY <1>7, <1>8, AppendProperties
<1>10. TypeOK'
  <2>1. river' \in [Fds -> RiverType]
    BY <1>3, <1>4 DEF TypeOK, Holds
  <2>2. buf' \in Seq(Nat) /\ cb' \in Fds \cup {Nil} /\ (cb' = Nil <=> buf' = <<>>)
    BY <1>1, <1>2, <1>6
  <2>3. open' \in [Fds -> BOOLEAN]
    BY <1>4, Zenon DEF TypeOK
  <2>4. conns' \in [Fds -> Nat] /\ ends' \in [Fds -> Streams \cup {<<>>}] /\ at' \in [Fds -> Nat]
    BY <1>4 DEF TypeOK
  <2>5. out' \in [Fds -> Seq(Seq(Nat))]
    BY <1>2, <1>4, <1>9 DEF TypeOK
  <2> QED
    BY <2>1, <2>2, <2>3, <2>4, <2>5, Zenon DEF TypeOK
<1>12. river'[cb] = q /\ out'[cb] = Append(out[cb], Frame(e, n + 1))
  BY <1>1, <1>2, <1>3, <1>4 DEF TypeOK
<1>13. ASSUME NEW fd \in Fds, fd = cb PROVE Done(fd)' = x
  <2>1. CASE x = t
    <3>1. cb' # fd
      BY <1>2, <2>1, StreamAssumption
    <3> QED
      BY <1>1, <1>13, <2>1, <3>1 DEF Done
  <2>2. CASE x # t
    <3>1. cb' = fd /\ Len(buf') = t - x
      BY <1>2, <1>6, <1>13, <2>2
    <3>2. Done(fd)' = at'[fd] - Len(buf')
      BY <3>1 DEF Done
    <3> HIDE DEF x, t
    <3> QED
      BY <1>1, <1>13, <3>1, <3>2 DEF t
  <2> QED
    BY <2>1, <2>2
<1>14. BufferRest'
  <2> SUFFICES ASSUME cb' # Nil
               PROVE  (/\ Len(buf) <= at[cb] /\ buf = Bytes(Done(cb), at[cb]) /\ river[cb].state = "good")'
    BY DEF BufferRest
  <2>1. cb' = cb
    BY <1>2
  <2>2. Done(cb)' = at'[cb'] - Len(buf')
    BY DEF Done
  <2>3. at'[cb'] = t /\ Len(buf') = t - x
    BY <1>2, <1>6, <2>1
  <2>4. river'[cb'].state = "good"
    BY <1>3, <1>12, <2>1 DEF Holds
  <2>5. Done(cb)' = x
    <3> HIDE DEF x, t
    <3> QED
      BY <1>1, <2>2, <2>3
  <2>6. Len(buf') <= at'[cb']
    <3> HIDE DEF x, t
    <3> QED
      BY <1>1, <2>3
  <2> QED
    BY <1>2, <2>3, <2>4, <2>5, <2>6
<1>15. ASSUME NEW fd \in Fds PROVE Progress(fd)' /\ Collected(fd)'
  <2>1. CASE fd # cb
    <3>1. cb' # fd
      BY <1>2, <2>1, StreamAssumption
    <3>2. river'[fd] = river[fd] /\ out'[fd] = out[fd]
      BY <1>2, <1>3, <1>4, <2>1 DEF TypeOK
    <3> QED
      BY <2>1, <3>1, <3>2, OtherKept
  <2>2. CASE fd = cb
    <3>1. Done(fd)' = x
      BY <1>13, <2>2
    <3>2. out'[fd] = Append(out[fd], Frame(e, n + 1)) /\ Len(out'[fd]) = n + 1
      BY <1>9, <1>12, <2>2
    <3>3. From(fd)' = x
      <4>1. From(fd)' = Start(e, (n + 1) + 1)
        BY <2>2, <3>2 DEF From
      <4>2. n + 1 \in 0 .. Len(e) /\ n + 1 # 0
        BY <1>1, <1>5
      <4>3. Start(e, (n + 1) + 1) = e[n + 1]
        BY <1>5, <4>2
      <4> QED
        BY <4>1, <4>3
    <3>4. \A i \in 1 .. n + 1 : out'[fd][i] = Frame(e, i)
      <4>1. \A i \in 1 .. n : out[fd][i] = Frame(e, i)
        BY <2>2 DEF StreamInv, Progress
      <4>2. n \in Nat
        BY <1>1
      <4> SUFFICES ASSUME NEW i \in 1 .. n + 1 PROVE out'[fd][i] = Frame(e, i)
        OBVIOUS
      <4>3. i \in 1 .. n \/ i = n + 1
        BY <4>2
      <4> QED
        BY <1>9, <1>12, <2>2, <4>1, <4>3
    <3>5. n + 1 < Len(e) => x < e[(n + 1) + 1]
      <4> SUFFICES ASSUME n + 1 < Len(e) PROVE x < e[(n + 1) + 1]
        OBVIOUS
      <4>1. (n + 1) + 1 \in 1 .. Len(e) /\ n + 1 \in 1 .. ((n + 1) + 1) - 1
        BY <1>1, <1>5
      <4> QED
        BY <1>5, <4>1
    <3>6. n + 1 <= Len(e)
      BY <1>1, <1>5
    <3>7. Progress(fd)'
      BY <1>1, <2>2, <3>1, <3>2, <3>3, <3>4, <3>5, <3>6 DEF Progress
    <3>8. river'[fd] = q /\ Holds(q, e, n + 2, x, x)
      BY <1>3, <1>12, <2>2
    <3>9. n + 2 <= Len(e) => n + 1 < Len(e)
      BY <1>1, <1>5
    <3>10. n + 2 = (n + 1) + 1
      BY <1>1
    <3>11. Collected(fd)'
      BY <1>4, <2>2, <3>1, <3>2, <3>3, <3>8, <3>9, <3>10 DEF Collected, Holds
    <3> QED
      BY <3>7, <3>11
  <2> QED
    BY <2>1, <2>2
<1> QED
  BY <1>10, <1>14, <1>15 DEF StreamInv

\* A connection that opens has a river that is new.
LEMMA ConnectInv ==
  ASSUME StreamInv, NEW fd \in Fds, NEW e \in Streams, Connect(fd, e)
  PROVE  StreamInv'
<1>1. TypeOK /\ BufferRest
  BY DEF StreamInv
<1>2. ~open[fd] /\ river' = river /\ cb' = cb /\ buf' = buf
  BY DEF Connect
<1>3. river[fd].state = "new"
  BY <1>1, <1>2 DEF StreamInv, Collected, TypeOK, RiverType
<1>4. cb # fd
  <2> SUFFICES ASSUME cb = fd PROVE FALSE
    OBVIOUS
  <2> QED
    BY <1>3, StreamAssumption DEF StreamInv, BufferRest
<1>5. /\ open' = [open EXCEPT ![fd] = TRUE] /\ ends' = [ends EXCEPT ![fd] = e]
      /\ at' = [at EXCEPT ![fd] = 0] /\ out' = [out EXCEPT ![fd] = <<>>]
      /\ conns' = [conns EXCEPT ![fd] = @ + 1]
  BY DEF Connect
<1>6. TypeOK'
  <2>1. open' \in [Fds -> BOOLEAN]
    BY <1>1, <1>5, Zenon DEF TypeOK
  <2>2. <<>> \in Seq(Seq(Nat))
    OBVIOUS
  <2>3. out' \in [Fds -> Seq(Seq(Nat))]
    BY <1>1, <1>5, <2>2 DEF TypeOK
  <2>4. conns' \in [Fds -> Nat] /\ ends' \in [Fds -> Streams \cup {<<>>}] /\ at' \in [Fds -> Nat]
    BY <1>1, <1>5 DEF TypeOK
  <2>5. river' \in [Fds -> RiverType] /\ cb' \in Fds \cup {Nil} /\ buf' \in Seq(Nat) /\ (cb' = Nil <=> buf' = <<>>)
    BY <1>1, <1>2 DEF TypeOK
  <2> QED
    BY <2>1, <2>3, <2>4, <2>5, Zenon DEF TypeOK
<1>7. BufferRest'
  <2> SUFFICES ASSUME cb # Nil PROVE BufferRest'
    BY <1>2 DEF BufferRest
  <2>1. at'[cb] = at[cb] /\ cb \in Fds
    BY <1>1, <1>4, <1>5 DEF TypeOK
  <2>2. Done(cb)' = Done(cb)
    BY <1>2, <2>1 DEF Done
  <2> QED
    BY <1>1, <1>2, <2>1, <2>2 DEF BufferRest
<1>8. ASSUME NEW g \in Fds PROVE Progress(g)' /\ Collected(g)'
  <2>1. CASE g # fd
    <3>1. river'[g] = river[g] /\ out'[g] = out[g] /\ ends'[g] = ends[g] /\ at'[g] = at[g] /\ open'[g] = open[g]
      BY <1>1, <1>2, <1>5, <2>1 DEF TypeOK
    <3>2. Done(g)' = Done(g) /\ From(g)' = From(g)
      BY <1>2, <3>1 DEF Done, From
    <3>3. Progress(g) /\ Collected(g)
      BY DEF StreamInv
    <3>4. Progress(g)'
      BY <3>1, <3>2, <3>3 DEF Progress
    <3>5. Collected(g)'
      BY <3>1, <3>2, <3>3 DEF Collected
    <3> QED
      BY <3>4, <3>5
  <2>2. CASE g = fd
    <3>1. river'[g] = river[g] /\ out'[g] = <<>> /\ ends'[g] = e /\ at'[g] = 0 /\ Len(out'[g]) = 0
      BY <1>1, <1>2, <1>5, <2>2 DEF TypeOK
    <3>2. Done(g)' = 0
      <4>1. Done(g)' = at'[g] - 0
        BY <1>2, <1>4, <2>2 DEF Done
      <4> QED
        BY <3>1, <4>1
    <3>3. /\ Len(e) \in Nat /\ \A k \in 1 .. Len(e) : e[k] \in Nat
          /\ \A k \in 0 .. Len(e) - 1 : Start(e, k + 1) < e[k + 1]
      BY StreamFacts
    <3>4. From(g)' = 0 /\ Start(e, 0 + 1) = 0
      BY <3>1 DEF From, Start
    <3>5. 0 < Len(e) => 0 < e[0 + 1]
      BY <3>3, <3>4, SMTT(30)
    <3>6. End(e) \in Nat
      <4>1. 0 \in 0 .. Len(e)
        BY <3>3
      <4> QED
        BY <4>1, StartInStream
    <3>7. Progress(g)'
      BY <3>1, <3>2, <3>3, <3>4, <3>5, <3>6 DEF Progress
    <3>8. Collected(g)'
      BY <1>3, <2>2, <3>1 DEF Collected
    <3> QED
      BY <3>7, <3>8
  <2> QED
    BY <2>1, <2>2
<1> QED
  BY <1>6, <1>7, <1>8 DEF StreamInv

\* A river that is reset.
LEMMA ResetRiver ==
  ASSUME NEW r \in RiverType
  PROVE  Reset(r) \in RiverType /\ Reset(r).state = "new"
<1> DEFINE F == {"state", "accum", "nbytes", "ipt", "size"}
           q == Reset(r)
<1>1. DOMAIN r = F /\ r.nbytes \in Nat /\ r.ipt \in Nat /\ r.size \in Int
  BY DEF RiverType
<1>2. /\ q = [f \in F |-> q[f]] /\ q.state = "new" /\ q.accum = <<>>
      /\ q.ipt = r.ipt /\ q.size = r.size /\ q.nbytes = r.nbytes
  BY <1>1 DEF Reset
<1> HIDE DEF q
<1>3. q = [state |-> q.state, accum |-> q.accum, nbytes |-> q.nbytes, ipt |-> q.ipt, size |-> q.size]
  BY <1>2, RiverFields
<1>4. q \in RiverType
  <2>1. /\ q.state \in {"new", "good"} /\ q.accum \in Seq(Nat) /\ q.nbytes \in Nat
        /\ q.ipt \in Nat /\ q.size \in Int
    <3>1. /\ q.state = "new" /\ q.accum = <<>> /\ q.ipt = r.ipt /\ q.size = r.size /\ q.nbytes = r.nbytes
          /\ r.nbytes \in Nat /\ r.ipt \in Nat /\ r.size \in Int
      BY <1>1, <1>2, Zenon
    <3>2. <<>> \in Seq(Nat)
      OBVIOUS
    <3> QED
      BY <3>1, <3>2, Zenon
  <2>2. ASSUME NEW s \in {"new", "good"}, NEW a \in Seq(Nat), NEW m \in Nat, NEW i \in Nat, NEW z \in Int
        PROVE  [state |-> s, accum |-> a, nbytes |-> m, ipt |-> i, size |-> z] \in RiverType
    BY DEF RiverType
  <2>3. [state |-> q.state, accum |-> q.accum, nbytes |-> q.nbytes, ipt |-> q.ipt, size |-> q.size] \in RiverType
    BY <2>1, <2>2
  <2> QED
    BY <1>3, <2>3, Zenon
<1> QED
  BY <1>2, <1>4 DEF q

\* A connection that breaks leaves a river that is new.
LEMMA DiscInv ==
  ASSUME StreamInv, NEW fd \in Fds, mt_disc_cb(fd)
  PROVE  StreamInv'
<1>1. TypeOK
  BY DEF StreamInv
<1>2. cb = Nil /\ cb' = Nil /\ buf' = buf /\ conns' = conns /\ ends' = ends /\ at' = at /\ out' = out
  BY DEF mt_disc_cb
<1>3. open' = [open EXCEPT ![fd] = FALSE] /\ river' = [river EXCEPT ![fd] = Reset(river[fd])]
  BY DEF mt_disc_cb
<1>4. Reset(river[fd]) \in RiverType /\ Reset(river[fd]).state = "new"
  <2>1. river[fd] \in RiverType
    BY <1>1 DEF TypeOK
  <2> QED
    BY <2>1, ResetRiver
<1>5. TypeOK'
  <2>1. open' \in [Fds -> BOOLEAN]
    BY <1>1, <1>3, Zenon DEF TypeOK
  <2>2. river' \in [Fds -> RiverType]
    BY <1>1, <1>3, <1>4 DEF TypeOK
  <2> QED
    BY <1>1, <1>2, <2>1, <2>2, Zenon DEF TypeOK
<1>6. BufferRest'
  BY <1>2 DEF BufferRest
<1>7. ASSUME NEW g \in Fds PROVE Progress(g)' /\ Collected(g)'
  <2>1. CASE g # fd
    <3>1. river'[g] = river[g] /\ open'[g] = open[g] /\ cb # g /\ cb' # g
      BY <1>1, <1>2, <1>3, <2>1, StreamAssumption DEF TypeOK
    <3> QED
      BY <1>2, <3>1, OtherKept
  <2>2. CASE g = fd
    <3>1. Done(g)' = Done(g) /\ From(g)' = From(g) /\ Progress(g)
      BY <1>2 DEF Done, From, StreamInv
    <3>2. Progress(g)'
      BY <1>2, <3>1 DEF Progress
    <3>3. river'[g].state = "new" /\ ~open'[g]
      BY <1>1, <1>3, <1>4, <2>2 DEF TypeOK
    <3>4. Collected(g)'
      BY <3>3 DEF Collected
    <3> QED
      BY <3>2, <3>4
  <2> QED
    BY <2>1, <2>2
<1> QED
  BY <1>5, <1>6, <1>7 DEF StreamInv

\* The next bytes of a connection.
LEMMA DataInv ==
  ASSUME StreamInv, NEW fd \in Fds, NEW k \in 1 .. End(ends[fd]), mt_data_cb(fd, k)
  PROVE  StreamInv'
<1> DEFINE t == at[fd]
           e == ends[fd]
           n == Len(out[fd])
           p == From(fd)
           q == river'[fd]
<1>1. TypeOK /\ cb = Nil /\ fd # Nil /\ open[fd]
  BY StreamAssumption DEF StreamInv, mt_data_cb
<1>2. /\ e \in Streams \cup {<<>>} /\ Len(e) \in Nat /\ n \in 0 .. Len(e)
      /\ p \in Nat /\ t \in Nat /\ p <= Done(fd)
  BY InOrder
<1>3. cb' = fd /\ buf' = Bytes(t, t + k) /\ conns' = conns /\ open' = open /\ ends' = ends /\ out' = out /\ at' = [at EXCEPT ![fd] = @ + k]
  BY DEF mt_data_cb
<1>4. t + k <= End(e)
  BY DEF mt_data_cb
<1>5. k \in Nat /\ k > 0 /\ t + k \in Nat /\ t <= t + k /\ t # t + k
  <2>1. 0 \in 0 .. Len(e)
    BY <1>2
  <2>2. End(e) \in Nat
    BY <1>2, <2>1, StartInStream
  <2> HIDE DEF t
  <2> QED
    BY <1>2, <2>2
<1>6. buf' \in Seq(Nat) /\ Len(buf') = k /\ buf' # <<>>
  <2>1. Bytes(t, t + k) \in Seq(Nat) /\ Len(Bytes(t, t + k)) = (t + k) - t
    BY <1>2, <1>5, BytesSeq
  <2>2. Bytes(t, t + k) # <<>>
    BY <1>2, <1>5, BytesEmpty
  <2>3. (t + k) - t = k
    BY <1>2, <1>5
  <2> QED
    BY <1>3, <2>1, <2>2, <2>3
<1>7. at'[fd] = t + k /\ Done(fd) = t
  <2>1. at'[fd] = t + k
    BY <1>1, <1>3 DEF TypeOK
  <2>2. Done(fd) = t - 0
    BY <1>1 DEF Done
  <2> QED
    BY <1>2, <2>1, <2>2
<1>8. Done(fd)' = t /\ From(fd)' = p
  <2>1. Done(fd)' = at'[fd] - Len(buf')
    BY <1>3 DEF Done
  <2>2. From(fd)' = p
    BY <1>3 DEF From
  <2>3. (t + k) - k = t
    BY <1>2, <1>5
  <2> QED
    BY <1>6, <1>7, <2>1, <2>2, <2>3
<1>9. /\ river' = [river EXCEPT ![fd] = q] /\ q \in RiverType /\ q.state = "good"
      /\ q.accum = Bytes(p, t) /\ q.ipt = t - p
      /\ \/ q.size = -1 /\ q.ipt < SzField /\ q.nbytes = Normal
         \/ n < Len(e) /\ q.size = Size(e, n + 1) /\ q.size <= q.nbytes
  <2>1. river \in [Fds -> RiverType] /\ river[fd] \in RiverType
    BY <1>1 DEF TypeOK
  <2>2. CASE river[fd].state = "new"
    <3>1. t = 0 /\ out[fd] = <<>>
      BY <1>1, <2>2 DEF StreamInv, Collected
    <3>2. p = 0 /\ Bytes(0, 0) = <<>>
      BY <3>1, BytesEmpty DEF From, Start
    <3> DEFINE o == [NewRiver EXCEPT !.state = "good", !.nbytes = Normal]
    <3>3. river' = [river EXCEPT ![fd] = o]
      BY <2>2 DEF mt_data_cb
    <3>4. SzField \in Nat /\ SzField > 0 /\ Normal \in Nat
      BY StreamAssumption
    <3>5. o = [state |-> "good", accum |-> <<>>, nbytes |-> Normal, ipt |-> 0, size |-> -1]
      <4>1. /\ o = [f \in {"state", "accum", "nbytes", "ipt", "size"} |-> o[f]]
            /\ o.state = "good" /\ o.accum = <<>> /\ o.nbytes = Normal /\ o.ipt = 0 /\ o.size = -1
        BY DEF NewRiver
      <4> HIDE DEF o
      <4>2. o = [state |-> o.state, accum |-> o.accum, nbytes |-> o.nbytes, ipt |-> o.ipt, size |-> o.size]
        BY <4>1, RiverFields
      <4> QED
        BY <4>1, <4>2
    <3> HIDE DEF o
    <3>6. q = o
      BY <2>1, <3>3
    <3>7. o \in RiverType /\ o.state = "good" /\ o.accum = <<>> /\ o.nbytes = Normal /\ o.ipt = 0 /\ o.size = -1
      BY <3>4, <3>5 DEF RiverType
    <3> HIDE DEF q
    <3> QED
      BY <3>1, <3>2, <3>3, <3>4, <3>6, <3>7
  <2>3. CASE river[fd].state # "new"
    <3>1. river[fd].state = "good"
      BY <2>1, <2>3 DEF RiverType
    <3>2. river' = [river EXCEPT ![fd] = river[fd]]
      BY <2>3 DEF mt_data_cb
    <3>3. q = river[fd]
      BY <2>1, <3>2
    <3>4. Collected(fd)
      BY DEF StreamInv
    <3> QED
      BY <1>7, <2>1, <3>1, <3>2, <3>3, <3>4 DEF Collected
  <2> QED
    BY <2>2, <2>3
<1>10. TypeOK'
  <2>1. open' \in [Fds -> BOOLEAN]
    BY <1>1, <1>3, Zenon DEF TypeOK
  <2>2. river' \in [Fds -> RiverType]
    <3> HIDE DEF q
    <3> QED
      BY <1>1, <1>9 DEF TypeOK
  <2>3. cb' \in Fds \cup {Nil} /\ (cb' = Nil <=> buf' = <<>>)
    BY <1>1, <1>3, <1>6
  <2>4. at' \in [Fds -> Nat]
    BY <1>1, <1>3, <1>5 DEF TypeOK
  <2>5. conns' \in [Fds -> Nat] /\ ends' \in [Fds -> Streams \cup {<<>>}] /\ out' \in [Fds -> Seq(Seq(Nat))]
    BY <1>1, <1>3 DEF TypeOK
  <2> QED
    BY <1>6, <2>1, <2>2, <2>3, <2>4, <2>5, Zenon DEF TypeOK
<1>11. BufferRest'
  <2>1. Done(cb)' = t
    <3>1. Done(cb)' = at'[cb'] - Len(buf')
      BY DEF Done
    <3>2. Done(fd)' = at'[fd] - Len(buf')
      BY <1>3 DEF Done
    <3> QED
      BY <1>3, <1>8, <3>1, <3>2
  <2>2. k <= t + k
    BY <1>2, <1>5
  <2> QED
    BY <1>3, <1>6, <1>7, <1>9, <2>1, <2>2 DEF BufferRest
<1>12. ASSUME NEW g \in Fds PROVE Progress(g)' /\ Collected(g)'
  <2>1. CASE g # fd
    <3>1. river'[g] = river[g] /\ out'[g] = out[g] /\ ends'[g] = ends[g] /\ at'[g] = at[g] /\ open'[g] = open[g]
      <4>1. river \in [Fds -> RiverType] /\ at \in [Fds -> Nat]
        BY <1>1 DEF TypeOK
      <4>2. river' = [river EXCEPT ![fd] = q]
        BY <1>9
      <4> HIDE DEF q
      <4> QED
        BY <1>3, <2>1, <4>1, <4>2
    <3>2. cb # g /\ cb' # g
      BY <1>1, <1>3, <2>1, StreamAssumption
    <3> QED
      BY <3>1, <3>2, OtherKept
  <2>2. CASE g = fd
    <3>1. Progress(g)
      BY DEF StreamInv
    <3>2. Progress(g)'
      BY <1>3, <1>4, <1>7, <1>8, <2>2, <3>1 DEF Progress
    <3>3. Collected(g)'
      BY <1>1, <1>3, <1>8, <1>9, <2>2 DEF Collected
    <3> QED
      BY <3>2, <3>3
  <2> QED
    BY <2>1, <2>2
<1> QED
  BY <1>10, <1>11, <1>12 DEF StreamInv

\* The first state.
LEMMA InitInv == Init => StreamInv
<1> SUFFICES ASSUME Init PROVE StreamInv
  OBVIOUS
<1>1. NewRiver \in RiverType /\ NewRiver.state = "new"
  BY DEF NewRiver, RiverType
<1>2. TypeOK
  <2>1. river \in [Fds -> RiverType]
    BY <1>1 DEF Init
  <2>2. open \in [Fds -> BOOLEAN]
    BY Zenon DEF Init
  <2>3. <<>> \in Seq(Seq(Nat))
    OBVIOUS
  <2>4. out \in [Fds -> Seq(Seq(Nat))]
    BY <2>3 DEF Init
  <2>5. /\ conns \in [Fds -> Nat] /\ ends \in [Fds -> Streams \cup {<<>>}] /\ at \in [Fds -> Nat]
        /\ cb \in Fds \cup {Nil} /\ buf \in Seq(Nat) /\ (cb = Nil <=> buf = <<>>)
    BY DEF Init
  <2> QED
    BY <2>1, <2>2, <2>4, <2>5, Zenon DEF TypeOK
<1>3. BufferRest
  BY DEF BufferRest, Init
<1>4. ASSUME NEW fd \in Fds PROVE Progress(fd) /\ Collected(fd)
  <2>1. cb # fd /\ at[fd] = 0 /\ out[fd] = <<>> /\ ends[fd] = <<>> /\ river[fd] = NewRiver /\ ~open[fd]
    BY StreamAssumption DEF Init
  <2>2. Done(fd) = 0 - 0 /\ Len(out[fd]) = 0 /\ Len(ends[fd]) = 0
    BY <2>1 DEF Done
  <2>3. From(fd) = 0 /\ End(ends[fd]) = 0
    BY <2>2 DEF From, End, Start
  <2>4. Progress(fd)
    BY <2>1, <2>2, <2>3 DEF Progress
  <2>5. Collected(fd)
    BY <1>1, <2>1 DEF Collected
  <2> QED
    BY <2>4, <2>5
<1> QED
  BY <1>2, <1>3, <1>4 DEF StreamInv

\* Every step keeps the invariant.
LEMMA StepInv == StreamInv /\ [Next]_vars => StreamInv'
<1> SUFFICES ASSUME StreamInv, [Next]_vars PROVE StreamInv'
  OBVIOUS
<1>1. CASE \E fd \in Fds, e \in Streams : Connect(fd, e)
  BY <1>1, ConnectInv
<1>2. CASE \E fd \in Fds : mt_disc_cb(fd)
  BY <1>2, DiscInv
<1>3. CASE \E fd \in Fds : \E k \in 1 .. End(ends[fd]) : mt_data_cb(fd, k)
  BY <1>3, DataInv
<1>4. CASE Turn
  <2>1. cb # Nil /\ UNCHANGED <<conns, open, ends, at>>
    BY <1>4 DEF Turn
  <2>2. Keeps \/ Gives
    BY <1>4, PartIsKept, MessageIsTaken DEF Turn
  <2> QED
    BY <2>1, <2>2, KeepsInv, GivesInv
<1>5. CASE UNCHANGED vars
  <2>1. TypeOK'
    BY <1>5, Zenon DEF StreamInv, TypeOK, vars
  <2>2. BufferRest'
    BY <1>5 DEF StreamInv, BufferRest, Done, vars
  <2>3. ASSUME NEW fd \in Fds PROVE Progress(fd)' /\ Collected(fd)'
    <3>1. Done(fd)' = Done(fd) /\ From(fd)' = From(fd)
      BY <1>5 DEF Done, From, vars
    <3>2. Progress(fd)'
      BY <1>5, <3>1 DEF StreamInv, Progress, vars
    <3>3. Collected(fd)'
      BY <1>5, <3>1 DEF StreamInv, Collected, vars
    <3> QED
      BY <3>2, <3>3
  <2> QED
    BY <2>1, <2>2, <2>3 DEF StreamInv
<1> QED
  BY <1>1, <1>2, <1>3, <1>4, <1>5 DEF Next

-----------------------------------------------------------------------------
(* Theorems *)

\* StreamInv is an invariant of the specification.
LEMMA AlwaysStreamInv == Spec => []StreamInv
BY InitInv, StepInv, PTL DEF Spec

\* The variables of a callback and of its rivers have their types, through every
\* callback, turn of its loop and disconnection.
THEOREM TypeCorrect == Spec => []TypeOK
<1>1. StreamInv => TypeOK
  BY DEF StreamInv
<1> QED
  BY <1>1, AlwaysStreamInv, PTL

\* What comes out is what was sent: however TCP cuts a stream up, and whatever a
\* connection before left in the river of the descriptor, mt_data_cb gives
\* buf2mbuf the messages of the peer, whole and in order.
THEOREM MessagesAreWhole == Spec => []Framed
<1>1. StreamInv => Framed
  <2> SUFFICES ASSUME StreamInv, NEW fd \in Fds, NEW n \in DOMAIN out[fd]
               PROVE  n \in DOMAIN ends[fd] /\ out[fd][n] = Frame(ends[fd], n)
    BY DEF Framed
  <2>1. ends[fd] \in Streams \cup {<<>>} /\ Len(ends[fd]) \in Nat /\ Len(out[fd]) \in 0 .. Len(ends[fd])
    BY InOrder
  <2>2. DOMAIN ends[fd] = 1 .. Len(ends[fd])
    BY <2>1, StreamFacts
  <2>3. out[fd] \in Seq(Seq(Nat))
    BY DEF StreamInv, TypeOK
  <2>4. DOMAIN out[fd] = 1 .. Len(out[fd])
    BY <2>3, LenProperties
  <2>5. n \in 1 .. Len(out[fd])
    BY <2>4
  <2> QED
    BY <2>1, <2>2, <2>5 DEF StreamInv, Progress
<1> QED
  BY <1>1, AlwaysStreamInv, PTL

\* No message is held back: when the callback returns, mt_data_cb has given out
\* as many messages as have their last byte there.
THEOREM NothingIsHeldBack == Spec => []NoneHeldBack
<1>1. StreamInv => NoneHeldBack
  <2> SUFFICES ASSUME StreamInv, NEW fd \in Fds, cb # fd
               PROVE  Len(out[fd]) = Cardinality({n \in DOMAIN ends[fd] : ends[fd][n] <= at[fd]})
    BY DEF NoneHeldBack
  <2> DEFINE e == ends[fd]
             n == Len(out[fd])
             t == at[fd]
             S == {m \in DOMAIN e : e[m] <= t}
  <2>1. e \in Streams \cup {<<>>} /\ Len(e) \in Nat /\ n \in 0 .. Len(e) /\ From(fd) \in Nat /\ t \in Nat /\ From(fd) <= Done(fd)
    BY InOrder
  <2>2. /\ DOMAIN e = 1 .. Len(e) /\ \A k \in 1 .. Len(e) : e[k] \in Nat
        /\ \A k \in 1 .. Len(e) : \A m \in 1 .. k - 1 : e[m] < e[k]
        /\ Start(e, n + 1) = IF n = 0 THEN 0 ELSE e[n]
    BY <2>1, StreamFacts
  <2>3. Done(fd) = t
    <3>1. Done(fd) = t - 0
      BY DEF Done
    <3> QED
      BY <2>1, <3>1
  <2>4. n < Len(e) => t < e[n + 1]
    BY <2>3 DEF StreamInv, Progress
  <2>5. Start(e, n + 1) <= t
    BY <2>1, <2>3 DEF From
  <2> HIDE DEF e, n, t
  <2>6. ASSUME NEW m \in 1 .. Len(e), m <= n PROVE e[m] <= t
    <3>1. n \in 1 .. Len(e) /\ (m = n \/ m \in 1 .. n - 1)
      BY <2>1, <2>6
    <3>2. e[n] <= t /\ e[n] \in Nat /\ e[m] \in Nat
      BY <2>2, <2>5, <3>1
    <3>3. m = n \/ e[m] < e[n]
      BY <2>2, <3>1
    <3> QED
      BY <2>1, <3>2, <3>3
  <2>7. ASSUME NEW m \in 1 .. Len(e), ~(m <= n) PROVE ~(e[m] <= t)
    <3>1. n + 1 \in 1 .. Len(e) /\ n < Len(e) /\ (m = n + 1 \/ n + 1 \in 1 .. m - 1)
      BY <2>1, <2>7
    <3>2. e[n + 1] \in Nat /\ e[m] \in Nat /\ t < e[n + 1]
      BY <2>2, <2>4, <3>1
    <3>3. m = n + 1 \/ e[n + 1] < e[m]
      BY <2>2, <3>1
    <3> QED
      BY <2>1, <3>2, <3>3
  <2>8. S = 1 .. n
    BY <2>1, <2>2, <2>6, <2>7
  <2>9. Cardinality(1 .. n) = n
    BY <2>1, FS_Interval
  <2> QED
    BY <2>8, <2>9 DEF e, n, t
<1> QED
  BY <1>1, AlwaysStreamInv, PTL

\* No copy overruns: what mt_data_cb copies into the accumulator of a river, and
\* the message it will complete there, fit the bytes that are allocated.
THEOREM CopiesFit == Spec => []InBounds
<1>1. StreamInv => InBounds
  <2> SUFFICES ASSUME StreamInv, NEW fd \in Fds, river[fd].state = "good"
               PROVE  /\ Len(river[fd].accum) = river[fd].ipt
                      /\ river[fd].ipt <= river[fd].nbytes
                      /\ river[fd].size > 0 => river[fd].size <= river[fd].nbytes
    BY DEF InBounds
  <2> DEFINE r == river[fd]
             e == ends[fd]
             n == Len(out[fd])
             p == From(fd)
             h == Done(fd)
             z == Size(e, n + 1)
             x == e[n + 1]
  <2>1. e \in Streams \cup {<<>>} /\ Len(e) \in Nat /\ n \in 0 .. Len(e) /\ p \in Nat /\ h \in Nat /\ p <= h
    BY InOrder
  <2>2. /\ r.accum = Bytes(p, h) /\ r.ipt = h - p
        /\ \/ r.size = -1 /\ r.ipt < SzField /\ r.nbytes = Normal
           \/ n < Len(e) /\ r.size = z /\ r.size <= r.nbytes
    BY DEF StreamInv, Collected
  <2>3. r.nbytes \in Nat /\ r.size \in Int
    BY DEF StreamInv, TypeOK, RiverType
  <2>4. Len(Bytes(p, h)) = h - p
    BY <2>1, BytesSeq
  <2>5. SzField \in Nat /\ Normal \in Nat /\ Normal >= SzField
    BY StreamAssumption
  <2>6. n < Len(e) => h < x /\ x \in Nat /\ z = x - p
    <3> SUFFICES ASSUME n < Len(e) PROVE h < x /\ x \in Nat /\ z = x - p
      OBVIOUS
    <3>1. h < x
      BY DEF StreamInv, Progress
    <3>2. n \in 0 .. Len(e) - 1 /\ n + 1 \in 1 .. Len(e)
      BY <2>1
    <3>3. x \in Nat /\ z = x - p
      BY <2>1, <3>2, StreamFacts DEF From
    <3> QED
      BY <3>1, <3>3
  <2> HIDE DEF r, e, n, p, h, z, x
  <2>7. CASE r.size = -1 /\ r.ipt < SzField /\ r.nbytes = Normal
    BY <2>1, <2>2, <2>4, <2>5, <2>7 DEF r
  <2>8. CASE n < Len(e) /\ r.size = z /\ r.size <= r.nbytes
    BY <2>1, <2>2, <2>3, <2>4, <2>6, <2>8 DEF r
  <2> QED
    BY <2>2, <2>7, <2>8
<1> QED
  BY <1>1, AlwaysStreamInv, PTL

=============================================================================
