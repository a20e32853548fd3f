----------------------------- MODULE RmrStream -----------------------------
(***************************************************************************)
(* How RMR (ric-plt-lib-rmr) makes messages of the bytes that TCP brings:  *)
(* mt_data_cb keeps a river for each file descriptor, collects the length  *)
(* field and then the message in its accumulator, over as many callbacks   *)
(* as it takes, and gives each message to buf2mbuf.  mt_disc_cb resets the *)
(* river, because the descriptor may be that of another connection next.   *)
(*                                                                         *)
(* A byte is its position in the stream of its connection, and a stream is *)
(* given by the positions where its messages end.  The length of a message *)
(* is in its first bytes (extract_mlen takes the integer in front in every *)
(* format it knows).                                                       *)
(***************************************************************************)
EXTENDS Integers, Sequences, FiniteSets

CONSTANTS
  Fds,         \* file descriptors
  Streams,     \* what a peer may send: the ends of its messages
  SzField,     \* TP_SZFIELD_LEN
  Normal,      \* ctx->max_ibm + 1024, the usual size of an accumulator
  Fudge,       \* the room added to a huge one
  MaxConns,    \* bound: connections on a descriptor
  Nil

Start(ends, n) == IF n = 1 THEN 0 ELSE ends[n - 1]
Size(ends, n)  == ends[n] - Start(ends, n)
Bytes(a, b)    == [i \in 1 .. (b - a) |-> a + i]
Frame(ends, n) == Bytes(Start(ends, n), ends[n])
End(ends)      == Start(ends, Len(ends) + 1)

ASSUME StreamAssumption ==
  /\ SzField \in Nat \ {0}
  /\ Normal \in Nat /\ Normal >= SzField
  /\ Fudge \in Nat
  /\ MaxConns \in Nat
  /\ Streams \subseteq Seq(Nat)
  /\ \A ends \in Streams : \A n \in DOMAIN ends :
       Size(ends, n) >= SzField /\ \A m \in 1 .. n - 1 : ends[m] < ends[n]
  /\ Nil \notin Fds

VARIABLES
  river,   \* river_t of each descriptor
  cb,      \* the descriptor whose data a callback handles, or Nil
  buf,     \* the bytes it has still to handle
  \* the connections
  conns,   \* how many each descriptor has had
  open,    \* whether it has one now
  ends,    \* what its peer sends
  at,      \* how many bytes of it have come
  out      \* the messages given to buf2mbuf since it opened

vars == <<river, cb, buf, conns, open, ends, at, out>>

NewRiver == [state |-> "new", accum |-> <<>>, nbytes |-> 0, ipt |-> 0, size |-> -1]

Init ==
  /\ river = [fd \in Fds |-> NewRiver]
  /\ cb = Nil
  /\ buf = <<>>
  /\ conns = [fd \in Fds |-> 0]
  /\ open = [fd \in Fds |-> FALSE]
  /\ ends = [fd \in Fds |-> <<>>]
  /\ at = [fd \in Fds |-> 0]
  /\ out = [fd \in Fds |-> <<>>]

-----------------------------------------------------------------------------
(* The connections: SI calls back one descriptor at a time. *)

Connect(fd, e) ==
  /\ ~open[fd]
  /\ conns[fd] < MaxConns
  /\ conns' = [conns EXCEPT ![fd] = @ + 1]
  /\ open' = [open EXCEPT ![fd] = TRUE]
  /\ ends' = [ends EXCEPT ![fd] = e]
  /\ at' = [at EXCEPT ![fd] = 0]
  /\ out' = [out EXCEPT ![fd] = <<>>]
  /\ UNCHANGED <<river, cb, buf>>

\* The accumulator is freed and the river is new again.  The mutant leaves it as
\* it is.
KeepRiver(r) == r
Reset(r)     == [r EXCEPT !.state = "new", !.accum = <<>>]
mt_disc_cb(fd) ==
  /\ cb = Nil
  /\ open[fd]
  /\ open' = [open EXCEPT ![fd] = FALSE]
  /\ river' = [river EXCEPT ![fd] = Reset(@)]
  /\ UNCHANGED <<cb, buf, conns, ends, at, out>>

-----------------------------------------------------------------------------
(* mt_data_cb *)

\* The first bytes of a message give its length.
extract_mlen(e, bytes) ==
  LET n == CHOOSE i \in DOMAIN e : Start(e, i) + 1 = bytes[1]
  IN  IF \E i \in DOMAIN e : Start(e, i) + 1 = bytes[1] THEN Size(e, n) ELSE SzField

\* memcpy of the next k bytes of the buffer to the insert point
Put(r, k)  == SubSeq(r.accum, 1, r.ipt) \o SubSeq(buf, 1, k)
Rest(b, k) == SubSeq(b, k + 1, Len(b))

\* A callback with the next k bytes.  A river that is new gets an accumulator.
mt_data_cb(fd, k) ==
  /\ cb = Nil
  /\ open[fd]
  /\ at[fd] + k <= End(ends[fd])
  /\ cb' = fd
  /\ buf' = Bytes(at[fd], at[fd] + k)
  /\ at' = [at EXCEPT ![fd] = @ + k]
  /\ river' = [river EXCEPT ![fd] =
                 IF @.state = "new"
                 THEN [NewRiver EXCEPT !.state = "good", !.nbytes = Normal]
                 ELSE @]
  /\ UNCHANGED <<conns, open, ends, out>>

\* What is left to handle.  The mutant returns after each turn.
ReturnEarly(b) == buf' = b /\ cb' = Nil
Handled(b) ==
  /\ buf' = b
  /\ cb' = IF b = <<>> THEN Nil ELSE cb

\* The length field is not complete: keep what there is of it.
TakePartOfSize(r) ==
  LET need == SzField - r.ipt
  IN  /\ r.size <= 0
      /\ need > Len(buf)
      /\ river' = [river EXCEPT ![cb].accum = Put(r, Len(buf)), ![cb].ipt = r.ipt + Len(buf)]
      /\ Handled(<<>>)
      /\ UNCHANGED out

\* A message that is larger than the accumulator gets a larger one, with the
\* bytes that are in the first.  The mutant makes do with the first.
SameBuffer(r, size) == r.nbytes
Buffer(r, size)     == IF size > r.nbytes THEN size + Fudge ELSE r.nbytes

\* The river and the buffer once the length is known: it is read from the
\* accumulator if that has a part of it, else from the buffer.
Sized(r) ==
  LET need == SzField - r.ipt
      head == IF r.ipt > 0 THEN Put(r, need) ELSE buf
      size == extract_mlen(ends[cb], head)
  IN  IF r.size > 0 THEN [r |-> r, b |-> buf]
      ELSE IF r.ipt > 0
      THEN [r |-> [r EXCEPT !.accum = head, !.ipt = SzField, !.size = size,
                            !.nbytes = Buffer(r, size)],
            b |-> Rest(buf, need)]
      ELSE [r |-> [r EXCEPT !.size = size, !.nbytes = Buffer(r, size)], b |-> buf]

\* Whether the message is not complete with the bytes there are.  The mutant is
\* off by one.
MissingEq(size, have) == size >= have
Missing(size, have)   == size > have

\* After a message: a fresh accumulator of the usual size.
Fresh(r) == [r EXCEPT !.accum = <<>>, !.nbytes = Normal, !.size = -1, !.ipt = 0]

\* The length is known: keep what there is of the message, or complete it.
TakeMessage(r) ==
  /\ r.size > 0 \/ SzField - r.ipt <= Len(buf)
  /\ LET s    == Sized(r)
         have == s.r.ipt + Len(s.b)
         need == s.r.size - s.r.ipt
         all  == SubSeq(s.r.accum, 1, s.r.ipt)
     IN  IF Missing(s.r.size, have)
         THEN /\ river' = [river EXCEPT ![cb] =
                             [s.r EXCEPT !.accum = all \o s.b, !.ipt = have]]
              /\ Handled(<<>>)
              /\ UNCHANGED out
         ELSE /\ out' = [out EXCEPT ![cb] = Append(@, all \o SubSeq(s.b, 1, need))]
              /\ river' = [river EXCEPT ![cb] = Fresh(s.r)]
              /\ Handled(Rest(s.b, need))

\* One turn of the loop of the callback.
Turn ==
  /\ cb # Nil
  /\ TakePartOfSize(river[cb]) \/ TakeMessage(river[cb])
  /\ UNCHANGED <<conns, open, ends, at>>

-----------------------------------------------------------------------------
Next ==
  \/ \E fd \in Fds, e \in Streams : Connect(fd, e)
  \/ \E fd \in Fds : mt_disc_cb(fd)
  \/ \E fd \in Fds : \E k \in 1 .. End(ends[fd]) : mt_data_cb(fd, k)
  \/ Turn

Spec == Init /\ [][Next]_vars

-----------------------------------------------------------------------------
(* Properties *)

RiverType ==
  [state : {"new", "good"}, accum : Seq(Nat), nbytes : Nat, ipt : Nat, size : Int]

\* The variables have their types.
TypeOK ==
  /\ river \in [Fds -> RiverType]
  /\ cb \in Fds \cup {Nil}
  /\ buf \in Seq(Nat)
  /\ cb = Nil <=> buf = <<>>
  /\ conns \in [Fds -> Nat]
  /\ open \in [Fds -> BOOLEAN]
  /\ ends \in [Fds -> Streams \cup {<<>>}]
  /\ at \in [Fds -> Nat]
  /\ out \in [Fds -> Seq(Seq(Nat))]

\* However TCP cuts the stream up, and whatever the connection before left when
\* it broke, the messages given to buf2mbuf are the messages the peer sent, in
\* order and without a byte of another.
Framed ==
  \A fd \in Fds : \A n \in DOMAIN out[fd] :
    n \in DOMAIN ends[fd] /\ out[fd][n] = Frame(ends[fd], n)

\* When the callback returns, each message whose last byte has come has been
\* given to buf2mbuf: none waits for bytes of the next one.
NoneHeldBack ==
  \A fd \in Fds : cb # fd =>
    Len(out[fd]) = Cardinality({n \in DOMAIN ends[fd] : ends[fd][n] <= at[fd]})

\* The accumulator has room for what is copied into it, also when a huge message
\* follows a normal one or comes in pieces.
InBounds ==
  \A fd \in Fds :
    LET r == river[fd]
    IN  r.state = "good" =>
          /\ Len(r.accum) = r.ipt
          /\ r.ipt <= r.nbytes
          /\ r.size > 0 => r.size <= r.nbytes
=============================================================================
