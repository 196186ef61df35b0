-------------------------- MODULE SocketServerProofs --------------------------
(***************************************************************************)
(* What socket.rs reads and writes, for every number of clients, every     *)
(* request and answer and every size of the streams.                       *)
(*                                                                         *)
(* The argument is one of conservation: a slice that is written, and a     *)
(* byte that is read, moves from one of the three parts of a request or of *)
(* an answer to the next, and only the end of a request's line makes an    *)
(* answer.                                                                 *)
(***************************************************************************)
EXTENDS SocketServer, SequenceTheorems, TLAPS

-----------------------------------------------------------------------------
(* Requests and answers in three parts.  The provers see concatenation as  *)
(* an operator of its own, of which they are told that it is associative.  *)

Bytes(s) == s \in Seq(Byte)
Cat(s, t) == s \o t
Prefix(s, n) == SubSeq(s, 1, n)

LEMMA CatFacts ==
    /\ \A s, t : Bytes(s) /\ Bytes(t) => Bytes(Cat(s, t)) /\ Len(Cat(s, t)) = Len(s) + Len(t)
    /\ \A s, t, u : Bytes(s) /\ Bytes(t) /\ Bytes(u) => Cat(Cat(s, t), u) = Cat(s, Cat(t, u))
<1>1. ASSUME NEW s \in Seq(Byte), NEW t \in Seq(Byte)
      PROVE  s \o t \in Seq(Byte) /\ Len(s \o t) = Len(s) + Len(t)
  BY ConcatProperties
<1>2. ASSUME NEW s \in Seq(Byte), NEW t \in Seq(Byte), NEW u \in Seq(Byte)
      PROVE  (s \o t) \o u = s \o (t \o u)
  BY ConcatAssociative
<1> QED
  BY <1>1, <1>2 DEF Bytes, Cat

LEMMA CutInTwo ==
    ASSUME NEW s, Bytes(s), NEW n \in 1..Len(s)
    PROVE  /\ Bytes(Prefix(s, n)) /\ Bytes(Rest(s, n))
           /\ Len(Prefix(s, n)) = n
           /\ Cat(Prefix(s, n), Rest(s, n)) = s
<1> USE DEF Bytes, Prefix, Rest, Cat
<1>1. \A i \in 1..Len(s) : s[i] \in Byte
  BY ElementOfSeq
<1>2. Len(s) \in Nat /\ n \in Int /\ n + 1 \in Int
  BY LenProperties
<1>3. SubSeq(s, 1, n) \in Seq(Byte) /\ Len(SubSeq(s, 1, n)) = n
  BY <1>1, <1>2, SubSeqProperties
<1>4. SubSeq(s, n + 1, Len(s)) \in Seq(Byte)
  <2>1. \A i \in (n + 1)..Len(s) : s[i] \in Byte
    BY <1>1, <1>2
  <2> QED
    BY <1>2, <2>1, SubSeqProperties
<1>5. SubSeq(s, 1, n) \o SubSeq(s, n + 1, Len(s)) = SubSeq(s, 1, Len(s))
  BY <1>2, ConcatAdjacentSubSeq
<1> QED
  BY <1>3, <1>4, <1>5, SubSeqFull

\* A slice moves from the last part to the middle one.
LEMMA SliceMoves ==
    ASSUME NEW a, NEW b, NEW c, Bytes(a), Bytes(b), Bytes(c), NEW n \in 1..Len(c)
    PROVE  Cat(Cat(a, Cat(b, Prefix(c, n))), Rest(c, n)) = Cat(Cat(a, b), c)
BY CutInTwo, CatFacts

\* A byte moves from the middle part to the first.
LEMMA ByteMoves ==
    ASSUME NEW a, NEW b, NEW c, Bytes(a), Bytes(b), Bytes(c), b # <<>>
    PROVE  /\ Head(b) \in Byte /\ Bytes(Append(a, Head(b))) /\ Bytes(Tail(b))
           /\ Len(Tail(b)) < Len(b)
           /\ Cat(Cat(Append(a, Head(b)), Tail(b)), c) = Cat(Cat(a, b), c)
<1>1. /\ Head(b) \in Byte /\ Bytes(Tail(b)) /\ Bytes(<<Head(b)>>)
      /\ Bytes(Append(a, Head(b))) /\ Len(Tail(b)) < Len(b)
  BY HeadTailProperties, AppendProperties, LenProperties DEF Bytes
<1>2. Append(a, Head(b)) = Cat(a, <<Head(b)>>)
  BY <1>1, AppendIsConcat DEF Bytes, Cat
<1>3. Cat(<<Head(b)>>, Tail(b)) = b
  <2> USE DEF Bytes, Cat
  <2>1. Len(b) \in Nat \ {0}
    BY EmptySeq
  <2>2. SubSeq(b, 1, Len(b)) = <<b[1]>> \o SubSeq(b, 2, Len(b))
    BY <2>1, SubSeqRecursiveFirst
  <2>3. Head(b) = b[1]
    OBVIOUS
  <2> QED
    BY <2>2, <2>3, SubSeqFull, TailIsSubSeq
<1>4. Cat(Cat(a, <<Head(b)>>), Tail(b)) = Cat(a, Cat(<<Head(b)>>, Tail(b)))
  BY <1>1, CatFacts
<1> QED
  BY <1>1, <1>2, <1>3, <1>4

-----------------------------------------------------------------------------
(* The invariant.                                                          *)

Sent(c) == Cat(Cat(taken[c], up[c]), unsent[c])
Answer(c) == Cat(Cat(got[c], down[c]), owed[c])

Ended(line, max) == line # <<>> /\ (line[Len(line)] = Newline \/ Len(line) >= max)

\* Whether the server is busy with a stream.
At(c) == server \in {Serving(c), Answering(c), Leaving(c)}

\* Nothing is taken from a stream, nor answered, before it is served; and it is served
\* until its line has ended.
ServedOnce(c) ==
    /\ client[c] = "out" <=> stream[c] = "none"
    /\ At(c) => stream[c] = "open"
    /\ stream[c] # "closed" /\ ~At(c) => taken[c] = <<>> /\ Answer(c) = <<>>
    /\ server = Serving(c) => ~Ended(taken[c], MaxLen) /\ Answer(c) = <<>>

\* Where lines end: a client's answer, and the requests the server has answered.
LinesEnd(c) ==
    /\ client[c] = "answered" => Ended(got[c], ReplyMax)
    /\ \A i \in 1..(Len(taken[c]) - 1) : taken[c][i] # Newline /\ i < MaxLen
    /\ server = Answering(c) \/ Answer(c) # <<>> => Ended(taken[c], MaxLen)

Conserved(c) == Sent(c) = Request[c] /\ Answer(c) \in {<<>>, Reply}

InvOf(c) == ServedOnce(c) /\ LinesEnd(c) /\ Conserved(c)

Inv == SocketTypeOK /\ \A c \in Clients : InvOf(c)

-----------------------------------------------------------------------------
(* Facts about one state.                                                  *)

LEMMA Places ==
    /\ \A c : Polling \notin {Serving(c), Answering(c), Leaving(c)}
    /\ \A c, d : /\ Serving(c) \notin {Answering(d), Leaving(d)}
                 /\ Answering(c) # Leaving(d)
                 /\ Serving(c) = Serving(d) => c = d
                 /\ Answering(c) = Answering(d) => c = d
                 /\ Leaving(c) = Leaving(d) => c = d
BY DEF Polling, Serving, Answering, Leaving

LEMMA Buffers ==
    ASSUME SocketTypeOK, NEW c \in Clients
    PROVE  /\ Bytes(unsent[c]) /\ Bytes(got[c]) /\ Bytes(up[c]) /\ Bytes(down[c])
           /\ Bytes(taken[c]) /\ Bytes(owed[c])
BY DEF SocketTypeOK, Bytes

LEMMA Lengths ==
    \A s : Bytes(s) => Len(s) \in Nat /\ (s = <<>> <=> Len(s) = 0)
BY LenProperties, EmptySeq DEF Bytes

LEMMA Appended ==
    ASSUME NEW s, Bytes(s), NEW x \in Byte
    PROVE  /\ Bytes(Append(s, x)) /\ Append(s, x) # <<>>
           /\ Len(Append(s, x)) = Len(s) + 1
           /\ \A i \in 1..Len(s) : Append(s, x)[i] = s[i]
BY AppendProperties DEF Bytes

\* Three parts that make up nothing are nothing, and nothing before a part adds none.
LEMMA EmptyParts ==
    /\ \A s, t, u : /\ Bytes(s) /\ Bytes(t) /\ Bytes(u)
                    /\ Cat(Cat(s, t), u) = <<>>
            => s = <<>> /\ t = <<>> /\ u = <<>>
    /\ \A u : Bytes(u) => Cat(Cat(<<>>, <<>>), u) = u
<1>1. ASSUME NEW s \in Seq(Byte), NEW t \in Seq(Byte), s \o t = <<>> PROVE s = <<>> /\ t = <<>>
  BY <1>1, ConcatEqualIffEmpty
<1>2. ASSUME NEW u \in Seq(Byte) PROVE <<>> \o u = u /\ <<>> \o <<>> = <<>>
  BY <1>2, ConcatEmptySeq, EmptySeq
<1>3. ASSUME NEW s \in Seq(Byte), NEW t \in Seq(Byte) PROVE s \o t \in Seq(Byte)
  BY ConcatProperties
<1> QED
  BY <1>1, <1>2, <1>3 DEF Bytes, Cat

-----------------------------------------------------------------------------
(* A step that does not concern a client.                                  *)

Same(c) ==
    /\ client'[c] = client[c] /\ unsent'[c] = unsent[c] /\ got'[c] = got[c]
    /\ stream'[c] = stream[c] /\ up'[c] = up[c] /\ down'[c] = down[c]
    /\ taken'[c] = taken[c] /\ owed'[c] = owed[c]

SamePlace(c) ==
    /\ server' = Serving(c) <=> server = Serving(c)
    /\ server' = Answering(c) <=> server = Answering(c)
    /\ server' = Leaving(c) <=> server = Leaving(c)

LEMMA SameKeeps ==
    ASSUME NEW c, InvOf(c), Same(c), SamePlace(c)
    PROVE  InvOf(c)'
<1>1. Sent(c)' = Sent(c) /\ Answer(c)' = Answer(c) /\ (At(c)' <=> At(c))
  BY DEF Same, SamePlace, Sent, Answer, At
<1> QED
  BY <1>1 DEF Same, SamePlace, InvOf, ServedOnce, LinesEnd, Conserved, Ended

-----------------------------------------------------------------------------
(* One lemma per operation.                                                *)

LEMMA InitInv == Init => Inv
<1> SUFFICES ASSUME Init PROVE Inv
  OBVIOUS
<1> USE SocketAssumption
<1>1. <<>> \in Seq(Byte) /\ Len(<<>>) = 0 /\ Bytes(<<>>)
  BY EmptySeq DEF Bytes
<1>2. SocketTypeOK
  BY <1>1 DEF Init, SocketTypeOK
<1>3. ASSUME NEW c \in Clients PROVE InvOf(c)
  <2>1. Sent(c) = Request[c] /\ Answer(c) = <<>>
    BY <1>1, EmptyParts DEF Init, Sent, Answer, Bytes
  <2>2. ~At(c) /\ server # Serving(c) /\ server # Answering(c)
    BY Places DEF Init, At
  <2>3. ServedOnce(c)
    BY <2>1, <2>2 DEF Init, ServedOnce
  <2>4. LinesEnd(c)
    BY <1>1, <2>1, <2>2 DEF Init, LinesEnd
  <2> QED
    BY <2>1, <2>3, <2>4 DEF InvOf, Conserved
<1> QED
  BY <1>2, <1>3 DEF Inv

LEMMA ConnectInv ==
    ASSUME Inv, NEW c \in Clients, Connect(c)
    PROVE  Inv'
<1>1. /\ client[c] = "out"
      /\ client' = [client EXCEPT ![c] = "writing"]
      /\ stream' = [stream EXCEPT ![c] = "queued"]
      /\ UNCHANGED <<unsent, got, up, down, taken, owed, tokens, server, ready>>
  BY DEF Connect
<1>2. stream[c] = "none" /\ ~At(c) /\ InvOf(c)
  BY <1>1 DEF Inv, InvOf, ServedOnce
<1>3. SocketTypeOK'
  BY <1>1, <1>2 DEF Inv, SocketTypeOK
<1>4. InvOf(c)'
  <2>1. Sent(c)' = Sent(c) /\ Answer(c)' = Answer(c) /\ ~At(c)'
    BY <1>1, <1>2 DEF Sent, Answer, At
  <2>2. client'[c] = "writing" /\ stream'[c] = "queued"
    BY <1>1 DEF Inv, SocketTypeOK
  <2>3. ServedOnce(c)'
    BY <1>1, <1>2, <2>1, <2>2 DEF InvOf, ServedOnce, Ended
  <2>4. LinesEnd(c)' /\ Conserved(c)'
    BY <1>1, <1>2, <2>1, <2>2 DEF InvOf, LinesEnd, Conserved, Ended
  <2> QED
    BY <2>3, <2>4 DEF InvOf
<1>5. ASSUME NEW d \in Clients, d # c PROVE InvOf(d)'
  <2>1. Same(d) /\ SamePlace(d)
    BY <1>1, <1>5 DEF Inv, SocketTypeOK, Same, SamePlace
  <2> QED
    BY <2>1, SameKeeps DEF Inv
<1> QED
  BY <1>3, <1>4, <1>5 DEF Inv

\* A slice moves from what is unsent to what is under way.
LEMMA ClientWritesInv ==
    ASSUME Inv, NEW c \in Clients, ClientWrites(c)
    PROVE  Inv'
<1>1. /\ client[c] = "writing"
      /\ UNCHANGED <<got, stream, taken, owed, tokens, server, ready, down>>
  BY DEF ClientWrites, serverVars
<1>2. \/ /\ client' \in {[client EXCEPT ![c] = "reading"], [client EXCEPT ![c] = "gone"]}
         /\ UNCHANGED <<unsent, up>>
      \/ /\ UNCHANGED client
         /\ \E n \in Slices(unsent[c], up[c]) :
                /\ up' = [up EXCEPT ![c] = @ \o SubSeq(unsent[c], 1, n)]
                /\ unsent' = [unsent EXCEPT ![c] = Rest(@, n)]
  BY DEF ClientWrites
<1>3. InvOf(c) /\ Bytes(unsent[c]) /\ Bytes(up[c]) /\ Bytes(taken[c])
  BY Buffers DEF Inv
<1>4. SocketTypeOK' /\ Sent(c)' = Sent(c)
  <2>1. CASE /\ client' \in {[client EXCEPT ![c] = "reading"], [client EXCEPT ![c] = "gone"]}
             /\ UNCHANGED <<unsent, up>>
    BY <1>1, <2>1 DEF Inv, SocketTypeOK, Sent
  <2>2. ASSUME UNCHANGED client, NEW n \in Slices(unsent[c], up[c]),
               up' = [up EXCEPT ![c] = @ \o SubSeq(unsent[c], 1, n)],
               unsent' = [unsent EXCEPT ![c] = Rest(@, n)]
        PROVE  SocketTypeOK' /\ Sent(c)' = Sent(c)
    <3>1. n \in 1..Len(unsent[c]) /\ Len(up[c]) + n <= Cap
      BY DEF Slices
    <3>2. up'[c] = Cat(up[c], Prefix(unsent[c], n)) /\ unsent'[c] = Rest(unsent[c], n)
      BY <2>2 DEF Inv, SocketTypeOK, Cat, Prefix
    <3>3. Bytes(up'[c]) /\ Bytes(unsent'[c])
      BY <1>3, <3>1, <3>2, CutInTwo, CatFacts
    <3>4. Len(up'[c]) <= Cap
      <4>1. Bytes(Prefix(unsent[c], n)) /\ Len(Prefix(unsent[c], n)) = n
        BY <1>3, <3>1, CutInTwo
      <4>2. Len(up'[c]) = Len(up[c]) + n
        BY <1>3, <3>2, <4>1, CatFacts
      <4> QED
        BY <3>1, <4>2
    <3>5. SocketTypeOK'
      <4>1. up' \in [Clients -> Seq(Byte)] /\ unsent' \in [Clients -> Seq(Byte)]
        BY <2>2, <3>2, <3>3 DEF Inv, SocketTypeOK, Bytes
      <4>2. \A d \in Clients : Len(up'[d]) <= Cap /\ Len(down'[d]) <= Cap
        BY <1>1, <2>2, <3>4 DEF Inv, SocketTypeOK
      <4> QED
        BY <1>1, <2>2, <4>1, <4>2 DEF Inv, SocketTypeOK
    <3>6. Sent(c)' = Sent(c)
      BY <1>1, <1>3, <3>1, <3>2, SliceMoves DEF Sent
    <3> QED
      BY <3>5, <3>6
  <2> QED
    BY <1>2, <2>1, <2>2
<1>5. InvOf(c)'
  <2>1. Answer(c)' = Answer(c) /\ (At(c)' <=> At(c))
    BY <1>1 DEF Answer, At
  <2>2. client'[c] \in {"writing", "reading", "gone"}
    BY <1>1, <1>2 DEF Inv, SocketTypeOK
  <2>3. ServedOnce(c)'
    BY <1>1, <1>3, <2>1, <2>2 DEF InvOf, ServedOnce, Ended
  <2>4. LinesEnd(c)' /\ Conserved(c)'
    BY <1>1, <1>3, <1>4, <2>1, <2>2 DEF InvOf, LinesEnd, Conserved, Ended
  <2> QED
    BY <2>3, <2>4 DEF InvOf
<1>6. ASSUME NEW d \in Clients, d # c PROVE InvOf(d)'
  <2>1. Same(d) /\ SamePlace(d)
    BY <1>1, <1>2, <1>6 DEF Inv, SocketTypeOK, Same, SamePlace
  <2> QED
    BY <2>1, SameKeeps DEF Inv
<1> QED
  BY <1>4, <1>5, <1>6 DEF Inv

\* A byte moves from what is under way to the client's line.
LEMMA ClientReadsInv ==
    ASSUME Inv, NEW c \in Clients, ClientReads(c)
    PROVE  Inv'
<1>1. /\ client[c] = "reading"
      /\ UNCHANGED <<unsent, stream, taken, owed, tokens, server, ready, up>>
  BY DEF ClientReads, serverVars
<1>2. \/ /\ down[c] # <<>>
         /\ got' = [got EXCEPT ![c] = Append(@, Head(down[c]))]
         /\ down' = [down EXCEPT ![c] = Tail(@)]
         /\ client' = [client EXCEPT ![c] = IF LineEnds(got'[c], ReplyMax) THEN "answered" ELSE @]
      \/ client' = [client EXCEPT ![c] = "gone"] /\ UNCHANGED <<got, down>>
  BY DEF ClientReads
<1>3. InvOf(c) /\ Bytes(got[c]) /\ Bytes(down[c]) /\ Bytes(owed[c])
  BY Buffers DEF Inv
<1>4. /\ SocketTypeOK' /\ Answer(c)' = Answer(c)
      /\ client'[c] \in {"reading", "answered", "gone"}
      /\ client'[c] = "answered" => Ended(got'[c], ReplyMax)
  <2>1. CASE client' = [client EXCEPT ![c] = "gone"] /\ UNCHANGED <<got, down>>
    BY <1>1, <2>1 DEF Inv, SocketTypeOK, Answer
  <2>2. CASE /\ down[c] # <<>>
             /\ got' = [got EXCEPT ![c] = Append(@, Head(down[c]))]
             /\ down' = [down EXCEPT ![c] = Tail(@)]
             /\ client' = [client EXCEPT ![c] = IF LineEnds(got'[c], ReplyMax) THEN "answered" ELSE @]
    <3>1. got'[c] = Append(got[c], Head(down[c])) /\ down'[c] = Tail(down[c])
      BY <2>2 DEF Inv, SocketTypeOK
    <3>2. Bytes(got'[c]) /\ Bytes(down'[c]) /\ got'[c] # <<>> /\ Len(down'[c]) < Len(down[c])
      BY <1>3, <2>2, <3>1, ByteMoves, Appended
    <3>3. client'[c] = IF LineEnds(got'[c], ReplyMax) THEN "answered" ELSE "reading"
      BY <1>1, <2>2 DEF Inv, SocketTypeOK
    <3>4. Answer(c)' = Answer(c)
      BY <1>1, <1>3, <2>2, <3>1, ByteMoves DEF Answer
    <3>5. Len(down'[c]) <= Cap
      BY <1>3, <3>2, Lengths, SocketAssumption DEF Inv, SocketTypeOK
    <3>6. SocketTypeOK'
      <4>1. got' \in [Clients -> Seq(Byte)] /\ down' \in [Clients -> Seq(Byte)]
        BY <2>2, <3>1, <3>2 DEF Inv, SocketTypeOK, Bytes
      <4>2. \A d \in Clients : Len(up'[d]) <= Cap /\ Len(down'[d]) <= Cap
        BY <1>1, <2>2, <3>5 DEF Inv, SocketTypeOK
      <4>3. client' \in [Clients -> {"out", "writing", "reading", "answered", "gone"}]
        BY <2>2, <3>3 DEF Inv, SocketTypeOK
      <4> QED
        BY <1>1, <4>1, <4>2, <4>3 DEF Inv, SocketTypeOK
    <3> QED
      BY <3>2, <3>3, <3>4, <3>6 DEF LineEnds, Ended
  <2> QED
    BY <1>2, <2>1, <2>2
<1>5. InvOf(c)'
  <2>1. Sent(c)' = Sent(c) /\ (At(c)' <=> At(c))
    BY <1>1 DEF Sent, At
  <2>2. ServedOnce(c)'
    BY <1>1, <1>3, <1>4, <2>1 DEF InvOf, ServedOnce, Ended
  <2>3. LinesEnd(c)'
    BY <1>1, <1>3, <1>4, <2>1 DEF InvOf, LinesEnd, Ended
  <2>4. Conserved(c)'
    BY <1>3, <1>4, <2>1 DEF InvOf, Conserved
  <2> QED
    BY <2>2, <2>3, <2>4 DEF InvOf
<1>6. ASSUME NEW d \in Clients, d # c PROVE InvOf(d)'
  <2>1. Same(d) /\ SamePlace(d)
    BY <1>1, <1>2, <1>6 DEF Inv, SocketTypeOK, Same, SamePlace
  <2> QED
    BY <2>1, SameKeeps DEF Inv
<1> QED
  BY <1>4, <1>5, <1>6 DEF Inv

LEMMA QuitInv ==
    ASSUME Inv, NEW c \in Clients, Quit(c)
    PROVE  Inv'
<1>1. /\ client[c] \in {"writing", "reading"}
      /\ client' = [client EXCEPT ![c] = "gone"]
      /\ UNCHANGED <<unsent, got, stream, taken, owed, tokens, server, ready, up, down>>
  BY DEF Quit, serverVars
<1>2. InvOf(c) /\ client'[c] = "gone"
  BY <1>1 DEF Inv, SocketTypeOK
<1>3. SocketTypeOK'
  BY <1>1 DEF Inv, SocketTypeOK
<1>4. InvOf(c)'
  <2>1. Sent(c)' = Sent(c) /\ Answer(c)' = Answer(c) /\ (At(c)' <=> At(c))
    BY <1>1 DEF Sent, Answer, At
  <2> QED
    BY <1>1, <1>2, <2>1 DEF InvOf, ServedOnce, LinesEnd, Conserved, Ended
<1>5. ASSUME NEW d \in Clients, d # c PROVE InvOf(d)'
  <2>1. Same(d) /\ SamePlace(d)
    BY <1>1, <1>5 DEF Inv, SocketTypeOK, Same, SamePlace
  <2> QED
    BY <2>1, SameKeeps DEF Inv
<1> QED
  BY <1>3, <1>4, <1>5 DEF Inv

-----------------------------------------------------------------------------
(* The server's operations.                                                *)

LEMMA PollInv ==
    ASSUME Inv, Poll
    PROVE  Inv'
<1>1. /\ ready' = Readable
      /\ UNCHANGED <<client, unsent, got, stream, taken, owed, tokens, server, up, down>>
      /\ server = Polling
  BY DEF Poll, clientVars
<1>2. SocketTypeOK'
  BY <1>1 DEF Inv, SocketTypeOK, Readable
<1>3. ASSUME NEW c \in Clients PROVE InvOf(c)'
  BY <1>1, <1>3, SameKeeps DEF Inv, Same, SamePlace
<1> QED
  BY <1>2, <1>3 DEF Inv

LEMMA AcceptInv ==
    ASSUME Inv, NEW c \in Clients, Accept(c)
    PROVE  Inv'
<1>1. /\ stream[c] = "queued"
      /\ stream' = [stream EXCEPT ![c] = "open"]
      /\ tokens' = tokens \cup {c}
      /\ UNCHANGED <<client, unsent, got, taken, owed, server, ready, up, down>>
      /\ server = Polling
  BY DEF Accept, Queued, clientVars
<1>2. SocketTypeOK'
  BY <1>1 DEF Inv, SocketTypeOK
<1>3. InvOf(c)'
  <2>1. Sent(c)' = Sent(c) /\ Answer(c)' = Answer(c) /\ (At(c)' <=> At(c)) /\ ~At(c)
    BY <1>1, Places DEF Sent, Answer, At
  <2>2. stream'[c] = "open" /\ InvOf(c)
    BY <1>1 DEF Inv, SocketTypeOK
  <2> QED
    BY <1>1, <2>1, <2>2 DEF InvOf, ServedOnce, LinesEnd, Conserved, Ended
<1>4. ASSUME NEW d \in Clients, d # c PROVE InvOf(d)'
  <2>1. Same(d) /\ SamePlace(d)
    BY <1>1, <1>4 DEF Inv, SocketTypeOK, Same, SamePlace
  <2> QED
    BY <2>1, SameKeeps DEF Inv
<1> QED
  BY <1>2, <1>3, <1>4 DEF Inv

LEMMA ServeInv ==
    ASSUME Inv, NEW c \in Clients, Serve(c)
    PROVE  Inv'
<1>1. /\ c \in ready
      /\ ready' = ready \ {c}
      /\ server = Polling /\ server' = Serving(c)
      /\ UNCHANGED <<client, unsent, got, stream, taken, owed, tokens, up, down>>
  BY DEF Serve, clientVars
<1>2. stream[c] = "open" /\ InvOf(c) /\ ~At(c)
  BY <1>1, Places DEF Inv, SocketTypeOK, At
<1>3. SocketTypeOK'
  BY <1>1 DEF Inv, SocketTypeOK
<1>4. InvOf(c)'
  <2>1. Sent(c)' = Sent(c) /\ Answer(c)' = Answer(c) /\ server' # Answering(c)
    BY <1>1, Places DEF Sent, Answer
  <2> QED
    BY <1>1, <1>2, <2>1 DEF InvOf, ServedOnce, LinesEnd, Conserved, Ended
<1>5. ASSUME NEW d \in Clients, d # c PROVE InvOf(d)'
  <2>1. Same(d) /\ SamePlace(d)
    BY <1>1, <1>5, Places DEF Same, SamePlace
  <2> QED
    BY <2>1, SameKeeps DEF Inv
<1> QED
  BY <1>3, <1>4, <1>5 DEF Inv

\* The line grows by a byte that was no line's end, and is answered when it ends.
LEMMA ServerReadsInv ==
    ASSUME Inv, NEW c \in Clients, ServerReads(c)
    PROVE  Inv'
<1>1. /\ server = Serving(c)
      /\ UNCHANGED <<client, unsent, got, stream, tokens, ready, down>>
  BY DEF ServerReads, clientVars
<1>2. /\ Bytes(taken[c]) /\ Bytes(up[c]) /\ Bytes(unsent[c])
      /\ Bytes(got[c]) /\ Bytes(down[c]) /\ Bytes(owed[c])
  BY Buffers DEF Inv
<1>3. InvOf(c) /\ At(c) /\ ~Ended(taken[c], MaxLen) /\ Answer(c) = <<>> /\ stream[c] = "open"
  BY <1>1 DEF Inv, InvOf, ServedOnce, At
<1>4. CASE /\ up[c] # <<>>
           /\ taken' = [taken EXCEPT ![c] = Append(@, Head(up[c]))]
           /\ up' = [up EXCEPT ![c] = Tail(@)]
           /\ IF LineEnds(taken'[c], MaxLen)
              THEN server' = Answering(c) /\ owed' = [owed EXCEPT ![c] = Reply]
              ELSE UNCHANGED <<server, owed>>
  <2>1. up[c] # <<>> /\ taken'[c] = Append(taken[c], Head(up[c])) /\ up'[c] = Tail(up[c])
    BY <1>4 DEF Inv, SocketTypeOK
  <2>2. /\ Bytes(taken'[c]) /\ Bytes(up'[c]) /\ Len(up'[c]) < Len(up[c])
        /\ Sent(c)' = Sent(c)
    BY <1>1, <1>2, <2>1, ByteMoves DEF Sent
  <2>3. /\ taken'[c] # <<>> /\ Len(taken'[c]) = Len(taken[c]) + 1
        /\ \A i \in 1..Len(taken[c]) : taken'[c][i] = taken[c][i]
    <3>1. Head(up[c]) \in Byte
      BY <1>2, <2>1, ByteMoves
    <3> QED
      BY <1>2, <2>1, <3>1, Appended
  <2>4. \A i \in 1..(Len(taken'[c]) - 1) : taken'[c][i] # Newline /\ i < MaxLen
    <3> SUFFICES ASSUME NEW i \in 1..Len(taken[c])
                 PROVE  taken[c][i] # Newline /\ i < MaxLen
      BY <1>2, <2>3, Lengths
    <3>1. CASE i \in 1..(Len(taken[c]) - 1)
      BY <1>3, <3>1 DEF InvOf, LinesEnd
    <3>2. CASE i = Len(taken[c])
      <4>1. taken[c] # <<>>
        BY <1>2, <3>2, Lengths
      <4> QED
        BY <1>2, <1>3, <3>2, <4>1, Lengths, SocketAssumption DEF Ended
    <3> QED
      BY <1>2, <3>1, <3>2, Lengths
  <2>5. /\ owed' \in [Clients -> Seq(Byte)]
        /\ \/ /\ server' = Answering(c) /\ Ended(taken'[c], MaxLen)
              /\ owed'[c] = Reply /\ \A d \in Clients \ {c} : owed'[d] = owed[d]
           \/ /\ server' = Serving(c) /\ ~Ended(taken'[c], MaxLen)
              /\ UNCHANGED owed
    BY <1>1, <1>4, <2>3, SocketAssumption DEF Inv, SocketTypeOK, LineEnds, Ended
  <2>6. Answer(c)' \in {<<>>, Reply} /\ (server' = Serving(c) => Answer(c)' = <<>>)
    <3>1. got[c] = <<>> /\ down[c] = <<>>
      BY <1>2, <1>3, EmptyParts DEF Answer
    <3>2. Bytes(Reply)
      BY SocketAssumption DEF Bytes
    <3> QED
      BY <1>1, <1>3, <2>5, <3>1, <3>2, EmptyParts, Places DEF Answer
  <2>7. SocketTypeOK'
    <3>1. taken' \in [Clients -> Seq(Byte)] /\ up' \in [Clients -> Seq(Byte)]
      BY <1>4, <2>1, <2>2 DEF Inv, SocketTypeOK, Bytes
    <3>2. Len(up'[c]) <= Cap
      BY <1>2, <2>2, Lengths, SocketAssumption DEF Inv, SocketTypeOK
    <3>3. \A d \in Clients : Len(up'[d]) <= Cap /\ Len(down'[d]) <= Cap
      BY <1>1, <1>4, <3>2 DEF Inv, SocketTypeOK
    <3>4. c \in tokens \ ready
      BY <1>1, Places DEF Inv, SocketTypeOK
    <3> QED
      BY <1>1, <2>5, <3>1, <3>3, <3>4 DEF Inv, SocketTypeOK
  <2>8. InvOf(c)'
    <3>1. At(c)'
      BY <2>5 DEF At
    <3>2. ServedOnce(c)'
      BY <1>1, <1>3, <2>5, <2>6, <3>1, Places DEF InvOf, ServedOnce
    <3>3. LinesEnd(c)'
      BY <1>1, <1>3, <2>4, <2>5, <2>6, Places DEF InvOf, LinesEnd, Ended
    <3>4. Conserved(c)'
      BY <1>3, <2>2, <2>6 DEF InvOf, Conserved
    <3> QED
      BY <3>2, <3>3, <3>4 DEF InvOf
  <2>9. ASSUME NEW d \in Clients, d # c PROVE InvOf(d)'
    <3>1. Same(d)
      BY <1>1, <1>4, <2>5, <2>9 DEF Inv, SocketTypeOK, Same
    <3>2. SamePlace(d)
      BY <1>1, <2>5, <2>9, Places DEF SamePlace
    <3> QED
      BY <3>1, <3>2, SameKeeps DEF Inv
  <2> QED
    BY <2>7, <2>8, <2>9 DEF Inv
<1>5. CASE server' = Leaving(c) /\ UNCHANGED <<taken, owed, up>>
  <2>1. c \in tokens \ ready
    BY <1>1, Places DEF Inv, SocketTypeOK
  <2>2. SocketTypeOK'
    BY <1>1, <1>5, <2>1 DEF Inv, SocketTypeOK
  <2>3. Sent(c)' = Sent(c) /\ Answer(c)' = Answer(c) /\ At(c)'
        /\ server' # Serving(c) /\ server' # Answering(c)
    BY <1>1, <1>5, Places DEF Sent, Answer, At
  <2>4. InvOf(c)'
    BY <1>1, <1>3, <1>5, <2>3 DEF InvOf, ServedOnce, LinesEnd, Conserved, Ended
  <2>5. ASSUME NEW d \in Clients, d # c PROVE InvOf(d)'
    <3>1. Same(d) /\ SamePlace(d)
      BY <1>1, <1>5, <2>5, Places DEF Same, SamePlace
    <3> QED
      BY <3>1, SameKeeps DEF Inv
  <2> QED
    BY <2>2, <2>4, <2>5 DEF Inv
<1> QED
  BY <1>4, <1>5 DEF ServerReads

\* A slice moves from what is owed to what is under way.
LEMMA ServerWritesInv ==
    ASSUME Inv, NEW c \in Clients, ServerWrites(c)
    PROVE  Inv'
<1>1. /\ server = Answering(c)
      /\ UNCHANGED <<client, unsent, got, stream, taken, tokens, ready, up>>
  BY DEF ServerWrites, clientVars
<1>2. Bytes(got[c]) /\ Bytes(down[c]) /\ Bytes(owed[c])
  BY Buffers DEF Inv
<1>3. InvOf(c) /\ At(c) /\ stream[c] = "open" /\ Ended(taken[c], MaxLen)
  BY <1>1 DEF Inv, InvOf, ServedOnce, LinesEnd, At
<1>4. server' \in {Answering(c), Leaving(c)}
  BY <1>1 DEF ServerWrites
<1>5. SocketTypeOK' /\ Answer(c)' = Answer(c) /\ \A d \in Clients \ {c} : Same(d)
  <2>1. c \in tokens \ ready
    BY <1>1, Places DEF Inv, SocketTypeOK
  <2>2. CASE UNCHANGED <<down, owed>>
    BY <1>1, <1>4, <2>1, <2>2 DEF Inv, SocketTypeOK, Answer, Same
  <2>3. ASSUME NEW n \in Slices(owed[c], down[c]),
               down' = [down EXCEPT ![c] = @ \o SubSeq(owed[c], 1, n)],
               owed' = [owed EXCEPT ![c] = Rest(@, n)]
        PROVE  SocketTypeOK' /\ Answer(c)' = Answer(c) /\ \A d \in Clients \ {c} : Same(d)
    <3>1. n \in 1..Len(owed[c]) /\ Len(down[c]) + n <= Cap
      BY DEF Slices
    <3>2. down'[c] = Cat(down[c], Prefix(owed[c], n)) /\ owed'[c] = Rest(owed[c], n)
      BY <2>3 DEF Inv, SocketTypeOK, Cat, Prefix
    <3>3. Bytes(Prefix(owed[c], n)) /\ Len(Prefix(owed[c], n)) = n /\ Bytes(owed'[c])
      BY <1>2, <3>1, <3>2, CutInTwo
    <3>4. Bytes(down'[c]) /\ Len(down'[c]) = Len(down[c]) + n
      BY <1>2, <3>2, <3>3, CatFacts
    <3>5. Answer(c)' = Answer(c)
      BY <1>1, <1>2, <3>1, <3>2, SliceMoves DEF Answer
    <3>6. down' \in [Clients -> Seq(Byte)] /\ owed' \in [Clients -> Seq(Byte)]
      BY <2>3, <3>2, <3>3, <3>4 DEF Inv, SocketTypeOK, Bytes
    <3>7. \A d \in Clients : Len(up'[d]) <= Cap /\ Len(down'[d]) <= Cap
      BY <1>1, <2>3, <3>1, <3>4 DEF Inv, SocketTypeOK
    <3>8. SocketTypeOK'
      BY <1>1, <1>4, <2>1, <3>6, <3>7 DEF Inv, SocketTypeOK
    <3>9. \A d \in Clients \ {c} : Same(d)
      BY <1>1, <2>3 DEF Inv, SocketTypeOK, Same
    <3> QED
      BY <3>5, <3>8, <3>9
  <2> QED
    BY <2>2, <2>3 DEF ServerWrites
<1>6. InvOf(c)'
  <2>1. Sent(c)' = Sent(c) /\ At(c)' /\ server' # Serving(c)
    BY <1>1, <1>4, Places DEF Sent, At
  <2>2. ServedOnce(c)'
    BY <1>1, <1>3, <2>1 DEF InvOf, ServedOnce
  <2>3. LinesEnd(c)'
    BY <1>1, <1>3, <1>5 DEF InvOf, LinesEnd, Ended
  <2>4. Conserved(c)'
    BY <1>3, <1>5, <2>1 DEF InvOf, Conserved
  <2> QED
    BY <2>2, <2>3, <2>4 DEF InvOf
<1>7. ASSUME NEW d \in Clients, d # c PROVE InvOf(d)'
  <2>1. SamePlace(d)
    BY <1>1, <1>4, <1>7, Places DEF SamePlace
  <2> QED
    BY <1>5, <1>7, <2>1, SameKeeps DEF Inv
<1> QED
  BY <1>5, <1>6, <1>7 DEF Inv

LEMMA DropInv ==
    ASSUME Inv, NEW c \in Clients, Drop(c)
    PROVE  Inv'
<1>1. /\ server = Leaving(c) /\ server' = Polling
      /\ tokens' = tokens \ {c}
      /\ stream' = [stream EXCEPT ![c] = "closed"]
      /\ UNCHANGED <<client, unsent, got, taken, owed, ready, up, down>>
  BY DEF Drop, TokensWithout, clientVars
<1>2. c \in tokens \ ready
  BY <1>1, Places DEF Inv, SocketTypeOK
<1>3. SocketTypeOK'
  BY <1>1, <1>2 DEF Inv, SocketTypeOK
<1>4. InvOf(c)'
  <2>1. Sent(c)' = Sent(c) /\ Answer(c)' = Answer(c) /\ ~At(c)'
        /\ server' # Serving(c) /\ server' # Answering(c)
    BY <1>1, Places DEF Sent, Answer, At
  <2>2. stream'[c] = "closed" /\ stream[c] = "open" /\ InvOf(c)
    BY <1>1, <1>2 DEF Inv, SocketTypeOK
  <2> QED
    BY <1>1, <2>1, <2>2 DEF InvOf, ServedOnce, LinesEnd, Conserved, Ended
<1>5. ASSUME NEW d \in Clients, d # c PROVE InvOf(d)'
  <2>1. Same(d) /\ SamePlace(d)
    BY <1>1, <1>5, Places DEF Inv, SocketTypeOK, Same, SamePlace
  <2> QED
    BY <2>1, SameKeeps DEF Inv
<1> QED
  BY <1>3, <1>4, <1>5 DEF Inv

LEMMA StepInv == Inv /\ [Next]_vars => Inv'
<1> SUFFICES ASSUME Inv, [Next]_vars PROVE Inv'
  OBVIOUS
<1>1. CASE Poll
  BY <1>1, PollInv
<1>2. ASSUME NEW c \in Clients,
             Accept(c) \/ Serve(c) \/ ServerReads(c) \/ ServerWrites(c) \/ Drop(c)
      PROVE  Inv'
  BY <1>2, AcceptInv, ServeInv, ServerReadsInv, ServerWritesInv, DropInv
<1>3. ASSUME NEW c \in Clients, Client(c) PROVE Inv'
  BY <1>3, ConnectInv, ClientWritesInv, ClientReadsInv, QuitInv DEF Client
<1>4. CASE UNCHANGED vars
  <2>1. /\ UNCHANGED <<client, unsent, got, stream, taken, owed, tokens, server, ready, up, down>>
    BY <1>4 DEF vars, clientVars, serverVars
  <2>2. SocketTypeOK'
    BY <2>1 DEF Inv, SocketTypeOK
  <2>3. ASSUME NEW c \in Clients PROVE InvOf(c)'
    BY <2>1, <2>3, SameKeeps DEF Inv, Same, SamePlace
  <2> QED
    BY <2>2, <2>3 DEF Inv
<1> QED
  BY <1>1, <1>2, <1>3, <1>4 DEF Next, Server

-----------------------------------------------------------------------------
LEMMA AlwaysInv == Spec => []Inv
BY InitInv, StepInv, PTL DEF Spec

\* The tokens are those of the streams the server has, and streams hold what they can.
THEOREM SocketTypeCorrect == Spec => []SocketTypeOK
<1>1. Inv => SocketTypeOK
  BY DEF Inv
<1> QED
  BY <1>1, AlwaysInv, PTL

\* Requests and answers arrive byte for byte, in order and without a gap.
THEOREM BytesAlwaysInOrder == Spec => []BytesInOrder
<1>1. Inv => BytesInOrder
  BY DEF Inv, InvOf, Conserved, Sent, Answer, Cat, BytesInOrder
<1> QED
  BY <1>1, AlwaysInv, PTL

\* The server takes one line, no more, and answers only that.
THEOREM LineAlwaysFramed == Spec => []LineIsFramed
<1>1. Inv => LineIsFramed
  BY DEF Inv, InvOf, LinesEnd, Answer, Cat, LineIsFramed, Answered, Ended, Last
<1> QED
  BY <1>1, AlwaysInv, PTL

\* A client that has read a line has read the whole answer.
THEOREM AnswerAlwaysWhole == Spec => []WholeAnswer
<1>1. Inv => WholeAnswer
  <2> SUFFICES ASSUME Inv, IsLine(Reply, ReplyMax), NEW c \in Clients, client[c] = "answered"
               PROVE  got[c] = Reply
    BY DEF WholeAnswer
  <2> DEFINE line == got[c]
             tail == Cat(down[c], owed[c])
  <2>1. Bytes(line) /\ Bytes(tail) /\ Ended(line, ReplyMax) /\ Bytes(Reply)
    BY Buffers, CatFacts, SocketAssumption DEF Inv, InvOf, LinesEnd, Bytes
  <2>2. Cat(line, tail) \in {<<>>, Reply}
    BY Buffers, CatFacts DEF Inv, InvOf, Conserved, Answer
  <2> HIDE DEF line, tail
  <2>3. line \o tail = Reply
    BY <2>1, <2>2, ConcatEqualIffEmpty DEF Bytes, Cat, Ended
  <2>4. /\ Len(line) \in Nat \ {0} /\ Len(tail) \in Nat
        /\ Len(Reply) = Len(line) + Len(tail)
        /\ Reply[Len(line)] = line[Len(line)]
        /\ DOMAIN Reply = 1..Len(Reply)
    BY <2>1, <2>3, ConcatProperties, EmptySeq, LenProperties DEF Bytes, Ended
  <2>5. Len(line) = Len(Reply)
    BY <2>1, <2>4, SocketAssumption DEF IsLine, Ended
  <2>6. tail = <<>>
    BY <2>1, <2>4, <2>5, Lengths
  <2>7. line = Reply
    BY <2>1, <2>3, <2>6, ConcatEmptySeq DEF Bytes
  <2> QED
    BY <2>7 DEF line
<1> QED
  BY <1>1, AlwaysInv, PTL

=============================================================================
