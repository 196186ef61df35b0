----------------------------- MODULE SocketServer -----------------------------
(***************************************************************************)
(* Clients and a server over the streams of services/socket.rs, with the   *)
(* socket tokens of services/watch.rs.                                     *)
(*                                                                         *)
(* A server accepts, registers the stream, reads a line when its token is  *)
(* reported, writes the answer, unregisters and drops the stream, all in   *)
(* the loop that polls; a client connects, writes its request and reads a  *)
(* line.  The programs of both are the callers'; what reading and writing  *)
(* do is socket.rs, on nonblocking descriptors: write_all and              *)
(* read_line_blocking try again until the other side makes room or sends,  *)
(* and a slice may be written in part.                                     *)
(*                                                                         *)
(* Of a byte it matters only whether it is a newline.  A poll that returns *)
(* an error after a socket's event was read loses its token but changes    *)
(* nothing here: the descriptors are level-triggered.                      *)
(***************************************************************************)
EXTENDS Naturals, Sequences, SequencesExt

CONSTANTS
    Clients,
    Request,        \* what each client writes
    Reply,          \* what the server answers
    MaxLen,         \* max_len of the server's read_line_blocking
    ReplyMax,       \* of the clients'
    Cap,            \* how much a stream holds in each direction
    Tried,          \* clients answered with try_write_all
    Quitters,       \* clients that may close at any moment
    Newline, Other

Byte == {Newline, Other}

ASSUME SocketAssumption ==
    /\ Newline # Other
    /\ Request \in [Clients -> Seq(Byte)]
    /\ Reply \in Seq(Byte)
    /\ MaxLen \in Nat /\ ReplyMax \in Nat
    /\ Cap \in Nat \ {0}
    /\ Tried \subseteq Clients /\ Quitters \subseteq Clients

VARIABLES
    client,         \* where each client is
    unsent,         \* what each client's write_all has left
    got,            \* the line each client reads
    stream,         \* the server's end of each stream
    up, down,       \* what each stream holds, to the server and to the client
    taken,          \* the line the server has read from each
    owed,           \* what the server's write has left of each answer
    tokens,         \* socket_tokens, by the streams they are of
    server,         \* where the server is
    ready           \* the streams of the poll it is working on

clientVars == <<client, unsent, got>>
serverVars == <<stream, taken, owed, tokens, server, ready>>
vars == <<clientVars, serverVars, up, down>>

Polling == <<"polling">>
Serving(c) == <<"reading", c>>
Answering(c) == <<"writing", c>>
Leaving(c) == <<"leaving", c>>

-----------------------------------------------------------------------------
(* EngineUnixStream.                                                       *)

\* How much of a slice the kernel may take: none of it when the stream is full.
Slices(buf, wire) == {n \in 1..Len(buf) : Len(wire) + n <= Cap}

\* Mutant: after a write in part the whole slice is written again.
WholeSlice(buf, n) == IF n = Len(buf) THEN <<>> ELSE buf
Rest(buf, n) == SubSeq(buf, n + 1, Len(buf))

\* Mutant: a line may be one byte longer than max_len.
LineEndsLate(line, max) == line[Len(line)] = Newline \/ Len(line) > max
LineEnds(line, max) == line[Len(line)] = Newline \/ Len(line) >= max

\* Mutant: the end of the stream is taken for nothing to read yet.
NotYet(wire, peer_closed) == FALSE
EndOfStream(wire, peer_closed) == wire = <<>> /\ peer_closed

-----------------------------------------------------------------------------
(* Clients.                                                                *)

Connect(c) ==
    /\ client[c] = "out"
    /\ client' = [client EXCEPT ![c] = "writing"]
    /\ stream' = [stream EXCEPT ![c] = "queued"]
    /\ UNCHANGED <<unsent, got, up, down, taken, owed, tokens, server, ready>>

\* write_all of the request; an error when the server has closed.
ClientWrites(c) ==
    /\ client[c] = "writing"
    /\ \/ /\ unsent[c] = <<>>
          /\ client' = [client EXCEPT ![c] = "reading"]
          /\ UNCHANGED <<unsent, up>>
       \/ /\ stream[c] # "closed"
          /\ \E n \in Slices(unsent[c], up[c]) :
                /\ up' = [up EXCEPT ![c] = @ \o SubSeq(unsent[c], 1, n)]
                /\ unsent' = [unsent EXCEPT ![c] = Rest(@, n)]
          /\ UNCHANGED client
       \/ /\ stream[c] = "closed" /\ unsent[c] # <<>>
          /\ client' = [client EXCEPT ![c] = "gone"]
          /\ UNCHANGED <<unsent, up>>
    /\ UNCHANGED <<got, serverVars, down>>

\* read_line_blocking of the answer.
ClientReads(c) ==
    /\ client[c] = "reading"
    /\ \/ /\ down[c] # <<>>
          /\ got' = [got EXCEPT ![c] = Append(@, Head(down[c]))]
          /\ down' = [down EXCEPT ![c] = Tail(@)]
          /\ client' = [client EXCEPT ![c] = IF LineEnds(got'[c], ReplyMax) THEN "answered" ELSE @]
       \/ /\ EndOfStream(down[c], stream[c] = "closed")
          /\ client' = [client EXCEPT ![c] = "gone"]
          /\ UNCHANGED <<got, down>>
    /\ UNCHANGED <<unsent, serverVars, up>>

Quit(c) ==
    /\ c \in Quitters
    /\ client[c] \in {"writing", "reading"}
    /\ client' = [client EXCEPT ![c] = "gone"]
    /\ UNCHANGED <<unsent, got, serverVars, up, down>>

Closed(c) == client[c] \in {"gone", "answered"}

-----------------------------------------------------------------------------
(* The server.                                                             *)

\* A stream is readable when it holds bytes or the client has closed.
Readable == {c \in tokens : up[c] # <<>> \/ Closed(c)}
Queued == {c \in Clients : stream[c] = "queued"}

\* poll_once_with_socket_events: the tokens of sockets that are ready.
Poll ==
    /\ server = Polling /\ ready = {}
    /\ ready' = Readable
    /\ UNCHANGED <<clientVars, stream, taken, owed, tokens, server, up, down>>

\* The listener is ready: accept, register_socket_stream.
Accept(c) ==
    /\ server = Polling
    /\ c \in Queued
    /\ stream' = [stream EXCEPT ![c] = "open"]
    /\ tokens' = tokens \cup {c}
    /\ UNCHANGED <<clientVars, taken, owed, server, ready, up, down>>

Serve(c) ==
    /\ server = Polling
    /\ c \in ready
    /\ ready' = ready \ {c}
    /\ server' = Serving(c)
    /\ UNCHANGED <<clientVars, stream, taken, owed, tokens, up, down>>

\* read_line_blocking of the request, a byte at a time; bytes of a line that was not
\* ended are lost with the stream.
ServerReads(c) ==
    /\ server = Serving(c)
    /\ \/ /\ up[c] # <<>>
          /\ taken' = [taken EXCEPT ![c] = Append(@, Head(up[c]))]
          /\ up' = [up EXCEPT ![c] = Tail(@)]
          /\ IF LineEnds(taken'[c], MaxLen)
             THEN server' = Answering(c) /\ owed' = [owed EXCEPT ![c] = Reply]
             ELSE UNCHANGED <<server, owed>>
       \/ /\ EndOfStream(up[c], Closed(c))
          /\ server' = Leaving(c)
          /\ UNCHANGED <<taken, owed, up>>
    /\ UNCHANGED <<clientVars, stream, tokens, ready, down>>

\* write_all, to the end or to an error; try_write_all, one slice or none of it.
ServerWrites(c) ==
    /\ server = Answering(c)
    /\ \/ /\ ~Closed(c)
          /\ \E n \in Slices(owed[c], down[c]) :
                /\ down' = [down EXCEPT ![c] = @ \o SubSeq(owed[c], 1, n)]
                /\ owed' = [owed EXCEPT ![c] = Rest(@, n)]
                /\ server' = IF owed'[c] = <<>> \/ c \in Tried THEN Leaving(c) ELSE server
       \/ /\ \/ Closed(c)
             \/ owed[c] = <<>>
             \/ c \in Tried /\ Slices(owed[c], down[c]) = {}
          /\ server' = Leaving(c)
          /\ UNCHANGED <<down, owed>>
    /\ UNCHANGED <<clientVars, stream, taken, tokens, ready, up>>

\* Mutant: the token outlives the stream.
TokenKept(c) == tokens
TokensWithout(c) == tokens \ {c}

\* unregister_socket_stream, and the stream is dropped.
Drop(c) ==
    /\ server = Leaving(c)
    /\ server' = Polling
    /\ tokens' = TokensWithout(c)
    /\ stream' = [stream EXCEPT ![c] = "closed"]
    /\ UNCHANGED <<clientVars, taken, owed, ready, up, down>>

-----------------------------------------------------------------------------
Init ==
    /\ client = [c \in Clients |-> "out"]
    /\ unsent = Request
    /\ got = [c \in Clients |-> <<>>]
    /\ stream = [c \in Clients |-> "none"]
    /\ up = [c \in Clients |-> <<>>]
    /\ down = [c \in Clients |-> <<>>]
    /\ taken = [c \in Clients |-> <<>>]
    /\ owed = [c \in Clients |-> <<>>]
    /\ tokens = {}
    /\ server = Polling
    /\ ready = {}

Client(c) == Connect(c) \/ ClientWrites(c) \/ ClientReads(c) \/ Quit(c)

Server ==
    \/ Poll
    \/ \E c \in Clients : Accept(c) \/ Serve(c) \/ ServerReads(c) \/ ServerWrites(c) \/ Drop(c)

Next == Server \/ \E c \in Clients : Client(c)

Spec == Init /\ [][Next]_vars

\* Both sides try again until they are done, and the server polls again.
Fairness ==
    /\ WF_vars(Server)
    /\ \A c \in Clients : WF_vars(ClientWrites(c)) /\ WF_vars(ClientReads(c))

FairSpec == Spec /\ Fairness

-----------------------------------------------------------------------------
(* Properties.                                                             *)

\* Types; no token is left of a stream that was dropped, and none is missing of one that
\* is open; the server reads from, answers and drops only streams it still has.
SocketTypeOK ==
    /\ client \in [Clients -> {"out", "writing", "reading", "answered", "gone"}]
    /\ stream \in [Clients -> {"none", "queued", "open", "closed"}]
    /\ \A buffers \in {unsent, got, up, down, taken, owed} : buffers \in [Clients -> Seq(Byte)]
    /\ \A c \in Clients : Len(up[c]) <= Cap /\ Len(down[c]) <= Cap
    /\ tokens = {c \in Clients : stream[c] = "open"}
    /\ ready \subseteq tokens
    /\ \/ server = Polling
       \/ \E c \in tokens \ ready : server \in {Serving(c), Answering(c), Leaving(c)}

\* However the slices are cut, and whoever gives up, what was read and what is under way
\* and what is left of a request or an answer make up that request or answer: nothing is
\* lost, doubled or swapped.
BytesInOrder ==
    \A c \in Clients :
        /\ taken[c] \o up[c] \o unsent[c] = Request[c]
        /\ got[c] \o down[c] \o owed[c] \in {<<>>, Reply}

Answered(c) == server = Answering(c) \/ got[c] \o down[c] \o owed[c] # <<>>

\* The server takes one line of at most max_len bytes from a stream (one byte if that
\* is none), stops at its end and does not answer before it.
LineIsFramed ==
    \A c \in Clients :
        /\ \A i \in 1..(Len(taken[c]) - 1) : taken[c][i] # Newline /\ i < MaxLen
        /\ Answered(c) =>
            taken[c] # <<>> /\ (Last(taken[c]) = Newline \/ Len(taken[c]) >= MaxLen)

IsLine(bytes, max) ==
    /\ bytes # <<>> /\ Len(bytes) <= max
    /\ \A i \in DOMAIN bytes : bytes[i] = Newline <=> i = Len(bytes)

\* A client that has read a line has read the whole answer, also when the server gave up
\* after a part of it (try_write_all) or the client's own request was cut off.
WholeAnswer ==
    IsLine(Reply, ReplyMax) => \A c \in Clients : client[c] = "answered" => got[c] = Reply

\* The server and a client wait for each other: for the end of a line the client takes
\* for ended, or each for room for what it writes.
WaitForEachOther(c) ==
    \/ /\ server = Serving(c)
       /\ up[c] = <<>> /\ client[c] = "reading"
    \/ /\ server = Answering(c)
       /\ client[c] = "writing"
       /\ Slices(owed[c], down[c]) = {} /\ Slices(unsent[c], up[c]) = {}

\* Every client that connects is answered or turned away, though a client that closes
\* leaves its stream behind, unless the server is held up for ever by a client with
\* which it waits for each other: it then polls nothing else either.
EventuallyServed ==
    \A c \in Clients :
        client[c] = "writing" ~>
            (Closed(c) \/ [](\E d \in Clients : WaitForEachOther(d)))

=============================================================================
