\* Two requests that are a line, one that is too long for the server and for the stream, and
\* one that is not ended, answered with more than a stream holds.
CONSTANTS
    brief = brief
    polite = polite
    verbose = verbose
    silent = silent
    Newline = Newline
    Other = Other
    Clients <- FourClients
    Request <- Requests
    Reply <- Answer
    MaxLen = 2
    ReplyMax = 3
    Cap = 2
    Tried <- TheTried
    Quitters <- TheQuitters
SPECIFICATION FairSpec
\* The server has nothing to do when every client is gone.
CHECK_DEADLOCK FALSE
INVARIANTS
    SocketTypeOK
    BytesInOrder
    LineIsFramed
    WholeAnswer
PROPERTIES
    EventuallyServed
