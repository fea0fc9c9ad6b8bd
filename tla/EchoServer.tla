---------------------------- MODULE EchoServer ----------------------------
(***************************************************************************)
(* echo_srv.cc: one thread that serves its clients in a select loop. The    *)
(* peers connect, send, receive and hang up at any time between two system  *)
(* calls of the server. A text is a sequence of tokens: "nl" ends a line, a *)
(* line with the token "exit" stops the server, "hello" is the greeting.    *)
(***************************************************************************)
EXTENDS Integers, FiniteSets, Sequences, SequencesExt

CONSTANTS
    Peers,      \* each connects once; its socket's number stands for it
    Tokens,     \* what a peer sends, a subset of {"x", "nl", "exit"}
    MaxSent,    \* how many tokens each peer sends at most
    BufSize,    \* sizeof(buf) in handle_read
    Room        \* tokens a socket takes before write would block

ASSUME EchoAssumption ==
    /\ IsFiniteSet(Peers)
    /\ MaxSent \in [Peers -> Nat] /\ BufSize \in Nat \ {0} /\ Room \in Nat \ {0}
    /\ Tokens \subseteq {"x", "nl", "exit"}

VARIABLES
    slots,      \* the memory of the vector clients; the first size are clients,
    size,       \* the others are destroyed objects
    running,
    pc,         \* "select", "accept", "pass", "read", "write", "stopped", "down"
    it, end,    \* the iterators of the pass over clients, as indices
    readset, writeset,
    backlog,    \* connections not accepted yet
    open,       \* accepted sockets not closed
    inq,        \* what a peer sent and the server has not read
    sent,       \* what a peer sent so far
    got,        \* what the server wrote to a peer
    unread,     \* how much of it the peer has not taken
    hungup,     \* peers that closed their end
    overrun     \* a pass has gone on to a destroyed object

srvVars  == <<slots, size, running, pc, it, end, readset, writeset, open, overrun>>
peerVars == <<backlog, inq, sent, got, unread, hungup>>
vars == <<srvVars, peerVars>>

DIR_IN == "in"
DIR_OUT == "out"
ClientCtx(fd) == [fd |-> fd, dir |-> DIR_IN, rd_buf |-> <<>>, wr_buf |-> <<"hello">>]
clients == {slots[i] : i \in 1 .. size}
Min2(m, n) == IF m < n THEN m ELSE n

Init ==
    /\ slots = <<>> /\ size = 0 /\ running = TRUE /\ pc = "select"
    /\ it = 1 /\ end = 0 /\ readset = {} /\ writeset = {}
    /\ open = {} /\ overrun = FALSE
    /\ backlog = <<>> /\ hungup = {}
    /\ inq = [p \in Peers |-> <<>>] /\ sent = [p \in Peers |-> <<>>]
    /\ got = [p \in Peers |-> <<>>] /\ unread = [p \in Peers |-> 0]

---------------------------------------------------------------------------
(* Peers, external *)

Connected(p) == p \in open \/ Contains(backlog, p)

PeerConnect(p) ==
    /\ ~Connected(p) /\ p \notin hungup
    /\ backlog' = Append(backlog, p)
    /\ UNCHANGED <<srvVars, inq, sent, got, unread, hungup>>

PeerSend(p, t) ==
    /\ Connected(p) /\ p \notin hungup /\ Len(sent[p]) < MaxSent[p]
    /\ inq' = [inq EXCEPT ![p] = Append(@, t)]
    /\ sent' = [sent EXCEPT ![p] = Append(@, t)]
    /\ UNCHANGED <<srvVars, backlog, got, unread, hungup>>

PeerReceive(p) ==
    /\ unread[p] > 0 /\ p \notin hungup
    /\ unread' = [unread EXCEPT ![p] = 0]
    /\ UNCHANGED <<srvVars, backlog, inq, sent, got, hungup>>

PeerHangup(p) ==
    /\ Connected(p) /\ p \notin hungup
    /\ hungup' = hungup \cup {p}
    /\ UNCHANGED <<srvVars, backlog, inq, sent, got, unread>>

---------------------------------------------------------------------------
(* main *)

Readable(p) == inq[p] # <<>> \/ p \in hungup
Writable(p) == unread[p] < Room \/ p \in hungup

\* wrong: every client is watched for reading only
WriteSetNone == {}

\* The clients that main watches for writing, as select leaves them.
WriteSet == {c.fd : c \in {d \in clients : d.dir = DIR_OUT /\ Writable(d.fd)}}

ReadSet == {c.fd : c \in {d \in clients : d.dir = DIR_IN /\ Readable(d.fd)}}

\* The head of the loop: select, which blocks until something is ready.
Select ==
    /\ pc = "select" /\ running
    /\ readset' = ReadSet
    /\ writeset' = WriteSet
    /\ ReadSet # {} \/ WriteSet # {} \/ backlog # <<>>
    /\ pc' = IF backlog # <<>> THEN "accept" ELSE "pass"
    /\ slots' = SubSeq(slots, 1, size)
    /\ it' = 1 /\ end' = size
    /\ UNCHANGED <<size, running, open, overrun, peerVars>>

Stop ==
    /\ pc = "select" /\ ~running
    /\ pc' = "stopped"
    /\ UNCHANGED <<slots, size, running, it, end, readset, writeset, open, overrun, peerVars>>

\* handle_new_connections: accept until it would block.
handle_new_connections ==
    /\ pc = "accept"
    /\ slots' = slots \o [i \in 1 .. Len(backlog) |-> ClientCtx(backlog[i])]
    /\ size' = size + Len(backlog)
    /\ end' = size'
    /\ open' = open \cup ToSet(backlog)
    /\ backlog' = <<>>
    /\ pc' = "pass"
    /\ UNCHANGED <<running, it, readset, writeset, overrun, inq, sent, got, unread, hungup>>

\* One turn of the pass over clients: what the sets say of the client there.
Visit ==
    /\ pc = "pass" /\ it <= end
    /\ LET fd == slots[it].fd IN
         /\ pc' = IF fd \in readset THEN "read" ELSE IF fd \in writeset THEN "write" ELSE "pass"
         /\ it' = IF fd \in readset \cup writeset THEN it ELSE it + 1
    /\ overrun' = (overrun \/ it > size)
    /\ UNCHANGED <<slots, size, running, end, readset, writeset, open, peerVars>>

PassEnds ==
    /\ pc = "pass" /\ it = end + 1
    /\ pc' = "select"
    /\ UNCHANGED <<slots, size, running, it, end, readset, writeset, open, overrun, peerVars>>

\* The object visited is destroyed: the server may crash on it.
Crash ==
    /\ pc \in {"read", "write"} /\ it > size
    /\ pc' = "down"
    /\ UNCHANGED <<slots, size, running, it, end, readset, writeset, open, overrun, peerVars>>

\* clients.erase(it): the objects behind move down, their strings with them,
\* and the last object is destroyed; its fd and dir stay in memory.
Erased(i) ==
    [k \in 1 .. Len(slots) |->
       IF k = size THEN [slots[k] EXCEPT !.rd_buf = <<>>, !.wr_buf = <<>>]
       ELSE IF i <= k /\ k < size THEN slots[k + 1]
       ELSE slots[k]]

\* wrong: the socket of the erased client stays open
EraseOpen ==
    /\ slots' = Erased(it)
    /\ size' = size - 1
    /\ it' = it + 1
    /\ pc' = "pass"
    /\ UNCHANGED open

\* A handler returned false: close, erase, and the loop's ++it passes the
\* client that has moved to the erased one's place.
Erase ==
    /\ open' = open \ {slots[it].fd}
    /\ slots' = Erased(it)
    /\ size' = size - 1
    /\ it' = it + 1
    /\ pc' = "pass"

NextClient == pc' = "pass" /\ it' = it + 1

---------------------------------------------------------------------------
(* handle_read: read until it would block *)

\* wrong: what follows the first line is dropped
LineTakenAlone(c, eol) ==
    [c EXCEPT !.wr_buf = @ \o SubSeq(c.rd_buf, 1, eol), !.rd_buf = <<>>, !.dir = DIR_OUT]

\* The first line of rd_buf moves to wr_buf.
LineTaken(c, eol) ==
    [c EXCEPT !.wr_buf = @ \o SubSeq(c.rd_buf, 1, eol),
              !.rd_buf = SubSeq(@, eol + 1, Len(@)),
              !.dir = DIR_OUT]

ReadSome ==
    /\ pc = "read"
    /\ LET p   == slots[it].fd
           r   == Min2(Len(inq[p]), BufSize)
           c   == [slots[it] EXCEPT !.rd_buf = @ \o SubSeq(inq[p], 1, r)]
           eols == {i \in 1 .. Len(c.rd_buf) : c.rd_buf[i] = "nl"}
           eol == CHOOSE i \in eols : \A j \in eols : i <= j
       IN  /\ r > 0 /\ p \in open
           /\ inq' = [inq EXCEPT ![p] = SubSeq(@, r + 1, Len(@))]
           /\ slots' = [slots EXCEPT ![it] = IF eols = {} THEN c ELSE LineTaken(c, eol)]
           /\ running' = (running /\ (eols = {} \/ ~Contains(SubSeq(c.rd_buf, 1, eol), "exit")))
    /\ UNCHANGED <<size, pc, it, end, readset, writeset, open, overrun,
                   backlog, sent, got, unread, hungup>>

ReadBlocks ==
    /\ pc = "read"
    /\ LET p == slots[it].fd IN p \in open /\ inq[p] = <<>> /\ p \notin hungup
    /\ NextClient
    /\ UNCHANGED <<slots, size, running, end, readset, writeset, open, overrun, peerVars>>

ReadEnds ==
    /\ pc = "read"
    /\ LET p == slots[it].fd IN p \in open /\ inq[p] = <<>> /\ p \in hungup
    /\ Erase
    /\ UNCHANGED <<running, end, readset, writeset, overrun, peerVars>>

\* Any error but EAGAIN ends the server: the peer has reset the connection, or
\* the destroyed object names a socket that this pass has closed.
ReadFails ==
    /\ pc = "read" /\ (slots[it].fd \in hungup \/ slots[it].fd \notin open)
    /\ pc' = "down"
    /\ UNCHANGED <<slots, size, running, it, end, readset, writeset, open, overrun, peerVars>>

---------------------------------------------------------------------------
(* handle_write: write until all is written or it would block *)

WriteDone ==
    /\ pc = "write" /\ slots[it].wr_buf = <<>>
    /\ slots' = [slots EXCEPT ![it].dir = DIR_IN]
    /\ NextClient
    /\ UNCHANGED <<size, running, end, readset, writeset, open, overrun, peerVars>>

\* wrong: the buffer is written again from its start after a short write
WriteSomeAgain ==
    /\ pc = "write"
    /\ LET c == slots[it]
           n == Min2(Len(c.wr_buf), Room - unread[c.fd])
       IN  /\ n > 0 /\ c.fd \notin hungup
           /\ got' = [got EXCEPT ![c.fd] = @ \o SubSeq(c.wr_buf, 1, n)]
           /\ unread' = [unread EXCEPT ![c.fd] = @ + n]
           /\ slots' = IF n = Len(c.wr_buf) THEN [slots EXCEPT ![it].wr_buf = <<>>] ELSE slots
    /\ UNCHANGED <<size, running, pc, it, end, readset, writeset, open, overrun,
                   backlog, inq, sent, hungup>>

\* The socket takes what it has room for.
WriteSome ==
    /\ pc = "write"
    /\ LET c == slots[it]
           n == Min2(Len(c.wr_buf), Room - unread[c.fd])
       IN  /\ n > 0 /\ c.fd \notin hungup
           /\ got' = [got EXCEPT ![c.fd] = @ \o SubSeq(c.wr_buf, 1, n)]
           /\ unread' = [unread EXCEPT ![c.fd] = @ + n]
           /\ slots' = [slots EXCEPT ![it].wr_buf = SubSeq(@, n + 1, Len(@))]
    /\ UNCHANGED <<size, running, pc, it, end, readset, writeset, open, overrun,
                   backlog, inq, sent, hungup>>

WriteBlocks ==
    /\ pc = "write"
    /\ LET c == slots[it]
       IN c.wr_buf # <<>> /\ unread[c.fd] = Room /\ c.fd \notin hungup
    /\ NextClient
    /\ UNCHANGED <<slots, size, running, end, readset, writeset, open, overrun, peerVars>>

\* The peer is gone: the first write is lost, another one ends the server
\* (SIGPIPE is not ignored, and any other error is fatal).
WriteLost ==
    /\ pc = "write" /\ slots[it].wr_buf # <<>> /\ slots[it].fd \in hungup
    /\ \/ slots' = [slots EXCEPT ![it].wr_buf = <<>>] /\ UNCHANGED pc
       \/ pc' = "down" /\ UNCHANGED slots
    /\ UNCHANGED <<size, running, it, end, readset, writeset, open, overrun, peerVars>>

\* A write that returns 0 ends the client. A socket of Linux returns no 0 here:
\* the branch is there for a peer that is gone.
WriteNothing ==
    /\ pc = "write" /\ slots[it].wr_buf # <<>> /\ slots[it].fd \in hungup
    /\ Erase
    /\ UNCHANGED <<running, end, readset, writeset, overrun, peerVars>>

Server ==
    \/ Select \/ Stop \/ handle_new_connections \/ Visit \/ PassEnds \/ Crash
    \/ ReadSome \/ ReadBlocks \/ ReadEnds \/ ReadFails
    \/ WriteDone \/ WriteSome \/ WriteBlocks \/ WriteLost \/ WriteNothing

Next ==
    \/ Server
    \/ \E p \in Peers :
         \/ PeerConnect(p) \/ PeerReceive(p) \/ PeerHangup(p)
         \/ \E t \in Tokens : PeerSend(p, t)

Spec == Init /\ [][Next]_vars

\* The server is a running process, and a peer takes what was written to it.
FairSpec == Spec /\ WF_vars(Server) /\ \A p \in Peers : WF_vars(PeerReceive(p))

---------------------------------------------------------------------------
(* Properties *)

TypeOK ==
    /\ size \in 0 .. Cardinality(Peers) /\ size <= Len(slots)
    /\ \A i \in 1 .. Len(slots) : slots[i].fd \in Peers /\ slots[i].dir \in {DIR_IN, DIR_OUT}
    /\ it \in 1 .. end + 1
    /\ pc \in {"read", "write"} => it <= Len(slots)
    /\ \A p \in Peers : unread[p] \in 0 .. Room
    /\ pc \in {"select", "accept", "pass", "read", "write", "stopped", "down"}

\* As long as no pass ran past the end of the vector, nothing a client sent is
\* lost, doubled or moved: what it got, what is to be written, what waits for
\* the end of its line and what was not read make up what it sent.
NothingLost ==
    ~overrun => \A c \in clients : c.fd \notin hungup =>
        got[c.fd] \o c.wr_buf \o c.rd_buf \o inq[c.fd] = <<"hello">> \o sent[c.fd]

\* Even after a pass over a destroyed object, a client gets only its own
\* tokens, in the order it sent them.
SubSequence(s, t) ==
    \E f \in [1 .. Len(s) -> 1 .. Len(t)] :
      /\ \A i, j \in 1 .. Len(s) : i < j => f[i] < f[j]
      /\ \A i \in 1 .. Len(s) : s[i] = t[f[i]]
OwnTokensInOrder == \A p \in Peers : SubSequence(got[p], <<"hello">> \o sent[p])

\* Between two passes the open sockets are those of the clients, one each:
\* erasing during the pass leaks no socket and closes none that is in use.
OneSocketPerClient ==
    /\ TypeOK
    /\ pc = "select" => /\ open = {c.fd : c \in clients}
                        /\ Cardinality(open) = size

\* An answer is written in the end, unless the server ends or the client leaves:
\* a client that a pass skipped is served by a later one.
Answering(p) == \E c \in clients : c.fd = p /\ c.dir = DIR_OUT
AnswerDelivered ==
    \A p \in Peers : Answering(p) ~> ~Answering(p) \/ pc \in {"stopped", "down"}
=============================================================================
