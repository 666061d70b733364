------------------------------ MODULE Gateway ------------------------------
(***************************************************************************)
(* The gateway's edge-triggered event loop (epoll_server.c), its           *)
(* per-socket Connection and the HTTP/1.1 request parser (http_parser.c),  *)
(* and the response writer (http_response_send), together with the local   *)
(* clients that talk to it over TCP.                                       *)
(*                                                                         *)
(* Bytes are abstracted to segments: the header block of a request (sent   *)
(* in one piece, so "\r\n\r\n" is found exactly when it has arrived), its  *)
(* body, and the end of the stream.  The kernel side is modelled as far as *)
(* the code depends on it: a receive queue per socket, the epoll ready     *)
(* list (an fd is put on it by every arrival after registration, edge-     *)
(* triggered), the batch of events one epoll_wait returned, and the        *)
(* client's receive buffer, whose capacity bounds what write() accepts.    *)
(***************************************************************************)
EXTENDS Integers, Sequences, FiniteSets, Functions, SequencesExt

CONSTANTS
  Clients,     \* client sockets; each is also its fd on the server
  Listen,      \* the listening fd
  MaxReqs,     \* requests a client sends on one connection
  ReqKinds,    \* request shapes a client may send: [ka, body]
  SockCap      \* units of response a client's receive buffer holds

ASSUME Listen \notin Clients /\ MaxReqs \in Nat \ {0} /\ SockCap \in Nat \ {0}

Bodies == {"none", "small", "huge"}   \* "huge": Content-Length beyond GW_MAX_BODY_LEN
Req    == [ka : BOOLEAN, body : Bodies]
ASSUME ReqKinds \subseteq Req

ReqNo  == 1..MaxReqs
Seg    == [n : ReqNo, part : {"hdr", "body"}] \cup [n : {0}, part : {"eof"}]
Resp   == [n : ReqNo, whole : BOOLEAN, units : 1..2]

\* conn_state_t values the code reaches (PROCESSING, WRITING, WEBSOCKET
\* are never assigned on this path).
ReadingHeaders == "READING_HEADERS"
ReadingBody    == "READING_BODY"

VARIABLES
  cstate,      \* client side: "idle" (not connected), "connected", "gone"
  cpc,         \* client program: "ready", "body" (headers sent), "wait", "done"
  sent,        \* requests each client has sent, in order
  backlog,     \* connected, not yet accept()ed
  inq,         \* server-side socket receive queue of each client
  hup,         \* sockets reset by the peer (EPOLLHUP|EPOLLERR pending)
  outq,        \* client-side receive buffer: responses written, not yet read
  got,         \* responses each client has read
  ready,       \* epoll ready list
  batch,       \* events returned by the last epoll_wait, not yet handled
  open,        \* fds with gw->connections[fd] != NULL
  accepted,    \* fds ever accepted (history)
  conn,        \* per-connection state of connection_t
  active,      \* gw->active_connections
  total,       \* gw->total_requests
  dispatched,  \* request numbers passed to router_dispatch, per client
  loop         \* "running", "stopping" (gw->running = false), "exited"

client == <<cstate, cpc, sent, got>>
kernel == <<backlog, inq, hup, outq, ready, batch>>
server == <<open, accepted, conn, active, total, dispatched, loop>>
vars   == <<client, kernel, server>>

NoConn == [state |-> ReadingHeaders, rbuf |-> <<>>, stale |-> <<>>, ka |-> TRUE]

TypeOK ==
  /\ cstate \in [Clients -> {"idle", "connected", "gone"}]
  /\ cpc \in [Clients -> {"ready", "body", "wait", "done"}]
  /\ sent \in [Clients -> BoundedSeq(Req, MaxReqs)]
  /\ backlog \subseteq Clients /\ hup \subseteq Clients
  /\ inq \in [Clients -> Seq(Seg)]
  /\ outq \in [Clients -> Seq(Resp)] /\ got \in [Clients -> Seq(Resp)]
  /\ ready \subseteq Clients \cup {Listen} /\ batch \subseteq Clients \cup {Listen}
  /\ open \subseteq accepted /\ accepted \subseteq Clients
  /\ conn \in [Clients -> [state : {ReadingHeaders, ReadingBody},
                           rbuf : Seq(Seg), stale : Seq(Seg), ka : BOOLEAN]]
  /\ active \in Int /\ total \in Nat
  /\ dispatched \in [Clients -> Seq(ReqNo)]
  /\ loop \in {"running", "stopping", "exited"}

Init ==
  /\ cstate = [c \in Clients |-> "idle"]
  /\ cpc = [c \in Clients |-> "ready"]
  /\ sent = [c \in Clients |-> <<>>]
  /\ backlog = {} /\ hup = {}
  /\ inq = [c \in Clients |-> <<>>]
  /\ outq = [c \in Clients |-> <<>>] /\ got = [c \in Clients |-> <<>>]
  /\ ready = {} /\ batch = {}
  /\ open = {} /\ accepted = {}
  /\ conn = [c \in Clients |-> NoConn]
  /\ active = 0 /\ total = 0
  /\ dispatched = [c \in Clients |-> <<>>]
  /\ loop = "running"

-----------------------------------------------------------------------------
(* Kernel helpers.                                                          *)

\* An arrival on a socket registered with EPOLLIN|EPOLLET puts it on the
\* ready list; before accept() it is not registered yet.
Arrive(c) == ready' = IF c \in open THEN ready \cup {c} ELSE ready

\* Units of the client's receive buffer already taken.
Used(c) == FoldSeq(LAMBDA r, acc : acc + r.units, 0, outq[c])

-----------------------------------------------------------------------------
(* Clients.                                                                 *)

Connect(c) ==
  /\ loop = "running" /\ cstate[c] = "idle"
  /\ cstate' = [cstate EXCEPT ![c] = "connected"]
  /\ backlog' = backlog \cup {c}
  /\ ready' = ready \cup {Listen}
  /\ UNCHANGED <<cpc, sent, got, inq, hup, outq, batch, server>>

\* A client sends the header block of its next request; it does not
\* pipeline: the next request follows the reply to the previous one.
SendHeaders(c) ==
  /\ cstate[c] = "connected" /\ cpc[c] = "ready" /\ Len(sent[c]) < MaxReqs
  /\ \E k \in ReqKinds :
       /\ sent' = [sent EXCEPT ![c] = Append(@, k)]
       /\ cpc' = [cpc EXCEPT ![c] = IF k.body = "none" THEN "wait" ELSE "body"]
  /\ inq' = [inq EXCEPT ![c] = Append(@, [n |-> Len(sent[c]) + 1, part |-> "hdr"])]
  /\ Arrive(c)
  /\ UNCHANGED <<cstate, got, backlog, hup, outq, batch, server>>

SendBody(c) ==
  /\ cstate[c] = "connected" /\ cpc[c] = "body"
  /\ inq' = [inq EXCEPT ![c] = Append(@, [n |-> Len(sent[c]), part |-> "body"])]
  /\ cpc' = [cpc EXCEPT ![c] = "wait"]
  /\ Arrive(c)
  /\ UNCHANGED <<cstate, sent, got, backlog, hup, outq, batch, server>>

\* The client reads one response.  A whole response answers the request it
\* waits for; after a truncated one its HTTP parser keeps waiting for the
\* missing Content-Length bytes.
Recv(c) ==
  /\ outq[c] /= <<>>
  /\ got' = [got EXCEPT ![c] = Append(@, Head(outq[c]))]
  /\ outq' = [outq EXCEPT ![c] = Tail(@)]
  /\ cpc' = [cpc EXCEPT ![c] =
              IF @ = "wait" /\ Head(outq[c]).whole
              THEN IF Last(sent[c]).ka /\ Len(sent[c]) < MaxReqs THEN "ready" ELSE "done"
              ELSE @]
  /\ UNCHANGED <<cstate, sent, backlog, inq, hup, ready, batch, server>>

\* The client closes its socket (FIN: read() returns 0 on the server).
Fin(c) ==
  /\ cstate[c] = "connected"
  /\ cstate' = [cstate EXCEPT ![c] = "gone"]
  /\ inq' = [inq EXCEPT ![c] = Append(@, [n |-> 0, part |-> "eof"])]
  /\ Arrive(c)
  /\ UNCHANGED <<cpc, sent, got, backlog, hup, outq, batch, server>>

\* The connection is reset (EPOLLHUP|EPOLLERR on the server).
Reset(c) ==
  /\ cstate[c] = "connected"
  /\ cstate' = [cstate EXCEPT ![c] = "gone"]
  /\ hup' = hup \cup {c}
  /\ Arrive(c)
  /\ UNCHANGED <<cpc, sent, got, backlog, inq, outq, batch, server>>

-----------------------------------------------------------------------------
(* The event loop.                                                          *)

\* epoll_wait: the whole ready list becomes the batch of events.
epoll_wait ==
  /\ loop = "running" /\ batch = {} /\ ready /= {}
  /\ batch' = ready
  /\ ready' = {}
  /\ UNCHANGED <<client, backlog, inq, hup, outq, server>>

\* accept() until EAGAIN; each socket is registered EPOLLIN|EPOLLET, which
\* reports at once data (or a reset) that arrived before registration.
accept_connections ==
  /\ Listen \in batch
  /\ batch' = batch \ {Listen}
  /\ open' = open \cup backlog
  /\ accepted' = accepted \cup backlog
  /\ conn' = [c \in Clients |-> IF c \in backlog THEN NoConn ELSE conn[c]]
  /\ active' = active + Cardinality(backlog)
  /\ ready' = ready \cup {c \in backlog : inq[c] /= <<>> \/ c \in hup}
  /\ backlog' = {}
  /\ UNCHANGED <<client, inq, hup, outq, total, dispatched, loop>>

\* (mutation: active_connections not decremented)
CloseConn_NoDecrement(c) ==
  /\ open' = open \ {c}
  /\ active' = active
  /\ cstate' = [cstate EXCEPT ![c] = "gone"]
  /\ inq' = [inq EXCEPT ![c] = <<>>]
  /\ ready' = ready \ {c}

\* close_connection: epoll_del, connection_destroy, active_connections--,
\* close(fd).  Unread data is discarded and the peer sees the close.
CloseConn(c) ==
  /\ open' = open \ {c}
  /\ active' = IF c \in open THEN active - 1 ELSE active
  /\ cstate' = [cstate EXCEPT ![c] = "gone"]
  /\ inq' = [inq EXCEPT ![c] = <<>>]
  /\ ready' = ready \ {c}

close_connection(c) ==
  /\ c \in batch /\ c \in hup
  /\ batch' = batch \ {c}
  /\ CloseConn(c)
  /\ UNCHANGED <<cpc, sent, got, backlog, hup, outq, accepted, conn, total, dispatched, loop>>

\* Response size in units of the client's receive buffer: a bodiless GET
\* is answered briefly, a chat or webhook reply carries model output.
RespUnits(req) == IF req.body = "none" THEN 1 ELSE 2

\* (mutation: a write() that took no byte still counted as a response)
http_response_send_NoFullCheck(c, n) ==
  LET need == RespUnits(sent[c][n])
      free == SockCap - Used(c)
  IN outq' = [outq EXCEPT ![c] =
                Append(@, [n |-> n, whole |-> free >= need,
                           units |-> IF free >= need THEN need ELSE free])]

\* http_response_send: write() until done; a short write leaves the rest to
\* a next write() which, on a full buffer, fails with EAGAIN and the
\* function returns OC_ERR_IO with the response cut short.  write() never
\* waits for the client to read.
http_response_send(c, n) ==
  LET need == RespUnits(sent[c][n])
      free == SockCap - Used(c)
  IN outq' = [outq EXCEPT ![c] =
                IF free = 0 THEN @
                ELSE Append(@, [n |-> n, whole |-> free >= need,
                                units |-> IF free >= need THEN need ELSE free])]

\* connection_read returns -1 on read() = 0 (EOF) and once the buffer
\* would have to grow past GW_MAX_BODY_LEN + GW_READ_BUF_SIZE.
ReadFails(c, data) ==
  \E i \in DOMAIN data :
     \/ data[i].part = "eof"
     \/ data[i].part = "body" /\ sent[c][data[i].n].body = "huge"

\* (mutation: Content-Length ignored, complete once the headers are in)
ParseComplete_IgnoresBody(req, content, stale) == TRUE

\* (mutation: body_available > content_length, one byte too many)
ParseComplete_OffByOne(req, content, stale) ==
  \/ req.body = "none"
  \/ stale

\* http_parse_request completes when there is no Content-Length, or when
\* body_available >= content_length.  After the keep-alive reset read_len
\* is 0 and body_available = read_len - header_size wraps around as a
\* size_t, so a parse over the old bytes (stale) always completes.
ParseComplete(req, content, stale) ==
  \/ req.body = "none"
  \/ \E i \in DOMAIN content : content[i].part = "body"
  \/ stale

\* keep_alive starts TRUE and is cleared by "Connection: close"; it is
\* never set back, and the reset after a response leaves it alone.
KeepAlive(cn, req) == cn.ka /\ req.ka

\* handle_client_data: connection_read drains the socket until EAGAIN
\* (failing on EOF, a reset, or a request past GW_MAX_BODY_LEN), then
\* http_parse_request, router_dispatch (which ignores the result of
\* http_response_send), and the keep-alive reset of the connection, which
\* sets read_len = 0 but leaves the old bytes in read_buf.
handle_client_data(c) ==
  /\ c \in batch /\ c \notin hup
  /\ batch' = batch \ {c}
  /\ IF c \notin open
     THEN UNCHANGED <<client, backlog, inq, hup, outq, ready, server>>
     ELSE
     LET data  == inq[c]
         cn    == conn[c]
         fails == ReadFails(c, data)
         \* read_len = 0 after a reset and nothing read: the parser runs
         \* over the bytes left in read_buf by the previous request.
         stale == data = <<>> /\ cn.rbuf = <<>>
         content == IF stale THEN cn.stale ELSE cn.rbuf \o data
         hasHdr  == content /= <<>> /\ content[1].part = "hdr"
         req     == sent[c][content[1].n]
         complete == ParseComplete(req, content, stale)
         ka == KeepAlive(cn, req)
     IN
     \/ /\ fails
        /\ CloseConn(c)
        /\ UNCHANGED <<cpc, sent, got, backlog, hup, outq, accepted, conn, total, dispatched, loop>>
     \/ /\ ~fails /\ ~(hasHdr /\ complete)
        /\ inq' = [inq EXCEPT ![c] = <<>>]
        /\ conn' = [conn EXCEPT ![c] =
                      IF hasHdr THEN [cn EXCEPT !.state = ReadingBody, !.rbuf = content, !.ka = ka]
                      ELSE [cn EXCEPT !.rbuf = content]]
        /\ UNCHANGED <<client, backlog, hup, outq, ready, open, accepted, active, total, dispatched, loop>>
     \/ /\ ~fails /\ hasHdr /\ complete
        /\ total' = total + 1
        /\ dispatched' = [dispatched EXCEPT ![c] = Append(@, content[1].n)]
        /\ http_response_send(c, content[1].n)
        /\ IF ka
           THEN /\ inq' = [inq EXCEPT ![c] = <<>>]
                /\ conn' = [conn EXCEPT ![c] =
                              [state |-> ReadingHeaders, rbuf |-> <<>>, stale |-> content, ka |-> TRUE]]
                /\ UNCHANGED <<cstate, ready, open, active>>
           ELSE /\ CloseConn(c)
                /\ conn' = [conn EXCEPT ![c] = [cn EXCEPT !.ka = FALSE]]
        /\ UNCHANGED <<cpc, sent, got, backlog, hup, accepted, loop>>

\* signal_handler on SIGINT/SIGTERM: gw->running = false.
signal_handler ==
  /\ loop = "running"
  /\ loop' = "stopping"
  /\ UNCHANGED <<client, kernel, open, accepted, conn, active, total, dispatched>>

\* The loop sees running = false after the current batch; gateway_destroy
\* then frees and closes every connection.
gateway_destroy ==
  /\ loop = "stopping" /\ batch = {}
  /\ loop' = "exited"
  /\ open' = {}
  /\ cstate' = [c \in Clients |-> IF c \in open THEN "gone" ELSE cstate[c]]
  /\ UNCHANGED <<cpc, sent, got, kernel, accepted, conn, active, total, dispatched>>

-----------------------------------------------------------------------------

Next ==
  \/ \E c \in Clients :
       \/ Connect(c) \/ SendHeaders(c) \/ SendBody(c) \/ Recv(c)
       \/ Fin(c) \/ Reset(c)
       \/ handle_client_data(c) \/ close_connection(c)
  \/ epoll_wait \/ accept_connections
  \/ signal_handler \/ gateway_destroy

\* One thread runs the loop: while it runs, every event epoll reports is
\* handled, and epoll_wait returns whenever the ready list is not empty.
Fairness ==
  /\ WF_vars(epoll_wait) /\ WF_vars(accept_connections) /\ WF_vars(gateway_destroy)
  /\ \A c \in Clients : WF_vars(handle_client_data(c)) /\ WF_vars(close_connection(c))

Spec == Init /\ [][Next]_vars /\ Fairness

-----------------------------------------------------------------------------
(* Properties.                                                              *)

\* Request n of client c has been sent completely (headers and any body).
FullySent(c, n) ==
  /\ n <= Len(sent[c])
  /\ n < Len(sent[c]) \/ cpc[c] /= "body"

\* The health endpoint's active_connections equals the number of live
\* connections in gw->connections, across accept, close on reset, close
\* on EOF or oversize, and close after Connection: close.
ActiveMatchesOpen ==
  loop /= "exited" => active = Cardinality(open)

\* router_dispatch only ever sees a request whose body has fully arrived:
\* http_parse_request returns complete only once Content-Length bytes are
\* in the buffer, including on the path where read_len is 0.
DispatchOnlyWholeRequests ==
  \A c \in Clients : \A i \in DOMAIN dispatched[c] :
     LET n == dispatched[c][i] IN
       /\ FullySent(c, n)
       /\ sent[c][n].body /= "huge"

\* Edge-triggered progress: every request a client has completely sent is
\* eventually dispatched, unless its connection is closed or the gateway
\* stops.  Data that arrives while the socket is being drained must not be
\* left unread without a further edge.
RequestServed ==
  \A c \in Clients : \A n \in ReqNo :
     (FullySent(c, n) /\ sent[c][n].body /= "huge")
        ~> (\E i \in DOMAIN dispatched[c] : dispatched[c][i] = n)
           \/ c \in accepted \ open \/ loop /= "running"

\* Every response a client reads answers the request it is waiting for:
\* the i-th response read is the reply to its i-th request.
ReplyIsForRequest ==
  \A c \in Clients : \A i \in DOMAIN got[c] : got[c][i].n = i
=============================================================================
