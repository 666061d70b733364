---------------------------- MODULE MCServices ----------------------------
(***************************************************************************)
(* The services that keep no state in common, checked in one model: the    *)
(* gateway's session store, the agents' tool registry, the handlers that   *)
(* call the upstream API, the gateway's event loop shared by two clients,  *)
(* the /dev/oclaw ring with O_NONBLOCK threads and a reader that closes    *)
(* and reopens its file, and the desktop's terminal panel with richer      *)
(* shell output than MCThreads gives it, and the two directions of an     *)
(* upgraded WebSocket connection, and the gateway's route table.  A       *)
(* behaviour exercises one of                                              *)
(* them (svc); the others stay in their initial state.  Since no action of *)
(* one reads or writes the variables of another, this covers every         *)
(* behaviour of each, and each property below is about one service.  The   *)
(* terminal stops once kd_terminal_shutdown is done, as the desktop exits  *)
(* right after it; the ring stops when its writers have written all their  *)
(* messages, and the gateway once it is destroyed.                         *)
(***************************************************************************)
EXTENDS Naturals, TLC

CONSTANTS SessionIds, MaxRows, MaxTime, Limits,
          Names, Defs, n1, n2, d1, d2, d3,
          Contents, Models, ChunkLens, MaxChunks, MaxMsgs, c1, c2, mClaude, mGpt, mOther,
          None, Cols, Rows, OutputSize,
          w1, w2, r1, r2, Null, MsgLen, MaxSignals,
          gc1, gc2, Lsn, MaxReqs, SockCap

VARIABLES svc,
          db, sessions, msgs, now, history,
          ctx, tools, count, ret, catalog,
          req, call, reply,
          ring, head, tail, locked, pc, wsent, taken, left, rq, wq,
          delivered, result, signals, opened, loaded, processed,
          cstate, cpc, sent, backlog, inq, hup, outq, got, ready, batch,
          open, accepted, conn, active, total, dispatched, loop,
          term, ptyActive, reader, child, running, ptyOpen, lock, main, rbuf, outLen,
          isWs, resp, toClient, sendOk, sendFailed, clientOut, toServer, clientSent,
          wsGot, readFailed,
          routes, cap, added, last

\* two tool names, one with two definitions; the defaults register one of each
MCNameOf == (d1 :> n1) @@ (d2 :> n1) @@ (d3 :> n2)
MCDefaultDefs == <<d1, d3>>

\* one model name of each family; the configured models match their provider
MCFamily == (mClaude :> "claude") @@ (mGpt :> "gpt") @@ (mOther :> "other")
MCCfgModel == ("anthropic" :> mClaude) @@ ("openai" :> mGpt)

\* the shell's output of MCTerminal without the INT_MAX cursor-down, which
\* terminal_cursor_overflow shows escaping the grid
MCTermChunks ==
  { <<"x">>, <<"LF">>, <<"TAB">>, <<"BS">>,
    <<"ESC", "[">>, <<"9", "B">>,
    <<"ESC", "[", "9", "9", "C">>,
    <<"ESC", "[", "2", ";", "3", "r">>,
    <<"ESC", "[", "K">> }

\* two writers, a blocking and a non-blocking reader, all but the blocking
\* reader with O_NONBLOCK, on a ring of two slots, two messages a writer
\* (signals are left to MCThreads' blocking threads)
NonBlockRingSize == 2
NonBlockMaxMsgs  == 2

Store    == INSTANCE SessionStore
Registry == INSTANCE ToolRegistry WITH NameOf <- MCNameOf, DefaultDefs <- MCDefaultDefs
Calls    == INSTANCE Handlers WITH Family <- MCFamily, CfgModel <- MCCfgModel
Term     == INSTANCE Terminal WITH Chunks <- MCTermChunks
Nb       == INSTANCE Chardev WITH Writers <- {w1, w2}, Readers <- {r1, r2},
                                  NonBlock <- {w1, w2, r2}, RingSize <- NonBlockRingSize,
                                  Closers <- {r1}, BadBuffers <- {},
                                  MaxMsgs <- NonBlockMaxMsgs, MaxSignals <- 0,
                                  sent <- wsent

\* every request shape: keep-alive or not, no body, a small or an oversize one
MCReqKinds == [ka : BOOLEAN, body : {"none", "small", "huge"}]
\* two clients sharing the loop, two requests each; a receive buffer of one
\* unit, so that a reply with a body is written short and the buffer fills
Gw       == INSTANCE Gateway WITH Clients <- {gc1, gc2}, Listen <- Lsn,
                                  ReqKinds <- MCReqKinds

\* the two clients are interchangeable, and nothing else refers to them
MCSymmetry == Permutations({gc1, gc2})

\* a one-byte text and one of 126 bytes, the first that needs the 16-bit form
MCTexts == { <<72>>, [i \in 1..126 |-> 65] }

\* a text frame whose five bytes cross the four-byte key, a 126-byte one,
\* and a close frame
MCClientFrames ==
  { [op |-> 1, payload |-> <<1, 2, 3, 4, 5>>, key |-> <<10, 20, 30, 40>>],
    [op |-> 1, payload |-> [i \in 1..126 |-> i], key |-> <<1, 2, 4, 8>>],
    [op |-> 8, payload |-> <<>>, key |-> <<7, 7, 7, 7>>] }
\* the directions share no state after the upgrade, so each is checked alone:
\* the server's texts to a silent client, the client's frames to a server
\* that sends nothing
WsOut == INSTANCE WebSocket WITH Texts <- MCTexts, ClientFrames <- {},
                                 MaxSends <- 2, MaxFrames <- 0, got <- wsGot
WsIn  == INSTANCE WebSocket WITH Texts <- {}, ClientFrames <- MCClientFrames,
                                 MaxSends <- 0, MaxFrames <- 2, got <- wsGot

\* main's three gateway_add_route calls (part_015:146-148)
MCRegistrations ==
  << [method |-> "GET",  pattern |-> [segs |-> <<"health">>, star |-> FALSE], handler |-> "health"],
     [method |-> "POST", pattern |-> [segs |-> <<"hooks", "webchat">>, star |-> FALSE], handler |-> "webhook"],
     [method |-> "POST", pattern |-> [segs |-> <<"v1", "chat", "completions">>, star |-> FALSE], handler |-> "chat"] >>
\* the registered paths with and without a query, a prefix of one, the
\* WebSocket path, and the root; methods of routes, the preflight, others
MCUrls ==
  { <<"health">>, <<"health", "?", "verbose">>, <<"hooks", "webchat">>,
    <<"v1", "chat", "completions", "?", "stream">>, <<"v1", "chat">>,
    <<"ws">>, <<>> }
MCMethodTokens == {"GET", "POST", "OPTIONS", "DELETE", "BREW"}
Routes == INSTANCE Router WITH Registrations <- MCRegistrations, RouteCap0 <- 32,
                               MethodTokens <- MCMethodTokens, Urls <- MCUrls

storeVars    == <<db, sessions, msgs, now, history>>
registryVars == <<ctx, tools, count, ret, catalog>>
callVars     == <<req, call, reply>>
termVars     == <<term, ptyActive, reader, child, running, ptyOpen, lock, main, rbuf, outLen>>
nbVars       == <<ring, head, tail, locked, pc, wsent, taken, left, rq, wq,
                  delivered, result, signals, opened, loaded, processed>>
gwVars       == <<cstate, cpc, sent, backlog, inq, hup, outq, got, ready, batch,
                  open, accepted, conn, active, total, dispatched, loop>>
wsVars       == <<isWs, resp, toClient, sendOk, sendFailed, clientOut, toServer, clientSent,
                  wsGot, readFailed>>
routerVars   == <<routes, cap, added, last>>
allVars      == <<svc, storeVars, registryVars, callVars, termVars, nbVars, gwVars, wsVars,
                  routerVars>>

Init ==
  /\ svc \in {"sessions", "tools", "handlers", "terminal", "nonblock", "gateway",
             "ws_out", "ws_in", "router"}
  /\ Store!Init /\ Registry!Init /\ Calls!HandlersInit /\ Term!TermInit /\ Nb!Init
  /\ Gw!Init /\ WsOut!Init /\ Routes!Init
  \* the terminal starts with or without a shell; when another service runs,
  \* one of the two is enough
  /\ svc # "terminal" => reader = "none"

Next ==
  \/ svc = "sessions" /\ Store!Next /\ UNCHANGED <<svc, registryVars, callVars, termVars, nbVars, gwVars, wsVars, routerVars>>
  \/ svc = "tools" /\ Registry!Next /\ UNCHANGED <<svc, storeVars, callVars, termVars, nbVars, gwVars, wsVars, routerVars>>
  \/ svc = "handlers" /\ Calls!HandlersNext /\ UNCHANGED <<svc, storeVars, registryVars, termVars, nbVars, gwVars, wsVars, routerVars>>
  \/ svc = "terminal" /\ Term!TermNext /\ UNCHANGED <<svc, storeVars, registryVars, callVars, nbVars, gwVars, wsVars, routerVars>>
  \/ svc = "nonblock" /\ Nb!Next /\ UNCHANGED <<svc, storeVars, registryVars, callVars, termVars, gwVars, wsVars, routerVars>>

  \/ svc = "gateway" /\ Gw!Next /\ UNCHANGED <<svc, storeVars, registryVars, callVars, termVars, nbVars, wsVars, routerVars>>
  \/ svc = "ws_out" /\ WsOut!WsNext /\ UNCHANGED <<svc, storeVars, registryVars, callVars, termVars, nbVars, gwVars, routerVars>>
  \/ svc = "ws_in" /\ WsIn!WsNext /\ UNCHANGED <<svc, storeVars, registryVars, callVars, termVars, nbVars, gwVars, routerVars>>
  \/ svc = "router" /\ Routes!RouterNext /\ UNCHANGED <<svc, storeVars, registryVars, callVars, termVars, nbVars, gwVars, wsVars>>

Spec == Init /\ [][Next]_allVars

(* The properties of SessionStore, ToolRegistry, Handlers, Terminal,    *)
(* Chardev, Gateway, WebSocket and Router, by name.                                                   *)

\* the registry's variables keep their types
RegistryTypeOK == Registry!TypeOK
\* tool_count equals the entries of the tool map
CountMatches == Registry!CountMatches
\* the handlers' call and reply keep their types
HandlersTypeOK == Calls!HandlersTypeOK
\* handler_chat sends the request's last user message upstream
PromptIsLastUserMessage == Calls!PromptIsLastUserMessage
\* the collect buffer always holds the text so far and its NUL
BufferHoldsText == Calls!BufferHoldsText
\* the terminal's variables keep their types; the capture buffer keeps
\* room for its NUL
TermTypeOK == Term!TermTypeOK
\* the escape-sequence parser keeps the cursor on the grid and writes no
\* cell outside it, whatever the shell prints short of a huge parameter
CursorInGrid == Term!CursorInGrid
\* with O_NONBLOCK threads, ring_lock excludes: at most one thread is in a
\* section the code runs with the lock held
MutualExclusion == Nb!MutualExclusion
\* with O_NONBLOCK threads, the ring is a bounded FIFO: nothing
\* overwritten, dropped or reordered
FifoRefinement == Nb!FifoRefinement
\* the gateway's variables keep their types
GwTypeOK == Gw!TypeOK
\* the health endpoint's active_connections equals the live connections,
\* across accept and every way either client's connection is closed
ActiveMatchesOpen == Gw!ActiveMatchesOpen
\* router_dispatch only ever sees a request whose body has fully arrived
\* and is within GW_MAX_BODY_LEN, a keep-alive connection's second included
DispatchOnlyWholeRequests == Gw!DispatchOnlyWholeRequests
\* every text ws_send_text returned 0 for reaches the client whole and in
\* order, until a send fails part-way
ClientReadsSentTexts == WsOut!ClientReadsSentTexts
\* every frame ws_read_frame returns is the client's next one, unmasked,
\* until a read returns -1
ServerReadsClientFrames == WsIn!ServerReadsClientFrames
\* router_dispatch answers OPTIONS with the preflight, a registered method
\* and path with its handler whatever the query string, and all else 404
RoutedAsRegistered == Routes!RoutedAsRegistered
=============================================================================
