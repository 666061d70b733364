----------------------------- MODULE MCThreads -----------------------------
(***************************************************************************)
(* The components whose threads run concurrently and whose progress is    *)
(* checked, in one model: the /dev/oclaw ring with a blocking writer and  *)
(* a blocking reader, the gateway's edge-triggered loop with one client,  *)
(* and the desktop's terminal panel with its reader thread.  A behaviour  *)
(* runs one of them (sys); the others stay in their initial state.  No    *)
(* action of one reads or writes the variables of another, so this       *)
(* covers every behaviour of each.  Each component's fairness applies to  *)
(* the behaviours that run it.                                             *)
(***************************************************************************)
EXTENDS TLC

CONSTANTS w1, r1, Null, MsgLen, MaxSignals,
          gc1, Lsn, MaxReqs, SockCap,
          Cols, Rows, OutputSize

VARIABLES sys,
          ring, head, tail, locked, pc, wsent, taken, left, rq, wq,
          delivered, result, signals, opened, loaded, processed,
          cstate, cpc, sent, backlog, inq, hup, outq, got, ready, batch,
          open, accepted, conn, active, total, dispatched, loop,
          term, ptyActive, reader, child, running, ptyOpen, lock, main, rbuf, outLen

\* every request shape: keep-alive or not, no body, a small or an oversize one
MCReqKinds == [ka : BOOLEAN, body : {"none", "small", "huge"}]

\* the shell's output, for the reader thread's lifecycle: a character and
\* a newline (MCServices checks the parser on richer output)
MCTermChunks == { <<"x">>, <<"LF">> }

\* three slots and four messages: the writer fills the ring and sleeps
BlockRingSize == 3
BlockMaxMsgs  == 4

\* the gateway daemon's reader keeps its file open; its copy_to_user may fail
Cd   == INSTANCE Chardev WITH Writers <- {w1}, Readers <- {r1}, NonBlock <- {},
                              Closers <- {}, BadBuffers <- {r1},
                              RingSize <- BlockRingSize, MaxMsgs <- BlockMaxMsgs,
                              sent <- wsent
Gw   == INSTANCE Gateway WITH Clients <- {gc1}, Listen <- Lsn, ReqKinds <- MCReqKinds
Term == INSTANCE Terminal WITH Chunks <- MCTermChunks
cdVars   == <<ring, head, tail, locked, pc, wsent, taken, left, rq, wq,
              delivered, result, signals, opened, loaded, processed>>
gwVars   == <<cstate, cpc, sent, backlog, inq, hup, outq, got, ready, batch,
              open, accepted, conn, active, total, dispatched, loop>>
termVars == <<term, ptyActive, reader, child, running, ptyOpen, lock, main, rbuf, outLen>>
allVars  == <<sys, cdVars, gwVars, termVars>>

Init ==
  /\ sys \in {"chardev", "gateway", "terminal"}
  /\ Cd!Init /\ Gw!Init /\ Term!TermInit

\* a step A of one component, the others unchanged
CdStep(A)   == sys = "chardev" /\ A /\ UNCHANGED <<sys, gwVars, termVars>>
GwStep(A)   == sys = "gateway" /\ A /\ UNCHANGED <<sys, cdVars, termVars>>
TermStep(A) == sys = "terminal" /\ A /\ UNCHANGED <<sys, cdVars, gwVars>>

Next == CdStep(Cd!Next) \/ GwStep(Gw!Next) \/ TermStep(Term!TermNext)

\* Chardev!Fairness, Gateway!Fairness and Terminal!TermFairness
Fairness ==
  /\ SF_allVars(CdStep(Cd!WriterStep(w1))) /\ SF_allVars(CdStep(Cd!ReaderStep(r1)))
  /\ WF_allVars(GwStep(Gw!epoll_wait)) /\ WF_allVars(GwStep(Gw!accept_connections))
  /\ WF_allVars(GwStep(Gw!gateway_destroy))
  /\ WF_allVars(GwStep(Gw!handle_client_data(gc1)))
  /\ WF_allVars(GwStep(Gw!close_connection(gc1)))
  /\ WF_allVars(TermStep(Term!pty_reader_fn)) /\ WF_allVars(TermStep(Term!pty_reader_eof))
  /\ WF_allVars(TermStep(Term!reader_stop)) /\ WF_allVars(TermStep(Term!shutdown_joined))

Spec == Init /\ [][Next]_allVars /\ Fairness

(* The properties of Chardev, Gateway and Terminal, by name. *)

\* the ring's and the threads' variables keep their types
TypeOK == Cd!TypeOK
\* the ring behaves as a bounded FIFO: nothing overwritten, dropped or reordered
FifoRefinement == Cd!FifoRefinement
\* every message stored in the ring is eventually taken by the reader
MessageDelivered == Cd!MessageDelivered
\* a writer asleep on a full ring is eventually woken
WriterWoken == Cd!WriterWoken
\* every request the client sent whole, with a body within GW_MAX_BODY_LEN,
\* is eventually passed to router_dispatch despite edge-triggered epoll
RequestServed == Gw!RequestServed
\* a kd_terminal_shutdown that waits in pthread_join completes: the reader
\* sees reader_running cleared and ends
ShutdownCompletes == Term!ShutdownCompletes
=============================================================================
