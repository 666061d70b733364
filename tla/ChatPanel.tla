----------------------------- MODULE ChatPanel -----------------------------
(***************************************************************************)
(* The AI chat panel of kelp-desktop (theme.c, the g_chat state): the     *)
(* transcript array with its MAX_CHAT_MESSAGES cap, the input line, the   *)
(* detached response threads that call the gateway, and the per-frame     *)
(* kd_chat_update that takes a finished response and reveals it a few     *)
(* characters per frame.                                                  *)
(*                                                                         *)
(* A message is a record: its kind, the request it belongs to (0 for      *)
(* system messages) and, for an assistant message, how many frames of its *)
(* text are revealed.  A reply's length is counted in frames of reveal    *)
(* (6, 12 or 20 characters each).  The input line is abstracted to the    *)
(* kind of text it holds.  Each response thread is one step: the RPC and  *)
(* the section it runs under async_lock.                                  *)
(***************************************************************************)
EXTENDS Integers, FiniteSets

CONSTANTS MaxChat,  \* MAX_CHAT_MESSAGES
          MaxReqs,  \* bound on the messages sent
          MaxLen,   \* bound on the length of a reply, in frames of reveal
          None      \* a NULL pointer

Slots == 0..(MaxChat - 1)
Reqs  == 1..MaxReqs
Kinds == {"none", "system", "user", "assistant", "error"}
Msg   == [kind : Kinds, req : 0..MaxReqs, shown : 0..MaxLen]
Empty == [kind |-> "none", req |-> 0, shown |-> 0]

\* the input line: empty, "/clear", "/quit", or any other text
Inputs == {"empty", "clear", "quit", "text"}

VARIABLES slots,      \* g_chat.messages: slot -> message (stale beyond count)
          count,      \* g_chat.msg_count
          input,      \* g_chat.input_buf
          waiting,    \* g_chat.waiting
          ready,      \* g_chat.response_ready
          respError,  \* g_chat.response_error
          pending,    \* g_chat.pending_response: None or [req, len]
          stream,     \* stream_text, stream_pos, stream_msg_idx: None or [req, len, pos, idx]
          threads,    \* requests whose response thread is running
          connected,  \* g_chat.connected
          nextReq     \* the number the next sent message gets

chatVars == <<slots, count, input, waiting, ready, respError, pending,
              stream, threads, connected, nextReq>>

ChatTypeOK ==
  /\ slots \in [Slots -> Msg]
  /\ count \in 0..MaxChat
  /\ input \in Inputs
  /\ waiting \in BOOLEAN /\ ready \in BOOLEAN /\ respError \in BOOLEAN
  /\ pending \in [req : Reqs, len : 0..MaxLen] \cup {None}
  /\ stream \in [req : Reqs, len : 0..MaxLen, pos : 0..MaxLen, idx : Slots] \cup {None}
  /\ threads \subseteq Reqs
  /\ connected \in BOOLEAN
  /\ nextReq \in 1..(MaxReqs + 1)

(* (mutation: no check of msg_count against MAX_CHAT_MESSAGES) *)
AddMessage_NoCap(t, m) ==
  [slots |-> [t.slots EXCEPT ![t.count] = m], count |-> t.count + 1]

\* kd_chat_add_message on transcript t = [slots, count]: at the cap the
\* oldest message is dropped and the rest moved down one slot (memmove),
\* then the message is stored at msg_count.
AddMessage(t, m) ==
  LET full    == t.count >= MaxChat
      moved   == IF full
                 THEN [i \in Slots |-> IF i < MaxChat - 1 THEN t.slots[i + 1] ELSE t.slots[i]]
                 ELSE t.slots
      c       == IF full THEN MaxChat - 1 ELSE t.count
  IN [slots |-> [moved EXCEPT ![c] = m], count |-> c + 1]

Transcript == [slots |-> slots, count |-> count]

UserMsg(k)  == [kind |-> "user", req |-> k, shown |-> 0]
ErrorMsg(k) == [kind |-> "error", req |-> k, shown |-> 0]
SystemMsg   == [kind |-> "system", req |-> 0, shown |-> 0]

\* kd_chat_init then kd_chat_connect_gateway: the welcome message, and
\* "Gateway connected." when the health RPC answers
ChatInit ==
  /\ \E up \in BOOLEAN :
       LET t0 == AddMessage([slots |-> [i \in Slots |-> Empty], count |-> 0], SystemMsg)
           t1 == IF up THEN AddMessage(t0, SystemMsg) ELSE t0
       IN /\ slots = t1.slots /\ count = t1.count
          /\ connected = up
  /\ input = "empty"
  /\ waiting = FALSE /\ ready = FALSE /\ respError = FALSE
  /\ pending = None /\ stream = None
  /\ threads = {}
  /\ nextReq = 1

\* the input line after text is inserted at the cursor
AfterTyping(t) == IF input = "empty" THEN t ELSE "text"

\* kd_chat_handle_text: the text is inserted into the input line
\* (MAX_INPUT_LEN is not reached within the bounds)
kd_chat_handle_text(t) ==
  /\ input' = AfterTyping(t)
  /\ UNCHANGED <<slots, count, waiting, ready, respError, pending, stream,
                 threads, connected, nextReq>>

\* send_message after the user message is added: waiting is set, response_ready and
\* response_error cleared, and a detached thread started; when
\* pthread_create fails an error message is added and waiting cleared.
StartRequest(t, k) ==
  /\ \E spawned \in BOOLEAN :
       IF spawned
       THEN /\ slots' = t.slots /\ count' = t.count
            /\ waiting' = TRUE
            /\ threads' = threads \cup {k}
       ELSE LET t2 == AddMessage(t, ErrorMsg(k))
            IN /\ slots' = t2.slots /\ count' = t2.count
               /\ waiting' = FALSE
               /\ threads' = threads
  /\ ready' = FALSE /\ respError' = FALSE
  /\ nextReq' = k + 1

\* send_message (Enter in the chat panel): nothing while the line is
\* empty or a response is awaited; otherwise the line is cleared, "/quit"
\* is dropped, "/clear" frees every message and sets msg_count to 0, and
\* any other line is sent.
send_message ==
  /\ input /= "empty" /\ ~waiting
  /\ input' = "empty"
  /\ CASE input = "quit" ->
            UNCHANGED <<slots, count, waiting, ready, respError, threads, nextReq>>
       [] input = "clear" ->
            /\ count' = 0
            /\ UNCHANGED <<slots, waiting, ready, respError, threads, nextReq>>
       [] OTHER ->
            /\ nextReq <= MaxReqs
            /\ StartRequest(AddMessage(Transcript, UserMsg(nextReq)), nextReq)
  /\ UNCHANGED <<pending, stream, connected>>

\* response_thread_fn for request k: rpc_call("chat.send") sets connected
\* (false when the socket cannot be reached), then under async_lock the
\* reply or an error text is stored in pending_response (whatever it held
\* before is overwritten) and response_ready is set.
response_thread_fn(k) ==
  /\ k \in threads
  /\ \/ /\ connected' = FALSE                     \* socket or connect fails
        /\ pending' = [req |-> k, len |-> 0] /\ respError' = TRUE
     \/ /\ connected' = TRUE
        /\ \/ pending' = [req |-> k, len |-> 0] /\ respError' = TRUE
           \/ \E n \in 0..MaxLen :
                pending' = [req |-> k, len |-> n] /\ respError' = FALSE
  /\ ready' = TRUE
  /\ threads' = threads \ {k}
  /\ UNCHANGED <<slots, count, input, waiting, stream, nextReq>>

\* kd_chat_update, first part: when a response is ready it is taken under
\* async_lock; an error becomes an error message, a reply becomes the
\* stream and an empty assistant message whose index is kept
PickUp(t) ==
  IF waiting /\ ready /\ pending /= None
  THEN IF respError
       THEN [t |-> AddMessage(t, ErrorMsg(pending.req)), s |-> stream]
       ELSE LET t2 == AddMessage(t, [kind |-> "assistant", req |-> pending.req, shown |-> 0])
            IN [t |-> t2, s |-> [req |-> pending.req, len |-> pending.len,
                                 pos |-> 0, idx |-> t2.count - 1]]
  ELSE [t |-> t, s |-> stream]

\* kd_chat_update, second part: the streamed text advances one frame and
\* is copied into messages[stream_msg_idx]; once all is shown the stream
\* is freed
Reveal(t, s) ==
  IF s = None THEN [t |-> t, s |-> s]
  ELSE IF s.pos < s.len
       THEN LET s2 == [s EXCEPT !.pos = @ + 1]
            IN [t |-> [t EXCEPT !.slots[s.idx].shown = s2.pos], s |-> s2]
       ELSE [t |-> t, s |-> None]

\* kd_chat_update: take a ready response, reveal the stream, and when
\* disconnected and not waiting retry the health RPC every 5 s
kd_chat_update ==
  LET p    == PickUp(Transcript)
      r    == Reveal(p.t, p.s)
      wait == waiting /\ ~ready
  IN /\ slots' = r.t.slots /\ count' = r.t.count
     /\ stream' = r.s
     /\ waiting' = wait
     /\ pending' = IF waiting /\ ready THEN None ELSE pending
     /\ IF ~connected /\ ~wait
        THEN connected' \in BOOLEAN
        ELSE UNCHANGED connected
     /\ UNCHANGED <<input, ready, respError, threads, nextReq>>

\* kd_chat_handle_key: Enter sends; Backspace and Delete edit a non-empty
\* line into any line; Ctrl+U clears it.  Cursor movement and scrolling
\* change nothing modelled.
ChatKeyEnter == send_message
ChatKeyEdit ==
  /\ input /= "empty"
  /\ input' \in Inputs
  /\ UNCHANGED <<slots, count, waiting, ready, respError, pending, stream,
                 threads, connected, nextReq>>
ChatKeyKill ==
  /\ input' = "empty"
  /\ UNCHANGED <<slots, count, waiting, ready, respError, pending, stream,
                 threads, connected, nextReq>>

=============================================================================
