# TLA+ models of kelp-os

This directory holds TLA+ specifications of the concurrent and stateful parts
of kelp-os, TLC configurations that check them, and `PROJECT.json`. That file
records the components, the runs, the mutants, the map from each definition to
the source lines it models, the findings, and the hazards.

## The system

kelp-os has three programs that talk to each other:

* **The gateway daemon** (`src/src-c/gateway/`, with `main` in `src/unnamed/part_015`).
  - A single thread runs an edge-triggered `epoll` loop (`epoll_server.c`).
  - It accepts TCP connections and reads each socket until `EAGAIN` into a per-connection `connection_t`.
  - It parses HTTP/1.1 requests (`http_parser.c`), then matches a route and calls its handler (`router_dispatch`).
  - The handler writes the response with `http_response_send` (`src/unnamed/part_016`).
  - The routes registered in `main` are `/v1/chat/completions` (`handler_chat.c`), `/hooks/webchat` (`handler_webhook.c`) and `/health`.
  - Handlers keep conversations in a SQLite session store (`session_store.c`).
  - The WebSocket code (`part_014`: `ws_handle_upgrade`, `ws_read_frame`, `ws_send_text`) and `auth_gateway_check` exist but nothing calls them. `main` registers only the three routes above (`part_015:146-148`), so `GET /ws`, which the route table of spec.md lists as the WebSocket upgrade, is answered 404.
  - Shutdown: `signal_handler` clears `gw->running`, the loop ends after its current batch, and `gateway_destroy` closes every connection.
* **The kernel module** (`src/src-c/include/openclaw.h`, `src/unnamed/part_013`).
  - It provides `/dev/oclaw`, a ring of `RING_SIZE` message slots.
  - Writers and readers share the ring; a spinlock guards it.
  - Two wait queues hold blocked threads: readers wait for data, writers wait for room.
  - A short read keeps the rest of the message in a per-file buffer.
* **The desktop** (`src/system/bin/kelp-desktop/`, `src/unnamed/part_001..009`).
  - An SDL and Cairo shell with panels, a terminal that has a pty reader thread, a file browser and a chat panel.
  - The chat panel talks to the gateway.

The CLI (`src/src-c/cli/`), config loading, TLS and systemd notification are thin
I/O layers.

## Modules

| Module | Models | Source |
|---|---|---|
| `Gateway` | The event loop, the connections, request completion and keep-alive, response writing, shutdown. It also models the TCP clients and the kernel queues the loop depends on. | `epoll_server.c`, `http_parser.c`, `part_016`, `part_015` |
| `MessageQueue` | The abstract promise of `/dev/oclaw`: a bounded FIFO of whole messages. A message leaves only by being read. | |
| `Chardev` | `openclaw_chardev_read` and `openclaw_chardev_write` as threads, with the spinlock, the wait queues, `O_NONBLOCK`, partial reads, a `copy_to_user` that may fail, the `messages_processed` counter, and `open`/`release` of a file. It is shown to implement `MessageQueue`. | `openclaw.h`, `part_013` |
| `SessionStore` | The sessions and messages tables: open, close, create, `add_message`, `get_history`, the counts. Every SQLite call may fail. | `session_store.c` |
| `ToolRegistry` | The tool context: register (with replacement of a same-named tool), execute, the definitions catalog, the defaults. | `tool.c` |
| `ChatPanel` | The desktop chat panel: the capped transcript, the input line, `send_message` and `/clear`, the detached response threads, `kd_chat_update` with its streamed reveal. | `theme.c` |
| `FileBrowser` | The file browser panel: the working directory, `refresh_listing`, navigation, keys and clicks. | `files.c` |
| `Desktop` | The panel manager, the SDL events of the frame loop, the dock, `kd_ai_control_dispatch`; it composes `ChatPanel` and `FileBrowser`. | `part_009`, `part_006`, `part_003`, `part_002` |
| `Handlers` | The three callers of the upstream API: `handler_chat` (message selection, provider and model choice, the collect callback), `handler_webhook` and the CLI's `cmd_agent`, with the stream's chunks and each `realloc` that may fail. | `handler_chat.c`, `handler_webhook.c`, `cmd_agent.c` |
| `Terminal` | The terminal's escape-sequence parser in 32-bit arithmetic; the reader thread's read, lock-and-parse, EOF and stop steps with the output capture; the shell's exit, `kd_terminal_update`, and `kd_terminal_shutdown` with its conditional join. | `terminal.c` |
| `WebSocket` | One upgraded connection: `ws_handle_upgrade`, `ws_send_text` and `ws_read_frame` over the non-blocking socket, with a client that frames and decodes as spec.md says. | `part_014` |
| `Router` | `gateway_create`'s route table, `main`'s `gateway_add_route` calls, the method and the path/query split of the request line, `route_matches` and `router_dispatch`'s choice of preflight, handler or 404. | `http_parser.c`, `part_015` |
| `MCServices` | One model of the components checked for safety alone: `SessionStore`, `ToolRegistry`, `Handlers`, `Terminal` (rich shell output), `Chardev` with `O_NONBLOCK` threads and a reader that closes and reopens its file, `Gateway` with two clients, each direction of `WebSocket`, and `Router` with `main`'s routes. `svc`, chosen in the initial state, says which one a behaviour runs; the others keep their initial state. | |
| `MCThreads` | The same construction for the components whose progress is checked: `Chardev` with blocking threads and a reader whose `copy_to_user` may fail, `Gateway` with one client and `Terminal`'s shutdown, each under its own fairness. | |
| other `MC*` | The model values and the definitions the cfgs of one module substitute. | |

`MCServices` and `MCThreads` exist because each question gets one run and
the components share no state: a behaviour of the union is a behaviour of one
component with the others idle, so every property of a component holds in the
union exactly when it holds of the component alone. Each property of the
union is an alias (`CountMatches == Registry!CountMatches`), and each
fairness condition is conditioned on the component it belongs to
(`WF_allVars(TermStep(Term!reader_stop))`), so that the idle components'
enabled actions do not make the running one's behaviours unfair.

### Gateway

**State.** Each variable corresponds to code state:

* `open` holds the fds whose `gw->connections[fd]` is not `NULL`.
* `conn[c]` is the `connection_t` of fd `c`:
  - `state`;
  - `rbuf`, the bytes counted by `read_len`;
  - `stale`, the bytes a keep-alive reset leaves in `read_buf`;
  - `ka`, which is `keep_alive`.
* `active` is `active_connections` and `total` is `total_requests`.
* `loop` is `gw->running`, plus the state after `gateway_destroy`.

**The kernel side.** The model keeps only what the code depends on:

* `inq`: the socket receive queues.
* `ready`: the epoll ready list. Every arrival on a registered fd adds it, as edge-triggered epoll does.
* `batch`: the events one `epoll_wait` returned.
* `outq`: the client's receive buffer. Its capacity `SockCap` is what makes `write()` short.

**Clients.** They connect, send a request in two segments (headers, then an optional body), read responses, close, or reset.

**Actions.** There is one action per handler:

* `epoll_wait`, `accept_connections`, `close_connection` and `handle_client_data`.
* `handle_client_data` covers `connection_read`, `http_parse_request`, `router_dispatch`, `http_response_send` and the keep-alive reset, in the code's order.
* `signal_handler` and `gateway_destroy`.

**Data abstraction.** A request is `[ka, body]`:

* `ka` is false when the request carries `Connection: close`.
* `body` is `none`, `small`, or `huge` (beyond `GW_MAX_BODY_LEN`).
* Bytes become segments. The header block is sent in one piece, so `\r\n\r\n` is found exactly when it has arrived.
* A response takes 1 unit of socket buffer without a body and 2 units with one.

### Chardev

**Threads.** Each writer and reader is a thread. Its `pc` stops wherever another thread can run:

* before each `spin_lock_irqsave`;
* inside the locked section;
* between the two unlocks of the blocking full-ring path (`openclaw.h:312` and `:318`);
* inside `wait_event_interruptible`;
* between the unlock and the `wake_up_interruptible` that follows it.

**Locked sections.** A section run under the lock is one step. `locked` is the spinlock. Because of the double unlock, the model tracks "inside a locked section" (`Critical`) separately from `locked`.

**Wait queues.**

* `rq` and `wq` are the sleepers on each queue. `wake_up_interruptible` sends every sleeper back to re-check its condition.
* Checking the condition and going to sleep is one step, as `prepare_to_wait` makes it in the kernel.
* Signals end a wait, bounded by `MaxSignals`.

**Data.**

* A message is `<<writer, n>>`, `MsgLen` bytes long.
* A read asks for 1 to `MsgLen` bytes. A short read stores the remainder in `left[r]` (`fdata->read_buf`), which the next read serves without the lock.
* `CopyOut` is the reader's work after it has dequeued a message, outside the lock: keep the remainder, and load `messages_processed` (`loaded[r]`). `RCount` is the store of `messages_processed + 1`; the unlocked `++` is a load and a store, so another reader may run between them.
* A reader in `BadBuffers` may have `copy_to_user` fail: the read returns `-EFAULT`, and the message it dequeued is freed without being delivered.

**Files.** `opened` holds the threads with an open file. A thread in `Closers` may `Release` its file when idle (the kernel calls `release` only once no system call is using the file) and `Open` it again; `release` frees the leftover buffer, so the remainder of a short read is lost with it.

**Refinement.** `FifoRefinement` checks `Queue!Spec`, an instance of `MessageQueue`:

* `queue` is mapped to the ring contents from `tail` to `head`.
* `removed` is mapped to `Dequeued`: the messages that were stored (every message up to a writer's count, and the one a writer between its wake-up and its store is about to store) and are no longer in the ring.

A step that shrinks the ring without a reader taking the message is therefore not a `Dequeue`, and a store over a queued message makes that message leave without being read.

### SessionStore

* `sessions` and `msgs` are the two tables; a row is `[sid, at]`, its row id its position.
* `now` is `time(NULL)` in seconds, so rows may share a `created_at`.
* `history` is the last `get_history` result. SQLite's order among rows with equal keys is unspecified, so any such order is a possible result.
* No property of the store is checked. What a successful `add_message` or `get_history` does restates one line of the code (the `rc == SQLITE_DONE` return, the `ORDER BY`), and a type invariant of the tables has no plausible code slip that breaks it. The two things that can go wrong are code behaviours, not checked invariants: rows added in the same second may come back in either order (`session_store.c:124`), and `add_message` accepts a session id `create` never returned (`session_store.c:116`, no foreign keys). Stating either would need a violation run, and every run slot holds a finding. Nothing in the repository calls the store.

### ToolRegistry

* `tools` is the name map and `count` is `tool_count`, kept by hand beside it.
* Each allocation of a registration (entry, name, map insert) may fail.
* `kelp_tool_register_defaults` is a fold of registrations with `rc |=`.

### ChatPanel

* `slots`/`count` are `g_chat.messages`/`msg_count`. `AddMessage` drops the oldest message at `MAX_CHAT_MESSAGES`.
* The input line is abstracted to empty, `/clear`, `/quit` or other text.
* A response thread is one step: the RPC, then the section under `async_lock` that sets `pending_response` and `response_ready`. `threads` holds the requests whose thread is running.
* `stream` is `stream_text`/`stream_pos`/`stream_msg_idx`. A reply's length is counted in frames of reveal.
* `kd_chat_update` is one action: pick up a ready response, reveal one frame, retry the health RPC when disconnected.

### FileBrowser

* A path is a sequence of names (numbers, numeric order standing for `strcmp`); `..` is name 0.
* `Listings(p)` is every result `refresh_listing` can give: `..` unless at `/`, then at most `MAX_ENTRIES` children in an unspecified `readdir` order (which ones are kept under the cap is a choice), sorted by `entry_compare`; `opendir` may fail, leaving only `..`.
* `KeyResults` is the key switch of `kd_files_handle_key`; `FollowSelection` is its scroll adjustment with `vis = 20` (`VisRows`).
* `kd_files_handle_click` selects the row under the click or, if it is already selected, navigates to it.

### Desktop

* `visible`, `focused` and `focusPanel` are the panels' flags and `d->focus_panel`; `running` is `d->running`.
* The panel operations (`FocusOp`, `OpenOp`, `CloseOp`, `ToggleOp`) are operators on a record so that the dock, the clicks and the AI actions share them.
* Geometry is left out: the tiled panels do not overlap, so a click is on the dock, on one visible panel, or on nothing.
* `kd_ai_control_dispatch(method)` runs the action of each method that changes state (click, type, open, close) as one step between two frame-loop steps.
* `kd_chat_send_text` (`theme.c:277-297`) is not an action: nothing in the repository calls it, so a request only starts from `send_message`. `kd_ai_control_dispatch` has no caller either; it is kept because its actions are the panel operations the frame loop also performs, and `FocusConsistent` covers them.

### Terminal

* `term` holds the cursor, the parser state, the CSI buffer (its digits and `;`, and its length), the scrolling region, and `oob`, which records a write outside the grid.
* Cell contents and colours are left out.
* Cursor arithmetic wraps at 32 bits (`Add32`): signed overflow is undefined in C, and the wrap is what the build produces.
* Erase and insert-line ranges are decided in closed form, because after a wrap a range can span 2^31 rows.
* The reader thread (`reader`) is split where it takes `output_lock`: `pty_read(c)` is the poll and `read()` (the chunk is held in `rbuf`), and `pty_reader_fn` parses the chunk under the lock and appends it to the capture buffer when `output_len + n < TERM_OUTPUT_SIZE - 1`. `outLen` is `output_len`; `OutputSize` stands for the 64 KiB. `TermTypeOK` states that the NUL written at `output_buf[output_len]` lies inside the buffer (`output_len <= TERM_OUTPUT_SIZE - 1`); its mutant tests `output_len + n <= TERM_OUTPUT_SIZE` (the chunk fits but its NUL does not).
* `pty_reader_eof` is `read()` returning 0 or an error once the shell is gone or the pty closed: the thread clears `pty_active` and ends. `reader_stop` is the loop's test of `reader_running`.
* `shell_exit` is the shell exiting; `kd_terminal_update` reaps it with `waitpid(WNOHANG)` and clears `pty_active`.
* `kd_terminal_shutdown` clears `reader_running` and, only if `pty_active` is still set, waits in `pthread_join` (`main = "join"`, ended by `shutdown_joined`). `ShutdownRest` is the rest: close the pty, `SIGTERM` the shell by its never-reset `child_pid`, destroy `output_lock`.
* `kd_terminal_handle_key`, `handle_text` and `inject_text` only write to the shell's input when `pty_active`; what the shell does with it (echo, exit on Ctrl-D) is already the model's nondeterministic output and `shell_exit`.

### WebSocket

* Bytes are naturals below 256, and each direction of the socket is a sequence of them: `toClient`, and `clientOut`/`toServer` for what the client has sent and what has arrived. `Arrive` delivers the next segment, of any size.
* `EncodeHeader` is the header `ws_send_text` builds. `ReadFrame` is `ws_read_frame` on the bytes that have arrived. Each of its `read()`s takes what is there up to its count, a short one ends the call with -1, and a close frame also gives -1. It returns the result and the number of bytes consumed. `Unmask` and `BigEndian` are its two loops.
* `ws_send_text` puts any prefix of the frame on the wire, since the header write and the payload loop may stop at any byte on the non-blocking socket. It returns 0 only when the whole frame was written.
* `ws_handle_upgrade` is the write of the 101 reply, whole or short. The accept key's SHA-1 and base64 are left out.
* `ClientFrame` and `ClientDecode` are the client's side, written from spec.md's frame format: masked frames in the shortest length form out, unmasked frames in. They are the reference the code is checked against.
* After a read returns -1 the server closes the connection, so nothing more is sent.
* Nothing in the repository calls these functions. They are modelled because the spec lists the upgrade and the codec.

### Router

* `routes` is `gw->routes` up to `route_count`, and `cap` is `route_cap`. `added` counts `main`'s registrations so far, and dispatch starts once all of them are in.
* A URL is a sequence of tokens: path segments, and `"?"` where the query string starts. `PathOf` is `http_parse_request`'s split at the first `?`. A pattern is its segments plus whether it ends in `*`. The wildcard's `strncmp` becomes a prefix test on segments, which is the same thing for patterns whose `*` follows a `/`.
* `gateway_add_route` doubles `route_cap` before the `realloc`, and a failed `realloc` leaves the cap doubled. With `main`'s 3 routes and the initial cap of 32, this branch is never taken.
* `Dispatch` is `router_dispatch`: `OPTIONS` gets the preflight whatever the path, then the first matching route in registration order is used, and anything else gets 404.
* `RoutedAsRegistered` compares each dispatch with `Registered`, the handlers `main` registered for the method and path. It uses `RequestPath`, which finds the path independently of `PathOf`.
* `GET /ws` is answered 404. That is what `main` registers; the spec's route table lists a WebSocket upgrade there.

### Handlers

* A request is a record in `req`; `call` is what goes upstream (provider, key, model, prompt, system prompt) and `reply` the HTTP status and body, or the CLI's exit status and output. A handler step runs from `req = None`, and `Done` goes back to it, so each request is explored once.
* A body is `empty`, `invalid` JSON, or JSON whose fields each may be missing. Messages are `[role, content]` with a content that may be a non-string (`None`).
* `SelectMessages` is the `cJSON_ArrayForEach` loop of `handler_chat` as a fold: the last user and the last system message with a string content. `ChatRoute` is the provider and model choice (`claude*` forces Anthropic, `gpt*` OpenAI, otherwise the default, with its configured model when none is given).
* The stream is a sequence of chunk lengths and the set of chunks whose `realloc` fails. `collect_text` is the callback: capacity 4096 doubled by `Grown` until `len + n + 1` fits; a failed `realloc` returns with the chunk dropped. `Collected` folds it over the chunks.
* `handler_webhook` uses the default provider and its model and the configured system prompt; `cmd_agent` prints every chunk as it comes and exits 0 exactly when the stream returned `OC_OK`.

## Runs

| Run | Cfg | Expect | What it shows |
|---|---|---|---|
| gateway_replay | `MCGateway_replay.cfg` | violation | `ReplyIsForRequest`: a response answering an earlier request. See the findings. |
| threads | `MCThreads.cfg` | pass | Under each component's fairness. Chardev with 1 blocking writer, 1 blocking reader whose `copy_to_user` may fail, RING_SIZE 3 and 4 messages: the ring implements the bounded FIFO (`FifoRefinement`), every message stored in the ring is eventually taken by the reader (`MessageDelivered`), a writer asleep on a full ring is woken (`WriterWoken`). Gateway with 1 client: every completely sent, in-limit request is eventually dispatched (`RequestServed`), the edge-triggered draining argument. Terminal: a shutdown that waits in `pthread_join` completes (`ShutdownCompletes`). |
| chardev_double_unlock | `MCChardev_unlock.cfg` | violation | `MutualExclusion`: a reader's lock is released by a writer's second unlock, and the writer then enters with the reader. |
| chardev_lost_write | `MCChardev_lost.cfg` | violation | `FifoRefinement`: two blocking writers; the one woken from the wait stores into a ring the other has filled. |
| chardev_stats | `MCChardev_stats.cfg` | violation | `StatsCountCopies`: two readers each load `messages_processed` before either stores, and two copied messages are counted once. |
| desktop | `MCDesktop.cfg` | pass | Through clicks, dock toggles, AI actions, chat traffic with its threads, and file-browser keys and clicks: the focus is consistent with the visible panels (`FocusConsistent`) and the file selection stays on an entry, at or after the scroll offset (`SelectionInListing`). |
| desktop_stream_clear | `MCDesktop_stream.cfg` | violation | `StreamTargetsOwnReply`: a message is sent and `/clear` typed while it is awaited; the reply is picked up and half revealed, and Enter on `/clear` sets `msg_count` to 0 while `stream_msg_idx` still names the reply's slot (7 states). |
| terminal_cursor_overflow | `MCTerminal.cfg` | violation | `CursorInGrid`: `ESC [ 2147483647 B` after a newline wraps `cursor_y` negative. |
| terminal_shutdown_race | `MCTerminal_shutdown.cfg` | violation | `ChunkParsedUnderLiveLock`: the shell exits and is reaped, the reader holds a chunk, and the shutdown destroys `output_lock` without joining. |
| services | `MCServices.cfg` | pass | Session store: its operations run, with no property (see `SessionStore`). Tool registry: `tool_count` equals the map's entries through registrations, replacements, failed allocations and the defaults (`CountMatches`). Handlers: the prompt is the last user message and a request with one is sent whenever a key exists (`PromptIsLastUserMessage`); the collect buffer always has room for the text and its NUL (`BufferHoldsText`). Terminal: for shell output short of a huge parameter the cursor stays on the grid and no cell outside it is written (`CursorInGrid`), and the capture buffer's NUL stays inside it (`TermTypeOK`). Chardev with 2 `O_NONBLOCK` writers, a blocking and an `O_NONBLOCK` reader that also closes and reopens its file: the lock excludes (`MutualExclusion`) and the ring stays a FIFO (`FifoRefinement`). Gateway with 2 clients, 2 requests each, all request kinds and SockCap 1: `active_connections` equals the live connections (`ActiveMatchesOpen`); only complete, in-limit requests are dispatched (`DispatchOnlyWholeRequests`). WebSocket, one direction at a time: every text `ws_send_text` returned 0 for reaches the client whole and in order (`ClientReadsSentTexts`), and every frame `ws_read_frame` returns is the client's next one, unmasked (`ServerReadsClientFrames`), each until the first failed write or read. Router, with `main`'s three routes: `router_dispatch` answers `OPTIONS` with the preflight, a registered method and path with its handler whatever the query string, and everything else, a `GET` of a `POST` route included, with 404 (`RoutedAsRegistered`). A type invariant for every other component. |
| handlers_partial_text | `MCHandlers.cfg` | violation | `ReplyHasWholeText`: one failed `realloc` in the collect callback, and `handler_chat` answers 200 with the other chunk only. |
| handlers_system_prompt | `MCHandlers_system.cfg` | violation | `SystemIsFirstSystemMessage`: a request with two system messages has the second sent upstream. |

Every property of a passing run has a mutant in `PROJECT.json`: a plausible bug
in the mapped definition that TLC must catch with the run's own configuration.

## Findings

1. **Replayed request** (`epoll_server.c:167`).
   - The keep-alive reset sets `read_len = 0` but leaves the old request in `read_buf`.
   - A body that arrives while the socket is being drained re-queues the fd. The next `handle_client_data` then reads nothing.
   - `http_parse_request` still finds the old header end with `strstr`, and `body_available` wraps around.
   - The previous request is dispatched again, and the client reads a second reply to it.
2. **Double unlock** (`openclaw.h:318`). The blocking full-ring path releases `ring_lock` twice.
3. **Lost messages** (`openclaw.h:324`).
   - After the wait, the writer re-locks and stores without re-checking for room.
   - With a second writer, `head` can become equal to `tail`, and every queued message is lost.
4. **`/clear` during a streamed reply** (`theme.c:254`).
   - `/clear` frees the messages and sets `msg_count = 0` but keeps `stream_msg_idx`.
   - The next `kd_chat_update` frees `messages[stream_msg_idx].text` a second time and writes the reply past `msg_count`.
5. **Cursor overflow** (`terminal.c:222`).
   - `handle_csi` adds the parameter to `cursor_y` and clamps only at the bottom.
   - `ESC [ 2147483647 B` overflows to a negative row, and the next character writes outside `grid`.

6. **Partial reply answered 200** (`handler_chat.c:27`, and `handler_webhook.c:26`).
   - The collect callback returns without the chunk when `realloc` fails; a later chunk that fits is still appended.
   - The handler answers 200 with a reply that has a hole in it, where the spec says it collects the full text.
7. **Last system message, not first** (`handler_chat.c:78`). The spec says the first system message overrides the configured prompt; the loop keeps overwriting `system_msg`, so the last one is sent.
8. **Shutdown without the join** (`terminal.c:455`).
   - `kd_terminal_shutdown` joins the reader only while `pty_active` is set, and `kd_terminal_update` clears it when it reaps the exited shell.
   - A reader that has just read the shell's last output then locks and parses it under the `output_lock` that the shutdown has destroyed.

9. **Lost count of copied messages** (`openclaw.h:268`).
   - `messages_processed++` runs after the unlock, so two readers on two files can both load the old value and store the same one.
   - The ioctl's `messages_processed` then reports fewer messages than were copied. `bytes_written += written` (`openclaw.h:336`) is outside the lock in the same way.

The model also shows two weaknesses of `part_014`. No run states them, because the code has no caller whose handling of -1 could be checked:

* A failed `ws_send_text` leaves part of a frame on the wire, and the client misreads every later frame.
* `ws_read_frame` treats a frame split across TCP segments as an error, and loses the bytes it has read.

Hazards that no run states as a property, listed in `PROJECT.json` with a note:

* `http_response_send` gives up on `EAGAIN` after a short write (`part_016:85`), and the connection is reused.
* Backspace at `/` calls `navigate_to_entry(0)` "since `..` is always first" (`files.c:267`). At `/` there is no `..`, so Backspace enters the first subdirectory.
* `handler_chat` answers a stream that ended `OC_OK` with no text (only a tool call) with 502 (`handler_chat.c:156`).
* `kd_terminal_shutdown` signals `child_pid` even after `kd_terminal_update` reaped that child, so the pid may belong to another process by then (`terminal.c:461`).

## Bounds

**Gateway.**

* `MaxReqs = 2` is the smallest number of requests where a keep-alive reset is followed by a new request, which is the replay case.
* `SockCap = 4` (in `gateway_replay`) holds two full 2-unit responses, so no response is truncated and the replayed reply is the only way a client reads a wrong one. `SockCap = 1` (in `services`) still makes every response with a body a short write, and keeps the union small.
* Two clients interleave in one batch and share the counters.
* The symmetry over clients is used only in `services`; `threads` has one client.

**Chardev.**

* `RING_SIZE` 2 (one slot of room) and 3 both reach full and empty rings.
* `MsgLen = 2` with read counts 1 and 2 covers partial reads.
* One signal covers an interrupted wait in both a reader and a writer (`threads` and the violation runs; `services` has none).
* `chardev_stats` needs two readers and one writer with two messages, so that both readers hold a copied message at once.
* In `services` one reader may close its file and open it again; in `threads` the reader's `copy_to_user` may fail. Each fault is kept to one union, where it costs least.

**SessionStore.** Two sessions, three rows and three seconds give rows that share a second and rows of two sessions interleaved. Limits 0 (the default 50) and 1 (a cut-off) are checked.

**ToolRegistry.** Two names and three definitions, two sharing a name, so that a replacement happens both by hand and in the defaults.

**Desktop.**

* `MAX_CHAT_MESSAGES = 3` with the welcome and connect messages reaches the cap and the shift.
* `MaxReqs = 2` gives two requests with overlapping threads.
* `MaxLen = 2` gives a reply revealed over two frames, so a step can come between the frames.
* The file tree is `/` holding a directory and two files, and the directory holding a subdirectory and a file. `MAX_ENTRIES = 2` is below the three children of `/`, so the cap cuts.
* `VisRows = 1` and two click rows make the scroll adjustment and clicks below it happen.
* The run explores 3.7 million states in under two minutes.

**Terminal.**

* A 4x3 grid and chunks that move past every edge, split a sequence across two reads, set a region, erase, and (in `terminal_cursor_overflow` only) carry `INT_MAX` as a parameter.
* `OutputSize = 8` makes the capture buffer fill, so both branches of the capture test happen.
* For the shutdown, a character and a newline are enough output: what matters is that the reader holds a chunk.

**Handlers.**

* Two contents, three models (one of each family) and two providers with every subset of keys.
* Up to two messages (three for `handlers_system_prompt`, which needs a user and two system messages), with the roles user, system and assistant, each with one of the two contents or a non-string one.
* Streams of up to two chunks of 1, 4095 or 4096 bytes, each whose `realloc` may fail: 4095 + 1 fills the first 4096 bytes exactly with the NUL, and 4096 forces a doubling.

**WebSocket.**

* Texts of 1 and 126 bytes: 125 is the last length of the 7-bit form and 126 the first of the 16-bit one.
* Client frames:
  - a 5-byte text, whose fifth byte reuses the first byte of the key;
  - a 126-byte text;
  - a close frame.
* Two of each, so that a frame follows another in the same buffer.
* The 64-bit form (65536 bytes and more) is in `EncodeHeader` and `ReadFrame` but not exercised: its payloads are too long for explicit sequences.
* The two directions run as separate components of `MCServices`, because after the upgrade they share no state.

**Router.** `main`'s three routes, and the following requests:

* URLs:
  - each registered path;
  - two of the paths with a query string;
  - a proper prefix of a path;
  - `/ws`;
  - `/`.
* Method tokens: `GET`, `POST`, `OPTIONS`, `DELETE`, and one that is not a method.

**Unions.** `MCServices` explores about 1.6 million distinct states in about two minutes, `MCThreads` some thousands in under 10 s.

## Fairness

**Gateway.** One thread runs the loop, so each of its handlers is weakly fair:

* `epoll_wait` returns whenever the ready list is non-empty; its 1 s timeout only re-checks `running`.
* Every event in a batch is handled.

Clients get no fairness, because a peer may stop.

**Chardev.** Each thread's own steps are strongly fair:

* The kernel schedules runnable threads.
* `ring_lock` is a queued (FIFO) spinlock, so a spinning thread eventually gets it.

Readers are assumed to keep calling `read()`, as the gateway daemon that consumes `/dev/oclaw` does. Writers may stop, and signals are never forced.

**Terminal.** The reader thread and the main thread are scheduled by the OS, and the reader's `poll` times out every 100 ms, so it keeps testing `reader_running` and sees EOF: the parse of a held chunk, `pty_reader_eof`, `reader_stop` and the end of the join are weakly fair. The shell gets no fairness: it may never exit.

In `MCThreads` each of these conditions applies only to the behaviours that run its component.

**The other modules** check safety only and assume no fairness.

**Deadlock.** Deadlock checking is off where the system may stop:

* The gateway stops once `gateway_destroy` has run.
* A chardev reader may sleep forever on an empty ring once the writers are done.
* The desktop stops after `SDL_QUIT`, and the terminal once `kd_terminal_shutdown` is done (the desktop exits right after it). For the same reason deadlock checking is off in `MCServices` and `MCThreads`.

## Not modelled, and why

* **Header text:** header names and values (the method and the path/query split are in `Router`).
* **Response formatting:** building headers and bodies.
* **Stats ioctl:** `openclaw_chardev_ioctl` only copies the statistics out. Of the statistics, `messages_processed` is modelled (it is what `StatsCountCopies` is about); `bytes_read` and `bytes_written` are byte sums updated the same way and are left out.
* **Thin I/O:** TLS, systemd, config and the CLI.
* **Desktop drawing:** theme, render, cursor, topbar, the monitor panel, animations and layout geometry.
* **Terminal details:** cell contents, colours (`handle_sgr`) and drawing. The keys and text written to the pty change no state of the panel.
* **Gateway routes not reached by the models:** `/health` only formats a status; `auth_gateway_check` and the webchat channel are not called by any route.
* **WebSocket's accept key** (SHA-1 and base64 through OpenSSL) is left out. The rest of `part_014` is modelled, although no code calls it.
* **The upstream HTTP client** (`http_stream_post` and its SSE parser) is not in the repository; its result is modelled as a stream of chunks and a return code.
* **Kernel netfilter and procfs:** they are registration and output only.

In the chardev model a locked section is atomic even where the double unlock lets two threads overlap. The model shows the overlap (`MutualExclusion`), not the data races that follow from it.

## Plan

1. `Gateway`, `Chardev`/`MessageQueue`, `SessionStore`, `ToolRegistry`, `ChatPanel`, `FileBrowser`, `Desktop`, `Terminal`, `Handlers`, `WebSocket`, `Router`: done.
2. Compose `Router` into `Gateway`, so that a request's kind includes its method and path.
3. Properties still to state: Backspace never descends (`files.c:267`), a response is written whole or the connection closed (`part_016:85`), and the AI dispatch as a separate thread racing the frame loop. Every run slot is in use, so each needs a run folded into a union or replacing a weaker one.
