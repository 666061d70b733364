----------------------------- MODULE Terminal -----------------------------
(***************************************************************************)
(* The terminal panel of kelp-desktop (terminal.c): the escape-sequence   *)
(* parser the pty reader thread runs on every chunk it reads, and the     *)
(* lifecycle of the shell, the pty and the reader thread.                 *)
(*                                                                         *)
(* A byte is a one-character string, or a name for a control character   *)
(* ("ESC", "LF", "CR", "BS", "TAB").  The grid's cell contents and the    *)
(* colour attributes are left out; what is kept is every index the parser *)
(* computes and whether a cell it writes lies outside the grid.  The      *)
(* cursor arithmetic is done in 32-bit two's complement: signed overflow  *)
(* is undefined in C, and the wrapped value is what the build produces.   *)
(***************************************************************************)
EXTENDS Integers, Sequences, SequencesExt

CONSTANTS Cols,    \* g_term.cols (80)
          Rows,    \* g_term.rows (24)
          Chunks,  \* the byte sequences one read() of the pty may return
          OutputSize \* TERM_OUTPUT_SIZE (64 KiB)

IntMax == 2147483647
IntMin == -IntMax - 1

\* a + b and a - b for 32-bit int, wrapping on overflow
Add32(a, b) ==
  IF b > 0 /\ a > IntMax - b THEN (a - IntMax - 1) + (b - IntMax - 1)
  ELSE IF b < 0 /\ a < IntMin - b THEN (a + IntMax + 1) + (b + IntMax + 1)
  ELSE a + b
Sub32(a, b) == IF b = IntMin THEN Add32(Add32(a, IntMax), 1) ELSE Add32(a, -b)
Mul10(a) == LET d == Add32(a, a) IN Add32(Add32(Add32(d, d), Add32(d, d)), d)

Digits  == [c \in {"0", "1", "2", "3", "4", "5", "6", "7", "8", "9"} |->
              CASE c = "0" -> 0 [] c = "1" -> 1 [] c = "2" -> 2 [] c = "3" -> 3
                [] c = "4" -> 4 [] c = "5" -> 5 [] c = "6" -> 6 [] c = "7" -> 7
                [] c = "8" -> 8 [] OTHER -> 9]
\* the bytes 0x40..0x7E that end a CSI sequence, among those the model uses
Finals == {"A", "B", "C", "D", "H", "f", "J", "K", "L", "m", "r", "c", "[", "x"}

CSI_BUF == 64   \* sizeof(g_term.csi_buf)

\* g_term.csi_buf holds every byte of a sequence below 0x40; only its
\* digits and ';' reach the parameters, so csi keeps those and csiLen
\* counts all of them (csi_len).
VARIABLES term,       \* g_term: [x, y, st, csi, csiLen, top, bot, oob]
          ptyActive,  \* g_term.pty_active
          reader,     \* the reader thread: "none", "running", "read" (holds a chunk), "exited"
          child,      \* the shell: "none", "alive", "dead" (not reaped), "reaped"
          running,    \* g_term.reader_running
          ptyOpen,    \* g_term.pty_master is an open fd
          lock,       \* g_term.output_lock: "live" or "destroyed"
          main,       \* the main thread: "frames", "join" (in pthread_join), "down"
          rbuf,       \* the chunk the reader has read and not yet parsed
          outLen      \* g_term.output_len

termVars == <<term, ptyActive, reader, child, running, ptyOpen, lock, main, rbuf, outLen>>

TermTypeOK ==
  /\ term.st \in {"NORMAL", "ESC", "CSI"}
  /\ term.csi \in Seq(DOMAIN Digits \cup {";"})
  /\ term.csiLen \in 0..(CSI_BUF - 1) /\ Len(term.csi) <= term.csiLen
  /\ term.oob \in BOOLEAN
  /\ ptyActive \in BOOLEAN
  /\ reader \in {"none", "running", "read", "exited"}
  /\ child \in {"none", "alive", "dead", "reaped"}
  /\ running \in BOOLEAN /\ ptyOpen \in BOOLEAN
  /\ lock \in {"live", "destroyed"} /\ main \in {"frames", "join", "down"}
  /\ rbuf \in Seq(STRING)
  \* output_buf[output_len] = '\0' lands inside the TERM_OUTPUT_SIZE buffer
  /\ outLen \in 0..(OutputSize - 1)

\* whether term_clear_line(row, from, to) writes a cell outside the grid:
\* it writes columns from .. min(to, cols) - 1 of the row
ClearOOB(row, from, to) ==
  LET last == IF to < Cols THEN to - 1 ELSE Cols - 1
  IN from <= last /\ (row < 0 \/ row >= Rows \/ from < 0)

Clear(t, row, from, to) == [t EXCEPT !.oob = @ \/ ClearOOB(row, from, to)]

\* term_newline without the check for the bottom of the scrolling region
term_newline_NoScroll(t) == [t EXCEPT !.x = 0, !.y = @ + 1]

\* term_newline: column 0, then down a line or, at the bottom of the
\* scrolling region, the region scrolls up (term_scroll_up)
term_newline(t) ==
  IF t.y >= t.bot THEN [t EXCEPT !.x = 0] ELSE [t EXCEPT !.x = 0, !.y = @ + 1]

\* parse_csi_params: decimal parameters separated by ';', at most 16
parse_csi_params(buf) ==
  LET step(a, ch) ==
        IF a.stop THEN a
        ELSE IF ch \in DOMAIN Digits
             THEN [a EXCEPT !.val = Add32(Mul10(@), Digits[ch]), !.has = TRUE]
             ELSE IF ch = ";"
                  THEN LET ps == Append(a.ps, IF a.has THEN a.val ELSE 0)
                       IN [a EXCEPT !.ps = ps, !.val = 0, !.has = FALSE,
                                    !.stop = Len(ps) >= 16]
                  ELSE a
      r == FoldLeft(step, [ps |-> <<>>, val |-> 0, has |-> FALSE, stop |-> FALSE], buf)
  IN IF r.has /\ Len(r.ps) < 16 THEN Append(r.ps, r.val) ELSE r.ps

\* handle_csi: the cursor movements clamp only on the side they move
\* towards; erase writes the cells of the rows and columns it names;
\* DECSTBM takes a region only when top < bottom < rows
handle_csi(t, final) ==
  LET p    == parse_csi_params(t.csi)
      np   == Len(p)
      n    == IF np > 0 /\ p[1] > 0 THEN p[1] ELSE 1
      mode == IF np > 0 THEN p[1] ELSE 0
  IN CASE final = "A" -> LET y == Sub32(t.y, n) IN [t EXCEPT !.y = IF y < 0 THEN 0 ELSE y]
       [] final = "B" -> LET y == Add32(t.y, n) IN [t EXCEPT !.y = IF y >= Rows THEN Rows - 1 ELSE y]
       [] final = "C" -> LET x == Add32(t.x, n) IN [t EXCEPT !.x = IF x >= Cols THEN Cols - 1 ELSE x]
       [] final = "D" -> LET x == Sub32(t.x, n) IN [t EXCEPT !.x = IF x < 0 THEN 0 ELSE x]
       [] final \in {"H", "f"} ->
            LET row == IF np > 0 /\ p[1] > 0 THEN p[1] - 1 ELSE 0
                col == IF np > 1 /\ p[2] > 0 THEN p[2] - 1 ELSE 0
            IN [t EXCEPT !.y = IF row >= Rows THEN Rows - 1 ELSE row,
                         !.x = IF col >= Cols THEN Cols - 1 ELSE col]
       [] final = "J" ->
            \* rows cursor_y+1 .. rows-1 (mode 0) or 0 .. cursor_y-1 (mode 1)
            \* are cleared whole: one lies outside the grid iff the range
            \* reaches below row 0 or beyond the last row
            CASE mode = 0 -> [Clear(t, t.y, t.x, Cols) EXCEPT !.oob = @ \/ t.y + 1 < 0]
              [] mode = 1 -> [Clear(t, t.y, 0, Add32(t.x, 1)) EXCEPT !.oob = @ \/ t.y > Rows]
              [] OTHER -> t   \* mode 2 clears the grid itself
       [] final = "K" ->
            CASE mode = 0 -> Clear(t, t.y, t.x, Cols)
              [] mode = 1 -> Clear(t, t.y, 0, Add32(t.x, 1))
              [] mode = 2 -> Clear(t, t.y, 0, Cols)
              [] OTHER -> t
       [] final = "r" ->
            LET top == IF np > 0 /\ p[1] > 0 THEN p[1] - 1 ELSE 0
                bot == IF np > 1 /\ p[2] > 0 THEN p[2] - 1 ELSE Rows - 1
            IN IF top < bot /\ bot < Rows THEN [t EXCEPT !.top = top, !.bot = bot] ELSE t
       [] final = "L" ->   \* rows cursor_y .. cursor_y+n-1 below rows (n >= 1)
            [t EXCEPT !.oob = @ \/ t.y < 0]
       [] OTHER -> t   \* 'm' (colours) and the rest

\* term_putchar: the NORMAL / ESC / CSI state machine
term_putchar(t, ch) ==
  CASE t.st = "NORMAL" ->
         CASE ch = "ESC" -> [t EXCEPT !.st = "ESC"]
           [] ch = "LF"  -> term_newline(t)
           [] ch = "CR"  -> [t EXCEPT !.x = 0]
           [] ch = "BS"  -> IF t.x > 0 THEN [t EXCEPT !.x = @ - 1] ELSE t
           [] ch = "TAB" -> LET s == Add32(t.x, 8)
                                x == s - (s % 8)      \* (x + 8) & ~7
                            IN [t EXCEPT !.x = IF x >= Cols THEN Cols - 1 ELSE x]
           [] OTHER ->   \* a printable character
                LET t1 == IF t.x >= Cols THEN term_newline(t) ELSE t
                IN [t1 EXCEPT !.oob = @ \/ t1.y < 0 \/ t1.y >= Rows \/ t1.x < 0,
                              !.x = Add32(@, 1)]
    [] t.st = "ESC" ->
         CASE ch = "[" -> [t EXCEPT !.st = "CSI", !.csi = <<>>, !.csiLen = 0]
           [] OTHER -> [t EXCEPT !.st = "NORMAL"]      \* 'c' resets the colours
    [] OTHER ->
         IF ch \in Finals
         THEN [handle_csi(t, ch) EXCEPT !.st = "NORMAL"]
         ELSE IF t.csiLen >= CSI_BUF - 1 THEN t
         ELSE IF ch \in DOMAIN Digits \cup {";"}
              THEN [t EXCEPT !.csi = Append(@, ch), !.csiLen = @ + 1]
              ELSE [t EXCEPT !.csiLen = @ + 1]

\* term_write: every byte of the chunk in order
term_write(t, data) == FoldLeft(term_putchar, t, data)

\* kd_terminal_init: an empty grid, the cursor home, the whole screen as
\* scrolling region; forkpty may fail, and then no reader is started
TermInit ==
  /\ term = [x |-> 0, y |-> 0, st |-> "NORMAL", csi |-> <<>>, csiLen |-> 0,
             top |-> 0, bot |-> Rows - 1, oob |-> FALSE]
  /\ \/ /\ ptyActive = TRUE /\ running = TRUE /\ ptyOpen = TRUE
        /\ reader = "running" /\ child = "alive"
     \/ /\ ptyActive = FALSE /\ running = FALSE /\ ptyOpen = FALSE
        /\ reader = "none" /\ child = "none"
  /\ lock = "live" /\ main = "frames" /\ rbuf = <<>> /\ outLen = 0

\* pty_reader_fn, top of the loop: poll and read() return a chunk of the
\* shell's output (the shell may have exited with output still buffered)
pty_read(c) ==
  /\ reader = "running" /\ running /\ ptyOpen
  /\ reader' = "read" /\ rbuf' = c
  /\ UNCHANGED <<term, ptyActive, child, running, ptyOpen, lock, main, outLen>>

\* pty_reader_fn with the capture bound as "the chunk fits": the NUL after
\* a chunk that fills the buffer lands one past its end
pty_reader_fn_NoNulRoom ==
  /\ reader = "read"
  /\ term' = term_write(term, rbuf)
  /\ outLen' = IF outLen + Len(rbuf) <= OutputSize THEN outLen + Len(rbuf) ELSE outLen
  /\ reader' = "running" /\ rbuf' = <<>>
  /\ UNCHANGED <<ptyActive, child, running, ptyOpen, lock, main>>

\* pty_reader_fn: the chunk is parsed under output_lock and appended to
\* the capture buffer when it fits, with room left for the NUL; a chunk
\* that does not fit is dropped from the capture
pty_reader_fn ==
  /\ reader = "read"
  /\ term' = term_write(term, rbuf)
  /\ outLen' = IF outLen + Len(rbuf) < OutputSize - 1 THEN outLen + Len(rbuf) ELSE outLen
  /\ reader' = "running" /\ rbuf' = <<>>
  /\ UNCHANGED <<ptyActive, child, running, ptyOpen, lock, main>>

\* pty_reader_fn: read() returns 0 or an error other than EAGAIN/EINTR
\* once the shell has gone or the pty is closed; the thread clears
\* pty_active and ends
pty_reader_eof ==
  /\ reader = "running" /\ (child \in {"dead", "reaped"} \/ ~ptyOpen)
  /\ ptyActive' = FALSE /\ reader' = "exited"
  /\ UNCHANGED <<term, child, running, ptyOpen, lock, main, rbuf, outLen>>

\* pty_reader_fn: the loop ends when reader_running has been cleared
reader_stop ==
  /\ reader = "running" /\ ~running
  /\ reader' = "exited"
  /\ UNCHANGED <<term, ptyActive, child, running, ptyOpen, lock, main, rbuf, outLen>>

\* the shell exits
shell_exit ==
  /\ child = "alive"
  /\ child' = "dead"
  /\ UNCHANGED <<term, ptyActive, reader, running, ptyOpen, lock, main, rbuf, outLen>>

\* kd_terminal_update, each frame: waitpid(WNOHANG) reaps a dead shell and
\* clears pty_active (while the shell lives it changes nothing)
kd_terminal_update ==
  /\ main = "frames" /\ child = "dead"
  /\ child' = "reaped" /\ ptyActive' = FALSE
  /\ UNCHANGED <<term, reader, running, ptyOpen, lock, main, rbuf, outLen>>

\* the end of kd_terminal_shutdown: close the pty, SIGTERM the shell (an
\* interactive shell may ignore it) and waitpid(WNOHANG) it, destroy
\* output_lock.  child_pid is never reset, so a shell already reaped is
\* signalled again by its pid.
ShutdownRest ==
  /\ ptyOpen' = FALSE /\ lock' = "destroyed" /\ main' = "down"
  /\ child' \in CASE child = "alive" -> {"alive", "dead", "reaped"}
                  [] child = "dead"  -> {"dead", "reaped"}
                  [] OTHER           -> {child}

\* kd_terminal_shutdown joining the reader before clearing reader_running
kd_terminal_shutdown_JoinFirst ==
  /\ main = "frames"
  /\ UNCHANGED running
  /\ IF ptyActive
     THEN main' = "join" /\ UNCHANGED <<ptyOpen, lock, child>>
     ELSE ShutdownRest
  /\ UNCHANGED <<term, ptyActive, reader, rbuf, outLen>>

\* kd_terminal_shutdown: clear reader_running, then join the reader only
\* if pty_active is set; otherwise go straight on to the rest
kd_terminal_shutdown ==
  /\ main = "frames"
  /\ running' = FALSE
  /\ IF ptyActive
     THEN main' = "join" /\ UNCHANGED <<ptyOpen, lock, child>>
     ELSE ShutdownRest
  /\ UNCHANGED <<term, ptyActive, reader, rbuf, outLen>>

\* kd_terminal_shutdown: pthread_join returns once the reader has ended
shutdown_joined ==
  /\ main = "join" /\ reader = "exited"
  /\ ShutdownRest
  /\ UNCHANGED <<term, ptyActive, reader, running, rbuf, outLen>>

\* the terminal panel on its own: the reader thread, the shell and the
\* main thread's frame loop and shutdown
TermNext ==
  \/ \E c \in Chunks : pty_read(c)
  \/ pty_reader_fn \/ pty_reader_eof \/ reader_stop
  \/ shell_exit \/ kd_terminal_update
  \/ kd_terminal_shutdown \/ shutdown_joined

\* the reader loop polls with a 100 ms timeout, so it sees reader_running
\* and EOF; the OS schedules both threads
TermFairness ==
  /\ WF_termVars(pty_reader_fn) /\ WF_termVars(pty_reader_eof)
  /\ WF_termVars(reader_stop) /\ WF_termVars(shutdown_joined)

TermSpec == TermInit /\ [][TermNext]_termVars /\ TermFairness

-----------------------------------------------------------------------------
(* Properties *)

\* Whatever the shell prints, the parser keeps the cursor on the grid
\* (cursor_x may rest one past the last column until the next character
\* wraps) and never writes a cell outside the grid array: the clamps of
\* the cursor movements in handle_csi and the scrolling region in
\* term_newline are meant to hold every path.
CursorInGrid ==
  /\ ~term.oob
  /\ term.y \in 0..(Rows - 1)
  /\ term.x \in 0..Cols

\* The reader takes output_lock for every chunk it has read; the join in
\* kd_terminal_shutdown is meant to keep output_lock from being destroyed
\* while the reader holds a chunk it has yet to parse under that lock.
ChunkParsedUnderLiveLock == reader = "read" => lock = "live"

\* Once kd_terminal_shutdown waits in pthread_join, the reader ends (it
\* checks reader_running at the top of its loop) and the shutdown completes.
ShutdownCompletes == main = "join" ~> main = "down"

=============================================================================
