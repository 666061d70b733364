---------------------------- MODULE MCTerminal ----------------------------
(* Terminal instantiated for TLC: the chunks the shell may print.         *)
EXTENDS Terminal, TLC

\* Output of a shell session: text, newlines, a tab, a backspace, an escape
\* sequence split across two reads, moves past the edges, a scrolling
\* region, an erase, and a cursor-down by INT_MAX rows
\* (ESC [ 2147483647 B), which a program run in the shell may print.
MCChunks ==
  { <<"x">>, <<"LF">>, <<"TAB">>, <<"BS">>,
    <<"ESC", "[">>, <<"9", "B">>,
    <<"ESC", "[", "9", "9", "C">>,
    <<"ESC", "[", "2", ";", "3", "r">>,
    <<"ESC", "[", "K">>,
    <<"ESC", "[", "2", "1", "4", "7", "4", "8", "3", "6", "4", "7", "B">> }

\* Any output will do for the shutdown: a character and a newline.
MCShutdownChunks == { <<"x">>, <<"LF">> }

=============================================================================
