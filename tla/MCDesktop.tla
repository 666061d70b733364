----------------------------- MODULE MCDesktop -----------------------------
(* Desktop instantiated for TLC. *)
EXTENDS Desktop, TLC

\* A tree whose root has more entries than MAX_ENTRIES, one subdirectory
\* (with a ".." entry and a file) and a nested directory.
MCDirPaths  == {<<>>, <<1>>, <<1, 2>>}
MCFilePaths == {<<2>>, <<3>>, <<1, 3>>}

=============================================================================
