---------------------------- MODULE FileBrowser ----------------------------
(***************************************************************************)
(* The file browser panel of kelp-desktop (files.c, g_files): the working *)
(* directory, its listing, the selected row and the scroll offset, and    *)
(* the keys and clicks that move the selection or navigate.               *)
(*                                                                         *)
(* A path is a sequence of names, <<>> being "/"; a name is a number and  *)
(* numeric order stands for strcmp order.  A listing entry is a record    *)
(* [name, dir]; ".." is name 0.  Hidden names are not in the tree.  The   *)
(* order in which readdir returns names is unspecified, so when a         *)
(* directory has more entries than MAX_ENTRIES the ones kept are any of   *)
(* them; opendir may fail.                                                 *)
(***************************************************************************)
EXTENDS Integers, FiniteSets, Sequences, SequencesExt

CONSTANTS Names,       \* the names in the tree (numbers)
          DirPaths,    \* the directories, "/" (<<>>) among them
          FilePaths,   \* the regular files
          MaxEntries,  \* MAX_ENTRIES
          VisRows,     \* the visible rows kd_files_handle_key assumes (20)
          ScreenRows   \* the rows of the list a click can land on

Root   == <<>>
DotDot == [name |-> 0, dir |-> TRUE]
Entry  == [name : Names \cup {0}, dir : BOOLEAN]

VARIABLES cwd,       \* g_files.cwd
          entries,   \* g_files.entries[0 .. entry_count-1]
          selected,  \* g_files.selected
          scroll     \* g_files.scroll_offset

filesVars == <<cwd, entries, selected, scroll>>

FilesTypeOK ==
  /\ cwd \in DirPaths
  /\ entries \in Seq(Entry) /\ Len(entries) <= MaxEntries
  /\ selected \in -1..(MaxEntries - 1)
  /\ scroll \in -1..(MaxEntries - 1)

\* the non-hidden entries of directory p, with is_dir from stat
Children(p) ==
  { [name |-> n, dir |-> Append(p, n) \in DirPaths] :
      n \in {k \in Names : Append(p, k) \in DirPaths \cup FilePaths} }

\* entry_compare: directories first, then by name
entry_compare(a, b) == (a.dir /\ ~b.dir) \/ (a.dir = b.dir /\ a.name < b.name)

\* refresh_listing: ".." unless at "/", then what readdir returns while
\* there is room (none if opendir fails), sorted after the ".." entry
Listings(p) ==
  LET start == IF p = Root THEN <<>> ELSE <<DotDot>>
      room  == MaxEntries - Len(start)
      kept  == IF Cardinality(Children(p)) < room THEN Cardinality(Children(p)) ELSE room
  IN {start} \cup
     { start \o SetToSortSeq(K, entry_compare) :
         K \in {K \in SUBSET Children(p) : Cardinality(K) = kept} }

\* The browser operations act on a record [cwd, ents, sel, scr].
Files == [cwd |-> cwd, ents |-> entries, sel |-> selected, scr |-> scroll]

\* kd_files_navigate / the end of navigate_to_entry: a new listing of p
\* with selection and scroll reset
Refreshed(p) == { [cwd |-> p, ents |-> l, sel |-> 0, scr |-> 0] : l \in Listings(p) }

\* navigate_to_entry(idx): nothing for an index outside the listing or a
\* file; ".." goes up (strrchr on cwd: "/a" becomes "/"), a directory
\* goes down; either way the listing is refreshed
navigate_to_entry(f, idx) ==
  IF idx < 0 \/ idx >= Len(f.ents) THEN {f}
  ELSE LET e == f.ents[idx + 1]
       IN IF ~e.dir THEN {f}
          ELSE IF e.name = 0
               THEN Refreshed(IF Len(f.cwd) > 1 THEN SubSeq(f.cwd, 1, Len(f.cwd) - 1) ELSE Root)
               ELSE Refreshed(Append(f.cwd, e.name))

\* the end of kd_files_handle_key: scroll to keep the selection visible
FollowSelection(f) ==
  LET scr == IF f.sel < f.scr THEN f.sel ELSE f.scr
  IN [f EXCEPT !.scr = IF f.sel >= scr + VisRows THEN f.sel - VisRows + 1 ELSE scr]

FileKeys == {"up", "down", "enter", "backspace", "pageup", "pagedown"}

(* (mutation: Page Down without the clamp to the last entry) *)
KeyResults_NoClamp(f, key) ==
  CASE key = "up"   -> {IF f.sel > 0 THEN [f EXCEPT !.sel = @ - 1] ELSE f}
    [] key = "down" -> {IF f.sel < Len(f.ents) - 1 THEN [f EXCEPT !.sel = @ + 1] ELSE f}
    [] key = "pageup" -> {[f EXCEPT !.sel = IF @ - 10 < 0 THEN 0 ELSE @ - 10]}
    [] key = "pagedown" -> {[f EXCEPT !.sel = @ + 10]}
    [] key = "enter" -> navigate_to_entry(f, f.sel)
    [] OTHER -> navigate_to_entry(f, 0)

\* kd_files_handle_key, before the scroll: the arrows move by one within
\* the listing, the page keys by ten with a clamp, Enter navigates to the
\* selected entry and Backspace to entry 0 (".." is always first)
KeyResults(f, key) ==
  CASE key = "up"   -> {IF f.sel > 0 THEN [f EXCEPT !.sel = @ - 1] ELSE f}
    [] key = "down" -> {IF f.sel < Len(f.ents) - 1 THEN [f EXCEPT !.sel = @ + 1] ELSE f}
    [] key = "pageup" -> {[f EXCEPT !.sel = IF @ - 10 < 0 THEN 0 ELSE @ - 10]}
    [] key = "pagedown" ->
         {[f EXCEPT !.sel = IF @ + 10 >= Len(f.ents) THEN Len(f.ents) - 1 ELSE @ + 10]}
    [] key = "enter" -> navigate_to_entry(f, f.sel)
    [] OTHER -> navigate_to_entry(f, 0)

SetFiles(f) ==
  /\ cwd' = f.cwd /\ entries' = f.ents /\ selected' = f.sel /\ scroll' = f.scr

\* kd_files_init: the listing of "/"
FilesInit == \E f \in Refreshed(Root) :
               cwd = f.cwd /\ entries = f.ents /\ selected = f.sel /\ scroll = f.scr

kd_files_handle_key(key) ==
  \E f \in KeyResults(Files, key) : SetFiles(FollowSelection(f))

\* kd_files_handle_click on list row r of the screen: row r + scroll_offset
\* is selected, or navigated to when it already is; a click above the list
\* or below the last entry does nothing
kd_files_handle_click ==
  \/ UNCHANGED filesVars
  \/ \E r \in 0..(ScreenRows - 1) :
       LET row == r + scroll
       IN /\ row >= 0 /\ row < Len(entries)
          /\ IF selected = row
             THEN \E f \in navigate_to_entry(Files, row) : SetFiles(f)
             ELSE /\ selected' = row
                  /\ UNCHANGED <<cwd, entries, scroll>>

=============================================================================
