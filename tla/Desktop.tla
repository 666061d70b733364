------------------------------ MODULE Desktop ------------------------------
(***************************************************************************)
(* The kelp-desktop shell (desktop.c, dock.c, ai_control.c, main): the    *)
(* four panels with their visibility and focus, the SDL events the frame  *)
(* loop dispatches, the per-frame update, and the AI control actions,     *)
(* composed with the chat panel and the file browser, which the keyboard  *)
(* and the clicks reach.                                                   *)
(*                                                                         *)
(* Geometry is left out: kd_desktop_layout tiles the visible panels       *)
(* without overlap, so a click lands on at most one visible panel, which  *)
(* the model chooses.  Events that change no modelled state (mouse        *)
(* motion, button up, resize, keys written to the terminal's pty or sent  *)
(* to the monitor) are not actions.  The terminal panel is the module     *)
(* Terminal.                                                               *)
(***************************************************************************)
EXTENDS ChatPanel, FileBrowser, FiniteSetsExt

\* kd_panel_type_t
CHAT == 0
TERMINAL == 1
MONITOR == 2
FILES == 3
Panels == {CHAT, TERMINAL, MONITOR, FILES}

\* the panel names resolve_panel knows, and one it does not
PanelNames == {"chat", "terminal", "monitor", "files", "other"}

VARIABLES visible,     \* the panels with panels[i].visible
          focused,     \* the panels with panels[i].focused
          focusPanel,  \* d->focus_panel, -1 for none
          running      \* d->running

deskVars == <<visible, focused, focusPanel, running>>
vars == <<deskVars, chatVars, filesVars>>

TypeOK ==
  /\ visible \subseteq Panels
  /\ focused \subseteq Panels
  /\ focusPanel \in Panels \cup {-1}
  /\ running \in BOOLEAN
  /\ ChatTypeOK
  /\ FilesTypeOK

\* resolve_panel
resolve_panel(name) ==
  CASE name = "chat" -> CHAT [] name = "terminal" -> TERMINAL
    [] name = "monitor" -> MONITOR [] name = "files" -> FILES
    [] OTHER -> -1

(* The panel operations act on a desktop record [vis, foc, fp]. *)
Desk == [vis |-> visible, foc |-> focused, fp |-> focusPanel]

\* kd_desktop_focus_panel: only a visible panel takes the focus
FocusOp(d, p) ==
  IF p \notin d.vis THEN d ELSE [d EXCEPT !.foc = {p}, !.fp = p]

\* kd_desktop_open_panel: a visible panel is focused; otherwise it is
\* shown (with its fade-in), laid out and focused
OpenOp(d, p) ==
  IF p \in d.vis THEN FocusOp(d, p)
  ELSE FocusOp([d EXCEPT !.vis = @ \cup {p}], p)

(* (mutation: the focus is dropped without focusing another panel) *)
CloseOp_NoRefocus(d, p) ==
  LET d1 == [vis |-> d.vis \ {p}, foc |-> d.foc \ {p}, fp |-> d.fp]
  IN IF d.fp = p THEN [d1 EXCEPT !.fp = -1] ELSE d1

\* kd_desktop_close_panel: the panel is hidden and unfocused; if it held
\* the focus, the first visible panel in type order takes it
CloseOp(d, p) ==
  LET d1 == [vis |-> d.vis \ {p}, foc |-> d.foc \ {p}, fp |-> d.fp]
      d2 == [d1 EXCEPT !.fp = -1]
  IN IF d.fp /= p THEN d1
     ELSE IF d2.vis = {} THEN d2 ELSE FocusOp(d2, Min(d2.vis))

\* kd_desktop_toggle_panel
ToggleOp(d, p) == IF p \in d.vis THEN CloseOp(d, p) ELSE OpenOp(d, p)

SetDesk(d) == /\ visible' = d.vis /\ focused' = d.foc /\ focusPanel' = d.fp

\* kd_desktop_init: every panel hidden, then the chat panel opened
Init ==
  /\ LET d == OpenOp([vis |-> {}, foc |-> {}, fp |-> -1], CHAT)
     IN visible = d.vis /\ focused = d.foc /\ focusPanel = d.fp
  /\ running = TRUE
  /\ ChatInit
  /\ FilesInit

\* SDL_MOUSEBUTTONDOWN on dock icon p: kd_dock_handle_click toggles it
MouseDownDock(p) ==
  /\ SetDesk(ToggleOp(Desk, p))
  /\ UNCHANGED <<running, chatVars, filesVars>>

\* SDL_MOUSEBUTTONDOWN inside visible panel p: it is focused and the click
\* forwarded (the chat and terminal click handlers do nothing)
MouseDownPanel(p) ==
  /\ p \in visible
  /\ SetDesk(FocusOp(Desk, p))
  /\ IF p = FILES THEN kd_files_handle_click ELSE UNCHANGED filesVars
  /\ UNCHANGED <<running, chatVars>>

\* SDL_KEYDOWN and SDL_TEXTINPUT go to the focused panel
KeyToChat ==
  /\ focusPanel = CHAT
  /\ ChatKeyEnter \/ ChatKeyEdit \/ ChatKeyKill
  /\ UNCHANGED <<deskVars, filesVars>>

TextToChat ==
  /\ focusPanel = CHAT
  /\ \E t \in Inputs \ {"empty"} : kd_chat_handle_text(t)
  /\ UNCHANGED <<deskVars, filesVars>>

KeyToFiles ==
  /\ focusPanel = FILES
  /\ \E k \in FileKeys : kd_files_handle_key(k)
  /\ UNCHANGED <<deskVars, chatVars>>

\* SDL_QUIT: the frame loop ends after this iteration
Quit ==
  /\ running' = FALSE
  /\ UNCHANGED <<visible, focused, focusPanel, chatVars, filesVars>>

\* kd_desktop_update: the panel animations (not modelled) and the chat
\* panel's update (the terminal's is in Terminal)
kd_desktop_update ==
  /\ kd_chat_update
  /\ UNCHANGED <<deskVars, filesVars>>

\* kd_ai_control_execute: open and close resolve the panel name and fail
\* on an unknown one; typed text goes to the focused chat panel (or the
\* terminal's pty, or nowhere)
AiOpen(name) ==
  /\ resolve_panel(name) >= 0
  /\ SetDesk(OpenOp(Desk, resolve_panel(name)))
  /\ UNCHANGED <<running, chatVars, filesVars>>

AiClose(name) ==
  /\ resolve_panel(name) >= 0
  /\ SetDesk(CloseOp(Desk, resolve_panel(name)))
  /\ UNCHANGED <<running, chatVars, filesVars>>

AiType ==
  /\ focusPanel = CHAT
  /\ \E t \in Inputs \ {"empty"} : kd_chat_handle_text(t)
  /\ UNCHANGED <<deskVars, filesVars>>

\* the methods that change modelled state; desktop.move_cursor starts the
\* cursor animation, desktop.screenshot and desktop.get_state only read,
\* and an unknown method is answered with an error
AiMethods == {"desktop.click", "desktop.type", "desktop.open_panel", "desktop.close_panel"}

\* kd_ai_control_dispatch: the method selects the action, which is
\* executed under g_ai.lock; a click is a synthesized SDL_MOUSEBUTTONDOWN
\* at the given point, on the dock, on a visible panel, or on neither
kd_ai_control_dispatch(method) ==
  CASE method = "desktop.click" ->
         \/ \E p \in Panels : MouseDownDock(p) \/ MouseDownPanel(p)
         \/ UNCHANGED vars
    [] method = "desktop.type" -> AiType
    [] method = "desktop.open_panel" -> \E name \in PanelNames : AiOpen(name)
    [] OTHER -> \E name \in PanelNames : AiClose(name)

Next ==
  \/ /\ running
     /\ \/ \E p \in Panels : MouseDownDock(p) \/ MouseDownPanel(p)
        \/ KeyToChat \/ TextToChat \/ KeyToFiles
        \/ Quit
        \/ kd_desktop_update
        \/ \E m \in AiMethods : kd_ai_control_dispatch(m)
        \/ \E k \in Reqs : response_thread_fn(k) /\ UNCHANGED <<deskVars, filesVars>>

Spec == Init /\ [][Next]_vars

-----------------------------------------------------------------------------
(* Properties *)

\* Focus follows the panels through any sequence of opens, closes,
\* toggles, clicks and AI actions: exactly the focus panel is marked
\* focused, it is visible, and there is a focus panel whenever a panel is
\* visible (closing the focused panel hands the focus on).
FocusConsistent ==
  /\ focusPanel = -1 <=> visible = {}
  /\ focusPanel /= -1 => focusPanel \in visible /\ focused = {focusPanel}
  /\ focusPanel = -1 => focused = {}

\* The reply being revealed is written into its own assistant message:
\* while part of stream_text remains to be revealed (and the next
\* kd_chat_update will free and rewrite messages[stream_msg_idx]), that
\* index is a live message of the transcript and is the assistant reply
\* to the streamed request.
StreamTargetsOwnReply ==
  stream /= None /\ stream.pos < stream.len =>
     /\ stream.idx < count
     /\ slots[stream.idx].kind = "assistant"
     /\ slots[stream.idx].req = stream.req

\* The file browser's selection stays on an entry of the listing, at or
\* below the first row shown, through arrow and page keys, clicks and
\* navigation (each navigation re-reads the directory and resets both).
SelectionInListing ==
  Len(entries) > 0 =>
     /\ selected \in 0..(Len(entries) - 1)
     /\ scroll \in 0..selected

=============================================================================
