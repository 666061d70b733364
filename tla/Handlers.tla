----------------------------- MODULE Handlers -----------------------------
(***************************************************************************)
(* The three callers of the upstream AI API: the gateway's                *)
(* /v1/chat/completions handler (handler_chat.c), its /hooks/webchat      *)
(* handler (handler_webhook.c), and the CLI's agent command               *)
(* (cmd_agent.c).  Each validates its input, picks a provider, a model    *)
(* and an API key, streams the upstream reply through a text callback and *)
(* answers.                                                                *)
(*                                                                         *)
(* The JSON body is abstracted to what the handlers read from it: a       *)
(* message is [role, content], either of which may be missing (NULL from  *)
(* json_get_str); a model name is a model value whose family (the prefix  *)
(* "claude", "gpt" or another) Family gives.  The upstream stream         *)
(* (http_stream_post, whose code is not in the repository) is its result  *)
(* code and the lengths of the text chunks it hands to on_text, and which *)
(* of the reallocs the text callback makes would fail.  A reply's text    *)
(* is the sequence of the chunk numbers it holds.                         *)
(***************************************************************************)
EXTENDS Integers, Sequences, SequencesExt

CONSTANTS Contents,   \* message contents and prompts
          Models,     \* model names
          Family,     \* Models -> {"claude", "gpt", "other"}
          CfgModel,   \* [Providers -> Models]: anthropic_model, openai_model
          ChunkLens,  \* lengths (bytes) of the chunks on_text may get
          MaxChunks,  \* bound on the chunks of one stream
          MaxMsgs,    \* bound on the messages of a request
          None        \* NULL / absent

Providers == {"anthropic", "openai"}
Roles     == {"user", "system", "assistant"}
CfgPrompt == "cfg_prompt"   \* cfg->system_prompt

\* the gateway's config as the handlers read it: default_provider and the
\* providers auth_resolve finds a key for
Configs == [provider : Providers, keys : SUBSET Providers]

\* (a message without a role is skipped as an "assistant" one is)
Msg == [role : Roles, content : Contents \cup {None}]

\* a body is empty, not JSON, or JSON ("json")
Unparsed(fields) == {[fields EXCEPT !.kind = k] : k \in {"empty", "invalid"}}

\* a /v1/chat/completions body: messages is None when it is missing or
\* not an array
ChatBodies ==
  Unparsed([kind |-> "json", messages |-> None, model |-> None]) \cup
  [kind : {"json"}, messages : {None} \cup BoundedSeq(Msg, MaxMsgs), model : Models \cup {None}]

\* a /hooks/webchat body: message None (missing or not a string), "" or text
HookBodies ==
  Unparsed([kind |-> "json", message |-> None]) \cup
  [kind : {"json"}, message : Contents \cup {None, ""}]

\* what http_stream_post does: its result and the chunks handed to on_text,
\* with the reallocs of the collect callback that would fail
Streams ==
  UNION { { [rc |-> rc, lens |-> l, oom |-> f] : f \in SUBSET DOMAIN l } :
            rc \in {"ok", "err"}, l \in BoundedSeq(ChunkLens, MaxChunks) }

VARIABLES req,    \* the request being handled: None or [from, body, cfg, stream]
          call,   \* the upstream request it made: None or [provider, key, model, prompt, system]
          reply   \* its answer: None or [status, text, model]

handlerVars == <<req, call, reply>>

HandlersTypeOK ==
  /\ call \in {None} \cup
       [provider : Providers, key : Providers, model : Models,
        prompt : Contents, system : Contents \cup {CfgPrompt}]
  /\ reply \in {None} \cup
       [status : {0, 1, 200, 400, 500, 502}, text : Seq(1..MaxChunks) \cup {None},
        model : Models \cup {None}]

\* the 4096-byte first buffer, doubled until the text and its NUL fit
RECURSIVE Grown(_, _)
Grown(cap, need) == IF cap >= need THEN cap ELSE Grown(cap * 2, need)

(* (mutation: the room for the NUL terminator is not counted) *)
collect_text_NoNul(acc, i, n, oom) ==
  IF acc.len + n > acc.cap
  THEN IF i \in oom THEN acc
       ELSE [buf |-> IF acc.buf = None THEN <<i>> ELSE Append(acc.buf, i),
             len |-> acc.len + n,
             cap |-> Grown(IF acc.cap = 0 THEN 4096 ELSE acc.cap * 2, acc.len + n)]
  ELSE [acc EXCEPT !.buf = Append(@, i), !.len = @ + n]

\* chat_collect_text / collect_text for chunk i of length n: the buffer
\* grows when len + n + 1 exceeds cap; a failed realloc returns and the
\* chunk is dropped (buf stays NULL if it was)
collect_text(acc, i, n, oom) ==
  IF acc.len + n + 1 > acc.cap
  THEN IF i \in oom THEN acc
       ELSE [buf |-> IF acc.buf = None THEN <<i>> ELSE Append(acc.buf, i),
             len |-> acc.len + n,
             cap |-> Grown(IF acc.cap = 0 THEN 4096 ELSE acc.cap * 2, acc.len + n + 1)]
  ELSE [acc EXCEPT !.buf = Append(@, i), !.len = @ + n]

\* the collect context (zeroed to start) after the first k chunks
CollectedAfter(s, k) ==
  LET step(acc, i) == collect_text(acc, i, s.lens[i], s.oom)
  IN FoldLeft(step, [buf |-> None, len |-> 0, cap |-> 0], [i \in 1..k |-> i])

Collected(s) == CollectedAfter(s, Len(s.lens))

(* (mutation: an item's role is checked but not its content) *)
SelectMessages_NoContentCheck(msgs) ==
  LET step(a, m) ==
        IF m.role = None THEN a
        ELSE IF m.role = "user" THEN [a EXCEPT !.user = m.content]
        ELSE IF m.role = "system" THEN [a EXCEPT !.system = m.content]
        ELSE a
  IN FoldLeft(step, [user |-> None, system |-> None], msgs)

\* the cJSON_ArrayForEach loop of handler_chat: an item with both a role
\* and a content sets user_msg or system_msg, each to the last one seen
SelectMessages(msgs) ==
  LET step(a, m) ==
        IF m.role = None \/ m.content = None THEN a
        ELSE IF m.role = "user" THEN [a EXCEPT !.user = m.content]
        ELSE IF m.role = "system" THEN [a EXCEPT !.system = m.content]
        ELSE a
  IN FoldLeft(step, [user |-> None, system |-> None], msgs)

\* the provider and model of handler_chat: a requested "claude..." model
\* forces Anthropic and a "gpt..." model OpenAI; another requested model
\* keeps the default provider; without one the provider's configured model
ChatRoute(cfg, model) ==
  IF model = None THEN [provider |-> cfg.provider, model |-> CfgModel[cfg.provider]]
  ELSE CASE Family[model] = "claude" -> [provider |-> "anthropic", model |-> model]
         [] Family[model] = "gpt"    -> [provider |-> "openai", model |-> model]
         [] OTHER                    -> [provider |-> cfg.provider, model |-> model]

Answer(status, text, model) == [status |-> status, text |-> text, model |-> model]
Rejected(status) == Answer(status, None, None)

\* the end shared by the handlers: the upstream call, then 200 with the
\* collected text when rc is OC_OK and a buffer exists, else 502
Upstream(r, route, prompt, system) ==
  LET col == Collected(r.stream)
  IN /\ call' = [provider |-> route.provider, key |-> route.provider,
                 model |-> route.model, prompt |-> prompt, system |-> system]
     /\ reply' = IF r.stream.rc = "ok" /\ col.buf /= None
                 THEN Answer(200, col.buf, route.model)
                 ELSE Rejected(502)

(* (mutation: no fallback to cfg->system_prompt) *)
handler_chat_NoFallback(r) ==
  LET b   == r.body
      sel == SelectMessages(b.messages)
      rt  == ChatRoute(r.cfg, b.model)
  IN IF b.kind /= "json" \/ b.messages = None \/ b.messages = <<>> \/ sel.user = None
     THEN call' = None /\ reply' = Rejected(400)
     ELSE IF rt.provider \notin r.cfg.keys
     THEN call' = None /\ reply' = Rejected(500)
     ELSE Upstream(r, rt, sel.user, sel.system)

\* handler_chat, from the checks of the body to the response
handler_chat(r) ==
  LET b   == r.body
      sel == SelectMessages(b.messages)
      rt  == ChatRoute(r.cfg, b.model)
  IN IF b.kind /= "json" \/ b.messages = None \/ b.messages = <<>> \/ sel.user = None
     THEN call' = None /\ reply' = Rejected(400)
     ELSE IF rt.provider \notin r.cfg.keys
     THEN call' = None /\ reply' = Rejected(500)
     ELSE Upstream(r, rt, sel.user, IF sel.system = None THEN CfgPrompt ELSE sel.system)

\* handler_webhook: the message, the default provider and its model, the
\* configured system prompt (session_id is only echoed back)
handler_webhook(r) ==
  LET b  == r.body
      rt == [provider |-> r.cfg.provider, model |-> CfgModel[r.cfg.provider]]
  IN IF b.kind /= "json" \/ b.message \in {None, ""}
     THEN call' = None /\ reply' = Rejected(400)
     ELSE IF rt.provider \notin r.cfg.keys
     THEN call' = None /\ reply' = Rejected(500)
     ELSE Upstream(r, rt, b.message, CfgPrompt)

\* cmd_agent: the message from -m or stdin, the provider and model from
\* the options or the config; print_chunk writes every chunk to stdout,
\* and the exit status is 0 exactly when rc is OC_OK.  The config load,
\* the body build and http_init may fail with status 1.
cmd_agent(r) ==
  LET o  == r.body
      p  == IF o.provider = None THEN r.cfg.provider ELSE o.provider
      m  == IF o.model = None THEN CfgModel[p] ELSE o.model
  IN IF o.message = None \/ ~r.setupOK \/ p \notin r.cfg.keys
     THEN call' = None /\ reply' = Rejected(1)
     ELSE /\ call' = [provider |-> p, key |-> p, model |-> m, prompt |-> o.message,
                        system |-> IF o.system = None THEN CfgPrompt ELSE o.system]
          /\ reply' = Answer(IF r.stream.rc = "ok" THEN 0 ELSE 1,
                             [i \in DOMAIN r.stream.lens |-> i], None)

\* the agent's options: -m (or what stdin gave), -p, --model, --system
AgentOpts == [message : Contents \cup {None}, provider : Providers \cup {None},
              model : Models \cup {None}, system : Contents \cup {None}]

HandlersInit == req = None /\ call = None /\ reply = None

\* router_dispatch hands a chat or webhook request to its handler
DispatchChat ==
  /\ req = None
  /\ \E b \in ChatBodies, cfg \in Configs, s \in Streams :
       /\ req' = [from |-> "chat", body |-> b, cfg |-> cfg, stream |-> s]
       /\ handler_chat(req')

DispatchHook ==
  /\ req = None
  /\ \E b \in HookBodies, cfg \in Configs, s \in Streams :
       /\ req' = [from |-> "hook", body |-> b, cfg |-> cfg, stream |-> s]
       /\ handler_webhook(req')

RunAgent ==
  /\ req = None
  /\ \E o \in AgentOpts, cfg \in Configs, s \in Streams, ok \in BOOLEAN :
       /\ req' = [from |-> "agent", body |-> o, cfg |-> cfg, stream |-> s, setupOK |-> ok]
       /\ cmd_agent(req')

\* the answer is sent and the next request can be handled
Done == req /= None /\ req' = None /\ call' = None /\ reply' = None

HandlersNext == DispatchChat \/ DispatchHook \/ RunAgent \/ Done

HandlersSpec == HandlersInit /\ [][HandlersNext]_handlerVars

-----------------------------------------------------------------------------
(* Properties *)

\* the content of the last message of the array with the role and a content
LastWithRole(msgs, role) ==
  LET idx == {i \in DOMAIN msgs : msgs[i].role = role /\ msgs[i].content /= None}
  IN IF idx = {} THEN None ELSE msgs[Max(idx)].content

\* The prompt handler_chat sends upstream is the last user message of the
\* request (the spec's rule), and a request is sent upstream whenever it
\* has one and a key exists for the provider the model selects.
PromptIsLastUserMessage ==
  req /= None /\ req.from = "chat" /\ req.body.kind = "json" /\ req.body.messages /= None =>
     LET user == LastWithRole(req.body.messages, "user")
     IN /\ call /= None => call.prompt = user
        /\ user /= None /\ ChatRoute(req.cfg, req.body.model).provider \in req.cfg.keys
             => call /= None

\* the content of the first message with that role and a string content
FirstWithRole(msgs, role) ==
  LET idx == {i \in DOMAIN msgs : msgs[i].role = role /\ msgs[i].content /= None}
  IN IF idx = {} THEN None ELSE msgs[Min(idx)].content

\* The system prompt handler_chat sends upstream is the request's first
\* system message, and the configured system_prompt when it has none
\* (the spec's rule for /v1/chat/completions).
SystemIsFirstSystemMessage ==
  req /= None /\ req.from = "chat" /\ call /= None =>
     LET first == FirstWithRole(req.body.messages, "system")
     IN call.system = IF first = None THEN CfgPrompt ELSE first

\* At every chunk of the stream, the collect buffer of a gateway handler
\* holds the text received so far and its NUL terminator: the growth in
\* chat_collect_text / collect_text never leaves buf[len] past the end.
BufferHoldsText ==
  req /= None /\ req.from \in {"chat", "hook"} =>
     \A k \in 1..Len(req.stream.lens) :
        LET acc == CollectedAfter(req.stream, k)
        IN acc.buf /= None => acc.len + 1 <= acc.cap

\* A 200 reply of a gateway handler carries the whole text the upstream
\* streamed: every chunk on_text received, in order (the spec: the
\* handler "collects the full text via on-text").
ReplyHasWholeText ==
  reply /= None /\ reply.status = 200 =>
     reply.text = [i \in DOMAIN req.stream.lens |-> i]

=============================================================================
