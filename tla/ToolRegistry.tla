---------------------------- MODULE ToolRegistry ----------------------------
(***************************************************************************)
(* The tool context of libkelp-agents (tool.c): a map from tool name to a *)
(* registered entry and the count tool_count, with registration that      *)
(* replaces an entry of the same name, execution by name, the JSON        *)
(* catalog, and registration of the default tools.                        *)
(*                                                                         *)
(* A definition (kelp_tool_def_t) is a model value; NameOf gives its name. *)
(* Each allocation a registration makes may fail; the outcome is chosen   *)
(* nondeterministically among those the code distinguishes.               *)
(***************************************************************************)
EXTENDS Integers, FiniteSets, Sequences, SequencesExt

CONSTANTS Names,        \* tool names
          Defs,         \* tool definitions
          NameOf,       \* def->name
          DefaultDefs,  \* the definitions kelp_tool_register_defaults registers, in order
          None          \* no entry in the map

ASSUME NameOf \in [Defs -> Names] /\ DefaultDefs \in Seq(Defs)

\* where a registration can fail: calloc of the entry, strdup of the name,
\* kelp_map_set; "none" when it succeeds
Failures == {"none", "entry", "name", "map"}

VARIABLES ctx,      \* "none" (not created), "live", "freed"
          tools,    \* ctx->tools: name -> registered definition or None
          count,    \* ctx->tool_count
          ret,      \* return value of the last call
          catalog   \* the definitions listed by the last catalog

vars == <<ctx, tools, count, ret, catalog>>

Registered == {n \in Names : tools[n] /= None}

TypeOK ==
  /\ ctx \in {"none", "live", "freed"}
  /\ tools \in [Names -> Defs \cup {None}]
  /\ count \in 0..Cardinality(Names)
  /\ ret \in {0, -1}
  /\ catalog \subseteq Defs

Init ==
  /\ ctx = "none"
  /\ tools = [n \in Names |-> None]
  /\ count = 0
  /\ ret = 0
  /\ catalog = {}

\* kelp_tool_ctx_new: an empty map and tool_count = 0 (a failed calloc or
\* map allocation returns NULL and leaves nothing behind)
kelp_tool_ctx_new ==
  /\ ctx /= "live"
  /\ ctx' = "live"
  /\ tools' = [n \in Names |-> None]
  /\ count' = 0
  /\ UNCHANGED <<ret, catalog>>

\* kelp_tool_ctx_free: every entry and the map are freed
kelp_tool_ctx_free ==
  /\ ctx = "live"
  /\ ctx' = "freed"
  /\ tools' = [n \in Names |-> None]
  /\ UNCHANGED <<count, ret, catalog>>

(* (mutation: the duplicate branch does not decrement tool_count) *)
RegisterOp_NoDecrement(st, d, fail) ==
  LET n   == NameOf[d]
      dup == st.tools[n] /= None
      t1  == IF dup THEN [st.tools EXCEPT ![n] = None] ELSE st.tools
  IN IF fail = "none"
     THEN [tools |-> [t1 EXCEPT ![n] = d], count |-> st.count + 1, rc |-> 0]
     ELSE [tools |-> t1, count |-> st.count, rc |-> -1]

\* kelp_tool_register on state st = [tools, count]: a duplicate is freed,
\* deleted and uncounted first; then the new entry is allocated, its name
\* duplicated and the map set, any of which may fail with -1.
RegisterOp(st, d, fail) ==
  LET n   == NameOf[d]
      dup == st.tools[n] /= None
      t1  == IF dup THEN [st.tools EXCEPT ![n] = None] ELSE st.tools
      c1  == IF dup THEN st.count - 1 ELSE st.count
  IN IF fail = "none"
     THEN [tools |-> [t1 EXCEPT ![n] = d], count |-> c1 + 1, rc |-> 0]
     ELSE [tools |-> t1, count |-> c1, rc |-> -1]

kelp_tool_register(d) ==
  /\ ctx = "live"
  /\ \E fail \in Failures :
       LET st == RegisterOp([tools |-> tools, count |-> count, rc |-> 0], d, fail)
       IN /\ tools' = st.tools
          /\ count' = st.count
          /\ ret' = st.rc
  /\ UNCHANGED <<ctx, catalog>>

\* kelp_tool_register_defaults: rc |= kelp_tool_register(...) over the
\* built-in and desktop definitions, in order
kelp_tool_register_defaults ==
  /\ ctx = "live"
  /\ \E fails \in [DOMAIN DefaultDefs -> Failures] :
       LET step(acc, i) ==
             LET st == RegisterOp(acc, DefaultDefs[i], fails[i])
             IN [st EXCEPT !.rc = IF acc.rc = 0 THEN st.rc ELSE acc.rc]
           init == [tools |-> tools, count |-> count, rc |-> 0]
           res  == FoldLeft(step, init, [i \in DOMAIN DefaultDefs |-> i])
       IN /\ tools' = res.tools
          /\ count' = res.count
          /\ ret' = res.rc
  /\ UNCHANGED <<ctx, catalog>>

\* kelp_tool_execute: an unknown name yields -1 with is_error; a known one
\* returns whatever its executor returns, which the registry passes on
kelp_tool_execute(n) ==
  /\ ctx = "live"
  /\ IF tools[n] = None THEN ret' = -1 ELSE ret' \in {0, -1}
  /\ UNCHANGED <<ctx, tools, count, catalog>>

\* kelp_tool_get_definitions_json: one object per map entry
kelp_tool_get_definitions_json ==
  /\ ctx = "live"
  /\ catalog' = {tools[n] : n \in Registered}
  /\ UNCHANGED <<ctx, tools, count, ret>>

Next ==
  \/ kelp_tool_ctx_new \/ kelp_tool_ctx_free
  \/ \E d \in Defs : kelp_tool_register(d)
  \/ kelp_tool_register_defaults
  \/ \E n \in Names : kelp_tool_execute(n)
  \/ kelp_tool_get_definitions_json

Spec == Init /\ [][Next]_vars

-----------------------------------------------------------------------------
(* Properties *)

\* tool_count, which is kept by hand beside the map, equals the number of
\* entries in the map after any sequence of registrations, replacements
\* and failed allocations.
CountMatches == ctx = "live" => count = Cardinality(Registered)

=============================================================================
