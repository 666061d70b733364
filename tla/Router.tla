------------------------------- MODULE Router -------------------------------
(***************************************************************************)
(* The gateway's route table and dispatch (http_parser.c): main's          *)
(* gateway_add_route calls on the table gateway_create allocates, the      *)
(* request line's method and URL as http_parse_request splits them, and    *)
(* router_dispatch's choice of the CORS preflight, the first matching      *)
(* route, or 404.  A URL is a sequence of tokens: path segments, and "?"   *)
(* where the query starts; a pattern is its segments and whether it ends   *)
(* in '*'.  Header text, response formatting and the handlers' work are    *)
(* left out: a dispatch's result is the handler it calls.                  *)
(***************************************************************************)
EXTENDS Naturals, Sequences, SequencesExt, FiniteSets

CONSTANTS Registrations, \* main's gateway_add_route calls, in order: [method, pattern, handler]
          RouteCap0,     \* the route_cap gateway_create allocates
          MethodTokens,  \* request-line method tokens
          Urls           \* request URLs

VARIABLES routes,  \* gw->routes[0 .. route_count - 1]
          cap,     \* gw->route_cap
          added,   \* how many of main's calls have run
          last     \* what the last router_dispatch did

routerVars == <<routes, cap, added, last>>

Methods == {"GET", "POST", "PUT", "DELETE", "OPTIONS", "HEAD", "UNKNOWN"}

\* parse_method: the six methods by name, anything else HTTP_UNKNOWN
parse_method(tok) == IF tok \in Methods \ {"UNKNOWN"} THEN tok ELSE "UNKNOWN"

\* the URL split at the first '?' (req->path); no '?' leaves the URL whole
PathOf(url) ==
  IF \E i \in DOMAIN url : url[i] = "?"
  THEN SubSeq(url, 1, Min({i \in DOMAIN url : url[i] = "?"}) - 1)
  ELSE url

\* mutant: the method not compared
route_matches_AnyMethod(r, m, p) ==
  \/ r.pattern.segs = p /\ ~r.pattern.star
  \/ r.pattern.star /\ IsPrefix(r.pattern.segs, p)

\* route_matches: the method, then the whole pattern, then a pattern
\* ending in '*' as a prefix of the path
route_matches(r, m, p) ==
  /\ r.method = m
  /\ \/ r.pattern.segs = p /\ ~r.pattern.star
     \/ r.pattern.star /\ IsPrefix(r.pattern.segs, p)

\* router_dispatch: OPTIONS gets the preflight whatever the path; then the
\* first route that matches, in registration order; otherwise 404
Dispatch(m, p) ==
  LET hits == {i \in DOMAIN routes : route_matches(routes[i], m, p)}
  IN IF m = "OPTIONS" THEN "preflight"
     ELSE IF hits = {} THEN "404"
     ELSE routes[Min(hits)].handler

\* before the first dispatch
NoDispatch == [m |-> "UNKNOWN", url |-> <<>>, res |-> "none"]

Init ==
  /\ routes = <<>> /\ cap = RouteCap0 /\ added = 0 /\ last = NoDispatch

(* gateway_add_route for main's next call: a full table first doubles     *)
(* route_cap, then reallocs; a failed realloc returns OC_ERR with the cap  *)
(* already doubled, and main ignores the result.                           *)
gateway_add_route ==
  /\ added < Len(Registrations)
  /\ LET r == Registrations[added + 1]
     IN IF Len(routes) >= cap
        THEN /\ cap' = cap * 2
             /\ routes' \in {Append(routes, r), routes}
        ELSE /\ routes' = Append(routes, r)
             /\ UNCHANGED cap
  /\ added' = added + 1
  /\ UNCHANGED last

(* A request reaches router_dispatch once main has registered its routes  *)
(* and started the loop: its method token and URL as parsed.               *)
router_dispatch(tok, url) ==
  /\ added = Len(Registrations)
  /\ last' = [m |-> parse_method(tok), url |-> url,
               res |-> Dispatch(parse_method(tok), PathOf(url))]
  /\ UNCHANGED <<routes, cap, added>>

RouterNext ==
  \/ gateway_add_route
  \/ \E tok \in MethodTokens, url \in Urls : router_dispatch(tok, url)

-----------------------------------------------------------------------------

RouterTypeOK ==
  /\ routes \in Seq({Registrations[i] : i \in DOMAIN Registrations})
  /\ cap \in Nat /\ added \in 0..Len(Registrations)
  /\ last \in {NoDispatch} \cup [m : Methods, url : Urls, res : STRING]

\* the handlers main registers for a method and a path: those with that
\* method whose pattern is the path or, ending in '*', a prefix of it
Registered(m, p) ==
  {Registrations[j].handler :
     j \in {i \in DOMAIN Registrations :
               /\ Registrations[i].method = m
               /\ IF Registrations[i].pattern.star
                  THEN IsPrefix(Registrations[i].pattern.segs, p)
                  ELSE Registrations[i].pattern.segs = p}}

\* the request's path as the spec has it: the URL up to its query string
RequestPath(url) ==
  CHOOSE p \in {SubSeq(url, 1, k) : k \in 0..Len(url)} :
    /\ "?" \notin ToSet(p)
    /\ Len(p) < Len(url) => url[Len(p) + 1] = "?"

(* router_dispatch serves every request as main registered the routes:    *)
(* OPTIONS with the preflight, a method and path main registered with its *)
(* handler, whatever query string the URL carries, and nothing else but   *)
(* 404 (a GET of a POST route included).                                   *)
RoutedAsRegistered ==
  last # NoDispatch =>
    LET p == RequestPath(last.url)
    IN CASE last.m = "OPTIONS"         -> last.res = "preflight"
         [] Registered(last.m, p) = {}  -> last.res = "404"
         [] OTHER                       -> last.res \in Registered(last.m, p)
=============================================================================
