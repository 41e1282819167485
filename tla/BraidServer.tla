------------------------------ MODULE BraidServer ------------------------------
(***************************************************************************)
(* Transport lifecycle and the subscription endpoints of the braidhttp    *)
(* transport (src/swarm/braidhttp/transport.go).                           *)
(*                                                                         *)
(* Start hands the creation of both http.Servers to a "http server"       *)
(* goroutine, which assigns t.srvTLS, spawns its ListenAndServeTLS         *)
(* goroutine, assigns t.srv and spawns its ListenAndServe goroutine.       *)
(* Close, called by the node's owner at any time after Start, calls       *)
(* t.srv.Close() (the TLS server is never closed), closes the HTTP client  *)
(* and the process, whose Done channel then fires.                        *)
(*                                                                         *)
(* A subscription request (GET /ws, or GET with a Subscribe header)       *)
(* arrives through a serving listener, is handed to the subscription      *)
(* layer (HandleWritableSubscriptionOpened, outside this repository: its  *)
(* answer is a nondeterministic choice) and, when opened, blocks on       *)
(* select { <-chSubClosed; <-t.Process.Done() }.  The subscription layer  *)
(* closes a sink whenever its socket fails or the peer leaves.            *)
(***************************************************************************)
EXTENDS Naturals, FiniteSets

CONSTANTS
    Handlers     \* subscription requests, one net/http goroutine each

Outcomes == {"ok", "403", "404", "err"}

VARIABLES
    proc,        \* t.Process: "new", "started", "closed"; "panicked" if Close panicked
    serverGo,    \* the "http server" goroutine has run (t.srvTLS and t.srv assigned)
    tlsListen,   \* ListenAndServeTLS goroutine: "none", "spawned", "serving"
    plainListen, \* ListenAndServe goroutine: "none", "spawned", "serving", "refused"
    srvClosed,   \* t.srv.Close() has run
    handler,     \* handler[h]: "idle", "blocked", "returned"
    sink,        \* sink[h]: the writable subscription: "none", "active", "closed"
    status       \* status[h]: HTTP status the handler wrote (0: none, 200: stream)

vars == <<proc, serverGo, tlsListen, plainListen, srvClosed, handler, sink, status>>

TypeOK ==
    /\ proc \in {"new", "started", "closed", "panicked"}
    /\ serverGo \in BOOLEAN
    /\ tlsListen \in {"none", "spawned", "serving"}
    /\ plainListen \in {"none", "spawned", "serving", "refused"}
    /\ srvClosed \in BOOLEAN
    /\ handler \in [Handlers -> {"idle", "blocked", "returned"}]
    /\ sink \in [Handlers -> {"none", "active", "closed"}]
    /\ status \in [Handlers -> {0, 200, 400, 403, 404, 500}]

Alive == proc \in {"started", "closed"}

-----------------------------------------------------------------------------
(* Start and Close                                                         *)

\* Start, after the cookie secret and the self credentials (BraidAuth):
\* t.Process.Go(nil, "http server", ...) is scheduled.
Start ==
    /\ proc = "new"
    /\ proc' = "started"
    /\ UNCHANGED <<serverGo, tlsListen, plainListen, srvClosed, handler, sink, status>>

\* The "http server" goroutine: t.srvTLS, its listener goroutine, t.srv, its
\* listener goroutine.  It does not look at the process context.
serverGoroutine ==
    /\ Alive
    /\ ~serverGo
    /\ serverGo' = TRUE
    /\ tlsListen' = "spawned"
    /\ plainListen' = "spawned"
    /\ UNCHANGED <<proc, srvClosed, handler, sink, status>>

ListenAndServeTLS ==
    /\ Alive
    /\ tlsListen = "spawned"
    /\ tlsListen' = "serving"
    /\ UNCHANGED <<proc, serverGo, plainListen, srvClosed, handler, sink, status>>

\* http.Server.ListenAndServe returns ErrServerClosed on a closed server.
ListenAndServe ==
    /\ Alive
    /\ plainListen = "spawned"
    /\ plainListen' = IF srvClosed THEN "refused" ELSE "serving"
    /\ UNCHANGED <<proc, serverGo, tlsListen, srvClosed, handler, sink, status>>

\* Close: t.srv.Close() on a nil *http.Server panics; otherwise the plain
\* server stops, then t.httpClient.Close() and t.Process.Close().
Close ==
    /\ proc = "started"
    /\ IF serverGo
       THEN /\ srvClosed' = TRUE
            /\ proc' = "closed"
       ELSE /\ proc' = "panicked"
            /\ UNCHANGED srvClosed
    /\ UNCHANGED <<serverGo, tlsListen, plainListen, handler, sink, status>>

-----------------------------------------------------------------------------
(* Subscriptions                                                           *)

\* A listener that accepts connections: the TLS one once serving, the
\* plain one while serving and not closed.
Serving == tlsListen = "serving" \/ (plainListen = "serving" /\ ~srvClosed)

\* Mutant: an unexpected subscription error is answered 502.
SubscriptionErrorStatusBadGateway(parsed, outcome) ==
    IF ~parsed THEN 400
    ELSE CASE outcome = "403" -> 403
           [] outcome = "404" -> 404
           [] OTHER          -> 502

\* The status of a subscription request that does not open: 400 when
\* UnmarshalHTTPRequest fails, else Err403, Err404 or any other error.
SubscriptionErrorStatus(parsed, outcome) ==
    IF ~parsed THEN 400
    ELSE CASE outcome = "403" -> 403
           [] outcome = "404" -> 404
           [] OTHER          -> 500

\* The shared body of both subscription handlers: request parsing (400),
\* then HandleWritableSubscriptionOpened, whose error maps to 403, 404 or
\* 500; on success the handler blocks in its select.
OpenSubscription(h) ==
    /\ Alive
    /\ Serving
    /\ handler[h] = "idle"
    /\ \E parsed \in BOOLEAN, outcome \in Outcomes :
         IF parsed /\ outcome = "ok"
         THEN /\ handler' = [handler EXCEPT ![h] = "blocked"]
              /\ sink' = [sink EXCEPT ![h] = "active"]
              /\ status' = [status EXCEPT ![h] = 200]
         ELSE /\ handler' = [handler EXCEPT ![h] = "returned"]
              /\ status' = [status EXCEPT ![h] = SubscriptionErrorStatus(parsed, outcome)]
              /\ UNCHANGED sink
    /\ UNCHANGED <<proc, serverGo, tlsListen, plainListen, srvClosed>>

\* serveHTTPSubscription: GET with a Subscribe header.
serveHTTPSubscription(h) == OpenSubscription(h)

\* serveWSSubscription: GET /ws; a failed websocket upgrade in the factory
\* is an error of HandleWritableSubscriptionOpened ("err", 500).
serveWSSubscription(h) == OpenSubscription(h)

\* The subscription layer closes the sink (peer left, socket error).
CloseSubscription(h) ==
    /\ sink[h] = "active"
    /\ sink' = [sink EXCEPT ![h] = "closed"]
    /\ UNCHANGED <<proc, serverGo, tlsListen, plainListen, srvClosed, handler, status>>

\* Mutant: the select waits on chSubClosed only.
HandlerWakesOnSubClosedOnly(h) ==
    /\ handler[h] = "blocked"
    /\ sink[h] = "closed"
    /\ handler' = [handler EXCEPT ![h] = "returned"]
    /\ UNCHANGED <<proc, serverGo, tlsListen, plainListen, srvClosed, sink, status>>

\* select { case <-chSubClosed: case <-t.Process.Done(): }
HandlerWakes(h) ==
    /\ handler[h] = "blocked"
    /\ (sink[h] = "closed" \/ proc = "closed")
    /\ handler' = [handler EXCEPT ![h] = "returned"]
    /\ UNCHANGED <<proc, serverGo, tlsListen, plainListen, srvClosed, sink, status>>

-----------------------------------------------------------------------------
Init ==
    /\ proc = "new"
    /\ serverGo = FALSE
    /\ tlsListen = "none"
    /\ plainListen = "none"
    /\ srvClosed = FALSE
    /\ handler = [h \in Handlers |-> "idle"]
    /\ sink = [h \in Handlers |-> "none"]
    /\ status = [h \in Handlers |-> 0]

Next ==
    \/ Start \/ serverGoroutine \/ ListenAndServeTLS \/ ListenAndServe \/ Close
    \/ \E h \in Handlers :
         serveHTTPSubscription(h) \/ serveWSSubscription(h)
         \/ CloseSubscription(h) \/ HandlerWakes(h)

\* The Go scheduler runs every runnable goroutine; the owner's Close, the
\* peers and the subscription layer are under no obligation to act.
Fairness ==
    /\ WF_vars(serverGoroutine)
    /\ WF_vars(ListenAndServeTLS)
    /\ WF_vars(ListenAndServe)
    /\ \A h \in Handlers : WF_vars(HandlerWakes(h))

Spec == Init /\ [][Next]_vars /\ Fairness

-----------------------------------------------------------------------------
(* Properties                                                              *)

\* Close releases every subscription goroutine: once the transport is
\* closed, a state comes where no handler is blocked in its select, although
\* no peer has to leave and the TLS listener, which Close leaves open, may
\* still hand new subscriptions to the handlers after Close.
CloseReleasesSubscriptions ==
    proc = "closed" ~> \A h \in Handlers : handler[h] # "blocked"

\* Close never panics, whenever the owner calls it after Start returned.
CloseNeverPanics ==
    proc # "panicked"
=============================================================================
