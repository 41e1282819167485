---------------------------- MODULE BraidProviders ----------------------------
(***************************************************************************)
(* Outbound peer discovery of the braidhttp transport                     *)
(* (src/swarm/braidhttp/transport.go): NewPeerConn, ProvidersOfStateURI,   *)
(* tryFetchProvidersFromAuthoritativeHost, doRequest and makePeerConn.     *)
(*                                                                         *)
(* A caller asks for the providers of a state URI.  The lookup against    *)
(* the authoritative host runs on the caller's goroutine under a 10 s      *)
(* context derived from the transport's process (not from the caller's   *)
(* context): it is sent, then answered, or it fails (transport error, the  *)
(* deadline, or the process closing).  On success a                        *)
(* producer goroutine, spawned with t.Process.Go, walks the list, skips   *)
(* own URLs and offers one peer conn per remaining URL on an unbuffered    *)
(* channel, in a select against the producer's own ctx.Done().  The       *)
(* caller ranges over the channel until it is closed or until the         *)
(* caller's own context is cancelled.                                      *)
(*                                                                         *)
(* URLs are model values; "http://" + host and the JSON list are          *)
(* abstracted to members of URLs.                                          *)
(***************************************************************************)
EXTENDS Naturals, Sequences, SequencesExt

CONSTANTS
    URLs,          \* dial addresses a provider list or a caller may name
    OwnURLs,       \* t.ownURLs
    LocalhostURLs, \* dial addresses starting with "localhost"
    MaxProviders   \* length bound of the JSON list the authoritative host returns

ASSUME OwnURLs \subseteq URLs /\ LocalhostURLs \subseteq URLs

\* What tryFetchProvidersFromAuthoritativeHost makes of a response: a
\* non-200 answer, an undecodable body, or a list.
FetchOutcomes == {"non200", "badjson", "ok"}

VARIABLES
    proc,       \* t.Process: "up" or "closed"
    caller,     \* "idle", "lookup", "failed", "reading", "cancelled", "done"
    providers,  \* the list the producer walks
    i,          \* producer loop index into providers (1-based)
    prod,       \* producer goroutine: "none", "loop", "select", "exited"
    received,   \* URLs of the peer conns the caller took from the channel
    chClosed,   \* close(ch) has run
    dialed,     \* dial addresses of peer conns made by the outbound paths
    dialInfos   \* dial infos added to the peer store

vars == <<proc, caller, providers, i, prod, received, chClosed, dialed, dialInfos>>

\* The non-self candidates of a provider list, in order.
NonSelf(s) == SelectSeq(s, LAMBDA u : u \notin OwnURLs)

-----------------------------------------------------------------------------
(* Outbound operations                                                     *)

\* makePeerConn with a zero address: AddDialInfo(dialAddr).
makePeerConn(u) ==
    /\ dialed' = dialed \cup {u}
    /\ dialInfos' = dialInfos \cup {u}

\* Mutant: only the "localhost" prefix is refused.
NewPeerConnLocalhostOnly(u) ==
    /\ u \notin LocalhostURLs
    /\ makePeerConn(u)
    /\ UNCHANGED <<proc, caller, providers, i, prod, received, chClosed>>

\* NewPeerConn: ErrPeerIsSelf for an own URL or a "localhost" address.
NewPeerConn(u) ==
    /\ u \notin OwnURLs
    /\ u \notin LocalhostURLs
    /\ makePeerConn(u)
    /\ UNCHANGED <<proc, caller, providers, i, prod, received, chClosed>>

\* t.Process.Go(nil, "ProvidersOfStateURI", ...) over the final list.
StartProducer(list) ==
    /\ providers' = list
    /\ i' = 1
    /\ prod' = "loop"

\* storeAltSvcHeaderPeers: every peer the Alt-Svc header names becomes a
\* dial info of the peer store (forEachAltSvcHeaderPeer is not in src/).
storeAltSvcHeaderPeers(gossip) ==
    dialInfos' = dialInfos \cup gossip

\* doRequest: our dial infos go out in Alt-Svc; any response that arrives,
\* whatever its status, has its Alt-Svc peers stored.
doRequest(gossip) == storeAltSvcHeaderPeers(gossip)

\* tryFetchProvidersFromAuthoritativeHost, up to the request: the URL from
\* the state URI's first segment (url.Parse may fail), a context with a 10 s
\* deadline derived from t.Ctx(), and the request sent by doRequest.
tryFetchProvidersFromAuthoritativeHost ==
    /\ caller = "idle"
    /\ \E parses \in BOOLEAN : caller' = IF parses THEN "lookup" ELSE "failed"
    /\ UNCHANGED <<proc, providers, i, prod, received, chClosed, dialed, dialInfos>>

\* httpClient.Do fails with a transport error; no response, nothing stored.
LookupError ==
    /\ caller = "lookup"
    /\ caller' = "failed"
    /\ UNCHANGED <<proc, providers, i, prod, received, chClosed, dialed, dialInfos>>

\* The request's context is done: its 10 s deadline passed, or Close
\* cancelled t.Ctx().  Time is not modelled, so the deadline may pass at
\* any moment of the lookup.
LookupDeadline ==
    /\ caller = "lookup"
    /\ caller' = "failed"
    /\ UNCHANGED <<proc, providers, i, prod, received, chClosed, dialed, dialInfos>>

\* Mutant: the lookup is not bound to the process context, so a response
\* is taken after Close.
ProvidersOfStateURIDetached ==
    /\ caller = "lookup"
    /\ \E outcome \in FetchOutcomes, gossip \in SUBSET URLs,
          list \in BoundedSeq(URLs, MaxProviders), host \in URLs,
          parses \in BOOLEAN :
         /\ doRequest(gossip)
         /\ IF outcome = "ok"
            THEN /\ caller' = "reading"
                 /\ StartProducer(IF parses THEN Append(list, host) ELSE list)
            ELSE /\ caller' = "failed"
                 /\ UNCHANGED <<providers, i, prod>>
    /\ UNCHANGED <<proc, received, chClosed, dialed>>

\* ProvidersOfStateURI once the authoritative host has answered while the
\* lookup's context is live: the Alt-Svc peers of the response are stored;
\* a non-200 or undecodable answer is an error; otherwise the host itself
\* is appended when "http://" + stateURI parses, and the producer starts.
ProvidersOfStateURI ==
    /\ caller = "lookup" /\ proc = "up"
    /\ \E outcome \in FetchOutcomes, gossip \in SUBSET URLs,
          list \in BoundedSeq(URLs, MaxProviders), host \in URLs,
          parses \in BOOLEAN :
         /\ doRequest(gossip)
         /\ IF outcome = "ok"
            THEN /\ caller' = "reading"
                 /\ StartProducer(IF parses THEN Append(list, host) ELSE list)
            ELSE /\ caller' = "failed"
                 /\ UNCHANGED <<providers, i, prod>>
    /\ UNCHANGED <<proc, received, chClosed, dialed>>

\* One iteration of the producer's loop: an own URL is skipped; otherwise
\* the send's operand, makePeerConn, is evaluated before the select.
ProducerNext ==
    /\ prod = "loop"
    /\ i <= Len(providers)
    /\ IF providers[i] \in OwnURLs
       THEN /\ i' = i + 1
            /\ UNCHANGED <<prod, dialed, dialInfos>>
       ELSE /\ makePeerConn(providers[i])
            /\ prod' = "select"
            /\ UNCHANGED i
    /\ UNCHANGED <<proc, caller, providers, received, chClosed>>

\* case ch <- conn: the unbuffered send meets the caller's receive.
ProducerSend ==
    /\ prod = "select"
    /\ caller = "reading"
    /\ received' = Append(received, providers[i])
    /\ i' = i + 1
    /\ prod' = "loop"
    /\ UNCHANGED <<proc, caller, providers, chClosed, dialed, dialInfos>>

\* case <-ctx.Done(): ctx is the producer goroutine's own context, done
\* when the transport's process closes; the conn is dropped.
ProducerDone ==
    /\ prod = "select"
    /\ proc = "closed"
    /\ i' = i + 1
    /\ prod' = "loop"
    /\ UNCHANGED <<proc, caller, providers, received, chClosed, dialed, dialInfos>>

\* End of the loop: defer close(ch).
ProducerExit ==
    /\ prod = "loop"
    /\ i > Len(providers)
    /\ prod' = "exited"
    /\ chClosed' = TRUE
    /\ UNCHANGED <<proc, caller, providers, i, received, dialed, dialInfos>>

\* The caller's range loop ends when the channel is closed.
CallerSeesClose ==
    /\ caller = "reading"
    /\ chClosed
    /\ caller' = "done"
    /\ UNCHANGED <<proc, providers, i, prod, received, chClosed, dialed, dialInfos>>

\* The caller's context is cancelled and it stops reading the channel.
CallerCancel ==
    /\ caller = "reading"
    /\ ~chClosed
    /\ caller' = "cancelled"
    /\ UNCHANGED <<proc, providers, i, prod, received, chClosed, dialed, dialInfos>>

\* The owner closes the transport (t.Process.Close()).
CloseProcess ==
    /\ proc = "up"
    /\ proc' = "closed"
    /\ UNCHANGED <<caller, providers, i, prod, received, chClosed, dialed, dialInfos>>

-----------------------------------------------------------------------------
Init ==
    /\ proc = "up"
    /\ caller = "idle"
    /\ providers = <<>>
    /\ i = 1
    /\ prod = "none"
    /\ received = <<>>
    /\ chClosed = FALSE
    /\ dialed = {}
    /\ dialInfos = {}

Next ==
    \/ tryFetchProvidersFromAuthoritativeHost \/ LookupError \/ LookupDeadline
    \/ ProvidersOfStateURI \/ \E u \in URLs : NewPeerConn(u)
    \/ ProducerNext \/ ProducerSend \/ ProducerDone \/ ProducerExit
    \/ CallerSeesClose \/ CallerCancel \/ CloseProcess

\* The producer is a goroutine the scheduler runs; a caller that is ranging
\* over the channel keeps receiving; the lookup's deadline timer fires.
\* Neither the caller's cancellation, the owner's Close, a transport error
\* nor the remote's answer is obliged to happen.
Fairness ==
    /\ WF_vars(LookupDeadline)
    /\ WF_vars(ProducerNext)
    /\ WF_vars(ProducerSend)
    /\ WF_vars(ProducerDone)
    /\ WF_vars(ProducerExit)
    /\ WF_vars(CallerSeesClose)

Spec == Init /\ [][Next]_vars /\ Fairness

-----------------------------------------------------------------------------
(* Properties                                                              *)

\* No peer conn is ever made for one of our own URLs, through NewPeerConn
\* or through the providers stream (spec: own-URL membership refuses a dial).
NoSelfDial ==
    dialed \cap OwnURLs = {}

\* Spec 4.5: the channel closes "when the producing goroutine completes or
\* the caller's context cancels".  The producer selects on its own
\* process-scoped ctx, which shadows the caller's ctx.
CancelReleasesProducer ==
    caller = "cancelled" ~> chClosed

-----------------------------------------------------------------------------
(* Refinement of ProvidersStream                                           *)

\* The abstract stream seen through the implementation: the candidates are
\* the non-self entries of the list, the ones offered are those before the
\* loop index, and the channel is open from a successful lookup until
\* close(ch).
StreamPhase ==
    CASE caller \in {"idle", "lookup"} -> "idle"
      [] caller = "failed" -> "failed"
      [] chClosed -> "closed"
      [] OTHER -> "open"

Stream == INSTANCE ProvidersStream WITH
    phase <- StreamPhase,
    cands <- NonSelf(providers),
    pos <- Len(NonSelf(SubSeq(providers, 1, i - 1))),
    out <- received,
    reader <- IF caller = "lookup" THEN "idle" ELSE caller,
    live <- (proc = "up")

\* ProvidersOfStateURI, its producer goroutine and the caller's range loop
\* implement the stream spec 4.5 describes: in-order delivery of every
\* non-self candidate, drops only after shutdown, close once exhausted.
ProvidersStreamRefined == Stream!Spec
=============================================================================
