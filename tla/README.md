# TLA+ models of the braidhttp transport

This directory models `src/swarm/braidhttp/transport.go`, the Braid-over-HTTP
transport of redwood, together with the functions it uses from
`src/crypto/signer.go` (`RecoverSigningPubkey`) and `src/utils/strings.go`
(`FilterEmptyStrings`), and the labelled logger of `src/log/logger.go` that
the transport embeds. The modules are checked with TLC. `spec.md` is the
transport's contract. Every definition listed under `map` in `PROJECT.json`
is translated from the source lines it names. The abstract module
ProvidersStream states the spec's promise and is not in `map`.

## 1. The system (inventory)

`ServeHTTP` (C9) runs on its own net/http goroutine for each request. Requests
share a few pieces of state:

| part | state kept | operations | model |
|---|---|---|---|
| C1 sessions and signed cookies | `cookieSecret` (and its saved copy in the key store); the cookies held by clients | `ensureSessionIDCookieOnResponse`, `setSignedCookieOnResponse`, `makeSignedCookie`, `signedCookie` | BraidAuth |
| C2 identity resolver, C4 AUTHORIZE | `pendingAuthorizations` (a bare map), verified credentials in the peer store | `addressFromRequest`, AUTHORIZE phase 1 / 2a / 2b | BraidAuth |
| C3 Alt-Svc gossip | dial infos in the peer store | `storeAltSvcHeaderPeers`, the header in `ServeHTTP` and in `doRequest` | BraidProviders (`storeAltSvcHeaderPeers` as `doRequest` calls it) |
| C5 subscriptions | the net/http goroutine held in a `select`, the writable sink | `serveHTTPSubscription`, `serveWSSubscription` | BraidServer |
| C6 GET state | none (reads the controller hub) | `serveGetState`, `serveGetTx`, `serveRedwoodJS`, the GET dispatch, `utils.FilterEmptyStrings` | BraidGetState |
| C7/C8 tx and blob ingest | none here (hands off to `HandleTxReceived` on a goroutine) | `servePostTx`, `serveAck`, `servePostBlob`, `servePostPrivateTx` | BraidTxIngest |
| outbound | a providers channel and its producer goroutine | `NewPeerConn`, `ProvidersOfStateURI`, `tryFetchProvidersFromAuthoritativeHost`, `doRequest`, `makePeerConn` | BraidProviders, refining ProvidersStream |
| C9 lifecycle | `t.srv`, `t.srvTLS`, the process | `NewTransport`, `Start`, `Close` | BraidServer, BraidAuth |
| logger | the package variable `longestLabel`; each logger's label and prefix | `NewLogger`, `SetLogLabel`, `Debug` ... `Fatalf` | BraidLogger |

The hard behaviours:

- Concurrent handlers share the unlocked `pendingAuthorizations` map, so two
  handlers can interleave between a lookup and the following delete.
- The cookie name is not part of what is signed.
- The cookie secret is persisted across restarts.
- `t.srv` is assigned on a goroutine that `Close` does not wait for.
- Subscription handlers block until either of two channels fires.
- The providers producer blocks on an unbuffered send in a `select` whose
  context shadows the caller's, and the lookup before it is bounded only by
  a 10 s deadline on the transport's context.
- Every logger pads its lines to the package variable `longestLabel`, which
  `SetLogLabel` reads, compares and writes with no lock.

`PROJECT.json` lists every hazard at its line.

## 2. Modules

The modules are listed most important first.

- **BraidAuth**: sessions, cookies and the AUTHORIZE protocol.
  - Variables: `up`, `cookieSecret`, `stored` (the key-store entry: `kind` is what it reads back as), `pendingAuthorizations`, `creds` (`AddVerifiedCredentials` calls: device id, address, and the client the request really came from), and the clients' cookie `jar` and `known` challenges.
  - Requests are slots in `reqs`, sent by `Send(c)`. Honest clients replay their jar; an attacker (a member of `Attackers`) may also swap its two cookies, send a JWT, or send forged cookies.
  - `ServeHTTP(r)` is one step. It runs the session cookie, the address, `makePeerConn` and the dispatch to HEAD or to one of the three AUTHORIZE handlers.
  - Phase 2b is split into `serveChallengeIdentityCheckResponse`, which looks up the challenge and recovers the signer, and `CheckResponseCommit`, which sets the cookie, records the credential and deletes the pending entry. Other handlers can run in between, as they can in Go.
  - `Crash` is the process dying (for example from a concurrent map write) and restarting. The map is lost; the saved secret survives.
  - Cookies are records `[val, sec]`: a cookie verifies only when it was signed under the current `cookieSecret`. Signatures are `[signer, msg]`.
  - `setSignedCookieOnResponse(name, value)` is the response's whole Set-Cookie set after the call: its `Del("Set-Cookie")` drops what the prelude set, so a phase-2b answer carries the address cookie alone.
  - `RecoverSigningPubkey` yields the signer when the signature is over the challenge, and another key's address (`BogusOf`) otherwise.
  - History variables are read only by properties: `minted`, `mintedTo`, `servedAs`, `proven` and `consumed`.
- **BraidServer**: `Start`'s server goroutine and its two listener goroutines, `Close`, and the subscription handlers (`serveHTTPSubscription` and `serveWSSubscription`, which share their body `OpenSubscription`).
  - The subscription layer (`HandleWritableSubscriptionOpened`, outside src/) answers nondeterministically and may close a sink at any time.
- **BraidProviders**: `ProvidersOfStateURI`. The lookup is `tryFetchProvidersFromAuthoritativeHost` sending the request (or failing to build its URL), then one of: the answer (`ProvidersOfStateURI`: stored Alt-Svc peers, non-200, bad JSON, or a list), a transport error (`LookupError`), or the context being done (`LookupDeadline`: the 10 s deadline or `Close`). Then the producer loop as separate steps: skip, `makePeerConn`, then a `select` of send or `ctx.Done`, then `close(ch)`.
  - Also `NewPeerConn` and `doRequest`'s Alt-Svc intake.
  - The caller ranges over the channel or cancels.
- **BraidGetState**: the GET branch of `ServeHTTP` and the three GET handlers, one request per behaviour.
  - The URL path is a sequence of characters and the `Range` header a sequence of tokens (`json`, `bytes`, `=`, `:`, sign and digits). The parsers are modelled by what they do: `Split`/`SplitN2` are `strings.Split`/`SplitN`, `ParseInt` is `strconv.ParseInt`, `Uint` is the `uint64` conversion (at `IndexWidth` bits, because TLC's integers are 32-bit), and `RewritePart` is the `name[N]` loop body, slice bounds included.
  - `serveGetState` is four steps, split where it calls out: `ParseRequest` (request struct, filename, keypath, Range), `ParentsHeader`, `Resolve` (raw flag, index query, state query, `nelson.Seek`, the `index.html` descent), and `Respond` (content type and its guess, lengths, value, JSON fallback, `Subscribe: Allow`, 206, `io.Copy`). What the controller hub and nelson return is chosen where the handler asks.
  - `resp` records what the handler did, including the keypath it handed on and the local `keypath` when the body is built (`cur`).
  - The spec's own reading of a path and of a Range header (`SpecKeypath`, `SpecRange`, section 4.6 and 8) is written declaratively next to the code's parsers, with `Numeral` as a RECURSIVE reference for decimal values.
- **BraidLogger**: loggers as model values, labels as their lengths (the prefix `"[%s] "` is 3 longer).
  - `NewLogger` and `SetLogLabel` set the logger's fields and compare its prefix with `longestLabel` in one step. The write of `longestLabel` is a second step, `SetLogLabelWrite`, because nothing makes the read and the write atomic. `NewLogger` returns, and the logger becomes usable, after that write.
  - `Debug`, `Success`, `Infow`, `Warn` and `Error` (each with its f and w forms) share one body, `LogAt`: the padding `longestLabel - len(logPrefix)` for a labelled logger, and a panic of that goroutine when it is negative (`strings.Repeat`). `Info` adds the `klog.V` gate (`LogV`); `Fatalf` exits the process.
- **ProvidersStream**: the abstract promise of `ProvidersOfStateURI` (spec 4.5, scenario 6). A lookup fails or yields the non-self candidates; they are delivered in order to a reading caller, or dropped after shutdown; the channel closes once all are offered. BraidProviders instantiates it with a refinement mapping (`Stream == INSTANCE ProvidersStream WITH ...`): the candidates are `NonSelf(providers)`, the offered count is the non-self entries before the loop index, and the channel is open from a successful lookup until `close(ch)`.
- **BraidTxIngest**: `servePostTx` as one step over a request record of classes.
  - The classes are: Signature missing, not hex, not recoverable, or signed over this tx or another; Version absent, malformed or given; Parents absent, good or bad; the body kind; and each patch line good, bad, or good but over 64 KiB.
  - `servePostTxStatus` is the handler's chain of early returns, in code order. `servePostTxTx` is the tx it builds.
  - The `Process.Go` goroutine that calls `HandleTxReceived` is a separate step.
  - `serveAck`, `servePostPrivateTx`, `servePostBlob` and a POST without `Blob: true` are one step each.

Composition: the six code modules share no variables. BraidAuth and BraidServer
both model `Start`, each the part its properties need. A composed module
(ServeHTTP dispatching to subscriptions under an authenticated address) is
not built: the GET handlers take the address only to pass it to subscriptions, so composing adds interleavings but no new question.

## 3. Runs

| run | checks | result |
|---|---|---|
| auth | TypeOK, NoImpersonation, SessionIntegrity | pass, about 2.9M states |
| auth_pending_race | PendingAuthorizationAtomic | violated: a 2b that read ch1 deletes ch2, which a concurrent 2a stored for the same session (the property also says no challenge is consumed twice, which the same unlocked lookup/delete breaks) |
| auth_cookie_name | VerifiedCredentialsProven | violated: a sessionid cookie sent as the address cookie becomes a verified address |
| server | TypeOK, CloseReleasesSubscriptions | pass, 522 states: after Close no subscription goroutine stays blocked, even those opened through the TLS listener after Close |
| server_close | CloseNeverPanics | violated: Close before the server goroutine runs dereferences a nil `t.srv` |
| providers | NoSelfDial, ProvidersStreamRefined | pass, 8.7k states; the implementation refines ProvidersStream, fairness included. The refinement implies in-order delivery of every non-self candidate while the transport is up, and the stream ending for a caller that keeps reading, so those are not checked separately |
| providers_cancel | CancelReleasesProducer | violated: a cancelled caller leaves the producer blocked |
| tx_ingest | TypeOK, PutContract | pass, every input class combination |
| get | WellFormedKeypathRewritten, RangeMatchesSpec | pass, about 119k states: every path of up to 5 characters, every Range of up to 5 tokens, every branch |
| get_malformed_keypath | MalformedKeypathRejected | violated: `GET /[` slices out of range and panics; the same unchecked last character reads `[1[` as index 1 (`a[-1]` also wraps) |
| tx_long_line | ValidPutAccepted | violated: a well-formed patch line over 64 KiB gets 500 and is not ingested |
| logger_concurrent_labels | LoggingNeverPanics | violated: two loggers labelled from two goroutines both read `longestLabel` = 0; the longer prefix (5) is written, then the shorter (4), and the first logger's next line calls `strings.Repeat` with -1 |

Each violated property states what `spec.md` (or, for the logger, the
padding code's own assumption) says. `findings` in `PROJECT.json` gives the
line and the explanation. Each property of a passing run has a mutant (a
plausible bug in a mapped definition) that TLC catches. BraidProviders and BraidGetState check no type invariant. No bug Go code could have breaks theirs: a `range` loop cannot index past its slice, and a `uint64` conversion always wraps.

Two more divergences in serveGetState were read off the code and are not given
a run (each happens in a single pass of the handler, whatever else runs):

- `anyMissing` (719) is never assigned, because the `nelson.Resolve` call that set it is commented out (770), so the 206 at 850-852 is never sent; spec 4.6 and 7 promise 206 for a value with missing sub-resources. The model keeps `anyMissing == FALSE` in `Respond`.
- After `nelson.Seek` the handler sets `keypath = nil` (759), so unless it descends into `index.html` the octet-stream guess at 794 is made from the empty name, not the requested file name. `Resolve` keeps this: the handler's keypath (`cur`) is `<<>>` on that branch.

One known bug is kept in the model without a run: `findOrCreateCookieSecret`
generates a first-start secret into a shadowing local (339), so the secret
stays all zeros. BraidAuth's `Start` does this, and spec section 9 already
names it as behaviour not to replicate.

## 4. Bounds

- **BraidAuth:**
  - 2 clients, 1 of them an attacker, and 3 requests in total.
  - 4 session ids and 4 challenge ids. That is enough for every request to mint one, and an ASSUME checks it.
  - 1 restart.
  - Three requests are the fewest that let an attacker obtain a cookie and replay it, or let a client get a challenge and send two concurrent responses.
  - Fresh values are taken with CHOOSE over the unused ones. This is sound because the ids are interchangeable.
- **BraidTxIngest:**
  - One request per behaviour. The handlers share no state, so that one request ranges over every combination of classes.
  - Up to 2 patch lines, which is enough for a bad line before or after an over-long one.
- **BraidGetState:** one request per behaviour, from three families:
  - every path of up to 5 characters over `a 1 - [ ] /`. That covers `a[11]`, `a[-1]`, `a[1`, `[1]`, `a[`, `a[]`, empty segments and two subscripts;
  - every Range header of up to 5 tokens, and `json=` followed by up to 4 of `: - + 0 1`. That covers `bytes=0-`, `json=-1:1`, `json=1:-1`, a second `:` and a missing end;
  - the flow family: each route, a name and a subscript, a Range, and every flag.
  - Slice indices wrap at 8 bits instead of 64. Only the wrap of a negative value matters, and it has the same shape at any width.
- **BraidLogger:** gLogger and 2 loggers, labels of length 1 and 2 (or none), verbose levels 0..2 at `-v=1`. Two labelled loggers are the fewest for a lost update. The run allows no relabelling, so that its counterexample is the constructor race alone. Under src/, only NewTransport calls NewLogger, so the two concurrent constructors have to come from callers outside src/. The race is in the logger package, whoever calls it.
- **BraidServer:** 2 handlers. That is enough for one subscription to outlive another and to straddle `Close`.
- **BraidProviders:**
  - 3 URLs (one own, one localhost, one plain).
  - Provider lists of at most 2 entries, plus the appended host.
  - This covers own URLs in the list, an own authoritative host, duplicates and the empty list.

## 5. Fairness

Weak fairness is assumed only for steps that Go's scheduler must eventually
run:

- the server goroutine and its listeners;
- a blocked handler whose channel has fired;
- the providers producer (needed by the refinement's fairness);
- the lookup's context becoming done: `context.WithTimeout` fires after 10 s whatever the remote does. Because this step is always enabled during a lookup, "the lookup returns" would only restate this assumption, so it is not checked as a property;
- a caller that is ranging over a channel that has been closed.

ProvidersStream's fairness is weak fairness on advancing the stream (a delivery, or after shutdown a drop), on closing it, and on a reading caller seeing the close. Delivery alone is not fair, because after shutdown the producer's select may always take `ctx.Done`.

None is assumed for:

- clients and attackers;
- the owner's `Close`;
- the subscription layer closing a sink;
- a caller cancelling;
- the authoritative host answering, or the transport failing.

The code owns none of these, so it may not wait for them.

## 6. Not modelled

- Inside GET: the hub and nelson (`Leaves`, `FetchTx`, `QueryIndex`, `StateAtVersion`, `Seek`, `GetContentType`, `GetValueRecursive`), `parseIndexParams`/`parseRawParam` and `GuessContentTypeFromFilename`. These are outside src/ and appear only as outcomes. The header values (`Parents`, lengths) and the state URI are left out, because no property tells them apart.
- The other helpers of src/utils/strings.go, which the transport does not call, and `setSessionIDCookieOnRequest`/`setSignedCookieOnRequest` (1166-1189), which nothing in src/ calls.
- The inbound half of Alt-Svc gossip in `ServeHTTP` (262-270): it adds the peers a request names to the peer store, which only BraidProviders tracks; the store itself (`AddDialInfo`, `AllDialInfos`) is outside src/ and no property reads what a request adds.
- Patch, version and hex parsing inside tx ingest. These are outside src/ and are abstracted to classes.
- The Alt-Svc codec and the JWT parser are not in src/.
- What klog does with a line, and the read-only logger methods (`GetLogLabel`, `GetLogPrefix`, `LogV` beyond the gate). `GetLogPrefix` keeps returning the old prefix after `SetLogLabel("")`, which no caller in src/ reads.
- The generated mocks.
- Key generation and HD derivation in the signer.
- TLS client certificates as device ids: `duID` is the session id.
- Time (the 24 h cookie expiry). The 10 s lookup deadline is an action that may fire at any moment of the lookup and is fair.

## 7. Open questions

Each of these needs a run that checks a property the code violates, or
modelling of what lies outside src/:

1. Tx ingest with crashes. The 200 goes out before `HandleTxReceived` runs, so a crash in between loses an accepted tx. Spec section 5 accepts this, and BraidTxIngest has no crash. Without a crash, the hand-off happening is only the fairness of `HandleTxReceived`, so BraidTxIngest checks no liveness and assumes no fairness.
2. An abstract authorization spec (verified session-to-address bindings) for BraidAuth to refine. The two auth findings (the pending race and the unbound cookie name) break any such spec, so it would only hold for code with those fixed, which is not the code in src/.
3. Bounding the pending map (resource_bound at line 421). A TTL needs time, which no module models, and the code has none.
4. The Content-Type of a JSON body. Spec section 7 says a state GET returns JSON or the blob's own content type. `Respond` sets the header from the node's type before the value turns out not to be a reader (831), and after line 759 the guess is made from the empty name (794). Each is one step of one handler, and neither has a run.
