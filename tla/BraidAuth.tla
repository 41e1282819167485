------------------------------ MODULE BraidAuth ------------------------------
(***************************************************************************)
(* Sessions, signed cookies, request identity and the AUTHORIZE           *)
(* challenge/response state machine of the braidhttp transport            *)
(* (src/swarm/braidhttp/transport.go).                                     *)
(*                                                                         *)
(* Every HTTP request is a slot of `reqs`, served by its own goroutine.    *)
(* ServeHTTP runs the request prelude (session cookie, address from JWT   *)
(* or cookie, makePeerConn) and the AUTHORIZE branch in one step, except  *)
(* phase 2b, whose read of pendingAuthorizations and whose delete are     *)
(* separated by the key-store signing of the address cookie: other        *)
(* handlers run in between, since the map has no lock.  The process can   *)
(* crash (a Go "concurrent map writes" fault, or any restart) and is      *)
(* started again, reloading the cookie secret from the key store.        *)
(*                                                                         *)
(* Data is abstracted to model values: a signature is the pair (signer,   *)
(* message); a signed cookie is (value, secret it was hashed with), its   *)
(* signature made with the node's key unless it is Forged.  The byte      *)
(* conversions types.IDFromBytes and types.AddressFromBytes keep a value  *)
(* distinct from every other, so they are modelled as keeping it.         *)
(***************************************************************************)
EXTENDS Naturals, FiniteSets, Functions

CONSTANTS
    Clients,      \* remote peers; each holds one signing key whose address is the client
    Attackers,    \* the clients that craft their own Cookie and Authorization headers
    BogusOf,      \* BogusOf[c]: the address ecrecover yields for c's signature
                  \* checked against a challenge c did not sign
    NodeAddr,     \* address of this node's default identity
    SessionIds,   \* values types.RandomID() can return
    ChallengeIds, \* values protoauth.GenerateChallengeMsg() can return
    OldSecret,    \* a cookie secret an earlier run left in the key store as []byte
    Zero,         \* the zero [32]byte, t.cookieSecret of a fresh transport
    Forged,       \* a cookie signature not made with the node's key
    NoCookie, NoChallenge, NoAddress, NoSession, NoSig, Malformed,
    MaxRequests,  \* bound on the HTTP requests of a behaviour
    MaxRestarts   \* bound on process crashes

Addresses == Clients \cup Range(BogusOf)
Values == SessionIds \cup Addresses          \* byte strings a signed cookie carries
Secrets == {Zero, OldSecret}
Cookie == [val : Values, sec : Secrets \cup {Forged}]
CookieNames == {"sessionid", "address"}
Sig == [signer : Clients, msg : ChallengeIds]
Kinds == {"HEAD", "Challenge", "AuthorizeRequest", "AuthorizeResponse"}
JWTs == {"none", "valid", "invalid"}
Stages == {"idle", "sent", "read", "responded", "done"}
NoCookies == [n \in CookieNames |-> NoCookie]
ReqSlots == 1..MaxRequests

ASSUME Cardinality(SessionIds) >= MaxRequests /\ Cardinality(ChallengeIds) >= MaxRequests

Req == [stage : Stages, client : Clients \cup {NoAddress}, kind : Kinds,
        sidCookie : Cookie \cup {NoCookie}, addrCookie : Cookie \cup {NoCookie},
        jwt : JWTs, sig : Sig \cup {NoSig, Malformed},
        session : Values \cup {NoSession}, challenge : ChallengeIds \cup {NoChallenge},
        recovered : Addresses \cup {NoAddress}, status : {0, 200, 400, 500},
        setCookies : [CookieNames -> Cookie \cup {NoCookie}],
        body : ChallengeIds \cup {NoChallenge}]

Idle == [stage |-> "idle", client |-> NoAddress, kind |-> "HEAD",
         sidCookie |-> NoCookie, addrCookie |-> NoCookie, jwt |-> "none",
         sig |-> NoSig, session |-> NoSession, challenge |-> NoChallenge,
         recovered |-> NoAddress, status |-> 0, setCookies |-> NoCookies,
         body |-> NoChallenge]

\* A finished request: nothing of it is read again.
Done == [Idle EXCEPT !.stage = "done"]

VARIABLES
    up,                     \* the transport process is running
    cookieSecret,           \* t.cookieSecret
    stored,                 \* key store entry "http:cookiesecret"
    pendingAuthorizations,  \* t.pendingAuthorizations: session -> challenge
    reqs,                   \* HTTP requests, one goroutine each
    nSent,                  \* requests sent so far
    jar,                    \* each client's cookie jar
    known,                  \* challenges each client has received
    creds,                  \* peer store: AddVerifiedCredentials calls
    restarts,
    \* history, read only by the properties
    minted,                 \* session ids handed out
    issued,                 \* challenges handed out
    mintedTo,               \* <<client, value>>: a cookie with value sent to client
    servedAs,               \* <<client, session>>: a request of client served under session
    proven,                 \* addresses proven by a signature over a challenge or a JWT
    consumed                \* consumed[ch]: phase-2b commits that used challenge ch

vars == <<up, cookieSecret, stored, pendingAuthorizations, reqs, nSent, jar,
          known, creds, restarts, minted, issued, mintedTo, servedAs, proven,
          consumed>>

Stored == [kind : {"none", "bytes", "array"}, val : Secrets]
Cred == [duid : Values \cup {"self"}, addr : Values \cup {NodeAddr},
         via : Clients \cup {NodeAddr}]

TypeOK ==
    /\ up \in BOOLEAN
    /\ cookieSecret \in Secrets
    /\ stored \in Stored
    /\ pendingAuthorizations \in [Values -> ChallengeIds \cup {NoChallenge}]
    /\ reqs \in [ReqSlots -> Req]
    /\ nSent \in 0..MaxRequests
    /\ jar \in [Clients -> [CookieNames -> Cookie \cup {NoCookie}]]
    /\ known \in [Clients -> SUBSET ChallengeIds]
    /\ creds \subseteq Cred
    /\ restarts \in 0..MaxRestarts
    /\ minted \subseteq SessionIds
    /\ issued \subseteq ChallengeIds
    /\ mintedTo \subseteq Clients \X Values
    /\ servedAs \subseteq Clients \X Values
    /\ proven \subseteq Addresses
    /\ consumed \in [ChallengeIds -> 0..MaxRequests]

-----------------------------------------------------------------------------
(* Helpers translated from the transport and the signer                    *)

\* Mutant: a failed recovery yields the zero address and is not checked.
RecoverSigningPubkeyZeroOnMismatch(challenge, sig) ==
    IF sig.msg = challenge THEN sig.signer ELSE NoAddress

\* crypto.RecoverSigningPubkey(hash(challenge), sig).Address(): the signer
\* when sig is over that challenge, another key's address otherwise.
RecoverSigningPubkey(challenge, sig) ==
    IF sig.msg = challenge THEN sig.signer ELSE BogusOf[sig.signer]

\* makeSignedCookie: the value, signed over hash(value ++ t.cookieSecret).
makeSignedCookie(value) == [val |-> value, sec |-> cookieSecret]

\* setSignedCookieOnResponse: w.Header().Del("Set-Cookie") drops every
\* cookie set earlier in the response, then sets the one signed cookie.
setSignedCookieOnResponse(name, value) ==
    [NoCookies EXCEPT ![name] = makeSignedCookie(value)]

\* Mutant: the result of keyStore.VerifySignature is not checked.
signedCookieNoVerify(ck) == ck # NoCookie

\* signedCookie: present, two hex parts, and the signature verifies under
\* the node's key for hash(value ++ t.cookieSecret).  The name is not signed.
signedCookie(ck) == ck # NoCookie /\ ck.sec = cookieSecret

\* A value types.RandomID() / GenerateChallengeMsg() returns: one never
\* returned before.  Which one is irrelevant (the values are symmetric), so
\* the model takes a fixed one.
Fresh(S, used) == CHOOSE x \in S \ used : TRUE

\* Mutant: the error of signedCookie is ignored and the value used anyway.
sessionCookieIgnoringError(q) == q.sidCookie # NoCookie

\* ensureSessionIDCookieOnResponse: the sessionid cookie is kept when
\* signedCookie returns no error ...
sessionCookieOK(q) == signedCookie(q.sidCookie)

\* ... and otherwise a fresh types.RandomID() is minted into a new cookie.
SessionFor(q) ==
    IF sessionCookieOK(q) THEN q.sidCookie.val ELSE Fresh(SessionIds, minted)

\* addressFromRequest: JWT first, then the signed "address" cookie.
AddressOK(q) ==
    /\ q.jwt # "invalid"
    /\ q.jwt = "none" => (q.addrCookie = NoCookie \/ signedCookie(q.addrCookie))
addressFromRequest(q) ==
    CASE q.jwt = "valid"        -> q.client
      [] q.addrCookie = NoCookie -> NoAddress
      [] OTHER                   -> q.addrCookie.val

Respond(r, status, cookies, body) ==
    reqs' = [reqs EXCEPT ![r] = [@ EXCEPT !.stage = "responded", !.status = status,
                                          !.setCookies = cookies, !.body = body]]

-----------------------------------------------------------------------------
(* Lifecycle                                                               *)

\* findOrCreateCookieSecret: whether the stored entry reads back as []byte.
\* What it was saved as, [32]byte, reads back as the key store's encoding
\* makes it, which lies outside this repository.
ReadsAsBytes(st) ==
    CASE st.kind = "none"  -> {FALSE}
      [] st.kind = "bytes" -> {TRUE}
      [] st.kind = "array" -> BOOLEAN

\* Start: findOrCreateCookieSecret, whose "create" branch fills a shadowed
\* local and so copies nothing, then the self credentials, then serving.
Start ==
    /\ ~up
    /\ \E asBytes \in ReadsAsBytes(stored) :
         LET secret == IF asBytes THEN stored.val ELSE Zero IN
         /\ cookieSecret' = secret
         /\ stored' = [kind |-> "array", val |-> secret]
    /\ creds' = creds \cup {[duid |-> "self", addr |-> NodeAddr, via |-> NodeAddr]}
    /\ up' = TRUE
    /\ UNCHANGED <<pendingAuthorizations, reqs, nSent, jar, known, restarts, minted,
                   issued, mintedTo, servedAs, proven, consumed>>

\* The process dies: the in-memory map is lost, in-flight requests are reset.
Crash ==
    /\ up
    /\ restarts < MaxRestarts
    /\ up' = FALSE
    /\ pendingAuthorizations' = [v \in Values |-> NoChallenge]
    /\ reqs' = [r \in ReqSlots |->
                  IF reqs[r].stage \in {"sent", "read"}
                  THEN Done ELSE reqs[r]]
    /\ restarts' = restarts + 1
    /\ UNCHANGED <<cookieSecret, stored, nSent, jar, known, creds, minted, issued,
                   mintedTo, servedAs, proven, consumed>>

-----------------------------------------------------------------------------
(* Clients                                                                 *)

\* The Cookie and Authorization headers a client can send: its jar as a
\* browser sends it; an attacker also sends its two cookies swapped under
\* each other's name, a bearer JWT for its own address, a JWT that does not
\* verify, or cookies it forged with another client's public address.
Headers(c) ==
    LET sid == jar[c]["sessionid"]
        addr == jar[c]["address"]
    IN IF c \notin Attackers THEN {[sck |-> sid, ack |-> addr, jwt |-> "none"]} ELSE
       {[sck |-> sid, ack |-> addr, jwt |-> "none"],
        [sck |-> addr, ack |-> sid, jwt |-> "none"],
        [sck |-> sid, ack |-> NoCookie, jwt |-> "valid"],
        [sck |-> sid, ack |-> addr, jwt |-> "invalid"]}
       \cup {[sck |-> [val |-> a, sec |-> Forged], ack |-> [val |-> a, sec |-> Forged],
               jwt |-> "none"] : a \in Clients \ {c}}

SigChoices(c, kind) ==
    IF kind = "AuthorizeResponse"
    THEN {[signer |-> c, msg |-> ch] : ch \in known[c]} \cup {Malformed}
    ELSE {NoSig}

Send(c) ==
    /\ up
    /\ nSent < MaxRequests
    /\ \E kind \in Kinds, h \in Headers(c) :
         \E sig \in SigChoices(c, kind) :
           reqs' = [reqs EXCEPT ![nSent + 1] =
                      [Idle EXCEPT !.stage = "sent", !.client = c, !.kind = kind,
                                   !.sidCookie = h.sck, !.addrCookie = h.ack,
                                   !.jwt = h.jwt, !.sig = sig]]
    /\ nSent' = nSent + 1
    /\ UNCHANGED <<up, cookieSecret, stored, pendingAuthorizations, jar, known,
                   creds, restarts, minted, issued, mintedTo, servedAs, proven,
                   consumed>>

\* The client's cookie jar stores every Set-Cookie; the body of a phase-2a
\* answer is a challenge.  Answers of concurrent requests arrive in any order.
Deliver(r) ==
    LET q == reqs[r] IN
    /\ q.stage = "responded"
    /\ jar' = [jar EXCEPT ![q.client] =
                 [n \in CookieNames |-> IF q.setCookies[n] # NoCookie
                                        THEN q.setCookies[n] ELSE @[n]]]
    /\ known' = [known EXCEPT ![q.client] =
                   IF q.body # NoChallenge THEN @ \cup {q.body} ELSE @]
    /\ reqs' = [reqs EXCEPT ![r] = Done]
    /\ UNCHANGED <<up, cookieSecret, stored, pendingAuthorizations, nSent, creds,
                   restarts, minted, issued, mintedTo, servedAs, proven, consumed>>

-----------------------------------------------------------------------------
(* ServeHTTP                                                               *)

\* serveChallengeIdentity (2a): a fresh challenge stored under the session.
serveChallengeIdentity(r, sid, cookies) ==
    /\ reqs[r].kind = "AuthorizeRequest"
    /\ LET ch == Fresh(ChallengeIds, issued) IN
         /\ pendingAuthorizations' = [pendingAuthorizations EXCEPT ![sid] = ch]
         /\ issued' = issued \cup {ch}
         /\ Respond(r, 200, cookies, ch)

\* serveChallengeIdentityCheckResponse (2b), up to the signature recovery.
serveChallengeIdentityCheckResponse(r, sid, cookies) ==
    LET q == reqs[r]
        challenge == pendingAuthorizations[sid]
    IN
    /\ q.kind = "AuthorizeResponse"
    /\ \/ /\ challenge = NoChallenge                 \* "no pending authorization"
          /\ Respond(r, 400, cookies, NoChallenge)
       \/ /\ challenge # NoChallenge
          /\ q.sig = Malformed                        \* bad hex or no recovery
          /\ Respond(r, 400, cookies, NoChallenge)
       \/ /\ challenge # NoChallenge
          /\ q.sig # Malformed
          /\ reqs' = [reqs EXCEPT ![r] = [@ EXCEPT !.stage = "read", !.session = sid,
                        !.challenge = challenge,
                        !.recovered = RecoverSigningPubkey(challenge, q.sig),
                        !.setCookies = cookies]]
    /\ UNCHANGED <<pendingAuthorizations, issued>>

\* serveChallengeIdentityResponse (phase 1): a remote challenges us; the
\* answer comes from protoauth.HandleChallengeIdentity and changes nothing here.
serveChallengeIdentityResponse(r, cookies) ==
    /\ reqs[r].kind = "Challenge"
    /\ \E status \in {200, 400, 500} : Respond(r, status, cookies, NoChallenge)
    /\ UNCHANGED <<pendingAuthorizations, issued>>

ServeHEAD(r, cookies) ==
    /\ reqs[r].kind = "HEAD"
    /\ Respond(r, 200, cookies, NoChallenge)
    /\ UNCHANGED <<pendingAuthorizations, issued>>

\* ServeHTTP: session cookie, address, makePeerConn, then the method.
ServeHTTP(r) ==
    LET q == reqs[r] IN
    /\ up
    /\ q.stage = "sent"
    /\ LET sid == SessionFor(q)
           fresh == ~sessionCookieOK(q)
           cookies == IF fresh THEN setSignedCookieOnResponse("sessionid", sid)
                      ELSE NoCookies
           addr == addressFromRequest(q)
       IN
       /\ minted' = IF fresh THEN minted \cup {sid} ELSE minted
       /\ mintedTo' = IF fresh THEN mintedTo \cup {<<q.client, sid>>} ELSE mintedTo
       /\ servedAs' = servedAs \cup {<<q.client, sid>>}
       /\ IF AddressOK(q)
          THEN /\ creds' = IF addr # NoAddress
                           THEN creds \cup {[duid |-> sid, addr |-> addr, via |-> q.client]}
                           ELSE creds
               /\ proven' = IF q.jwt = "valid" THEN proven \cup {q.client} ELSE proven
               /\ \/ ServeHEAD(r, cookies)
                  \/ serveChallengeIdentityResponse(r, cookies)
                  \/ serveChallengeIdentity(r, sid, cookies)
                  \/ serveChallengeIdentityCheckResponse(r, sid, cookies)
          ELSE /\ Respond(r, 400, cookies, NoChallenge)
               /\ UNCHANGED <<creds, proven, pendingAuthorizations, issued>>
    /\ UNCHANGED <<up, cookieSecret, stored, nSent, jar, known, restarts, consumed>>

\* serveChallengeIdentityCheckResponse (2b), after the recovery: the address
\* cookie (setSignedCookieOnResponse first drops every Set-Cookie), the
\* verified credential, and the delete of whatever the session's entry is now.
CheckResponseCommit(r) ==
    LET q == reqs[r] IN
    /\ up
    /\ q.stage = "read"
    /\ Respond(r, 200, setSignedCookieOnResponse("address", q.recovered), NoChallenge)
    /\ creds' = creds \cup {[duid |-> q.session, addr |-> q.recovered, via |-> q.client]}
    /\ pendingAuthorizations' = [pendingAuthorizations EXCEPT ![q.session] = NoChallenge]
    /\ mintedTo' = mintedTo \cup {<<q.client, q.recovered>>}
    /\ proven' = proven \cup {q.recovered}
    /\ consumed' = [consumed EXCEPT ![q.challenge] = @ + 1]
    /\ UNCHANGED <<up, cookieSecret, stored, nSent, jar, known, restarts, minted,
                   issued, servedAs>>

-----------------------------------------------------------------------------
Init ==
    /\ up = FALSE
    /\ cookieSecret = Zero
    /\ stored \in {[kind |-> "none", val |-> Zero], [kind |-> "bytes", val |-> OldSecret]}
    /\ pendingAuthorizations = [v \in Values |-> NoChallenge]
    /\ reqs = [r \in ReqSlots |-> Idle]
    /\ nSent = 0
    /\ jar = [c \in Clients |-> NoCookies]
    /\ known = [c \in Clients |-> {}]
    /\ creds = {}
    /\ restarts = 0
    /\ minted = {}
    /\ issued = {}
    /\ mintedTo = {}
    /\ servedAs = {}
    /\ proven = {}
    /\ consumed = [ch \in ChallengeIds |-> 0]

Next ==
    \/ Start
    \/ Crash
    \/ \E c \in Clients : Send(c)
    \/ \E r \in ReqSlots : ServeHTTP(r) \/ CheckResponseCommit(r) \/ Deliver(r)

Spec == Init /\ [][Next]_vars

-----------------------------------------------------------------------------
(* Properties                                                              *)

\* No client is ever recorded in the peer store as verified for another
\* client's address: neither a cookie (signedCookie) nor phase 2b
\* (RecoverSigningPubkey over the pending challenge) lets c2 become c1.
NoImpersonation ==
    \A cr \in creds : cr.addr \in Clients => cr.via = cr.addr

\* A request is only ever served under a session id that the transport
\* itself put into a cookie for that same client (no session fixation or
\* hijacking through ensureSessionIDCookieOnResponse).
SessionIntegrity ==
    servedAs \subseteq mintedTo

\* Every address the peer store holds as verified was proven, by a phase-2b
\* signature over a challenge or by a JWT, or is the node's own: the
\* "address" cookie read by addressFromRequest only carries proven addresses.
VerifiedCredentialsProven ==
    \A cr \in creds : cr.addr \in proven \cup {NodeAddr}

\* A challenge authorizes at most one phase-2b response.
ChallengeUsedOnce ==
    \A ch \in ChallengeIds : consumed[ch] <= 1

\* A session's pending challenge leaves the map only when a phase-2b response
\* to that challenge is consumed, when a newer phase 2a replaces it, or when
\* the process dies.
PendingRemovedOnlyByItsResponse ==
    [][\A s \in Values :
         LET ch == pendingAuthorizations[s] IN
         ch # NoChallenge /\ pendingAuthorizations'[s] = NoChallenge
             => ~up' \/ consumed'[ch] > consumed[ch]]_vars

\* Spec 2, 4.4 and 9: a pending authorization is "consumed when the remote
\* returns the signed response", and access to the map is serialized: the
\* lookup (434) and the delete (462) of serveChallengeIdentityCheckResponse
\* act as one step, so each challenge is consumed at most once and no
\* challenge is removed by a response to another one.
PendingAuthorizationAtomic ==
    []ChallengeUsedOnce /\ PendingRemovedOnlyByItsResponse
=============================================================================
