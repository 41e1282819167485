----------------------------- MODULE BraidTxIngest -----------------------------
(***************************************************************************)
(* Transaction and blob ingest of the braidhttp transport                 *)
(* (src/swarm/braidhttp/transport.go): servePostTx (PUT),                  *)
(* servePostPrivateTx (PUT with Private: true), serveAck (ACK) and        *)
(* servePostBlob (POST with Blob: true), as dispatched by ServeHTTP.       *)
(*                                                                         *)
(* Each request is handled in one step: the handlers touch no state of    *)
(* the transport.  A request is a record of header and body classes (a    *)
(* header absent, malformed or well formed; a patch line that parses, does *)
(* not parse, or parses but is longer than bufio.Scanner's 64 KiB token   *)
(* limit).  servePostTx hands the tx to HandleTxReceived on a goroutine   *)
(* of t.Process after the handler has returned (and the 200 gone out);     *)
(* that goroutine is a step of its own.                                   *)
(***************************************************************************)
EXTENDS Naturals, FiniteSets, Sequences, SequencesExt

CONSTANTS
    Clients,        \* signers of txs
    BogusOf,        \* BogusOf[c]: what ecrecover yields for c's signature over another hash
    GivenVersions,  \* well-formed Version header values
    FreshVersions,  \* values state.RandomVersion() may return
    SigHeaders,     \* classes of the Signature header: a subset of SigClasses
    BodyKinds,      \* classes of the PUT body the clients send
    PatchLines,     \* classes of a patch line
    MaxLines,       \* patch lines per body
    MaxRequests     \* requests in one behaviour

SigClasses == {"missing", "badhex", "unrecoverable", "this", "other"}

ASSUME Cardinality(FreshVersions) >= MaxRequests /\ SigHeaders \subseteq SigClasses

\* A well-formed Signature: hex that ecrecover accepts, by a client, over
\* the hash of the tx it comes with ("this") or of another one ("other").
Sigs == [signer : Clients, over : {"this", "other"}]

\* The Signature header: "missing", "badhex", "unrecoverable" (hex that
\* ecrecover refuses), or a well-formed signature by signer over "this" or
\* "other".
PutRequests ==
    [sig : SigHeaders, signer : Clients, version : {"absent", "bad"} \cup GivenVersions,
     parents : {"absent", "good", "bad"}, checkpoint : BOOLEAN,
     stateURI : {"header", "absent"}, body : BodyKinds,
     lines : BoundedSeq(PatchLines, MaxLines)]

Kinds == {"PUT", "PRIVATE", "ACK", "BLOB", "POST"}

\* The body classes of the other handlers.
OtherBodies == [PRIVATE |-> {"badjson", "ok"},
                ACK |-> {"readerr", "badhex", "version"},
                BLOB |-> {"badform", "nofile", "storeerr", "ok"},
                POST |-> {"any"}]

NoTx == [none |-> TRUE]

VARIABLES
    reqs,     \* reqs[r]: the request in slot r and what its handler did
    nSent,    \* requests sent so far
    used      \* versions state.RandomVersion() has returned

vars == <<reqs, nSent, used>>

Tx == [id : GivenVersions \cup FreshVersions, parents : {"absent", "good", "bad"},
       patches : Nat, attachment : BOOLEAN, stateURI : {"header", "default"},
       checkpoint : BOOLEAN, sig : Sigs, from : Clients \cup Range(BogusOf)]

Slot == [kind : Kinds \cup {"none"}, put : PutRequests \cup {NoTx},
         other : UNION {OtherBodies[k] : k \in DOMAIN OtherBodies} \cup {"none"},
         status : {0, 200, 400, 500}, tx : Tx \cup {NoTx},
         handoff : {"none", "pending", "handled"}, upcall : BOOLEAN]

Empty == [kind |-> "none", put |-> NoTx, other |-> "none", status |-> 0,
          tx |-> NoTx, handoff |-> "none", upcall |-> FALSE]

TypeOK ==
    /\ reqs \in [1..MaxRequests -> Slot]
    /\ nSent \in 0..MaxRequests
    /\ used \subseteq FreshVersions

-----------------------------------------------------------------------------
(* servePostTx, in the order of its checks                                 *)

\* crypto.RecoverSigningPubkey(tx.Hash(), sig).Address()
RecoverSigningPubkey(sig) ==
    IF sig.over = "this" THEN sig.signer ELSE BogusOf[sig.signer]

\* The scanner loop: ParsePatch on each line until one fails (400); a line
\* beyond the token limit stops Scan and scanner.Err() reports it (500).
\* The first line that is not "good" decides.
ScanOutcome(lines) ==
    LET notGood == SelectSeq(lines, LAMBDA l : l # "good") IN
    IF notGood = <<>> THEN "ok"
    ELSE IF Head(notGood) = "bad" THEN "parse" ELSE "scan"

\* The patch reader: the body, or the "patches" form value of a multipart
\* body (nil when the form has none).
PatchLinesOf(q) ==
    IF q.body = "multipart_nopatches" THEN <<>> ELSE q.lines

\* Mutant: a Parents entry that fails to parse is skipped.
servePostTxStatusSkippingBadParents(q) ==
    CASE q.sig \in {"missing", "badhex"}                 -> 400
      [] q.version = "bad"                               -> 400
      [] q.body \in {"badform", "noattachment"}          -> 400
      [] ScanOutcome(PatchLinesOf(q)) = "parse"          -> 400
      [] ScanOutcome(PatchLinesOf(q)) = "scan"           -> 500
      [] q.sig = "unrecoverable"                         -> 400
      [] OTHER                                           -> 200

\* The status servePostTx answers; 200 is net/http's default when the
\* handler returns without writing.
servePostTxStatus(q) ==
    CASE q.sig \in {"missing", "badhex"}                 -> 400
      [] q.version = "bad"                               -> 400
      [] q.parents = "bad"                               -> 400
      [] q.body \in {"badform", "noattachment"}          -> 400
      [] ScanOutcome(PatchLinesOf(q)) = "parse"          -> 400
      [] ScanOutcome(PatchLinesOf(q)) = "scan"           -> 500
      [] q.sig = "unrecoverable"                         -> 400
      [] OTHER                                           -> 200

\* Mutant: the tx's id is taken from the Version header even when absent.
servePostTxTxNoRandomVersion(q, fresh) ==
    [id |-> q.version,
     parents |-> q.parents,
     patches |-> Len(PatchLinesOf(q)),
     attachment |-> q.body \in {"multipart", "multipart_nopatches"},
     stateURI |-> IF q.stateURI = "header" THEN "header" ELSE "default",
     checkpoint |-> q.checkpoint,
     sig |-> [signer |-> q.signer, over |-> q.sig],
     from |-> RecoverSigningPubkey([signer |-> q.signer, over |-> q.sig])]

\* The tree.Tx servePostTx builds for an accepted request.
servePostTxTx(q, fresh) ==
    [id |-> IF q.version = "absent" THEN fresh ELSE q.version,
     parents |-> q.parents,
     patches |-> Len(PatchLinesOf(q)),
     attachment |-> q.body \in {"multipart", "multipart_nopatches"},
     stateURI |-> IF q.stateURI = "header" THEN "header" ELSE "default",
     checkpoint |-> q.checkpoint,
     sig |-> [signer |-> q.signer, over |-> q.sig],
     from |-> RecoverSigningPubkey([signer |-> q.signer, over |-> q.sig])]

\* t.Process.Go(nil, "HandleTxReceived", ...): runs after the handler returns.
ProcessGo(slot) == [slot EXCEPT !.handoff = "pending"]

\* servePostTx for the request in the next slot.
servePostTx ==
    /\ nSent < MaxRequests
    /\ \E q \in PutRequests :
         /\ q.body = "multipart_nopatches" => q.lines = <<>>
         /\ LET status == servePostTxStatus(q)
                fresh == CHOOSE v \in FreshVersions \ used : TRUE
                slot == [Empty EXCEPT !.kind = "PUT", !.put = q, !.status = status]
            IN IF status = 200
               THEN /\ reqs' = [reqs EXCEPT ![nSent + 1] =
                                  ProcessGo([slot EXCEPT !.tx = servePostTxTx(q, fresh)])]
                    /\ used' = IF q.version = "absent" THEN used \cup {fresh} ELSE used
               ELSE /\ reqs' = [reqs EXCEPT ![nSent + 1] = slot]
                    /\ UNCHANGED used
    /\ nSent' = nSent + 1

\* The goroutine runs t.HandleTxReceived(tx, peerConn).
HandleTxReceived(r) ==
    /\ reqs[r].handoff = "pending"
    /\ reqs' = [reqs EXCEPT ![r].handoff = "handled"]
    /\ UNCHANGED <<nSent, used>>

-----------------------------------------------------------------------------
(* The other ingest handlers                                               *)

\* A request handled on its own goroutine, with the upcall made before the
\* handler answers.
Answer(kind, body, status, upcall) ==
    /\ nSent < MaxRequests
    /\ reqs' = [reqs EXCEPT ![nSent + 1] =
                  [Empty EXCEPT !.kind = kind, !.other = body, !.status = status,
                                !.upcall = upcall]]
    /\ nSent' = nSent + 1
    /\ UNCHANGED used

\* servePostPrivateTx: JSON-decode an EncryptedTx, then
\* HandlePrivateTxReceived.
servePostPrivateTx ==
    \E body \in OtherBodies["PRIVATE"] :
        Answer("PRIVATE", body, IF body = "ok" THEN 200 ELSE 400, body = "ok")

\* serveAck: read the body, UnmarshalText it into a version, then
\* HandleAckReceived with the State-URI header.
serveAck ==
    \E body \in OtherBodies["ACK"] :
        Answer("ACK", body, IF body = "version" THEN 200 ELSE 400, body = "version")

\* servePostBlob: ParseForm, FormFile("blob"), blobStore.StoreBlob, then
\* the JSON of both hashes.
servePostBlob ==
    \E body \in OtherBodies["BLOB"] :
        Answer("BLOB", body,
               CASE body = "ok" -> 200 [] body = "storeerr" -> 500 [] OTHER -> 400,
               body \in {"ok", "storeerr"})

\* A POST without "Blob: true" matches no branch; net/http answers 200.
servePostNoBlob == Answer("POST", "any", 200, FALSE)

-----------------------------------------------------------------------------
Init ==
    /\ reqs = [r \in 1..MaxRequests |-> Empty]
    /\ nSent = 0
    /\ used = {}

Next ==
    \/ servePostTx
    \/ servePostPrivateTx \/ serveAck \/ servePostBlob \/ servePostNoBlob
    \/ \E r \in 1..MaxRequests : HandleTxReceived(r)

\* The properties checked here are safety properties: no fairness is needed.
Spec == Init /\ [][Next]_vars

-----------------------------------------------------------------------------
(* Properties                                                              *)

\* Spec 4.7 and 7: a PUT is well formed when its Signature is hex that
\* recovers a key, its Version is absent or hex, its Parents are absent or
\* a list of hex versions, a multipart body has its attachment, and every
\* patch line is a patch.
SpecWellFormed(q) ==
    /\ q.sig \in {"this", "other"}
    /\ q.version # "bad"
    /\ q.parents # "bad"
    /\ q.body \notin {"badform", "noattachment"}
    /\ \A k \in 1..Len(q.lines) : q.lines[k] \in {"good", "long"}

\* A PUT servePostTx answers 200 is well formed, and the tx it hands to
\* HandleTxReceived carries every patch line, the State-URI (or the
\* default), and From = ecrecover(tx.Hash(), tx.Sig) (spec 8, invariant 4);
\* a PUT it rejects hands nothing over.
PutContract ==
    \A r \in 1..MaxRequests :
        LET s == reqs[r] IN
        s.kind = "PUT" =>
            IF s.status = 200
            THEN /\ SpecWellFormed(s.put)
                 /\ s.tx.patches = Len(s.put.lines)
                 /\ s.tx.stateURI = (IF s.put.stateURI = "header" THEN "header" ELSE "default")
                 /\ s.tx.from = RecoverSigningPubkey(s.tx.sig)
            ELSE s.handoff = "none"

\* Spec 8, round trip: any PUT with newline-separated patches P1..Pn that
\* is otherwise well formed is ingested carrying all of them.
ValidPutAccepted ==
    \A r \in 1..MaxRequests :
        reqs[r].kind = "PUT" /\ SpecWellFormed(reqs[r].put) => reqs[r].status = 200
=============================================================================
