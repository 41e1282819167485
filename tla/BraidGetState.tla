---------------------------- MODULE BraidGetState ----------------------------
(***************************************************************************)
(* The GET side of the braidhttp transport                                 *)
(* (src/swarm/braidhttp/transport.go): the GET branch of ServeHTTP,        *)
(* serveRedwoodJS, serveGetTx and serveGetState, with                      *)
(* utils.FilterEmptyStrings (src/utils/strings.go).                       *)
(*                                                                         *)
(* Strings the handler parses (the URL path, the Range header) are         *)
(* sequences of characters or tokens, and the parsing is modelled by what  *)
(* it does: strings.Split, strings.SplitN, strconv.ParseInt, the slicing   *)
(* of a "name[N]" part and the uint64 conversion of N.  Everything the     *)
(* handler asks of the controller hub and of nelson is an outcome chosen   *)
(* nondeterministically where the handler asks for it.                    *)
(*                                                                         *)
(* serveGetState is split into the stages between which it calls out:      *)
(* parsing, the Parents header, resolution and the response.  Handlers    *)
(* share no state, so one request per behaviour is served.                *)
(***************************************************************************)
EXTENDS Integers, Sequences, SequencesExt

CONSTANTS
    Requests,    \* the GET requests a behaviour may serve (records, see Request)
    CTypes,      \* content types nelson.GetContentType may report
    IndexWidth   \* bits of a slice index (uint64 in the code)

Octet == "application/octet-stream"
JSON == "application/json"

\* nelson's Content-Type for a request whose last keypath part names a file;
\* GuessContentTypeFromFilename is outside src/ and is abstracted to
\* "typed by its extension" or, for an empty name, the octet-stream default.
ByName == "by-extension"

DigitVal == ("0" :> 0) @@ ("1" :> 1)
Digits == DOMAIN DigitVal

\* Range header tokens: "json" and "bytes" are words, the rest characters.
BytesZero == <<"bytes", "=", "0", "-">>

\* A keypath part: a name (a string) or an encoded slice index.
Name(s) == [k |-> "name", s |-> s, n |-> 0]
Index(n) == [k |-> "idx", s |-> <<>>, n |-> n]

-----------------------------------------------------------------------------
(* String operations                                                       *)

\* strings.Split(s, c): the pieces of s between occurrences of c.
RECURSIVE Split(_, _)
Split(s, c) ==
    LET k == SelectInSeq(s, LAMBDA x : x = c)
    IN  IF k = 0 THEN <<s>>
        ELSE <<SubSeq(s, 1, k - 1)>> \o Split(SubSeq(s, k + 1, Len(s)), c)

\* strings.SplitN(s, c, 2).
SplitN2(s, c) ==
    LET k == SelectInSeq(s, LAMBDA x : x = c)
    IN  IF k = 0 THEN <<s>> ELSE <<SubSeq(s, 1, k - 1), SubSeq(s, k + 1, Len(s))>>

\* utils.FilterEmptyStrings.
FilterEmptyStrings(ss) == SelectSeq(ss, LAMBDA x : x # <<>>)

\* strconv.ParseInt(s, 10, 64): an optional sign, then one or more digits.
\* (No input of the bounded sets is long enough to overflow 64 bits.)
ParseInt(s) ==
    LET signed == Len(s) > 0 /\ s[1] \in {"+", "-"}
        ds == IF signed THEN Tail(s) ELSE s
        mag == FoldLeft(LAMBDA a, d : 10 * a + DigitVal[d], 0, ds)
    IN  IF ds # <<>> /\ \A j \in 1..Len(ds) : ds[j] \in Digits
        THEN [ok |-> TRUE, val |-> IF s[1] = "-" THEN -mag ELSE mag]
        ELSE [ok |-> FALSE, val |-> 0]

\* uint64(x) of an int64, at IndexWidth bits.
Uint(x) == x % (2 ^ IndexWidth)

-----------------------------------------------------------------------------
(* Keypath and Range parsing in serveGetState                              *)

\* The result of parsing the path: "ok" with the parts, "bad" (400 "bad
\* slice index"), or "panic" (a slice expression out of range).
KpOk(ps) == [kind |-> "ok", parts |-> ps]
KpBad == [kind |-> "bad", parts |-> <<>>]
KpPanic == [kind |-> "panic", parts |-> <<>>]

\* Mutant: the name keeps the '[' (part[:idx+1]).
RewritePartOffByOne(p) ==
    LET k == SelectInSeq(p, LAMBDA x : x = "[")
    IN  CASE k = 0 -> KpOk(<<Name(p)>>)
          [] k = Len(p) -> KpPanic
          [] ~ParseInt(SubSeq(p, k + 1, Len(p) - 1)).ok -> KpBad
          [] OTHER -> KpOk(<<Name(SubSeq(p, 1, k)),
                             Index(Uint(ParseInt(SubSeq(p, k + 1, Len(p) - 1)).val))>>)

\* One part of the loop: a part with a '[' becomes part[:idx] and the
\* encoded uint64 of ParseInt(part[idx+1 : len(part)-1]).  When '[' is the
\* last character the slice's low bound exceeds its high bound.
RewritePart(p) ==
    LET k == SelectInSeq(p, LAMBDA x : x = "[")
        inner == SubSeq(p, k + 1, Len(p) - 1)
    IN  CASE k = 0 -> KpOk(<<Name(p)>>)
          [] k = Len(p) -> KpPanic
          [] ~ParseInt(inner).ok -> KpBad
          [] OTHER -> KpOk(<<Name(SubSeq(p, 1, k - 1)), Index(Uint(ParseInt(inner).val))>>)

\* The loop over keypath.Parts(), returning at the first bad part.
RECURSIVE RewriteParts(_)
RewriteParts(ps) ==
    IF ps = <<>> THEN KpOk(<<>>)
    ELSE LET h == RewritePart(Head(ps))
             t == RewriteParts(Tail(ps))
         IN  CASE h.kind # "ok" -> h
               [] t.kind # "ok" -> t
               [] OTHER -> KpOk(h.parts \o t.parts)

\* Split r.URL.Path[1:] on "/", drop empty strings, join with "/" and take
\* Parts() again (the same strings, none holds a "/"), then rewrite.
KeypathOf(path) == RewriteParts(FilterEmptyStrings(Split(Tail(path), "/")))

\* The parsed Range: none, bad (400 "bad Range header"), or json start:end.
RngNone == [kind |-> "none", start |-> 0, end |-> 0]
RngBad == [kind |-> "bad", start |-> 0, end |-> 0]
RngUnparsed == [kind |-> "unparsed", start |-> 0, end |-> 0]

\* Mutant: "bytes=0-" is not exempted.
ParseRangeNoBytesExemption(h) ==
    IF h = <<>> THEN RngNone
    ELSE LET p == SplitN2(h, "=")
             q == SplitN2(p[2], ":")
         IN  IF Len(p) # 2 \/ p[1] # <<"json">> \/ Len(q) # 2 THEN RngBad
             ELSE IF ~ParseInt(q[1]).ok \/ ~ParseInt(q[2]).ok THEN RngBad
             ELSE [kind |-> "json", start |-> ParseInt(q[1]).val, end |-> ParseInt(q[2]).val]

\* The Range header: "" and "bytes=0-" mean no range; otherwise SplitN on
\* "=", the unit must be "json", SplitN on ":", and both ends ParseInt.
ParseRange(h) ==
    IF h = <<>> \/ h = BytesZero THEN RngNone
    ELSE LET p == SplitN2(h, "=")
         IN  IF Len(p) # 2 \/ p[1] # <<"json">> THEN RngBad
             ELSE LET q == SplitN2(p[2], ":")
                  IN  IF Len(q) # 2 \/ ~ParseInt(q[1]).ok \/ ~ParseInt(q[2]).ok
                      THEN RngBad
                      ELSE [kind |-> "json", start |-> ParseInt(q[1]).val,
                            end |-> ParseInt(q[2]).val]

-----------------------------------------------------------------------------
(* The request and the handler's state                                     *)

\* A GET request: its URL path (starting with "/"), its Range header, whether
\* it carries Subscribe and State-URI, its Version header, and the query
\* parameters filename, index, index_arg and raw.
RequestFields == {"path", "range", "subscribe", "stateURI", "version",
                  "filename", "index", "indexArg", "raw"}

ASSUME \A q \in Requests :
    /\ DOMAIN q = RequestFields
    /\ Len(q.path) > 0 /\ q.path[1] = "/"
    /\ q.version \in {"absent", "good", "bad"}
    /\ q.indexArg \in {"*", "k"}
    /\ q.raw \in {"absent", "1", "bad"}

Handlers == {"none", "ws", "subscription", "js", "tx", "state"}

VARIABLES
    req,   \* the request being served
    pc,    \* where its handler is: "route", a handler or stage, or "done"
    resp   \* what the handler has done so far (see NoResponse)

vars == <<req, pc, resp>>

\* status: 0 until an answer is written; kp: the keypath parse; rng: the
\* Range parse; cur: the handler's local keypath when the body is built;
\* ctype: the Content-Type header.
NoResponse ==
    [handler |-> "none", status |-> 0, panicked |-> FALSE,
     kp |-> [kind |-> "unparsed", parts |-> <<>>], rng |-> RngUnparsed,
     disposition |-> FALSE, parents |-> "unset", query |-> "none",
     indexArg |-> "none", cur |-> <<>>, ctype |-> "unset", subscribe |-> FALSE]

Statuses == {0, 200, 206, 400, 404, 416, 500}

\* Write a status and end the handler (http.Error, or the body's first write).
Answer(st) ==
    /\ resp' = [resp EXCEPT !.status = st]
    /\ pc' = "done"

-----------------------------------------------------------------------------
(* ServeHTTP's GET branch and the small GET handlers                       *)

\* case "GET": /ws and a Subscribe header go to the subscription handlers
\* (module BraidServer); /redwood.js, /__tx/... and the rest to the three
\* handlers below.
ServeGET ==
    /\ pc = "route"
    /\ LET h == CASE req.path = <<"/", "ws">> -> "ws"
                  [] req.subscribe -> "subscription"
                  [] req.path = <<"/", "redwood.js">> -> "js"
                  [] IsPrefix(<<"/", "__tx", "/">>, req.path) -> "tx"
                  [] OTHER -> "state"
       IN  /\ resp' = [resp EXCEPT !.handler = h]
           /\ pc' = CASE h \in {"ws", "subscription"} -> "done"
                      [] h = "state" -> "parse"
                      [] OTHER -> h
    /\ UNCHANGED req

\* serveRedwoodJS: http.ServeContent, which answers a byte Range itself.
serveRedwoodJS ==
    /\ pc = "js"
    /\ \E st \in IF req.range = <<>> THEN {200} ELSE {200, 206, 416} : Answer(st)
    /\ UNCHANGED req

\* serveGetTx: State-URI is required; the tx id is the second path part,
\* which state.VersionFromHex (outside src/) may refuse; then FetchTx.
serveGetTx ==
    /\ pc = "tx"
    /\ LET txIDStr == Split(Tail(req.path), "/")[2]
       IN  \E hexOK \in IF txIDStr = <<>> THEN {FALSE} ELSE BOOLEAN,
              found \in BOOLEAN :
              Answer(CASE ~req.stateURI -> 400
                       [] ~hexOK -> 400
                       [] ~found -> 404
                       [] OTHER -> 200)
    /\ UNCHANGED req

-----------------------------------------------------------------------------
(* serveGetState                                                           *)

\* The request struct (a bad Version header fails UnmarshalHTTPRequest),
\* Content-Disposition for a filename, the keypath and the Range header.
\* An empty State-URI is replaced by the default; the model keeps no URIs.
ParseRequest ==
    /\ pc = "parse"
    /\ IF req.version = "bad"
       THEN Answer(400)
       ELSE LET kp == KeypathOf(req.path)
                rng == ParseRange(req.range)
                r1 == [resp EXCEPT !.disposition = req.filename, !.kp = kp]
            IN  CASE kp.kind = "panic" ->
                        /\ resp' = [r1 EXCEPT !.panicked = TRUE]
                        /\ pc' = "done"
                  [] kp.kind = "bad" ->
                        /\ resp' = [r1 EXCEPT !.status = 400]
                        /\ pc' = "done"
                  [] OTHER ->
                        /\ resp' = [r1 EXCEPT !.rng = rng,
                                              !.status = IF rng.kind = "bad" THEN 400 ELSE 0,
                                              !.cur = kp.parts]
                        /\ pc' = IF rng.kind = "bad" THEN "done" ELSE "parents"
    /\ UNCHANGED req

\* The Parents header: Leaves fails (404), there are none (""), or the
\* first leaf's tx is fetched (404 when it cannot be) for its parents.
ParentsHeader ==
    /\ pc = "parents"
    /\ \E leaves \in {"err", "none", "some"}, fetched \in BOOLEAN :
         CASE leaves = "err" -> Answer(404)
           [] leaves = "some" /\ ~fetched -> Answer(404)
           [] OTHER ->
                 /\ resp' = [resp EXCEPT !.parents = IF leaves = "none" THEN "empty" ELSE "list"]
                 /\ pc' = "resolve"
    /\ UNCHANGED req

\* Where the resolution goes next with the handler's keypath set to kp.
Resolved(query, kp) ==
    /\ resp' = [resp EXCEPT !.query = query, !.cur = kp,
                            !.indexArg = IF query # "index" THEN "none"
                                         ELSE IF req.indexArg = "*" THEN "nil" ELSE "k"]
    /\ pc' = "respond"

\* parseRawParam (outside src/) may fail; then an index query (QueryIndex
\* with index_arg "*" passed as nil) or a state query: StateAtVersion, and
\* for raw NodeAt, otherwise nelson.Seek, after which keypath is set to nil (759)
\* and an index.html child, if there is one, is descended into.
Resolve ==
    /\ pc = "resolve"
    /\ \/ /\ req.raw = "bad"
          /\ Answer(400)
       \/ /\ req.raw # "bad" /\ req.index
          /\ \E out \in {"notfound", "err", "ok"} :
               CASE out = "notfound" -> Answer(404)
                 [] out = "err" -> Answer(500)
                 [] OTHER -> Resolved("index", resp.cur)
       \/ /\ req.raw # "bad" /\ ~req.index
          /\ \E atVersion \in BOOLEAN, seek \in {"err", "miss", "hit"},
                indexHTML \in {"err", "yes", "no"} :
               CASE ~atVersion -> Answer(404)
                 [] req.raw = "1" -> Resolved("raw", resp.cur)
                 [] seek = "err" -> Answer(500)
                 [] seek = "miss" -> Answer(404)
                 [] indexHTML = "err" -> Answer(500)
                 [] indexHTML = "yes" -> Resolved("seek", <<Name(<<"index.html">>)>>)
                 [] OTHER -> Resolved("seek", <<>>)
    /\ UNCHANGED req

\* utils.GuessContentTypeFromFilename(string(keypath.Part(-1))): the last
\* part of an empty (nil) keypath is the empty name.
Guess(kp) == IF kp = <<>> THEN Octet ELSE ByName

AllowSubscribe == {JSON, "application/js", "text/plain"}

\* The headers and the body: GetContentType (an octet-stream type is
\* replaced by a guess from the handler's keypath), GetContentLength and
\* node.Length (either failing is a 500), the value (an error is a 400, an
\* absent value a 404), JSON for a value that is not a reader, Subscribe:
\* Allow by the final content type, 206 when anyMissing, and io.Copy, whose
\* failure is a 500 only if nothing was written yet.  anyMissing is never
\* assigned: the resolver call that reported it is commented out.
Respond ==
    /\ pc = "respond"
    /\ \E ct \in CTypes \cup {"err"}, lengthsOK \in BOOLEAN,
          val \in {"err", "absent", "ok"}, reader \in BOOLEAN,
          copyFails \in BOOLEAN :
         LET header == IF ct = Octet THEN Guess(resp.cur) ELSE ct
             contentType == IF reader THEN header ELSE JSON
             anyMissing == FALSE
             r1 == [resp EXCEPT !.ctype = header]
         IN  CASE ct = "err" -> Answer(500)
               [] ~lengthsOK -> /\ resp' = [r1 EXCEPT !.status = 500]
                                /\ pc' = "done"
               [] val \in {"err", "absent"} ->
                     /\ resp' = [r1 EXCEPT !.status = IF val = "err" THEN 400 ELSE 404]
                     /\ pc' = "done"
               [] OTHER ->
                     \E st \in {IF anyMissing THEN 206 ELSE 200} \cup
                               (IF copyFails THEN {500} ELSE {}) :
                       /\ resp' = [r1 EXCEPT !.subscribe = contentType \in AllowSubscribe,
                                             !.status = st]
                       /\ pc' = "done"
    /\ UNCHANGED req

-----------------------------------------------------------------------------
Init ==
    /\ req \in Requests
    /\ pc = "route"
    /\ resp = NoResponse

Next ==
    \/ ServeGET \/ serveRedwoodJS \/ serveGetTx
    \/ ParseRequest \/ ParentsHeader \/ Resolve \/ Respond

\* Each behaviour serves one request and stops.
Spec == Init /\ [][Next]_vars

-----------------------------------------------------------------------------
(* The spec's reading of the request (spec 4.6 and 8)                      *)

\* The value of a non-empty digit string.
RECURSIVE Numeral(_)
Numeral(ds) == IF ds = <<>> THEN 0 ELSE 10 * Numeral(Front(ds)) + DigitVal[Last(ds)]

IsDigits(s) == s # <<>> /\ \A j \in DOMAIN s : s[j] \in Digits

\* The path segments: split on "/", empty ones filtered.
SpecSegments(path) == SelectSeq(Split(Tail(path), "/"), LAMBDA x : x # <<>>)

\* A segment is a name, or name[N] with N a slice index.
WellFormedSegment(g) ==
    \/ \A j \in DOMAIN g : g[j] # "["
    \/ \E j \in DOMAIN g :
          /\ \A i \in 1..(j - 1) : g[i] # "["
          /\ Len(g) > j /\ g[Len(g)] = "]"
          /\ IsDigits(SubSeq(g, j + 1, Len(g) - 1))

WellFormedPath(path) ==
    LET gs == SpecSegments(path) IN \A j \in DOMAIN gs : WellFormedSegment(gs[j])

\* The parts of a well-formed segment: itself, or name then the index N.
SpecParts(g) ==
    IF \A j \in DOMAIN g : g[j] # "[" THEN <<Name(g)>>
    ELSE LET j == CHOOSE i \in DOMAIN g : g[i] = "[" /\ \A h \in 1..(i - 1) : g[h] # "["
         IN  <<Name(SubSeq(g, 1, j - 1)), Index(Numeral(SubSeq(g, j + 1, Len(g) - 1)))>>

SpecKeypath(path) ==
    LET gs == SpecSegments(path)
    IN  FlattenSeq([j \in DOMAIN gs |-> SpecParts(gs[j])])

\* A signed integer: an optional sign, then digits; and its value.
SignedText(s) == \/ IsDigits(s)
                 \/ Len(s) > 1 /\ s[1] \in {"+", "-"} /\ IsDigits(Tail(s))
SignedValue(s) == CASE s[1] = "-" -> -Numeral(Tail(s))
                    [] s[1] = "+" -> Numeral(Tail(s))
                    [] OTHER -> Numeral(s)

\* Range: "bytes=0-" or none is no range, json=START:END a range, anything
\* else malformed.
SpecRange(h) ==
    LET colons == {k \in 4..(Len(h) - 1) :
                      /\ SubSeq(h, 1, 2) = <<"json", "=">> /\ h[k] = ":"
                      /\ SignedText(SubSeq(h, 3, k - 1))
                      /\ SignedText(SubSeq(h, k + 1, Len(h)))}
    IN  CASE h \in {<<>>, BytesZero} -> RngNone
          [] colons # {} ->
                LET k == CHOOSE c \in colons : TRUE
                IN  [kind |-> "json", start |-> SignedValue(SubSeq(h, 3, k - 1)),
                     end |-> SignedValue(SubSeq(h, k + 1, Len(h)))]
          [] OTHER -> RngBad

-----------------------------------------------------------------------------
(* Properties                                                              *)

\* Spec 4.6: every well-formed path is rewritten into the spec's keypath:
\* empty segments dropped, name[N] as the name then the slice index N.
\* This is the path loop of serveGetState with FilterEmptyStrings.
WellFormedKeypathRewritten ==
    resp.kp.kind # "unparsed" /\ WellFormedPath(req.path)
        => resp.kp = KpOk(SpecKeypath(req.path))

\* Spec 4.6 and 8: the Range header parser of serveGetState accepts exactly
\* "bytes=0-" (ignored) and json=START:END with signed integers, with their
\* values, and answers 400 to anything else.
RangeMatchesSpec ==
    resp.rng.kind # "unparsed" => resp.rng = SpecRange(req.range)

\* Spec 4.6 and 7: a path segment with a subscript that is not name[N]
\* (N a slice index) is malformed input and gets 400 ("bad slice index"),
\* and "nothing in the core panics on user input".  The keypath loop of
\* serveGetState slices part[idx+1 : len(part)-1] without checking that
\* the part ends in ']' after its '['.
MalformedKeypathRejected ==
    resp.kp.kind # "unparsed" /\ ~WellFormedPath(req.path)
        => resp.kp.kind = "bad" /\ resp.status = 400 /\ ~resp.panicked
=============================================================================
