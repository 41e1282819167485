--------------------------- MODULE MCBraidGetState ---------------------------
EXTENDS BraidGetState

\* A plain state GET of the root.
Base == [path |-> <<"/">>, range |-> <<>>, subscribe |-> FALSE, stateURI |-> TRUE,
         version |-> "absent", filename |-> FALSE, index |-> FALSE,
         indexArg |-> "*", raw |-> "bad"]

\* Every path of up to 5 characters over names, digits, a sign, brackets
\* and "/"; a raw=bad query so the request ends after parsing.
PathRequests ==
    {[Base EXCEPT !.path = <<"/">> \o s] : s \in BoundedSeq({"a", "1", "-", "[", "]", "/"}, 5)}

\* Every Range header of up to 5 tokens, and every json= header with up to
\* 4 more characters (signed ends need 6 tokens).
RangeRequests ==
    {[Base EXCEPT !.range = h] :
        h \in BoundedSeq({"json", "bytes", "=", ":", "-", "0", "1"}, 5)
              \cup {<<"json", "=">> \o t : t \in BoundedSeq({":", "-", "+", "0", "1"}, 4)}}

\* The handler's control flow: each route, a good and a bad keypath part,
\* a Range, and every flag.
FlowRequests ==
    [path : {<<"/">>, <<"/", "a">>, <<"/", "a", "[", "1", "]">>, <<"/", "ws">>,
             <<"/", "redwood.js">>, <<"/", "__tx", "/">>, <<"/", "__tx", "/", "a">>},
     range : {<<>>, <<"json", "=", "1", ":", "1">>},
     subscribe : BOOLEAN, stateURI : BOOLEAN, version : {"absent", "bad"},
     filename : {FALSE}, index : BOOLEAN, indexArg : {"*", "k"},
     raw : {"absent", "1", "bad"}]

MCRequests == PathRequests \cup RangeRequests \cup FlowRequests

MCCTypes == {JSON, Octet, "text/html"}
=============================================================================
