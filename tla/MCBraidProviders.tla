--------------------------- MODULE MCBraidProviders ---------------------------
EXTENDS BraidProviders

CONSTANTS u1, u2, u3

\* u1 is one of our own URLs, u3 starts with "localhost".
MCURLs == {u1, u2, u3}
MCOwnURLs == {u1}
MCLocalhostURLs == {u3}
=============================================================================
