--------------------------- MODULE MCBraidTxIngest ---------------------------
EXTENDS BraidTxIngest, TLC

CONSTANTS c1, b1, g1, f1, f2

MCClients == {c1}
MCBogusOf == c1 :> b1
MCGivenVersions == {g1}
MCFreshVersions == {f1, f2}
MCSigHeaders == SigClasses
MCBodyKinds == {"plain", "multipart", "multipart_nopatches", "badform", "noattachment"}
MCPatchLines == {"good", "bad", "long"}
=============================================================================
