--------------------------- MODULE ProvidersStream ---------------------------
(***************************************************************************)
(* What ProvidersOfStateURI promises its caller (spec 4.5 and scenario 6): *)
(* one lookup, which fails or yields the non-self candidates; then the     *)
(* candidates arrive on the channel in order, one per receive, and the     *)
(* channel is closed once every candidate has been offered.  After the    *)
(* transport shuts down a candidate may be dropped instead of delivered.  *)
(*                                                                         *)
(* This is the abstract specification; BraidProviders implements it under *)
(* the mapping given there (ProvidersStreamRefined).                       *)
(***************************************************************************)
EXTENDS Naturals, Sequences, SequencesExt

CONSTANTS URLs, OwnURLs, MaxProviders

VARIABLES
    phase,   \* "idle", "failed", "open" (the channel), "closed"
    cands,   \* the candidates of the lookup, own URLs excluded
    pos,     \* how many candidates have been offered (delivered or dropped)
    out,     \* the candidates the caller has received
    reader,  \* the caller: "idle", "failed", "reading", "cancelled", "done"
    live     \* the transport has not been shut down

absvars == <<phase, cands, pos, out, reader, live>>

Init ==
    /\ phase = "idle" /\ cands = <<>> /\ pos = 0 /\ out = <<>>
    /\ reader = "idle" /\ live = TRUE

\* The lookup fails (always, once shut down) or opens the channel.
Lookup ==
    /\ phase = "idle"
    /\ \/ /\ phase' = "failed" /\ reader' = "failed"
          /\ UNCHANGED cands
       \/ /\ live
          /\ phase' = "open" /\ reader' = "reading"
          /\ cands' \in BoundedSeq(URLs \ OwnURLs, MaxProviders + 1)
    /\ UNCHANGED <<pos, out, live>>

\* The next candidate reaches a reading caller.
Deliver ==
    /\ phase = "open" /\ reader = "reading" /\ pos < Len(cands)
    /\ out' = Append(out, cands[pos + 1])
    /\ pos' = pos + 1
    /\ UNCHANGED <<phase, cands, reader, live>>

\* After shutdown the next candidate may be dropped.
Drop ==
    /\ phase = "open" /\ ~live /\ pos < Len(cands)
    /\ pos' = pos + 1
    /\ UNCHANGED <<phase, cands, out, reader, live>>

\* Every candidate offered: the channel closes.
Close ==
    /\ phase = "open" /\ pos = Len(cands)
    /\ phase' = "closed"
    /\ UNCHANGED <<cands, pos, out, reader, live>>

ReaderDone ==
    /\ reader = "reading" /\ phase = "closed"
    /\ reader' = "done"
    /\ UNCHANGED <<phase, cands, pos, out, live>>

ReaderCancel ==
    /\ reader = "reading" /\ phase # "closed"
    /\ reader' = "cancelled"
    /\ UNCHANGED <<phase, cands, pos, out, live>>

Shutdown ==
    /\ live
    /\ live' = FALSE
    /\ UNCHANGED <<phase, cands, pos, out, reader>>

Next == Lookup \/ Deliver \/ Drop \/ Close \/ ReaderDone \/ ReaderCancel \/ Shutdown

\* The stream advances (a delivery or, after shutdown, a drop), closes
\* when exhausted, and a reading caller sees the close.
Spec ==
    /\ Init /\ [][Next]_absvars
    /\ WF_absvars(Deliver \/ Drop)
    /\ WF_absvars(Close)
    /\ WF_absvars(ReaderDone)
=============================================================================
