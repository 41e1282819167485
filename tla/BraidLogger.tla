----------------------------- MODULE BraidLogger -----------------------------
(***************************************************************************)
(* The labelled logger of src/log/logger.go, which the transport embeds    *)
(* (NewLogger(TransportName) in NewTransport).  A logger's label becomes a *)
(* prefix "[label] ", and every line is padded with                        *)
(* strings.Repeat(" ", longestLabel - len(logPrefix)) so that messages of  *)
(* all loggers start in one column.  longestLabel is a package variable,   *)
(* read and written by SetLogLabel with no lock.                           *)
(*                                                                         *)
(* Labels are abstracted to their lengths (0 is ""), since the code uses   *)
(* nothing else of them; the prefix "[%s] " is three bytes longer.  What   *)
(* klog does with a line is left out; klog.V(level) is level <= Verbosity  *)
(* and FatalDepth exits the process.                                       *)
(***************************************************************************)
EXTENDS Integers

CONSTANTS
    Loggers,      \* the loggers goroutines construct, GLogger included
    GLogger,      \* the package's gLogger, a zero logger{} (never labelled)
    LabelLens,    \* lengths of the non-empty labels callers pass
    Levels,       \* verbose levels passed to Info and Infof
    Verbosity,    \* klog's -v
    MaxRelabels   \* bound on SetLogLabel calls on published loggers

ASSUME GLogger \in Loggers /\ LabelLens \subseteq Nat \ {0}

VARIABLES
    published,    \* loggers NewLogger has returned (gLogger from the start)
    logLabel,     \* l.logLabel, as a length
    hasPrefix,    \* l.hasPrefix
    logPrefix,    \* len(l.logPrefix)
    longestLabel, \* the package variable
    pc,           \* "idle", or "write": SetLogLabel saw a longer prefix
    relabels,     \* SetLogLabel calls on published loggers so far
    out,          \* the last line: the logger and its padding, or NoLine
    panicked,     \* loggers whose goroutine panicked while logging
    exited        \* a Fatalf ended the process

vars == <<published, logLabel, hasPrefix, logPrefix, longestLabel, pc,
          relabels, out, panicked, exited>>

NoLine == [by |-> GLogger, pad |-> -1]

\* fmt.Sprintf("[%s] ", inLabel)
PrefixLen(n) == n + 3

\* The first half of SetLogLabel: the fields, then the comparison with the
\* package variable as it is now.  The write is SetLogLabelWrite.
SetLogLabelFields(l, n) ==
    /\ logLabel' = [logLabel EXCEPT ![l] = n]
    /\ hasPrefix' = [hasPrefix EXCEPT ![l] = n > 0]
    /\ logPrefix' = [logPrefix EXCEPT ![l] = IF n > 0 THEN PrefixLen(n) ELSE @]
    /\ pc' = [pc EXCEPT ![l] = IF n > 0 /\ PrefixLen(n) > longestLabel
                               THEN "write" ELSE "idle"]

\* NewLogger(label): a zero logger{}, labelled if label != "".  It is
\* published when SetLogLabel has returned.
NewLogger(l) ==
    /\ ~exited /\ l \notin published /\ pc[l] = "idle"
    /\ \E n \in LabelLens \cup {0} :
         /\ SetLogLabelFields(l, n)
         /\ published' = IF n > 0 /\ PrefixLen(n) > longestLabel
                         THEN published ELSE published \cup {l}
    /\ UNCHANGED <<longestLabel, relabels, out, panicked, exited>>

\* SetLogLabel called again on a logger others are logging through.
SetLogLabel(l) ==
    /\ ~exited /\ l \in published \ {GLogger} /\ pc[l] = "idle"
    /\ relabels < MaxRelabels
    /\ \E n \in LabelLens \cup {0} : SetLogLabelFields(l, n)
    /\ relabels' = relabels + 1
    /\ UNCHANGED <<published, longestLabel, out, panicked, exited>>

\* longestLabel = len(l.logPrefix), after the comparison above; NewLogger
\* returns here.
SetLogLabelWrite(l) ==
    /\ ~exited /\ pc[l] = "write"
    /\ longestLabel' = logPrefix[l]
    /\ pc' = [pc EXCEPT ![l] = "idle"]
    /\ published' = published \cup {l}
    /\ UNCHANGED <<logLabel, hasPrefix, logPrefix, relabels, out, panicked, exited>>

\* The body every logging method shares: with a prefix, the padding is
\* longestLabel - len(logPrefix), and strings.Repeat panics on a negative
\* count; without one, the arguments go to klog as they are.
Line(l) ==
    LET pad == IF hasPrefix[l] THEN longestLabel - logPrefix[l] ELSE 0 IN
    IF pad < 0
    THEN /\ panicked' = panicked \cup {l}
         /\ UNCHANGED out
    ELSE /\ out' = [by |-> l, pad |-> pad]
         /\ UNCHANGED panicked

\* A logging call by any goroutine holding a published logger.
LogAt(l) ==
    /\ ~exited /\ l \in published \ panicked
    /\ Line(l)
    /\ UNCHANGED <<published, logLabel, hasPrefix, logPrefix, longestLabel,
                   pc, relabels, exited>>

\* Debug, Debugf and Debugw.
Debug(l) == LogAt(l)

\* Success, Successf and Successw.
Success(l) == LogAt(l)

\* Infow has no verbose level.
Infow(l) == LogAt(l)

\* Warn, Warnf and Warnw.
Warn(l) == LogAt(l)

\* Error, Errorf and Errorw.
Error(l) == LogAt(l)

\* LogV: klog.V(level).
LogV(level) == level <= Verbosity

\* Info and Infof: a level above 0 logs only if klog.V(level).
Info(l) ==
    /\ ~exited /\ l \in published \ panicked
    /\ \E level \in Levels :
         IF level > 0 /\ ~LogV(level)
         THEN UNCHANGED <<out, panicked>>
         ELSE Line(l)
    /\ UNCHANGED <<published, logLabel, hasPrefix, logPrefix, longestLabel,
                   pc, relabels, exited>>

\* Fatalf (the package function uses gLogger): the line, then exit.
Fatalf(l) ==
    /\ ~exited /\ l \in published \ panicked
    /\ Line(l)
    /\ exited' = (l \notin panicked')
    /\ UNCHANGED <<published, logLabel, hasPrefix, logPrefix, longestLabel,
                   pc, relabels>>

Init ==
    /\ published = {GLogger}
    /\ logLabel = [l \in Loggers |-> 0]
    /\ hasPrefix = [l \in Loggers |-> FALSE]
    /\ logPrefix = [l \in Loggers |-> 0]
    /\ longestLabel = 0
    /\ pc = [l \in Loggers |-> "idle"]
    /\ relabels = 0
    /\ out = NoLine
    /\ panicked = {}
    /\ exited = FALSE

Next ==
    \E l \in Loggers :
        \/ NewLogger(l) \/ SetLogLabel(l) \/ SetLogLabelWrite(l)
        \/ Debug(l) \/ Success(l) \/ Info(l) \/ Infow(l) \/ Warn(l)
        \/ Error(l) \/ Fatalf(l)

Spec == Init /\ [][Next]_vars

-----------------------------------------------------------------------------
TypeOK ==
    /\ published \subseteq Loggers /\ panicked \subseteq Loggers
    /\ \A l \in Loggers :
         /\ logLabel[l] \in LabelLens \cup {0}
         /\ logPrefix[l] \in {0} \cup {PrefixLen(n) : n \in LabelLens}
         /\ pc[l] \in {"idle", "write"}
    /\ longestLabel \in {0} \cup {PrefixLen(n) : n \in LabelLens}
    /\ relabels \in 0..MaxRelabels

\* Logging never panics: SetLogLabel keeps longestLabel at least the
\* length of every prefix it has set ("if len(l.logPrefix) > longestLabel"),
\* so the padding strings.Repeat gets in Debug ... Fatalf is never negative.
LoggingNeverPanics ==
    panicked = {}
=============================================================================
