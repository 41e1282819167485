\* Violation run: VerifiedCredentialsProven, against what the code does.
CONSTANTS
    c1 = c1  c2 = c2  b1 = b1  b2 = b2
    s1 = s1  s2 = s2  s3 = s3  s4 = s4
    ch1 = ch1  ch2 = ch2  ch3 = ch3  ch4 = ch4
    Clients <- MCClients
    Attackers <- MCAttackers
    BogusOf <- MCBogusOf
    SessionIds <- MCSessionIds
    ChallengeIds <- MCChallengeIds
    NodeAddr = NodeAddr
    OldSecret = OldSecret
    Zero = Zero
    Forged = Forged
    NoCookie = NoCookie
    NoChallenge = NoChallenge
    NoAddress = NoAddress
    NoSession = NoSession
    NoSig = NoSig
    Malformed = Malformed
    MaxRequests = 3
    MaxRestarts = 1
SPECIFICATION Spec
\* The server stops when its clients stop sending.
CHECK_DEADLOCK FALSE
INVARIANT
    VerifiedCredentialsProven
