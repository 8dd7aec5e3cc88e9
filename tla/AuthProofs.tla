----------------------------- MODULE AuthProofs -----------------------------
(* Proofs about the auth service, for any number of requests, users, tokens   *)
(* and identifiers: one-time codes, then accounts and revocations.            *)
EXTENDS Verification, Accounts, TLAPS

-----------------------------------------------------------------------------
(* One-time codes *)

OtpPcs == {"idle", "resend", "challenge", "deliver", "undeliver", "exhaust", "ttl", "count",
           "accept", "login", "token", "complete", "consume"}
ChallengeRecords ==
    [state: {"none", "valid", "expired"}, name: Identifiers \cup {NoIdentifier}, purpose: Purposes, attempts: Nat]
TokenRecords ==
    [state: {"none", "valid", "gone"}, name: Identifiers \cup {NoIdentifier}, purpose: Purposes]
RequestRecords ==
    [pc: OtpPcs, name: Identifiers \cup {NoIdentifier}, purpose: Purposes, ch: Challenges \cup {NoChallenge},
     seen: Nat, tok: VerifyTokens \cup {NoVerifyToken}]

OtpTypes ==
    /\ challenge \in [Challenges -> ChallengeRecords]
    /\ vtoken \in [VerifyTokens -> TokenRecords]
    /\ request \in [Requests -> RequestRecords]
    /\ guesses \in [Challenges -> [wrong: Nat, right: Nat]]

\* Every request that may still grant something goes back to a right code, and so does
\* every verification token that is valid.
CodesGiven ==
    /\ \A r \in Requests :
        request[r].pc \in {"accept", "login", "token", "complete", "consume"} => Owner(r) \in proved
    /\ \A v \in VerifyTokens : vtoken[v].state = "valid" => <<vtoken[v].name, vtoken[v].purpose>> \in proved

\* An id that was never used has no challenge, no request and no guess.
UnusedIds ==
    \A d \in Challenges : challenge[d].name = NoIdentifier =>
        /\ challenge[d].state = "none"
        /\ guesses[d].wrong = 0 /\ guesses[d].right = 0
        /\ \A r \in Requests : request[r].ch # d

InVerification == {"exhaust", "ttl", "count", "accept"}

\* The guesses of a challenge that no verification disturbed: the count in Redis is the
\* number of wrong codes, or one request has yet to write it; and the right one ends it.
GuessesCounted(d) ==
    /\ guesses[d].wrong <= MaxAttempt /\ guesses[d].right <= 1
    /\ \A r, q \in Requests :
        /\ request[r].ch = d /\ request[r].pc \in InVerification
        /\ request[q].ch = d /\ request[q].pc \in InVerification
        => r = q
    /\ \/ \E r \in Requests : request[r].ch = d /\ request[r].pc \in {"exhaust", "ttl", "count"}
       \/ challenge[d].state # "none" => guesses[d].wrong = challenge[d].attempts /\ guesses[d].right = 0
    /\ \A r \in Requests : request[r].ch = d =>
        /\ request[r].pc \in {"ttl", "count"} => request[r].seen + 1 = guesses[d].wrong
        /\ request[r].pc \in InVerification => guesses[d].right = 0

\* A request that has a challenge or a token to act on knows which.
IdsKnown ==
    \A r \in Requests :
        /\ request[r].pc \in InVerification \cup {"deliver", "undeliver"} => request[r].ch \in Challenges
        /\ request[r].pc \in {"complete", "consume"} => request[r].tok \in VerifyTokens
        /\ request[r].pc # "idle" => request[r].name \in Identifiers

OtpInv ==
    /\ OtpTypes /\ IdsKnown /\ CodesGiven /\ OnlyByCode
    /\ UnusedIds /\ \A d \in Challenges \ disturbed : GuessesCounted(d)

\* A request that begins has the locals of the operation that begins it.
LEMMA NoRequestFacts ==
    NoRequest \in RequestRecords /\ NoRequest.pc = "idle" /\ NoRequest.ch = NoChallenge
BY DEF NoRequest, RequestRecords, OtpPcs, Purposes

\* A request that has ended.
LEMMA AnswerFacts ==
    ASSUME OtpTypes, NEW r \in Requests, Answer(r)
    PROVE  /\ request' \in [Requests -> RequestRecords]
           /\ request'[r].pc = "idle" /\ request'[r].ch = NoChallenge
           /\ \A q \in Requests : q # r => request'[q] = request[q]
BY NoRequestFacts DEF Answer, OtpTypes

\* A request that goes on.
LEMMA StepFacts ==
    ASSUME OtpTypes, NEW r \in Requests, NEW pc \in OtpPcs, Step(r, pc)
    PROVE  /\ request' \in [Requests -> RequestRecords]
           /\ request'[r].pc = pc /\ request'[r].ch = request[r].ch /\ request'[r].seen = request[r].seen
           /\ request'[r].tok = request[r].tok /\ request'[r].name = request[r].name
           /\ request'[r].purpose = request[r].purpose
           /\ \A q \in Requests : q # r => request'[q] = request[q]
BY DEF Step, OtpTypes, RequestRecords

\* A request that has written its challenge.
LEMMA DeliverFacts ==
    ASSUME OtpTypes, NEW r \in Requests, NEW d \in Challenges,
           request' = [request EXCEPT ![r].pc = "deliver", ![r].ch = d]
    PROVE  /\ request' \in [Requests -> RequestRecords]
           /\ request'[r].pc = "deliver" /\ request'[r].ch = d /\ request'[r].name = request[r].name
           /\ \A q \in Requests : q # r => request'[q] = request[q]
<1> DEFINE x == [request[r] EXCEPT !.pc = "deliver", !.ch = d]
<1>1. request' = [request EXCEPT ![r] = x]
  BY Zenon DEF OtpTypes
<1>2. request[r] \in RequestRecords
  BY DEF OtpTypes
<1>3. x \in RequestRecords /\ x.pc = "deliver" /\ x.ch = d /\ x.name = request[r].name
  BY <1>2 DEF RequestRecords, OtpPcs
<1> HIDE DEF x
<1> QED BY <1>1, <1>3 DEF OtpTypes

\* What the first step of a verification does: it compares a code, and counts the guess,
\* only if the challenge is valid and has attempts left.
LEMMA VerifyEffect ==
    ASSUME OtpTypes, NEW r \in Requests, VerifyChallenge(r)
    PROVE  \E d \in Challenges, n \in Identifiers, p \in Purposes, pc \in OtpPcs :
            /\ request' = [request EXCEPT ![r] = [NoRequest EXCEPT !.pc = pc, !.name = n, !.purpose = p,
                                                                   !.ch = d, !.seen = challenge[d].attempts]]
            /\ challenge[d].name = n /\ challenge[d].state # "none"
            /\ pc \in InVerification /\ proved \subseteq proved'
            /\ pc = "accept" => <<n, p>> \in proved'
            /\ \/ guesses' = guesses /\ pc \in {"exhaust", "accept"}
               \/ /\ challenge[d].attempts < MaxAttempt /\ pc \in {"ttl", "exhaust"}
                  /\ guesses' = [guesses EXCEPT ![d].wrong = IF @ <= MaxAttempt THEN @ + 1 ELSE @]
            /\ disturbed' = IF Verifying(d) = {} THEN disturbed ELSE disturbed \cup {d}
<1>1. PICK d \in Challenges, n \in Identifiers, p \in Purposes, right \in BOOLEAN :
        /\ Waiting(r, "idle")
        /\ ChallengeFits(d, n, p)
        /\ LET seen == challenge[d].attempts
               next == IF challenge[d].state = "expired" \/ seen >= MaxAttempt THEN "exhaust"
                       ELSE IF right THEN "accept"
                       ELSE IF seen + 1 >= MaxAttempt THEN "exhaust" ELSE "ttl"
               compared == challenge[d].state = "valid" /\ seen < MaxAttempt
           IN  /\ request' = [request EXCEPT ![r] = [NoRequest EXCEPT !.pc = next, !.name = n,
                                  !.purpose = p, !.ch = d, !.seen = seen]]
               /\ guesses' = IF compared /\ ~right THEN [guesses EXCEPT ![d].wrong = IF @ <= MaxAttempt THEN @ + 1 ELSE @]
                             ELSE guesses
               /\ proved' = IF compared /\ right
                            THEN proved \cup {<<challenge[d].name, challenge[d].purpose>>} ELSE proved
               /\ disturbed' = IF Verifying(d) = {} THEN disturbed ELSE disturbed \cup {d}
        /\ UNCHANGED <<challenge, resend, vtoken, registered, granted>>
  BY ONLY VerifyChallenge(r), Zenon DEF VerifyChallenge
<1> DEFINE seen == challenge[d].attempts
           pc == IF challenge[d].state = "expired" \/ seen >= MaxAttempt THEN "exhaust"
                 ELSE IF right THEN "accept"
                 ELSE IF seen + 1 >= MaxAttempt THEN "exhaust" ELSE "ttl"
<1>2. /\ challenge[d].name = n /\ challenge[d].purpose = p /\ challenge[d].state \in {"valid", "expired"}
      /\ seen \in Nat /\ MaxAttempt \in Nat
  BY <1>1, VerificationAssumption DEF ChallengeFits, OtpTypes, ChallengeRecords
<1>3. /\ pc \in InVerification /\ pc \in OtpPcs /\ proved \subseteq proved'
      /\ pc = "accept" => <<n, p>> \in proved'
      /\ \/ guesses' = guesses /\ pc \in {"exhaust", "accept"}
         \/ /\ seen < MaxAttempt /\ pc \in {"ttl", "exhaust"}
            /\ guesses' = [guesses EXCEPT ![d].wrong = IF @ <= MaxAttempt THEN @ + 1 ELSE @]
  BY <1>1, <1>2 DEF InVerification, OtpPcs
<1>4. /\ request' = [request EXCEPT ![r] = [NoRequest EXCEPT !.pc = pc, !.name = n, !.purpose = p,
                                                             !.ch = d, !.seen = seen]]
      /\ disturbed' = IF Verifying(d) = {} THEN disturbed ELSE disturbed \cup {d}
  BY <1>1, Zenon
<1> HIDE DEF pc
<1> QED BY <1>2, <1>3, <1>4

\* The count that is written back, and the challenge it may bring back to life.
LEMMA CountFacts ==
    ASSUME OtpTypes, IdsKnown, NEW r \in Requests, CountAttempt(r)
    PROVE  /\ challenge' \in [Challenges -> ChallengeRecords]
           /\ challenge'[request[r].ch].attempts = request[r].seen + 1
           /\ challenge'[request[r].ch].name = challenge[request[r].ch].name
           /\ \A d \in Challenges : d # request[r].ch => challenge'[d] = challenge[d]
<1> DEFINE d == request[r].ch
           x == [challenge[d] EXCEPT !.attempts = request[r].seen + 1, !.state = IF @ = "none" THEN "valid" ELSE @]
<1>1. challenge' = [challenge EXCEPT ![d] = x]
  BY Zenon DEF CountAttempt, OtpTypes
<1>2. challenge[d] \in ChallengeRecords /\ request[r].seen + 1 \in Nat /\ d \in Challenges
  BY DEF OtpTypes, IdsKnown, CountAttempt, Waiting, InVerification, RequestRecords
<1>3. x \in ChallengeRecords /\ x.attempts = request[r].seen + 1 /\ x.name = challenge[d].name
  BY <1>2 DEF ChallengeRecords
<1> HIDE DEF x
<1> QED BY <1>1, <1>2, <1>3 DEF OtpTypes

\* Every step keeps the types and what the requests know, and grants only what a code was
\* given for.
LEMMA CodesStep ==
    ASSUME OtpTypes, IdsKnown, CodesGiven, OnlyByCode, [VerificationNext]_otpVars
    PROVE  OtpTypes' /\ IdsKnown' /\ CodesGiven' /\ OnlyByCode'
<1> USE DEF Waiting
<1> DEFINE Goal == OtpTypes' /\ IdsKnown' /\ CodesGiven' /\ OnlyByCode'
           Same(r) == \A q \in Requests : q # r => request'[q] = request[q]
           Knows(r) ==
                /\ request'[r].pc \in InVerification \cup {"deliver", "undeliver"} => request'[r].ch \in Challenges
                /\ request'[r].pc \in {"complete", "consume"} => request'[r].tok \in VerifyTokens
                /\ request'[r].pc # "idle" => request'[r].name \in Identifiers
                /\ request'[r].pc \in {"accept", "login", "token", "complete", "consume"}
                     => <<request'[r].name, request'[r].purpose>> \in proved'
<1>1. ASSUME NEW r \in Requests, request' \in [Requests -> RequestRecords], Same(r), Knows(r),
             challenge' \in [Challenges -> ChallengeRecords], guesses' \in [Challenges -> [wrong: Nat, right: Nat]],
             vtoken' \in [VerifyTokens -> TokenRecords],
             \A v \in VerifyTokens : vtoken'[v].state = "valid" => <<vtoken'[v].name, vtoken'[v].purpose>> \in proved',
             proved \subseteq proved', granted' \subseteq proved'
      PROVE  Goal
  BY <1>1 DEF OtpTypes, IdsKnown, CodesGiven, OnlyByCode, Owner
<1>2. ASSUME NEW r \in Requests, request' \in [Requests -> RequestRecords], Same(r), Knows(r),
             challenge' \in [Challenges -> ChallengeRecords], guesses' \in [Challenges -> [wrong: Nat, right: Nat]],
             UNCHANGED vtoken, proved \subseteq proved', granted' \subseteq proved'
      PROVE  Goal
  <2>1. /\ vtoken' \in [VerifyTokens -> TokenRecords]
        /\ \A v \in VerifyTokens : vtoken'[v].state = "valid" => <<vtoken'[v].name, vtoken'[v].purpose>> \in proved'
    BY <1>2 DEF OtpTypes, CodesGiven
  <2> HIDE DEF Same, Knows, Goal
  <2> QED BY <1>1, <1>2, <2>1
<1>3. ASSUME NEW r \in Requests, Answer(r), challenge' \in [Challenges -> ChallengeRecords],
             UNCHANGED <<vtoken, guesses, proved, granted>>
      PROVE  Goal
  <2>1. request' \in [Requests -> RequestRecords] /\ Same(r) /\ Knows(r)
    BY <1>3, AnswerFacts DEF InVerification
  <2>2. granted \subseteq proved /\ guesses \in [Challenges -> [wrong: Nat, right: Nat]]
    BY DEF OnlyByCode, OtpTypes
  <2> HIDE DEF Same, Knows, Goal
  <2> QED BY <1>2, <1>3, <2>1, <2>2
<1>4. ASSUME NEW r \in Requests, NEW pc \in OtpPcs, Step(r, pc), challenge' \in [Challenges -> ChallengeRecords],
             guesses' \in [Challenges -> [wrong: Nat, right: Nat]],
             UNCHANGED <<vtoken, proved>>, granted' \subseteq proved,
             pc # "idle" => request[r].name \in Identifiers,
             pc \in InVerification \cup {"deliver", "undeliver"} => request[r].ch \in Challenges,
             pc \in {"complete", "consume"} => request[r].tok \in VerifyTokens,
             pc \in {"accept", "login", "token", "complete", "consume"} => Owner(r) \in proved
      PROVE  Goal
  <2>1. request' \in [Requests -> RequestRecords] /\ Same(r) /\ Knows(r)
    BY <1>4, StepFacts DEF Owner
  <2> HIDE DEF Same, Knows, Goal
  <2> QED BY <1>2, <1>4, <2>1
<1>5. /\ challenge \in [Challenges -> ChallengeRecords] /\ guesses \in [Challenges -> [wrong: Nat, right: Nat]]
      /\ granted \subseteq proved
  BY DEF OtpTypes, OnlyByCode
<1> HIDE DEF Goal, Same, Knows
<1>6. ASSUME NEW r \in Requests, handleVerificationSend(r) PROVE Goal
  <2>1. PICK n \in Identifiers, p \in Purposes :
            request' = [request EXCEPT ![r] = [NoRequest EXCEPT !.pc = "resend", !.name = n, !.purpose = p]]
    BY <1>6, Zenon DEF handleVerificationSend
  <2>2. request' \in [Requests -> RequestRecords] /\ Same(r) /\ Knows(r)
    <3> DEFINE x == [NoRequest EXCEPT !.pc = "resend", !.name = n, !.purpose = p]
    <3>1. x \in RequestRecords /\ x.pc = "resend" /\ x.name = n /\ request' = [request EXCEPT ![r] = x]
      BY <2>1, NoRequestFacts DEF RequestRecords, OtpPcs
    <3> HIDE DEF x
    <3> QED BY <3>1 DEF Same, Knows, InVerification, OtpTypes
  <2> QED BY <1>2, <1>5, <1>6, <2>2 DEF handleVerificationSend, otpHistory
<1>7. ASSUME NEW r \in Requests, TakeResendWindow(r) PROVE Goal
  <2>1. "challenge" \in OtpPcs /\ request[r].name \in Identifiers
    BY <1>7 DEF OtpPcs, TakeResendWindow, IdsKnown
  <2> QED BY <1>3, <1>4, <1>5, <1>7, <2>1 DEF TakeResendWindow, otpHistory, InVerification
<1>8. ASSUME NEW r \in Requests, CreateChallenge(r) PROVE Goal
  <2>1. CASE Answer(r) /\ UNCHANGED challenge
    BY <1>3, <1>5, <1>8, <2>1 DEF CreateChallenge, otpHistory
  <2>2. ASSUME NEW d \in Challenges,
               challenge' = [challenge EXCEPT ![d] = [state |-> "valid", name |-> request[r].name,
                                 purpose |-> request[r].purpose, attempts |-> 0]],
               request' = [request EXCEPT ![r].pc = "deliver", ![r].ch = d]
        PROVE  Goal
    <3>1. request[r].name \in Identifiers /\ request[r].purpose \in Purposes
      BY <1>8 DEF IdsKnown, CreateChallenge, OtpTypes, RequestRecords
    <3>2. request' \in [Requests -> RequestRecords] /\ Same(r) /\ Knows(r)
      BY <2>2, <3>1, DeliverFacts DEF Same, Knows, InVerification
    <3>3. challenge' \in [Challenges -> ChallengeRecords]
      BY <1>5, <2>2, <3>1 DEF ChallengeRecords
    <3> QED BY <1>2, <1>5, <1>8, <3>2, <3>3 DEF CreateChallenge, otpHistory
  <2> QED BY <1>8, <2>1, <2>2 DEF CreateChallenge
<1>9. ASSUME NEW r \in Requests, DeliverCode(r) PROVE Goal
  <2>1. "undeliver" \in OtpPcs /\ request[r].name \in Identifiers /\ request[r].ch \in Challenges
    BY <1>9 DEF OtpPcs, DeliverCode, IdsKnown
  <2> QED BY <1>3, <1>4, <1>5, <1>9, <2>1 DEF DeliverCode, otpHistory
<1>10. ASSUME NEW r \in Requests, DeleteChallenge(r) \/ ExhaustChallenge(r) PROVE Goal
  <2>1. challenge' \in [Challenges -> ChallengeRecords]
    BY <1>5, <1>10 DEF DeleteChallenge, ExhaustChallenge, ChallengeRecords
  <2> QED BY <1>3, <1>10, <2>1 DEF DeleteChallenge, ExhaustChallenge, otpHistory
<1>11. ASSUME NEW r \in Requests, VerifyChallenge(r) PROVE Goal
  <2>1. PICK d \in Challenges, n \in Identifiers, p \in Purposes, pc \in OtpPcs :
          /\ request' = [request EXCEPT ![r] = [NoRequest EXCEPT !.pc = pc, !.name = n, !.purpose = p,
                                                                 !.ch = d, !.seen = challenge[d].attempts]]
          /\ challenge[d].name = n /\ challenge[d].state # "none"
          /\ pc \in InVerification /\ proved \subseteq proved'
          /\ pc = "accept" => <<n, p>> \in proved'
          /\ \/ guesses' = guesses /\ pc \in {"exhaust", "accept"}
             \/ /\ challenge[d].attempts < MaxAttempt /\ pc \in {"ttl", "exhaust"}
                /\ guesses' = [guesses EXCEPT ![d].wrong = IF @ <= MaxAttempt THEN @ + 1 ELSE @]
          /\ disturbed' = IF Verifying(d) = {} THEN disturbed ELSE disturbed \cup {d}
    BY <1>11, VerifyEffect, Zenon
  <2>2. challenge[d].attempts \in Nat
    BY <1>5 DEF ChallengeRecords
  <2>3. request' \in [Requests -> RequestRecords] /\ Same(r) /\ Knows(r)
    <3> DEFINE x == [NoRequest EXCEPT !.pc = pc, !.name = n, !.purpose = p, !.ch = d, !.seen = challenge[d].attempts]
    <3>1. request' = [request EXCEPT ![r] = x]
      BY <2>1, Zenon
    <3>2. x \in RequestRecords /\ x.pc = pc /\ x.name = n /\ x.purpose = p /\ x.ch = d
      BY <2>2, NoRequestFacts DEF RequestRecords
    <3> HIDE DEF x
    <3> QED BY <2>1, <3>1, <3>2 DEF Same, Knows, InVerification, OtpTypes
  <2>4. guesses' \in [Challenges -> [wrong: Nat, right: Nat]]
    BY <1>5, <2>1
  <2>5. UNCHANGED <<challenge, vtoken, granted>>
    BY <1>11 DEF VerifyChallenge
  <2> QED BY <1>2, <1>5, <2>1, <2>3, <2>4, <2>5
<1>12. ASSUME NEW r \in Requests, ChallengeTTL(r) PROVE Goal
  <2>1. "count" \in OtpPcs /\ request[r].name \in Identifiers /\ request[r].ch \in Challenges
    BY <1>12 DEF OtpPcs, ChallengeTTL, IdsKnown, InVerification
  <2> QED BY <1>3, <1>4, <1>5, <1>12, <2>1 DEF ChallengeTTL, otpHistory
<1>13. ASSUME NEW r \in Requests, CountAttempt(r) PROVE Goal
  BY <1>3, <1>13, CountFacts DEF CountAttempt, otpHistory
<1>14. ASSUME NEW r \in Requests, AcceptCode(r) PROVE Goal
  <2>1. challenge' \in [Challenges -> ChallengeRecords]
    BY <1>5, <1>14 DEF AcceptCode, ChallengeRecords
  <2>2. guesses' \in [Challenges -> [wrong: Nat, right: Nat]]
    <3>1. request[r].ch \in Challenges
      BY <1>14 DEF AcceptCode, IdsKnown, InVerification
    <3> QED BY <1>5, <1>14, <3>1 DEF AcceptCode
  <2>3. {"login", "token"} \subseteq OtpPcs /\ request[r].name \in Identifiers /\ Owner(r) \in proved
    BY <1>14 DEF OtpPcs, AcceptCode, IdsKnown, CodesGiven
  <2> QED BY <1>4, <1>5, <1>14, <2>1, <2>2, <2>3 DEF AcceptCode, InVerification
<1>15. ASSUME NEW r \in Requests, handleVerificationVerify(r) PROVE Goal
  <2>1. granted' \subseteq proved'
    BY <1>5, <1>15 DEF handleVerificationVerify, CodesGiven
  <2>2. request' \in [Requests -> RequestRecords] /\ Same(r) /\ Knows(r)
    BY <1>15, AnswerFacts DEF Same, Knows, InVerification, handleVerificationVerify
  <2> QED BY <1>2, <1>5, <1>15, <2>1, <2>2 DEF handleVerificationVerify
<1>16. ASSUME NEW r \in Requests, CreateVerificationToken(r) PROVE Goal
  <2>1. vtoken' \in [VerifyTokens -> TokenRecords]
    BY <1>16 DEF CreateVerificationToken, OtpTypes, TokenRecords, RequestRecords
  <2>2. \A v \in VerifyTokens : vtoken'[v].state = "valid" => <<vtoken'[v].name, vtoken'[v].purpose>> \in proved
    <3>1. Owner(r) \in proved
      BY <1>16 DEF CreateVerificationToken, CodesGiven
    <3> QED BY <1>16, <3>1 DEF CreateVerificationToken, OtpTypes, CodesGiven, Owner
  <2>3. request' \in [Requests -> RequestRecords] /\ Same(r) /\ Knows(r)
    BY <1>16, AnswerFacts DEF Same, Knows, InVerification, CreateVerificationToken
  <2> QED BY <1>1, <1>5, <1>16, <2>1, <2>2, <2>3 DEF CreateVerificationToken, otpHistory
<1>17. ASSUME NEW r \in Requests, NEW p \in {"signup", "password_reset"}, BeginComplete(r, p) PROVE Goal
  <2>1. PICK v \in VerifyTokens, n \in Identifiers :
            /\ ValidateVerificationToken(v, n, p)
            /\ request' = [request EXCEPT ![r] = [NoRequest EXCEPT !.pc = "complete", !.name = n,
                                                      !.purpose = p, !.tok = v]]
    BY <1>17, Zenon DEF BeginComplete
  <2>2. <<n, p>> \in proved /\ p \in Purposes
    BY <2>1 DEF ValidateVerificationToken, CodesGiven, Purposes
  <2>3. UNCHANGED <<proved, challenge, vtoken, guesses, granted>>
    BY <1>17 DEF BeginComplete, otpHistory
  <2>4. request' \in [Requests -> RequestRecords] /\ Same(r) /\ Knows(r)
    <3> DEFINE x == [NoRequest EXCEPT !.pc = "complete", !.name = n, !.purpose = p, !.tok = v]
    <3>1. request' = [request EXCEPT ![r] = x]
      BY <2>1, Zenon
    <3>2. x \in RequestRecords /\ x.pc = "complete" /\ x.name = n /\ x.purpose = p /\ x.tok = v
      BY <2>2, NoRequestFacts DEF RequestRecords, OtpPcs
    <3> HIDE DEF x
    <3> QED BY <2>2, <2>3, <3>1, <3>2 DEF Same, Knows, InVerification, OtpTypes
  <2> QED BY <1>2, <1>5, <2>3, <2>4
<1>18. ASSUME NEW r \in Requests, CompleteRequest(r) PROVE Goal
  <2>1. /\ "consume" \in OtpPcs /\ request[r].name \in Identifiers /\ request[r].tok \in VerifyTokens
        /\ Owner(r) \in proved
    BY <1>18 DEF OtpPcs, CompleteRequest, IdsKnown, CodesGiven
  <2>2. CASE Answer(r) /\ UNCHANGED granted
    BY <1>3, <1>5, <1>18, <2>2 DEF CompleteRequest
  <2>3. CASE Step(r, "consume") /\ granted' = granted \cup {Owner(r)}
    BY <1>4, <1>5, <1>18, <2>1, <2>3 DEF CompleteRequest, InVerification
  <2> QED BY <1>18, <2>2, <2>3 DEF CompleteRequest
<1>19. ASSUME NEW r \in Requests, ConsumeVerificationToken(r) PROVE Goal
  <2>1. /\ vtoken' \in [VerifyTokens -> TokenRecords]
        /\ \A v \in VerifyTokens : vtoken'[v].state = "valid" => vtoken'[v] = vtoken[v]
    BY <1>19 DEF ConsumeVerificationToken, OtpTypes, TokenRecords
  <2>2. request' \in [Requests -> RequestRecords] /\ Same(r) /\ Knows(r)
    BY <1>19, AnswerFacts DEF Same, Knows, InVerification, ConsumeVerificationToken
  <2> QED BY <1>1, <1>5, <1>19, <2>1, <2>2 DEF ConsumeVerificationToken, CodesGiven, otpHistory
<1>20. ASSUME NEW r \in Requests, OtpFail(r) PROVE Goal
  BY <1>3, <1>5, <1>20 DEF OtpFail
<1>21. ASSUME NEW d \in Challenges, ExpireChallenge(d) PROVE Goal
  BY <1>21, SMTT(30) DEF ExpireChallenge, OtpTypes, IdsKnown, CodesGiven, OnlyByCode, Owner, Goal, otpHistory, ChallengeRecords
<1>22. ASSUME NEW v \in VerifyTokens, ExpireVerifyToken(v) PROVE Goal
  BY <1>22 DEF ExpireVerifyToken, OtpTypes, IdsKnown, CodesGiven, OnlyByCode, Owner, Goal, otpHistory, TokenRecords
<1>23. CASE ExpireResend \/ UNCHANGED otpVars
  BY <1>23 DEF ExpireResend, otpVars, OtpTypes, IdsKnown, CodesGiven, OnlyByCode, Owner, Goal, otpHistory
<1> QED
  BY <1>6, <1>7, <1>8, <1>9, <1>10, <1>11, <1>12, <1>13, <1>14, <1>15, <1>16, <1>17, <1>18, <1>19, <1>20, <1>21,
     <1>22, <1>23 DEF VerificationNext, handleSignupToken, handlePasswordResetComplete, Goal

\* Every step keeps count of the guesses of a challenge that nothing disturbed.
LEMMA GuessesStep ==
    ASSUME OtpTypes, OtpTypes', IdsKnown, UnusedIds, \A d \in Challenges \ disturbed : GuessesCounted(d),
           [VerificationNext]_otpVars
    PROVE  UnusedIds' /\ \A d \in Challenges \ disturbed' : GuessesCounted(d)'
<1> USE VerificationAssumption DEF Waiting
<1> DEFINE Goal == UnusedIds' /\ \A d \in Challenges \ disturbed' : GuessesCounted(d)'
           Same(r) == \A q \in Requests : q # r => request'[q] = request[q]
           Aside(r) == /\ request[r].pc \notin InVerification /\ request'[r].pc \notin InVerification
                       /\ request'[r].ch \in {NoChallenge, request[r].ch}
           Fades == \A d \in Challenges :
                        /\ challenge'[d].name = challenge[d].name /\ challenge'[d].attempts = challenge[d].attempts
                        /\ challenge'[d].state # "none" => challenge[d].state # "none"
\* A request that has nothing to do with a verification, and a challenge that at most ends.
<1>1. ASSUME NEW r \in Requests, Same(r), Aside(r), Fades, UNCHANGED <<guesses, disturbed>> PROVE Goal
  <2>1. UnusedIds'
    BY <1>1 DEF UnusedIds
  <2>2. ASSUME NEW d \in Challenges \ disturbed' PROVE GuessesCounted(d)'
    <3>1. GuessesCounted(d)
      BY <1>1
    <3>2. ASSUME NEW q \in Requests, request'[q].pc \in InVerification
          PROVE  request'[q] = request[q]
      BY <1>1, <3>2
    <3>3. ASSUME NEW q \in Requests, request[q].pc \in InVerification
          PROVE  request'[q] = request[q]
      BY <1>1, <3>3
    <3> QED BY <1>1, <3>1, <3>2, <3>3 DEF GuessesCounted, InVerification
  <2> QED BY <2>1, <2>2
<1>2. ASSUME NEW r \in Requests, Same(r), Aside(r), UNCHANGED <<challenge, guesses, disturbed>> PROVE Goal
  BY <1>1, <1>2
<1>3. ASSUME NEW r \in Requests, Answer(r)
      PROVE  Same(r) /\ request'[r].pc = "idle" /\ request'[r].ch = NoChallenge
             /\ (request[r].pc \notin InVerification => Aside(r))
  BY <1>3, AnswerFacts DEF InVerification
<1>4. ASSUME NEW r \in Requests, NEW pc \in OtpPcs, Step(r, pc)
      PROVE  /\ Same(r) /\ request'[r].pc = pc /\ request'[r].ch = request[r].ch /\ request'[r].seen = request[r].seen
             /\ request[r].pc \notin InVerification /\ pc \notin InVerification => Aside(r)
  BY <1>4, StepFacts
<1> HIDE DEF Goal, Same, Aside, Fades
<1>5. ASSUME NEW r \in Requests, handleVerificationSend(r) PROVE Goal
  <2>1. PICK n \in Identifiers, p \in Purposes :
            request' = [request EXCEPT ![r] = [NoRequest EXCEPT !.pc = "resend", !.name = n, !.purpose = p]]
    BY <1>5, Zenon DEF handleVerificationSend
  <2> DEFINE x == [NoRequest EXCEPT !.pc = "resend", !.name = n, !.purpose = p]
  <2>2. x.pc = "resend" /\ x.ch = NoChallenge /\ request' = [request EXCEPT ![r] = x]
    BY <2>1, NoRequestFacts DEF RequestRecords, OtpPcs
  <2> HIDE DEF x
  <2>3. Same(r) /\ Aside(r)
    BY <1>5, <2>2 DEF Same, Aside, InVerification, OtpTypes, handleVerificationSend
  <2> QED BY <1>2, <1>5, <2>3 DEF handleVerificationSend, otpHistory
<1>6. ASSUME NEW r \in Requests, NEW p \in {"signup", "password_reset"}, BeginComplete(r, p) PROVE Goal
  <2>1. PICK v \in VerifyTokens, n \in Identifiers :
            request' = [request EXCEPT ![r] = [NoRequest EXCEPT !.pc = "complete", !.name = n, !.purpose = p, !.tok = v]]
    BY <1>6, Zenon DEF BeginComplete
  <2> DEFINE x == [NoRequest EXCEPT !.pc = "complete", !.name = n, !.purpose = p, !.tok = v]
  <2>2. x.pc = "complete" /\ x.ch = NoChallenge
    BY NoRequestFacts DEF RequestRecords
  <2>3. request' = [request EXCEPT ![r] = x]
    BY <2>1, Zenon
  <2> HIDE DEF x
  <2>4. Same(r) /\ Aside(r)
    BY <1>6, <2>2, <2>3 DEF Same, Aside, InVerification, OtpTypes, BeginComplete
  <2> QED BY <1>2, <1>6, <2>4 DEF BeginComplete, otpHistory
<1>7. ASSUME NEW r \in Requests, TakeResendWindow(r) \/ DeliverCode(r) PROVE Goal
  <2>1. {"challenge", "undeliver"} \subseteq OtpPcs /\ request[r].pc \notin InVerification
    BY <1>7 DEF OtpPcs, InVerification, TakeResendWindow, DeliverCode
  <2>2. Same(r) /\ Aside(r)
    BY <1>3, <1>4, <1>7, <2>1 DEF TakeResendWindow, DeliverCode, InVerification
  <2> QED BY <1>2, <1>7, <2>2 DEF TakeResendWindow, DeliverCode, otpHistory
<1>8. ASSUME NEW r \in Requests, handleVerificationVerify(r) \/ CreateVerificationToken(r) \/ ConsumeVerificationToken(r)
      PROVE  Goal
  <2>1. request[r].pc \notin InVerification /\ Answer(r) /\ UNCHANGED <<challenge, guesses, disturbed>>
    BY <1>8 DEF InVerification, handleVerificationVerify, CreateVerificationToken, ConsumeVerificationToken, otpHistory
  <2> QED BY <1>2, <1>3, <2>1
<1>9. ASSUME NEW r \in Requests, CompleteRequest(r) PROVE Goal
  <2>1. "consume" \in OtpPcs /\ "consume" \notin InVerification /\ request[r].pc \notin InVerification
    BY <1>9 DEF OtpPcs, InVerification, CompleteRequest
  <2>2. Same(r) /\ Aside(r)
    BY <1>3, <1>4, <1>9, <2>1 DEF CompleteRequest
  <2> QED BY <1>2, <1>9, <2>2 DEF CompleteRequest
<1>10. ASSUME NEW r \in Requests, DeleteChallenge(r) PROVE Goal
  <2>1. request[r].pc \notin InVerification /\ Answer(r) /\ UNCHANGED <<guesses, disturbed>>
    BY <1>10 DEF InVerification, DeleteChallenge, otpHistory
  <2>2. Fades
    BY <1>10 DEF DeleteChallenge, Fades, OtpTypes, ChallengeRecords
  <2> QED BY <1>1, <1>3, <2>1, <2>2
\* A step of a verification of d, or one that begins with d, leaves the other challenges alone.
<1>20. ASSUME NEW r \in Requests, NEW d \in Challenges, Same(r),
              request[r].ch = d \/ request[r].pc \notin InVerification, request'[r].ch \in {d, NoChallenge, request[r].ch},
              request'[r].pc \in InVerification => request'[r].ch = d,
              \A e \in Challenges \ {d} : challenge'[e] = challenge[e] /\ guesses'[e] = guesses[e],
              disturbed \subseteq disturbed', challenge'[d].name # NoIdentifier,
              d \notin disturbed' => GuessesCounted(d)'
       PROVE  Goal
  <2>1. UnusedIds'
    BY <1>20 DEF UnusedIds, Same
  <2>2. ASSUME NEW e \in Challenges \ disturbed', e # d PROVE GuessesCounted(e)'
    <3>1. GuessesCounted(e) /\ challenge'[e] = challenge[e] /\ guesses'[e] = guesses[e]
      BY <1>20, <2>2
    <3>2. ASSUME NEW q \in Requests, request'[q].ch = e, request'[q].pc \in InVerification
          PROVE  request'[q] = request[q]
      BY <1>20, <2>2, <3>2 DEF Same
    <3>3. ASSUME NEW q \in Requests, request[q].ch = e, request[q].pc \in InVerification
          PROVE  request'[q] = request[q]
      BY <1>20, <2>2, <3>3 DEF Same
    <3> QED BY ONLY <3>1, <3>2, <3>3 DEF GuessesCounted, InVerification
  <2> QED BY <1>20, <2>1, <2>2 DEF Goal
\* A request that is verifying has a challenge that is not unused.
<1>21. ASSUME NEW r \in Requests, request[r].pc \in InVerification
       PROVE  request[r].ch \in Challenges /\ challenge[request[r].ch].name # NoIdentifier
  BY <1>21 DEF IdsKnown, UnusedIds
\* The only verification of its challenge ends, with the challenge gone.
<1>22. ASSUME NEW r \in Requests, request[r].pc \in InVerification, Answer(r), UNCHANGED <<guesses, disturbed>>,
              challenge' = [challenge EXCEPT ![request[r].ch].state = "none"]
              \/ (UNCHANGED challenge /\ challenge[request[r].ch].state = "none")
       PROVE  Goal
  <2>1. PICK d \in Challenges : d = request[r].ch /\ challenge[d].name # NoIdentifier
    BY <1>21, <1>22
  <2>2. /\ challenge'[d].state = "none" /\ challenge'[d].name # NoIdentifier
        /\ \A e \in Challenges \ {d} : challenge'[e] = challenge[e]
    BY <1>22, <2>1 DEF OtpTypes, ChallengeRecords
  <2>3. Same(r) /\ request'[r].pc = "idle" /\ request'[r].ch = NoChallenge
    BY <1>3, <1>22
  <2>4. ASSUME d \notin disturbed PROVE GuessesCounted(d)'
    <3>1. GuessesCounted(d)
      BY <2>1, <2>4
    <3> QED BY <1>22, <2>1, <2>2, <2>3, <3>1 DEF GuessesCounted, InVerification, Same
  <2> QED BY <1>20, <1>22, <2>1, <2>2, <2>3, <2>4 DEF InVerification
<1>11. ASSUME NEW r \in Requests, CreateChallenge(r) PROVE Goal
  <2>1. CASE Answer(r) /\ UNCHANGED challenge
    BY <1>2, <1>3, <1>11, <2>1 DEF CreateChallenge, otpHistory, InVerification
  <2>2. ASSUME NEW d \in Challenges, challenge[d].name = NoIdentifier,
               challenge' = [challenge EXCEPT ![d] = [state |-> "valid", name |-> request[r].name,
                                 purpose |-> request[r].purpose, attempts |-> 0]],
               request' = [request EXCEPT ![r].pc = "deliver", ![r].ch = d]
        PROVE  Goal
    <3>1. /\ challenge'[d].name # NoIdentifier /\ challenge'[d].attempts = 0
          /\ \A e \in Challenges \ {d} : challenge'[e] = challenge[e]
      BY <1>11, <2>2 DEF IdsKnown, CreateChallenge, OtpTypes
    <3>2. Same(r) /\ request'[r].pc = "deliver" /\ request'[r].ch = d
      BY <2>2, DeliverFacts DEF Same
    <3>3. UNCHANGED <<guesses, disturbed>> /\ request[r].pc \notin InVerification
      BY <1>11 DEF CreateChallenge, otpHistory, InVerification
    <3>4. guesses[d].wrong = 0 /\ guesses[d].right = 0 /\ \A q \in Requests : request[q].ch # d
      BY <2>2 DEF UnusedIds
    <3>5. GuessesCounted(d)'
      BY <3>1, <3>2, <3>3, <3>4 DEF GuessesCounted, InVerification, Same
    <3> QED BY <1>20, <3>1, <3>2, <3>3, <3>5 DEF InVerification
  <2> QED BY <1>11, <2>1, <2>2 DEF CreateChallenge
<1>12. ASSUME NEW r \in Requests, VerifyChallenge(r) PROVE Goal
  <2>1. PICK d \in Challenges, n \in Identifiers, p \in Purposes, pc \in OtpPcs :
          /\ request' = [request EXCEPT ![r] = [NoRequest EXCEPT !.pc = pc, !.name = n, !.purpose = p,
                                                                 !.ch = d, !.seen = challenge[d].attempts]]
          /\ challenge[d].name = n /\ challenge[d].state # "none"
          /\ pc \in InVerification /\ proved \subseteq proved'
          /\ pc = "accept" => <<n, p>> \in proved'
          /\ \/ guesses' = guesses /\ pc \in {"exhaust", "accept"}
             \/ /\ challenge[d].attempts < MaxAttempt /\ pc \in {"ttl", "exhaust"}
                /\ guesses' = [guesses EXCEPT ![d].wrong = IF @ <= MaxAttempt THEN @ + 1 ELSE @]
          /\ disturbed' = IF Verifying(d) = {} THEN disturbed ELSE disturbed \cup {d}
    BY <1>12, VerifyEffect, Zenon
  <2>2. UNCHANGED challenge /\ challenge[d].attempts \in Nat /\ request[r].pc \notin InVerification
    BY <1>12 DEF VerifyChallenge, OtpTypes, ChallengeRecords, InVerification
  <2>3. Same(r) /\ request'[r].pc = pc /\ request'[r].ch = d /\ request'[r].seen = challenge[d].attempts
    <3> DEFINE x == [NoRequest EXCEPT !.pc = pc, !.name = n, !.purpose = p, !.ch = d, !.seen = challenge[d].attempts]
    <3>1. request' = [request EXCEPT ![r] = x]
      BY <2>1, Zenon
    <3>2. x.pc = pc /\ x.ch = d /\ x.seen = challenge[d].attempts
      BY NoRequestFacts DEF RequestRecords
    <3> HIDE DEF x
    <3> QED BY <3>1, <3>2 DEF Same, OtpTypes
  <2>4. /\ guesses[d].wrong \in Nat /\ guesses'[d].right = guesses[d].right
        /\ \A e \in Challenges \ {d} : guesses'[e] = guesses[e]
        /\ \/ guesses'[d].wrong = guesses[d].wrong /\ pc \in {"exhaust", "accept"}
           \/ /\ challenge[d].attempts < MaxAttempt /\ pc \in {"ttl", "exhaust"}
              /\ guesses'[d].wrong = IF guesses[d].wrong <= MaxAttempt THEN guesses[d].wrong + 1 ELSE guesses[d].wrong
    BY <2>1 DEF OtpTypes
  <2>5. ASSUME d \notin disturbed' PROVE GuessesCounted(d)'
    <3>1. d \notin disturbed /\ \A q \in Requests : ~(request[q].ch = d /\ request[q].pc \in InVerification)
      BY <2>1, <2>5 DEF Verifying, InVerification
    <3>2. guesses[d].wrong <= MaxAttempt /\ guesses[d].wrong = challenge[d].attempts /\ guesses[d].right = 0
      BY <2>1, <3>1 DEF GuessesCounted, InVerification
    <3>3. \A q \in Requests : request'[q].ch = d /\ request'[q].pc \in InVerification => q = r
      BY <2>3, <3>1 DEF Same
    <3>4. guesses'[d].wrong <= MaxAttempt /\ (pc = "ttl" => challenge[d].attempts + 1 = guesses'[d].wrong)
      BY <2>2, <2>4, <3>2
    <3> QED BY <2>2, <2>3, <2>4, <3>2, <3>3, <3>4 DEF GuessesCounted, InVerification
  <2> QED BY <1>20, <2>1, <2>2, <2>3, <2>4, <2>5
<1>13. ASSUME NEW r \in Requests, ExhaustChallenge(r) PROVE Goal
  BY <1>13, <1>22 DEF ExhaustChallenge, InVerification, otpHistory
<1>14. ASSUME NEW r \in Requests, ChallengeTTL(r) PROVE Goal
  <2> DEFINE d == request[r].ch
  <2>1. UNCHANGED <<challenge, guesses, disturbed>> /\ request[r].pc = "ttl" /\ request[r].pc \in InVerification
    BY <1>14 DEF ChallengeTTL, otpHistory, InVerification
  <2>2. CASE challenge[d].state = "none"
    BY <1>14, <1>22, <2>1, <2>2 DEF ChallengeTTL
  <2>3. CASE Step(r, "count")
    <3>1. Same(r) /\ request'[r].pc = "count" /\ request'[r].ch = d /\ request'[r].seen = request[r].seen
      BY <1>4, <2>3 DEF OtpPcs
    <3>2. d \in Challenges /\ challenge[d].name # NoIdentifier
      BY <1>21, <2>1
    <3>3. ASSUME d \notin disturbed PROVE GuessesCounted(d)'
      <4>1. GuessesCounted(d)
        BY <3>2, <3>3
      <4> QED BY <2>1, <3>1, <3>2, <4>1 DEF GuessesCounted, InVerification, Same
    <3> QED BY <1>20, <2>1, <3>1, <3>2, <3>3
  <2> QED BY <1>14, <2>2, <2>3 DEF ChallengeTTL
<1>15. ASSUME NEW r \in Requests, CountAttempt(r) PROVE Goal
  <2>1. UNCHANGED <<guesses, disturbed>> /\ Answer(r) /\ request[r].pc = "count" /\ request[r].pc \in InVerification
    BY <1>15 DEF CountAttempt, otpHistory, InVerification
  <2>2. PICK d \in Challenges : d = request[r].ch /\ challenge[d].name # NoIdentifier
    BY <1>21, <2>1
  <2>3. Same(r) /\ request'[r].pc = "idle" /\ request'[r].ch = NoChallenge
    BY <1>3, <2>1
  <2>4. ASSUME d \notin disturbed PROVE GuessesCounted(d)'
    <3>1. GuessesCounted(d)
      BY <2>2, <2>4
    <3>2. challenge'[d].attempts = request[r].seen + 1
      BY <1>15, <2>2, CountFacts
    <3> QED BY <2>1, <2>2, <2>3, <3>1, <3>2 DEF GuessesCounted, InVerification, Same
  <2> QED BY <1>15, <1>20, <2>1, <2>2, <2>3, <2>4, CountFacts DEF InVerification
<1>16. ASSUME NEW r \in Requests, AcceptCode(r) PROVE Goal
  <2> DEFINE pc == IF request[r].purpose = "login" THEN "login" ELSE "token"
  <2>1. UNCHANGED disturbed /\ Step(r, pc) /\ request[r].pc = "accept" /\ request[r].pc \in InVerification
    BY <1>16 DEF AcceptCode, otpHistory, InVerification
  <2>2. PICK d \in Challenges : d = request[r].ch /\ challenge[d].name # NoIdentifier
    BY <1>21, <2>1
  <2>3. Same(r) /\ request'[r].pc \notin InVerification /\ request'[r].ch = d
    BY <1>4, <2>1, <2>2 DEF OtpPcs, InVerification
  <2>4. /\ challenge'[d].state = "none" /\ challenge'[d].name # NoIdentifier
        /\ \A e \in Challenges \ {d} : challenge'[e] = challenge[e]
    BY <1>16, <2>2 DEF AcceptCode, OtpTypes, ChallengeRecords
  <2>5. /\ guesses'[d].wrong = guesses[d].wrong /\ (guesses[d].right = 0 => guesses'[d].right = 1)
        /\ \A e \in Challenges \ {d} : guesses'[e] = guesses[e]
    BY <1>16, <2>2 DEF AcceptCode, OtpTypes
  <2>6. ASSUME d \notin disturbed PROVE GuessesCounted(d)'
    <3>1. GuessesCounted(d)
      BY <2>2, <2>6
    <3>2. \A q \in Requests : ~(request'[q].ch = d /\ request'[q].pc \in InVerification)
      BY <2>1, <2>2, <2>3, <3>1 DEF GuessesCounted, Same
    <3>3. guesses[d].right = 0 /\ guesses[d].wrong <= MaxAttempt
      BY <2>1, <2>2, <3>1 DEF GuessesCounted
    <3> QED BY <2>4, <2>5, <3>2, <3>3 DEF GuessesCounted, InVerification
  <2> QED BY <1>20, <2>1, <2>2, <2>3, <2>4, <2>5, <2>6
<1>17. ASSUME NEW r \in Requests, OtpFail(r) PROVE Goal
  <2>1. UNCHANGED <<challenge, guesses>> /\ Same(r) /\ request'[r].pc = "idle" /\ request'[r].ch = NoChallenge
    BY <1>3, <1>17 DEF OtpFail
  <2>2. CASE request[r].pc \notin InVerification
    BY <1>2, <1>3, <1>17, <2>2 DEF OtpFail, InVerification
  <2>3. CASE request[r].pc \in InVerification
    <3>1. PICK d \in Challenges : d = request[r].ch /\ challenge[d].name # NoIdentifier
      BY <1>21, <2>3
    <3>2. disturbed \subseteq disturbed' /\ (d \notin disturbed' => request[r].pc = "accept" /\ d \notin disturbed)
      BY <1>17, <2>3, <3>1 DEF OtpFail, InVerification
    <3>3. ASSUME d \notin disturbed' PROVE GuessesCounted(d)'
      <4>1. GuessesCounted(d) /\ request[r].pc = "accept"
        BY <3>1, <3>2, <3>3
      <4> QED BY <2>1, <2>3, <3>1, <4>1 DEF GuessesCounted, InVerification, Same
    <3> QED BY <1>20, <2>1, <3>1, <3>2, <3>3 DEF InVerification
  <2> QED BY <2>2, <2>3
<1>18. ASSUME NEW d \in Challenges, ExpireChallenge(d) PROVE Goal
  <2>1. Fades
    BY <1>18 DEF ExpireChallenge, Fades, OtpTypes, ChallengeRecords
  <2>2. UNCHANGED <<request, guesses, disturbed>>
    BY <1>18 DEF ExpireChallenge, otpHistory
  <2> QED BY <2>1, <2>2 DEF Goal, UnusedIds, GuessesCounted, Fades
<1>19. CASE ExpireResend \/ (\E v \in VerifyTokens : ExpireVerifyToken(v)) \/ UNCHANGED otpVars
  BY <1>19 DEF ExpireResend, ExpireVerifyToken, otpVars, otpHistory, Goal, UnusedIds, GuessesCounted
<1> QED
  BY <1>5, <1>6, <1>7, <1>8, <1>9, <1>10, <1>11, <1>12, <1>13, <1>14, <1>15, <1>16, <1>17, <1>18, <1>19
  DEF VerificationNext, handleSignupToken, handlePasswordResetComplete, Goal

\* Before the first request no id is used and nothing is granted.
LEMMA OtpFirst == VerificationInit => OtpInv
<1> SUFFICES ASSUME VerificationInit PROVE OtpInv
  OBVIOUS
<1> USE VerificationAssumption DEF VerificationInit
<1>1. OtpTypes
  <2>1. challenge \in [Challenges -> ChallengeRecords]
    BY DEF NoKey, ChallengeRecords, Purposes
  <2>2. vtoken \in [VerifyTokens -> TokenRecords]
    BY DEF TokenRecords, Purposes
  <2>3. request \in [Requests -> RequestRecords]
    BY NoRequestFacts
  <2> QED BY <2>1, <2>2, <2>3 DEF OtpTypes
<1>2. \A r \in Requests : request[r].pc = "idle" /\ request[r].ch = NoChallenge
  BY NoRequestFacts
<1>3. IdsKnown /\ CodesGiven /\ OnlyByCode
  BY <1>2 DEF IdsKnown, CodesGiven, OnlyByCode, InVerification
<1>4. \A d \in Challenges : challenge[d].state = "none" /\ guesses[d].wrong = 0 /\ guesses[d].right = 0
  BY DEF NoKey
<1>5. UnusedIds /\ \A d \in Challenges : GuessesCounted(d)
  BY <1>2, <1>4 DEF UnusedIds, GuessesCounted, InVerification
<1> QED BY <1>1, <1>3, <1>5 DEF OtpInv

\* The inductive invariant of the one-time codes.
LEMMA OtpInvariant == VerificationSpec => []OtpInv
<1>1. OtpInv /\ [VerificationNext]_otpVars => OtpInv'
  <2> SUFFICES ASSUME OtpInv, [VerificationNext]_otpVars PROVE OtpInv'
    OBVIOUS
  <2>1. OtpTypes' /\ IdsKnown' /\ CodesGiven' /\ OnlyByCode'
    BY CodesStep DEF OtpInv
  <2>2. UnusedIds' /\ \A d \in Challenges \ disturbed' : GuessesCounted(d)'
    BY <2>1, GuessesStep DEF OtpInv
  <2> QED BY <2>1, <2>2 DEF OtpInv
<1> QED BY <1>1, OtpFirst, PTL DEF VerificationSpec

\* No login, sign-up or password reset of an identifier happens unless a right code was
\* given to a challenge sent to it for that purpose (VerifyChallenge, ConsumeVerificationToken
\* and the handlers between them), however many requests interleave or break off.
THEOREM OnlyByCodeCorrect == VerificationSpec => []OnlyByCode
<1>1. OtpInv => OnlyByCode
  BY DEF OtpInv
<1> QED BY <1>1, OtpInvariant, PTL

\* A challenge takes at most MaxAttempt wrong codes and one right one, if its verifications
\* do not overlap and none is broken off before it wrote the count (VerifyChallenge reads and
\* writes the count in commands of their own).
THEOREM GuessesBoundedCorrect == VerificationSpec => []GuessesBounded
<1>1. OtpInv => GuessesBounded
  BY DEF OtpInv, GuessesBounded, GuessesCounted
<1> QED BY <1>1, OtpInvariant, PTL

-----------------------------------------------------------------------------
(* Accounts: revocations and OAuth subjects *)

CallPcs == {"idle", "count", "create", "access", "family", "bySubject", "again", "byEmail", "link", "load",
            "deleteSession", "deleteToken", "save", "identity", "getCutoff", "setCutoff", "families", "endFamilies",
            "deleteUser"}
Ops == {"none", "signup", "login", "codeLogin", "oauth", "refresh", "logout", "email", "password", "reset",
        "disable", "enable", "role", "adminEmail", "delete"}
CallRecords ==
    [op: Ops, pc: CallPcs, user: Users \cup {NoUser}, name: Names \cup {NoName}, alt: Emails \cup {NoName},
     row: Rows, since: Nat, alone: BOOLEAN, fam: Families \cup {NoFamily}, tok: Tokens \cup {NoToken},
     todo: SUBSET Families]
AccessRecords == [user: Users \cup {NoUser}, at: Nat, via: Names \cup {NoName}, revoked: BOOLEAN]
FamilyRecords ==
    [user: Users \cup {NoUser}, born: Nat, live: BOOLEAN, held: {"current", "redeemed"},
     listed: BOOLEAN, dropped: BOOLEAN]

TableTypes ==
    /\ users \in [Users -> Rows] /\ identities \in [Names -> Users \cup {NoUser}]
    /\ token \in [Tokens -> AccessRecords] /\ family \in [Families -> FamilyRecords]
    /\ cutoff \in [Users -> Nat] /\ promised \in [Users -> Nat] /\ now \in Nat \ {0}
CallTypes == call \in [Calls -> CallRecords]

\* The cutoff never falls behind a revocation that returned.
PromisesSet == \A u \in Users : promised[u] <= cutoff[u] /\ promised[u] <= now

\* A token that was issued has a time, and one that was not says nothing of a subject.
TokensDated == \A a \in Tokens : IF token[a].user = NoUser THEN token[a].via \notin Subjects ELSE token[a].at >= 1

\* What a revocation has ended, and what the next one finds: a family that lives is on its
\* user's set unless an earlier revocation dropped it.
FamiliesEnded ==
    /\ \A f \in Families : \A u \in Users : family[f].user = u /\ family[f].born < promised[u] =>
          ~family[f].live \/ family[f].dropped
    /\ \A f \in Families : family[f].live => family[f].listed \/ family[f].dropped

\* The families a revocation has listed are all those there were when it began, but for
\* those it has ended since.
Outstanding(c) ==
    \A f \in Families : family[f].user = call[c].user /\ family[f].born < call[c].since =>
        ~family[f].live \/ family[f].dropped \/ f \in call[c].todo

\* What a request has found out or done by the step it is at.
RevokingFacts(c) ==
    /\ call[c].since <= now
    /\ call[c].since # 0 => call[c].user \in Users /\ promised[call[c].user] <= call[c].since
    /\ call[c].pc \in {"getCutoff", "setCutoff", "families", "endFamilies"} => call[c].since # 0
    /\ call[c].pc = "save" =>
        call[c].user \in Users /\ (call[c].since # 0 \/ call[c].op \in {"email", "adminEmail", "enable", "role"})
    /\ call[c].pc \in {"families", "endFamilies", "deleteUser"} =>
        call[c].user \in Users /\ cutoff[call[c].user] # 0
    /\ call[c].pc \in {"families", "endFamilies"} /\ call[c].alone => call[c].since <= cutoff[call[c].user]
    /\ call[c].pc = "endFamilies" => Outstanding(c)
LoginFacts(c) ==
    /\ call[c].pc = "access" /\ call[c].name \in Subjects =>
        call[c].user \in Users /\ (identities[call[c].name] = call[c].user \/ cutoff[call[c].user] # 0)
    /\ call[c].pc \in {"bySubject", "again", "byEmail", "link", "count", "create"} =>
        call[c].name \in Names /\ call[c].since = 0
    /\ call[c].pc \in {"count", "create"} /\ call[c].op = "signup" => call[c].name \in Emails
    /\ call[c].pc \in {"link", "identity"} => call[c].user \in Users
    /\ call[c].pc \in {"bySubject", "again", "byEmail", "link"} => call[c].op = "oauth"
    /\ call[c].pc = "byEmail" => call[c].alt \in Emails
    /\ call[c].pc = "load" => call[c].name = NoName

\* A revocation that met no other one of its user is the only one.
AloneIsOnly ==
    \A c, d \in Calls :
        call[c].since # 0 /\ call[c].alone /\ call[d].since # 0 /\ call[d].user = call[c].user => c = d

AccountsInv ==
    /\ TableTypes /\ CallTypes
    /\ PromisesSet /\ TokensDated /\ FamiliesEnded /\ AloneIsOnly
    /\ \A c \in Calls : RevokingFacts(c)
    /\ \A c \in Calls : LoginFacts(c)

\* The locals of a request that has not begun.
LEMMA IdleCallFacts ==
    /\ Idle \in CallRecords /\ NoRow \in Rows
    /\ Idle.pc = "idle" /\ Idle.since = 0 /\ Idle.name = NoName /\ Idle.alone = TRUE
<1>1. NoRow \in Rows
  BY DEF NoRow, Rows
<1> QED BY <1>1 DEF Idle, CallRecords, Ops, CallPcs, Names

\* A request that ends.
LEMMA ReturnFacts ==
    ASSUME CallTypes, NEW c \in Calls, Return(c)
    PROVE  /\ CallTypes' /\ call'[c].pc = "idle" /\ call'[c].since = 0
           /\ \A d \in Calls : d # c => call'[d] = call[d]
BY IdleCallFacts DEF CallTypes, Return

\* A request that goes on with its next statement.
LEMMA GotoFacts ==
    ASSUME CallTypes, NEW c \in Calls, NEW pc \in CallPcs, Goto(c, pc)
    PROVE  /\ CallTypes' /\ call'[c].pc = pc
           /\ call'[c].op = call[c].op /\ call'[c].user = call[c].user /\ call'[c].name = call[c].name
           /\ call'[c].alt = call[c].alt /\ call'[c].since = call[c].since /\ call'[c].alone = call[c].alone
           /\ \A d \in Calls : d # c => call'[d] = call[d]
BY DEF CallTypes, Goto, CallRecords

\* A request that goes on for a user it found or created.
GotoFor(c, pc, u) == call' = [call EXCEPT ![c].pc = pc, ![c].user = u]

\* A request that goes on for a user.
LEMMA GotoForFacts ==
    ASSUME CallTypes, NEW c \in Calls, NEW pc \in CallPcs, NEW u \in Users, GotoFor(c, pc, u)
    PROVE  /\ CallTypes' /\ call'[c].pc = pc /\ call'[c].user = u
           /\ call'[c].op = call[c].op /\ call'[c].name = call[c].name
           /\ call'[c].alt = call[c].alt /\ call'[c].since = call[c].since
           /\ \A d \in Calls : d # c => call'[d] = call[d]
<1> DEFINE x == [call[c] EXCEPT !.pc = pc, !.user = u]
<1>1. call' = [call EXCEPT ![c] = x]
  BY Zenon DEF CallTypes, GotoFor
<1>2. call[c] \in CallRecords
  BY DEF CallTypes
<1>3. /\ x \in CallRecords /\ x.pc = pc /\ x.user = u /\ x.op = call[c].op /\ x.name = call[c].name
      /\ x.alt = call[c].alt /\ x.since = call[c].since
  BY <1>2 DEF CallRecords
<1> HIDE DEF x
<1> QED BY <1>1, <1>3 DEF CallTypes

\* A request that begins.
LEMMA BeginFacts ==
    ASSUME CallTypes, NEW c \in Calls, NEW op \in Ops, NEW x \in CallRecords, Begin(c, op, x)
    PROVE  /\ CallTypes' /\ call'[c].pc = x.pc /\ call'[c].op = op
           /\ call'[c].user = x.user /\ call'[c].name = x.name
           /\ call'[c].alt = x.alt /\ call'[c].since = x.since
           /\ \A d \in Calls : d # c => call'[d] = call[d]
           /\ UNCHANGED <<users, identities, token, cutoff, family, now, promised>>
<1> DEFINE y == [x EXCEPT !.op = op]
<1>1. /\ y \in CallRecords /\ y.pc = x.pc /\ y.op = op /\ y.user = x.user /\ y.name = x.name
      /\ y.alt = x.alt /\ y.since = x.since
  BY DEF CallRecords
<1>2. call' = [call EXCEPT ![c] = y]
  BY Zenon DEF Begin
<1> HIDE DEF y
<1> QED BY <1>1, <1>2 DEF CallTypes, Begin, tables, sessions

\* A request that begins to revoke the tokens of u, and what it does to the others.
LEMMA BeginRevokingFacts ==
    ASSUME TableTypes, CallTypes, NEW c \in Calls, NEW op \in Ops, NEW u \in Users, NEW row \in Rows, NEW pc \in CallPcs,
           BeginRevoking(c, op, u, row, NoName, pc)
    PROVE  /\ CallTypes' /\ call'[c].pc = pc /\ call'[c].op = op /\ call'[c].user = u
           /\ call'[c].name = NoName /\ call'[c].since = now
           /\ call'[c].alone => Revoking(u) = {}
           /\ \A d \in Calls \ {c} :
                \/ d \notin Revoking(u) /\ call'[d] = call[d]
                \/ /\ call'[d].pc = call[d].pc /\ call'[d].op = call[d].op /\ call'[d].user = call[d].user
                   /\ call'[d].name = call[d].name /\ call'[d].alt = call[d].alt
                   /\ call'[d].since = call[d].since /\ ~call'[d].alone /\ call'[d].todo = call[d].todo
           /\ UNCHANGED <<users, identities, token, cutoff, family, now, promised>>
<1> DEFINE only == Revoking(u) = {}
           mine == [Idle EXCEPT !.op = op, !.pc = pc, !.user = u, !.row = row, !.alt = NoName,
                                !.since = now, !.alone = only]
           next == [call EXCEPT ![c] = mine]
           x(d) == [call[d] EXCEPT !.alone = FALSE]
<1>1. /\ call' = [d \in Calls |-> IF d # c /\ d \in Revoking(u) THEN [next[d] EXCEPT !.alone = FALSE] ELSE next[d]]
      /\ UNCHANGED <<users, identities, token, cutoff, family, now, promised>>
  BY DEF BeginRevoking, MarkOverlaps, tables, sessions
<1>2. only \in BOOLEAN
  BY Zenon
<1> HIDE DEF only
<1>3. now \in Nat
  BY DEF TableTypes
<1>4. /\ mine \in CallRecords /\ mine.pc = pc /\ mine.op = op /\ mine.user = u /\ mine.name = NoName
      /\ mine.since = now /\ mine.alone = only
  BY <1>2, <1>3, IdleCallFacts DEF CallRecords
<1> HIDE DEF mine
<1>5. \A d \in Calls :
        /\ x(d) \in CallRecords /\ x(d).pc = call[d].pc /\ x(d).op = call[d].op /\ x(d).user = call[d].user
        /\ x(d).name = call[d].name /\ x(d).alt = call[d].alt /\ x(d).since = call[d].since /\ ~x(d).alone
        /\ x(d).todo = call[d].todo
  <2> SUFFICES ASSUME NEW d \in Calls
               PROVE  /\ x(d) \in CallRecords /\ x(d).pc = call[d].pc /\ x(d).op = call[d].op
                      /\ x(d).user = call[d].user /\ x(d).name = call[d].name /\ x(d).alt = call[d].alt
                      /\ x(d).since = call[d].since /\ ~x(d).alone /\ x(d).todo = call[d].todo
    OBVIOUS
  <2> QED BY ZenonT(30) DEF CallTypes, CallRecords
<1>6. /\ DOMAIN call' = Calls /\ call'[c] = mine
      /\ \A d \in Calls \ {c} : call'[d] = IF d \in Revoking(u) THEN x(d) ELSE call[d]
  BY <1>1 DEF CallTypes
<1> HIDE DEF x
<1>7. call' \in [Calls -> CallRecords]
  <2>1. \A d \in Calls : call'[d] \in CallRecords
    BY <1>4, <1>5, <1>6 DEF CallTypes
  <2>2. call' = [d \in Calls |-> call'[d]]
    BY <1>1
  <2> QED BY <2>1, <2>2
<1>8. only => Revoking(u) = {}
  BY DEF only
<1>9. \A d \in Calls \ {c} :
        \/ d \notin Revoking(u) /\ call'[d] = call[d]
        \/ /\ call'[d].pc = call[d].pc /\ call'[d].op = call[d].op /\ call'[d].user = call[d].user
           /\ call'[d].name = call[d].name /\ call'[d].alt = call[d].alt
           /\ call'[d].since = call[d].since /\ ~call'[d].alone /\ call'[d].todo = call[d].todo
  BY <1>5, <1>6
<1> QED BY <1>1, <1>4, <1>6, <1>7, <1>8, <1>9 DEF CallTypes

\* The later of two times.
LEMMA MaxOfTwo ==
    ASSUME NEW a \in Nat, NEW b \in Nat, a <= b
    PROVE  Max({a, b}) = b
<1>1. \E x \in {a, b} : \A y \in {a, b} : x >= y
  OBVIOUS
<1>2. PICK m : m = Max({a, b}) /\ m \in {a, b} /\ \A y \in {a, b} : m >= y
  BY <1>1 DEF Max
<1> QED BY <1>2

\* What the lookups find is a user or nobody, and an id that is taken is a fresh one.
LEMMA LookupFacts ==
    ASSUME TableTypes
    PROVE  /\ \A n \in Names : GetUserByIdentity(n) \in {identities[n], NoUser}
           /\ Fresh(UnusedUsers) \subseteq Users
           /\ Fresh(UnusedTokens) \subseteq {a \in Tokens : token[a].user = NoUser}
           /\ Fresh(UnusedFamilies) \subseteq Families
<1>1. \A n \in Names : GetUserByIdentity(n) \in {identities[n], NoUser}
  BY DEF GetUserByIdentity
<1>2. \A S : Fresh(S) \subseteq S
  BY DEF Fresh
<1> QED BY <1>1, <1>2 DEF UnusedUsers, UnusedTokens, UnusedFamilies

\* A subject keeps its user, or loses it when the user is deleted, whose cutoff is set.
SubjectsStay ==
    \A s \in Subjects : identities[s] # NoUser =>
        \/ identities'[s] = identities[s]
        \/ identities'[s] = NoUser /\ cutoff[identities[s]] # 0

\* Every step keeps the invariant of the accounts.
LEMMA AccountsStep ==
    ASSUME AccountsInv, [AccountsNext]_accountVars
    PROVE  AccountsInv' /\ SubjectsStay
<1> DEFINE Goal == AccountsInv' /\ SubjectsStay
           Others(c) == \A d \in Calls : d # c => call'[d] = call[d]
           Quiet(c) == \/ call'[c].since = 0
                       \/ call'[c].since = call[c].since /\ call'[c].user = call[c].user /\ call'[c].alone = call[c].alone
           Kept == UNCHANGED <<users, identities, token, cutoff, family, now, promised>>
           Later == {"save", "getCutoff", "setCutoff", "families", "endFamilies", "deleteUser"}
           FamilyStep == \A g \in Families :
                \/ family'[g].born = now
                \/ /\ family'[g].user = family[g].user /\ family'[g].born = family[g].born
                   /\ family'[g].live => family[g].live
                   /\ family[g].dropped => family'[g].dropped
<1>1. /\ TableTypes /\ CallTypes /\ PromisesSet /\ TokensDated /\ FamiliesEnded /\ AloneIsOnly
      /\ \A c \in Calls : RevokingFacts(c) /\ LoginFacts(c)
  BY DEF AccountsInv
<1>2. /\ NoUser \notin Users /\ NoName \notin Names /\ Emails \subseteq Names /\ Subjects \subseteq Names
      /\ Emails \cap Subjects = {}
  BY AccountsAssumption DEF Names
\* A step of one request that leaves the cutoffs, the promises and the clock alone.
<1>3. ASSUME NEW c \in Calls, CallTypes', Others(c), Quiet(c), RevokingFacts(c)', LoginFacts(c)',
             UNCHANGED <<cutoff, now, promised>>, TableTypes', TokensDated', FamiliesEnded', SubjectsStay,
             UNCHANGED family \/ FamilyStep
      PROVE  Goal
  <2>1. PromisesSet'
    BY <1>1, <1>3 DEF PromisesSet
  <2>2. AloneIsOnly'
    BY <1>1, <1>3 DEF AloneIsOnly
  <2>3. \A d \in Calls : RevokingFacts(d)'
    <3> SUFFICES ASSUME NEW d \in Calls, d # c PROVE RevokingFacts(d)'
      BY <1>3
    <3>1. call'[d] = call[d] /\ call[d].since <= now /\ now \in Nat /\ call[d].since \in Nat
      BY <1>1, <1>3 DEF RevokingFacts, TableTypes, CallTypes, CallRecords
    <3>2. Outstanding(d) => Outstanding(d)'
      BY <1>3, <3>1 DEF Outstanding
    <3> QED BY <1>1, <1>3, <3>1, <3>2 DEF RevokingFacts
  <2>4. ASSUME NEW d \in Calls PROVE LoginFacts(d)'
    BY <1>1, <1>2, <1>3 DEF LoginFacts, SubjectsStay
  <2> QED BY <1>3, <2>1, <2>2, <2>3, <2>4 DEF AccountsInv
\* A step that changes nothing but the locals of one request.
<1>4. ASSUME NEW c \in Calls, CallTypes', Others(c), Quiet(c), RevokingFacts(c)', LoginFacts(c)', Kept
      PROVE  Goal
  <2>1. TableTypes' /\ TokensDated' /\ FamiliesEnded' /\ SubjectsStay
    BY <1>1, <1>4 DEF TableTypes, TokensDated, FamiliesEnded, SubjectsStay
  <2> HIDE DEF Others, Quiet, Goal, FamilyStep
  <2> QED BY <1>3, <1>4, <2>1
\* A request that has nothing to do with a revocation.
<1>5. ASSUME NEW c \in Calls, call'[c].since = 0, call'[c].pc \notin Later, now' \in Nat
      PROVE  Quiet(c) /\ RevokingFacts(c)'
  BY <1>5 DEF RevokingFacts
<1>6. ASSUME NEW c \in Calls, Return(c)
      PROVE  CallTypes' /\ Others(c) /\ Quiet(c) /\ (UNCHANGED now => RevokingFacts(c)') /\ LoginFacts(c)'
  BY <1>1, <1>6, ReturnFacts DEF RevokingFacts, LoginFacts, TableTypes
\* A request that goes on: what it knows it still knows.
<1>7. ASSUME NEW c \in Calls, NEW pc \in CallPcs \ Later, Goto(c, pc)
      PROVE  CallTypes' /\ Others(c) /\ Quiet(c) /\ (UNCHANGED <<now, promised>> => RevokingFacts(c)')
  BY <1>1, <1>7, GotoFacts DEF RevokingFacts
<1>8. ASSUME NEW c \in Calls, NEW pc \in CallPcs \ Later, NEW u \in Users, GotoFor(c, pc, u),
             call[c].since = 0
      PROVE  CallTypes' /\ Others(c) /\ Quiet(c) /\ (UNCHANGED <<now, promised>> => RevokingFacts(c)')
  BY <1>1, <1>8, GotoForFacts DEF RevokingFacts, TableTypes
\* A request that begins and revokes nothing.
<1>9. ASSUME NEW c \in Calls, NEW op \in Ops, NEW x \in CallRecords, Begin(c, op, x), x.since = 0,
             x.pc \in Later => x.pc = "save" /\ x.user \in Users /\ op \in {"email", "adminEmail", "enable", "role"},
             x.pc \in {"save", "access", "bySubject", "count", "deleteSession"}, x.pc = "access" => x.name \in Emails,
             x.pc = "bySubject" => x.name \in Names /\ op = "oauth", x.pc = "count" => x.name \in Emails
      PROVE  Goal
  <2>1. /\ CallTypes' /\ call'[c].pc = x.pc /\ call'[c].op = op
        /\ call'[c].user = x.user /\ call'[c].name = x.name
        /\ call'[c].alt = x.alt /\ call'[c].since = x.since
        /\ Others(c) /\ Kept
    BY <1>1, <1>9, BeginFacts
  <2>2. RevokingFacts(c)' /\ Quiet(c)
    BY <1>1, <1>9, <2>1 DEF RevokingFacts, TableTypes
  <2>3. LoginFacts(c)'
    BY <1>2, <1>9, <2>1 DEF LoginFacts
  <2> HIDE DEF Goal, Others, Quiet, Kept
  <2> QED BY <1>4, <2>1, <2>2, <2>3
\* A request that begins to revoke.
<1>10. ASSUME NEW c \in Calls, NEW op \in Ops, NEW u \in Users, NEW row \in Rows, NEW pc \in {"save", "getCutoff"},
              BeginRevoking(c, op, u, row, NoName, pc)
       PROVE  Goal
  <2>1. /\ CallTypes' /\ call'[c].pc = pc /\ call'[c].op = op /\ call'[c].user = u
        /\ call'[c].name = NoName /\ call'[c].since = now
        /\ call'[c].alone => Revoking(u) = {}
        /\ \A d \in Calls \ {c} :
             \/ d \notin Revoking(u) /\ call'[d] = call[d]
             \/ /\ call'[d].pc = call[d].pc /\ call'[d].op = call[d].op /\ call'[d].user = call[d].user
                /\ call'[d].name = call[d].name /\ call'[d].alt = call[d].alt
                /\ call'[d].since = call[d].since /\ ~call'[d].alone /\ call'[d].todo = call[d].todo
        /\ Kept
    BY <1>1, <1>10, BeginRevokingFacts DEF CallPcs
  <2>2. TableTypes' /\ TokensDated' /\ FamiliesEnded' /\ SubjectsStay /\ PromisesSet'
    BY <1>1, <2>1 DEF TableTypes, TokensDated, FamiliesEnded, SubjectsStay, PromisesSet
  <2>3. RevokingFacts(c)' /\ LoginFacts(c)'
    BY <1>1, <1>2, <2>1 DEF RevokingFacts, LoginFacts, PromisesSet, TableTypes
  <2>4. ASSUME NEW d \in Calls \ {c} PROVE RevokingFacts(d)' /\ LoginFacts(d)'
    <3>1. Outstanding(d) => Outstanding(d)'
      BY <2>1 DEF Outstanding
    <3> QED BY <1>1, <2>1, <3>1 DEF RevokingFacts, LoginFacts
  <2>5. AloneIsOnly'
    <3> SUFFICES ASSUME NEW b \in Calls, NEW d \in Calls,
                        call'[b].since # 0, call'[b].alone, call'[d].since # 0, call'[d].user = call'[b].user
                 PROVE  b = d
      BY DEF AloneIsOnly
    <3>1. CASE b = c
      BY <2>1, <3>1 DEF Revoking
    <3>2. CASE b # c /\ d = c
      BY <2>1, <3>2 DEF Revoking
    <3>3. CASE b # c /\ d # c
      BY <1>1, <2>1, <3>3 DEF AloneIsOnly
    <3> QED BY <3>1, <3>2, <3>3
  <2> QED BY <2>1, <2>2, <2>3, <2>4, <2>5 DEF AccountsInv
<1> HIDE DEF Goal, Others, Quiet, FamilyStep
\* Steps that end a family, rotate its token or hand it out.
<1>46. ASSUME NEW f, DeleteToken(f) \/ RotateToken(f) \/ family' = [family EXCEPT ![f].held = "current"]
       PROVE  family' \in [Families -> FamilyRecords] /\ FamilyStep /\ (UNCHANGED promised => FamiliesEnded')
  <2>1. family \in [Families -> FamilyRecords]
    BY <1>1 DEF TableTypes
  <2> DEFINE ended == [family[f] EXCEPT !.live = FALSE, !.listed = FALSE]
             rotated == [family[f] EXCEPT !.held = "redeemed", !.listed = TRUE]
             given == [family[f] EXCEPT !.held = "current"]
  <2>2. /\ DeleteToken(f) => family' = [family EXCEPT ![f] = ended]
        /\ RotateToken(f) => family' = [family EXCEPT ![f] = rotated]
        /\ family' = [family EXCEPT ![f].held = "current"] => family' = [family EXCEPT ![f] = given]
    BY <2>1, Zenon DEF DeleteToken, RotateToken
  <2>3. ASSUME f \in Families
        PROVE  /\ {ended, rotated, given} \subseteq FamilyRecords
               /\ \A x \in {ended, rotated, given} :
                    /\ x.user = family[f].user /\ x.born = family[f].born /\ x.dropped = family[f].dropped
                    /\ x.live => family[f].live /\ (family[f].listed => x.listed)
    <3>1. family[f] \in FamilyRecords
      BY <2>1, <2>3
    <3> QED BY <3>1 DEF FamilyRecords
  <2>4. PICK x \in {ended, rotated, given} : family' = [family EXCEPT ![f] = x]
    BY <1>46, <2>2, Zenon
  <2> HIDE DEF ended, rotated, given
  <2>5. /\ family' \in [Families -> FamilyRecords]
        /\ \A g \in Families :
            /\ family'[g].user = family[g].user /\ family'[g].born = family[g].born
            /\ family'[g].dropped = family[g].dropped
            /\ family'[g].live => family[g].live /\ (family[g].listed => family'[g].listed)
    <3>1. CASE f \in Families
      BY <2>1, <2>3, <2>4, <3>1
    <3>2. CASE f \notin Families
      BY <2>1, <2>4, <3>2
    <3> QED BY <3>1, <3>2
  <2> QED BY <1>1, <2>5 DEF FamilyStep, FamiliesEnded
\* --- requests that begin
<1>11. ASSUME NEW c \in Calls, handleSignupComplete(c) PROVE Goal
  <2>1. PICK e \in Emails, p \in Passwords :
            Begin(c, "signup", [Idle EXCEPT !.pc = "count", !.name = e,
                        !.row = [status |-> "active", role |-> "user", pw |-> p, email |-> e]])
    BY <1>11, Zenon DEF handleSignupComplete
  <2> DEFINE row == [status |-> "active", role |-> "user", pw |-> p, email |-> e]
             x == [Idle EXCEPT !.pc = "count", !.name = e, !.row = row]
  <2>2. row \in Rows
    BY DEF Rows
  <2>3. Begin(c, "signup", x)
    BY <2>1
  <2> HIDE DEF row
  <2>4. x \in CallRecords /\ x.since = 0 /\ x.pc = "count" /\ x.name = e
    BY <1>2, <2>2, IdleCallFacts DEF CallRecords, CallPcs
  <2> HIDE DEF x
  <2> QED BY <1>2, <1>9, <2>3, <2>4 DEF Ops
<1>12. ASSUME NEW c \in Calls, handleLogin(c) \/ LoginByCode(c) PROVE Goal
  <2>1. PICK e \in Emails, op \in {"login", "codeLogin"} :
            Begin(c, op, [Idle EXCEPT !.pc = "access", !.name = e, !.user = GetUserByIdentity(e)])
    BY <1>12, Zenon DEF handleLogin, LoginByCode
  <2> DEFINE x == [Idle EXCEPT !.pc = "access", !.name = e, !.user = GetUserByIdentity(e)]
  <2>2. GetUserByIdentity(e) \in Users \cup {NoUser}
    BY <1>1, <1>2, LookupFacts DEF TableTypes
  <2>3. Begin(c, op, x)
    BY <2>1
  <2>4. x \in CallRecords /\ x.since = 0 /\ x.pc = "access" /\ x.name = e
    BY <1>2, <2>2, IdleCallFacts DEF CallRecords, CallPcs
  <2> HIDE DEF x
  <2> QED BY <1>9, <2>3, <2>4 DEF Ops
<1>13. ASSUME NEW c \in Calls, handleOAuthComplete(c) PROVE Goal
  <2>1. PICK s \in Subjects, e \in Emails \cup {NoName} :
            Begin(c, "oauth", [Idle EXCEPT !.pc = "bySubject", !.name = s, !.alt = e])
    BY <1>13, Zenon DEF handleOAuthComplete
  <2> DEFINE x == [Idle EXCEPT !.pc = "bySubject", !.name = s, !.alt = e]
  <2>2. Begin(c, "oauth", x)
    BY <2>1
  <2>3. x \in CallRecords /\ x.since = 0 /\ x.pc = "bySubject" /\ x.name = s
    BY <1>2, IdleCallFacts DEF CallRecords, CallPcs
  <2> HIDE DEF x
  <2> QED BY <1>2, <1>9, <2>2, <2>3 DEF Ops
<1>14. ASSUME NEW c \in Calls, handleLogout(c) PROVE Goal
  <2>1. PICK a \in Tokens, f \in Families : Begin(c, "logout", [Idle EXCEPT !.pc = "deleteSession", !.tok = a, !.fam = f])
    BY <1>14, Zenon DEF handleLogout
  <2> DEFINE x == [Idle EXCEPT !.pc = "deleteSession", !.tok = a, !.fam = f]
  <2>2. Begin(c, "logout", x)
    BY <2>1
  <2>3. x \in CallRecords /\ x.since = 0 /\ x.pc = "deleteSession"
    BY IdleCallFacts DEF CallRecords, CallPcs
  <2> HIDE DEF x
  <2> QED BY <1>9, <2>2, <2>3 DEF Ops
\* The user of a token that is accepted, and the row read for it.
<1>15. ASSUME NEW a \in Tokens, UserFromToken(a) PROVE token[a].user \in Users
  BY <1>1, <1>15 DEF UserFromToken, GetUserIDByToken, TableTypes, AccessRecords
<1>16. ASSUME NEW c \in Calls, handleRefresh(c) PROVE Goal
  <2>1. PICK f \in Families :
            \/ DeleteToken(f) /\ UNCHANGED call
            \/ /\ RotateToken(f)
               /\ call' = [call EXCEPT ![c] = [Idle EXCEPT !.op = "refresh", !.pc = "load",
                                                 !.user = family[f].user, !.fam = f]]
    BY <1>16, Zenon DEF handleRefresh
  <2>2. UNCHANGED <<users, identities, token, cutoff, now, promised>>
    BY <1>16 DEF handleRefresh, tables
  <2>3. TableTypes' /\ TokensDated' /\ FamiliesEnded' /\ SubjectsStay /\ FamilyStep
    BY <1>1, <1>46, <2>1, <2>2 DEF TableTypes, TokensDated, SubjectsStay
  <2>4. CASE UNCHANGED call
    <3>1. call[c].pc = "idle" /\ call' = call
      BY <1>16, <2>4 DEF handleRefresh, At
    <3>2. CallTypes' /\ Others(c) /\ Quiet(c) /\ RevokingFacts(c)' /\ LoginFacts(c)'
      BY <1>1, <2>2, <3>1 DEF CallTypes, Others, Quiet, RevokingFacts, LoginFacts
    <3> QED BY <1>3, <2>2, <2>3, <3>2
  <2>5. CASE call' = [call EXCEPT ![c] = [Idle EXCEPT !.op = "refresh", !.pc = "load", !.user = family[f].user, !.fam = f]]
    <3> DEFINE x == [Idle EXCEPT !.op = "refresh", !.pc = "load", !.user = family[f].user, !.fam = f]
    <3>1. family[f].user \in Users \cup {NoUser}
      BY <1>1 DEF TableTypes, FamilyRecords
    <3>2. x \in CallRecords /\ x.pc = "load" /\ x.since = 0 /\ x.name = NoName
      BY <3>1, IdleCallFacts DEF CallRecords, CallPcs, Ops
    <3>3. call' = [call EXCEPT ![c] = x]
      BY <2>5
    <3> HIDE DEF x
    <3>4. CallTypes' /\ Others(c) /\ call'[c].pc = "load" /\ call'[c].since = 0 /\ call'[c].name = NoName
      BY <1>1, <3>2, <3>3 DEF CallTypes, Others
    <3>5. Quiet(c) /\ RevokingFacts(c)' /\ LoginFacts(c)'
      BY <1>1, <1>5, <2>2, <3>4 DEF TableTypes, LoginFacts
    <3> QED BY <1>3, <2>2, <2>3, <3>4, <3>5
  <2> QED BY <2>1, <2>4, <2>5
<1>17. ASSUME NEW c \in Calls, UpdateMyEmail(c) PROVE Goal
  <2>1. PICK a \in Tokens, e \in Emails :
            /\ Authenticated(a, "user")
            /\ Begin(c, "email", [Idle EXCEPT !.pc = "save", !.user = token[a].user, !.alt = e,
                                              !.row = [users[token[a].user] EXCEPT !.email = e]])
    BY <1>17, Zenon DEF UpdateMyEmail
  <2> DEFINE u == token[a].user
             row == [users[u] EXCEPT !.email = e]
             x == [Idle EXCEPT !.pc = "save", !.user = u, !.alt = e, !.row = row]
  <2>2. u \in Users
    BY <1>15, <2>1 DEF Authenticated
  <2>3. row \in Rows
    BY <1>1, <2>2, SMTT(30) DEF TableTypes, Rows
  <2>4. Begin(c, "email", x)
    BY <2>1
  <2> HIDE DEF row, u
  <2>5. x \in CallRecords /\ x.since = 0 /\ x.pc = "save" /\ x.user = u
    BY <2>2, <2>3, IdleCallFacts DEF CallRecords, CallPcs
  <2> HIDE DEF x
  <2> QED BY <1>9, <2>2, <2>4, <2>5 DEF Ops
<1>18. ASSUME NEW c \in Calls, ChangePassword(c) PROVE Goal
  <2>1. PICK a \in Tokens, p \in Passwords :
            /\ Authenticated(a, "user")
            /\ BeginRevoking(c, "password", token[a].user, [users[token[a].user] EXCEPT !.pw = p], NoName, "save")
    BY <1>18, Zenon DEF ChangePassword
  <2> DEFINE u == token[a].user
             row == [users[u] EXCEPT !.pw = p]
  <2>2. u \in Users
    BY <1>15, <2>1 DEF Authenticated
  <2>3. row \in Rows
    BY <1>1, <2>2, SMTT(30) DEF TableTypes, Rows
  <2>4. BeginRevoking(c, "password", u, row, NoName, "save")
    BY <2>1
  <2> HIDE DEF row, u
  <2> QED BY <1>10, <2>2, <2>3, <2>4 DEF Ops
<1>19. ASSUME NEW c \in Calls, ResetPasswordByIdentity(c) PROVE Goal
  <2>1. PICK e \in Emails, p \in Passwords :
            /\ GetUserByIdentity(e) # NoUser
            /\ BeginRevoking(c, "reset", GetUserByIdentity(e), [users[GetUserByIdentity(e)] EXCEPT !.pw = p], NoName, "save")
    BY <1>19, Zenon DEF ResetPasswordByIdentity
  <2> DEFINE u == GetUserByIdentity(e)
             row == [users[u] EXCEPT !.pw = p]
  <2>2. u \in Users
    BY <1>1, <1>2, <2>1, LookupFacts DEF TableTypes
  <2>3. row \in Rows
    BY <1>1, <2>2 DEF TableTypes, Rows
  <2>4. BeginRevoking(c, "reset", u, row, NoName, "save")
    BY <2>1
  <2> HIDE DEF row, u
  <2> QED BY <1>10, <2>2, <2>3, <2>4 DEF Ops
<1>20. ASSUME NEW c \in Calls, AdminSetStatus(c) PROVE Goal
  <2>1. PICK u \in Users, s \in {"active", "disabled"} :
          LET row == [users[u] EXCEPT !.status = s, !.email = currentUserContactIdentities(u, users[u])]
          IN  \/ BeginRevoking(c, "disable", u, row, NoName, "save")
              \/ Begin(c, "enable", [Idle EXCEPT !.pc = "save", !.user = u, !.row = row])
    BY <1>20, Zenon DEF AdminSetStatus
  <2> DEFINE email == currentUserContactIdentities(u, users[u])
             row == [users[u] EXCEPT !.status = s, !.email = email]
             x == [Idle EXCEPT !.pc = "save", !.user = u, !.row = row]
  <2>2. BeginRevoking(c, "disable", u, row, NoName, "save") \/ Begin(c, "enable", x)
    BY <2>1
  <2>3. users[u] \in Rows
    BY <1>1 DEF TableTypes
  <2>4. email \in Emails \cup {NoName}
    BY <2>3 DEF currentUserContactIdentities, Rows
  <2> HIDE DEF email
  <2>5. row \in Rows
    BY <2>3, <2>4 DEF Rows
  <2> HIDE DEF row
  <2>6. x \in CallRecords /\ x.since = 0 /\ x.pc = "save" /\ x.user = u
    BY <2>5, IdleCallFacts DEF CallRecords, CallPcs
  <2> HIDE DEF x
  <2> QED BY <1>9, <1>10, <2>2, <2>5, <2>6 DEF Ops
<1>47. ASSUME NEW c \in Calls, AdminSetRole(c) PROVE Goal
  <2>1. PICK u \in Users, r \in {"user", "admin"} :
            Begin(c, "role", [Idle EXCEPT !.pc = "save", !.user = u,
                    !.row = [users[u] EXCEPT !.role = r, !.email = currentUserContactIdentities(u, users[u])]])
    BY <1>47, Zenon DEF AdminSetRole
  <2> DEFINE email == currentUserContactIdentities(u, users[u])
             row == [users[u] EXCEPT !.role = r, !.email = email]
             x == [Idle EXCEPT !.pc = "save", !.user = u, !.row = row]
  <2>2. Begin(c, "role", x)
    BY <2>1
  <2>3. users[u] \in Rows
    BY <1>1 DEF TableTypes
  <2>4. email \in Emails \cup {NoName}
    BY <2>3 DEF currentUserContactIdentities, Rows
  <2> HIDE DEF email
  <2>5. row \in Rows
    BY <2>3, <2>4 DEF Rows
  <2> HIDE DEF row
  <2>6. x \in CallRecords /\ x.since = 0 /\ x.pc = "save" /\ x.user = u
    BY <2>5, IdleCallFacts DEF CallRecords, CallPcs
  <2> HIDE DEF x
  <2> QED BY <1>9, <2>2, <2>6 DEF Ops
<1>21. ASSUME NEW c \in Calls, AdminSetEmail(c) PROVE Goal
  <2>1. PICK u \in Users, e \in Emails \cup {NoName} :
            Begin(c, "adminEmail", [Idle EXCEPT !.pc = "save", !.user = u, !.alt = e,
                                                !.row = [users[u] EXCEPT !.email = e]])
    BY <1>21, Zenon DEF AdminSetEmail
  <2> DEFINE row == [users[u] EXCEPT !.email = e]
             x == [Idle EXCEPT !.pc = "save", !.user = u, !.alt = e, !.row = row]
  <2>2. Begin(c, "adminEmail", x)
    BY <2>1
  <2>3. row \in Rows
    BY <1>1 DEF TableTypes, Rows
  <2> HIDE DEF row
  <2>4. x \in CallRecords /\ x.since = 0 /\ x.pc = "save" /\ x.user = u
    BY <2>3, IdleCallFacts, ZenonT(30) DEF CallRecords, CallPcs
  <2> HIDE DEF x
  <2> QED BY <1>9, <2>2, <2>4 DEF Ops
<1>22. ASSUME NEW c \in Calls, AdminDeleteUser(c) PROVE Goal
  <2>1. PICK u \in Users : BeginRevoking(c, "delete", u, NoRow, NoName, "getCutoff")
    BY <1>22, Zenon DEF AdminDeleteUser
  <2> QED BY <1>10, <2>1, IdleCallFacts DEF Ops
\* --- the steps of a request
<1>23. ASSUME NEW c \in Calls, CountUsers(c) PROVE Goal
  <2> DEFINE role == IF UserCount = 0 THEN "admin" ELSE "user"
             row == [call[c].row EXCEPT !.role = role]
             x == [call[c] EXCEPT !.pc = "create", !.row = row]
  <2>1. call[c] \in CallRecords /\ role \in {"admin", "user"}
    BY <1>1 DEF CallTypes
  <2>2. call' = [call EXCEPT ![c].pc = "create", ![c].row.role = role]
    BY <1>23, Zenon DEF CountUsers
  <2> HIDE DEF role
  <2>3. call' = [call EXCEPT ![c] = x]
    BY <1>1, <2>2 DEF CallTypes
  <2>4. row \in Rows
    BY <2>1 DEF Rows, CallRecords
  <2> HIDE DEF row
  <2>5. /\ x \in CallRecords /\ x.pc = "create" /\ x.op = call[c].op /\ x.user = call[c].user
        /\ x.name = call[c].name /\ x.alt = call[c].alt /\ x.since = call[c].since /\ x.alone = call[c].alone
    BY <2>1, <2>4 DEF CallRecords, CallPcs
  <2> HIDE DEF x
  <2>6. /\ CallTypes' /\ Others(c) /\ call'[c].pc = "create" /\ call'[c].op = call[c].op
        /\ call'[c].user = call[c].user /\ call'[c].name = call[c].name
        /\ call'[c].since = call[c].since /\ call'[c].alone = call[c].alone
    BY <1>1, <2>3, <2>5 DEF CallTypes, Others
  <2>7. Kept /\ call[c].pc = "count"
    BY <1>23 DEF CountUsers, At, tables, sessions
  <2>8. Quiet(c) /\ RevokingFacts(c)' /\ LoginFacts(c)'
    BY <1>1, <2>6, <2>7 DEF Quiet, RevokingFacts, LoginFacts
  <2> QED BY <1>4, <2>6, <2>7, <2>8
<1>24. ASSUME NEW c \in Calls, SignUpWithVerifiedIdentity(c) PROVE Goal
  <2>1. UNCHANGED <<token, cutoff, family, now, promised>> /\ call[c].pc = "create" /\ call[c].op = "signup"
    BY <1>24 DEF SignUpWithVerifiedIdentity, At, sessions
  <2>2. CASE Return(c) /\ UNCHANGED tables
    BY <1>4, <1>6, <2>1, <2>2 DEF tables
  <2>3. ASSUME NEW u \in Fresh(UnusedUsers), SaveUserWithIdentities(u, call[c].row, {call[c].name}), GotoFor(c, "access", u)
        PROVE  Goal
    <3>1. u \in Users
      BY <1>1, LookupFacts
    <3>2. CallTypes' /\ Others(c) /\ Quiet(c) /\ RevokingFacts(c)'
      BY <1>1, <1>8, <2>1, <2>3, <3>1 DEF LoginFacts, CallPcs
    <3>3. LoginFacts(c)'
      <4>1. call'[c].pc = "access" /\ call'[c].name = call[c].name
        BY <1>1, <2>3, <3>1, GotoForFacts DEF CallPcs
      <4> QED BY <1>1, <1>2, <2>1, <4>1 DEF LoginFacts
    <3>4. TableTypes' /\ SubjectsStay
      BY <1>1, <2>1, <2>3, <3>1 DEF SaveUserWithIdentities, HasUserIdentity, TableTypes, SubjectsStay, CallTypes, CallRecords, Names
    <3>5. TokensDated' /\ FamiliesEnded'
      BY <1>1, <2>1 DEF TokensDated, FamiliesEnded
    <3> QED BY <1>3, <2>1, <3>2, <3>3, <3>4, <3>5
  <2> QED BY <1>24, <2>2, <2>3, Zenon DEF SignUpWithVerifiedIdentity, GotoFor
<1>25. ASSUME NEW c \in Calls, createOAuthUser(c) PROVE Goal
  <2>1. UNCHANGED <<token, cutoff, family, now, promised>> /\ call[c].pc = "create" /\ call[c].op = "oauth"
        /\ call[c].name \in Names
    BY <1>1, <1>25 DEF createOAuthUser, At, sessions, LoginFacts
  <2>2. CASE Goto(c, "again") /\ UNCHANGED tables
    <3>1. CallTypes' /\ Others(c) /\ Quiet(c) /\ RevokingFacts(c)'
      BY <1>7, <2>1, <2>2 DEF CallPcs
    <3>2. LoginFacts(c)'
      BY <1>1, <2>1, <2>2, GotoFacts DEF LoginFacts, CallPcs
    <3> QED BY <1>4, <2>1, <2>2, <3>1, <3>2 DEF tables
  <2>3. ASSUME NEW u \in Fresh(UnusedUsers), GotoFor(c, "access", u),
               SaveUserWithIdentities(u, [status |-> "active", role |-> call[c].row.role,
                                          pw |-> NoPassword, email |-> call[c].alt], OAuthNames(c))
        PROVE  Goal
    <3>1. u \in Users
      BY <1>1, LookupFacts
    <3>2. CallTypes' /\ Others(c) /\ Quiet(c) /\ RevokingFacts(c)'
      BY <1>1, <1>8, <2>1, <2>3, <3>1 DEF LoginFacts, CallPcs
    <3>3. identities'[call[c].name] = u
      BY <2>1, <2>3 DEF SaveUserWithIdentities, OAuthNames
    <3>4. LoginFacts(c)'
      <4>1. call'[c].pc = "access" /\ call'[c].name = call[c].name /\ call'[c].user = u
        BY <1>1, <2>3, <3>1, GotoForFacts DEF CallPcs
      <4> QED BY <3>1, <3>3, <4>1 DEF LoginFacts
    <3>5. TableTypes' /\ SubjectsStay
      <4>1. call[c] \in CallRecords
        BY <1>1 DEF CallTypes
      <4> DEFINE row == [status |-> "active", role |-> call[c].row.role, pw |-> NoPassword, email |-> call[c].alt]
      <4>2. row \in Rows
        BY <4>1 DEF CallRecords, Rows
      <4> HIDE DEF row
      <4>3. /\ users' = [users EXCEPT ![u] = row] /\ \A n \in OAuthNames(c) : ~HasUserIdentity(n)
            /\ identities' = [n \in Names |-> IF n \in OAuthNames(c) THEN u ELSE identities[n]]
        BY <2>3 DEF SaveUserWithIdentities, row
      <4> QED BY <1>1, <1>2, <2>1, <3>1, <4>2, <4>3 DEF HasUserIdentity, TableTypes, SubjectsStay
    <3>6. TokensDated' /\ FamiliesEnded'
      BY <1>1, <2>1 DEF TokensDated, FamiliesEnded
    <3> QED BY <1>3, <2>1, <3>2, <3>4, <3>5, <3>6
  <2> QED BY <1>25, <2>2, <2>3, Zenon DEF createOAuthUser, GotoFor
<1>26. ASSUME NEW c \in Calls, IssueAccessToken(c) PROVE Goal
  <2>1. UNCHANGED <<users, identities, cutoff, now, promised>> /\ call[c].pc = "access"
    BY <1>26 DEF IssueAccessToken, At, tables
  <2>6. /\ family' \in [Families -> FamilyRecords] /\ FamiliesEnded' /\ (UNCHANGED family \/ FamilyStep)
    <3>1. UNCHANGED family \/ family' = [family EXCEPT ![call[c].fam].held = "current"]
      BY <1>26 DEF IssueAccessToken
    <3>2. CASE UNCHANGED family
      BY <1>1, <2>1, <3>2 DEF TableTypes, FamiliesEnded
    <3>3. CASE family' = [family EXCEPT ![call[c].fam].held = "current"]
      BY <1>46, <2>1, <3>3
    <3> QED BY <3>1, <3>2, <3>3
  <2>2. TableTypes' /\ TokensDated'
    <3>1. PICK a \in Tokens : NewSession(a, call[c].user, call[c].name)
      BY <1>1, <1>26, LookupFacts DEF IssueAccessToken
    <3>2. call[c] \in CallRecords /\ now \in Nat \ {0} /\ token \in [Tokens -> AccessRecords]
      BY <1>1 DEF CallTypes, TableTypes
    <3> DEFINE x == [user |-> call[c].user, at |-> now, via |-> call[c].name, revoked |-> FALSE]
    <3>3. x \in AccessRecords /\ x.user = call[c].user /\ x.at = now /\ x.via = call[c].name
      BY <3>2 DEF AccessRecords, CallRecords
    <3>4. token' = [token EXCEPT ![a] = x]
      BY <3>1 DEF NewSession
    <3> HIDE DEF x
    <3>5. token' \in [Tokens -> AccessRecords] /\ TokensDated'
      BY <1>1, <1>2, <2>1, <3>2, <3>3, <3>4 DEF TokensDated, LoginFacts
    <3> QED BY <1>1, <2>1, <2>6, <3>5 DEF TableTypes
  <2>3. FamiliesEnded' /\ SubjectsStay
    BY <1>1, <2>1, <2>6 DEF SubjectsStay
  <2>4. CASE Return(c)
    BY <1>3, <1>6, <2>1, <2>2, <2>3, <2>4, <2>6
  <2>5. CASE Goto(c, "family")
    <3>1. CallTypes' /\ Others(c) /\ Quiet(c) /\ RevokingFacts(c)'
      BY <1>7, <2>1, <2>5 DEF CallPcs
    <3>2. LoginFacts(c)'
      BY <1>1, <2>5, GotoFacts DEF LoginFacts, CallPcs
    <3> QED BY <1>3, <2>1, <2>2, <2>3, <2>6, <3>1, <3>2
  <2> QED BY <1>26, <2>4, <2>5 DEF IssueAccessToken
<1>27. ASSUME NEW c \in Calls, IssueRefreshToken(c) PROVE Goal
  <2>1. UNCHANGED <<users, identities, token, cutoff, now, promised>> /\ Return(c)
    BY <1>27 DEF IssueRefreshToken, tables
  <2>2. TableTypes' /\ FamiliesEnded' /\ FamilyStep
    <3>1. PICK f \in Families : NewToken(f, call[c].user)
      BY <1>1, <1>27, LookupFacts DEF IssueRefreshToken
    <3>2. call[c] \in CallRecords /\ now \in Nat \ {0} /\ family \in [Families -> FamilyRecords] /\ promised \in [Users -> Nat]
      BY <1>1 DEF CallTypes, TableTypes
    <3> DEFINE x == [user |-> call[c].user, born |-> now, live |-> TRUE, held |-> "current",
                     listed |-> TRUE, dropped |-> FALSE]
    <3>3. x \in FamilyRecords /\ x.user = call[c].user /\ x.born = now /\ x.listed
      BY <3>2 DEF FamilyRecords, CallRecords
    <3>4. family' = [family EXCEPT ![f] = x]
      BY <3>1 DEF NewToken
    <3> HIDE DEF x
    <3>5. family' \in [Families -> FamilyRecords]
      BY <3>2, <3>3, <3>4
    <3>6. ASSUME NEW g \in Families, NEW u \in Users, family'[g].user = u, family'[g].born < promised'[u]
          PROVE  ~family'[g].live \/ family'[g].dropped
      <4>1. promised[u] <= now /\ promised[u] \in Nat
        BY <1>1, <3>2 DEF PromisesSet
      <4>2. CASE g = f
        BY <2>1, <3>2, <3>3, <3>4, <3>6, <4>1, <4>2
      <4>3. CASE g # f
        BY <1>1, <2>1, <3>2, <3>4, <3>6, <4>3 DEF FamiliesEnded
      <4> QED BY <4>2, <4>3
    <3>7. \A g \in Families : family'[g].live => family'[g].listed \/ family'[g].dropped
      BY <1>1, <3>2, <3>3, <3>4 DEF FamiliesEnded
    <3>8. FamilyStep
      BY <3>2, <3>3, <3>4 DEF FamilyStep
    <3> QED BY <1>1, <2>1, <3>5, <3>6, <3>7, <3>8 DEF TableTypes, FamiliesEnded
  <2>3. TokensDated' /\ SubjectsStay
    BY <1>1, <2>1 DEF TokensDated, SubjectsStay
  <2> QED BY <1>3, <1>6, <2>1, <2>2, <2>3
<1>28. ASSUME NEW c \in Calls, OAuthKnown(c) PROVE Goal
  <2> DEFINE u == GetUserByProviderIdentity(call[c].name)
  <2>1. Kept /\ call[c].name \in Names /\ call[c].since = 0
    BY <1>1, <1>28 DEF OAuthKnown, tables, sessions, LoginFacts
  <2>2. u \in Users /\ identities[call[c].name] = u
    BY <1>1, <1>28, <2>1, LookupFacts DEF OAuthKnown, GetUserByProviderIdentity, TableTypes
  <2>3. CASE Return(c)
    BY <1>4, <1>6, <2>1, <2>3
  <2>4. CASE GotoFor(c, "access", u)
    <3> HIDE DEF u
    <3>1. CallTypes' /\ Others(c) /\ Quiet(c) /\ RevokingFacts(c)'
      BY <1>8, <2>1, <2>2, <2>4 DEF CallPcs
    <3>2. LoginFacts(c)'
      BY <1>1, <2>1, <2>2, <2>4, GotoForFacts DEF LoginFacts, CallPcs
    <3> QED BY <1>4, <2>1, <3>1, <3>2
  <2> QED BY <1>28, <2>3, <2>4 DEF OAuthKnown, GotoFor
<1>29. ASSUME NEW c \in Calls, OAuthUnknown(c) PROVE Goal
  <2>1. Kept /\ call[c].name \in Names /\ call[c].since = 0
    BY <1>1, <1>29 DEF OAuthUnknown, tables, sessions, LoginFacts
  <2>2. CASE Return(c)
    BY <1>4, <1>6, <2>1, <2>2
  <2>3. ASSUME NEW pc \in {"count", "byEmail"}, Goto(c, pc), call[c].pc = "bySubject", pc = "byEmail" => call[c].alt # NoName
        PROVE  Goal
    <3>1. CallTypes' /\ Others(c) /\ Quiet(c) /\ RevokingFacts(c)'
      BY <1>7, <2>1, <2>3 DEF CallPcs
    <3>2. LoginFacts(c)'
      <4>1. call'[c].pc = pc /\ call'[c].name = call[c].name /\ call'[c].op = call[c].op /\ call'[c].alt = call[c].alt
            /\ call'[c].since = call[c].since
        BY <1>1, <2>3, GotoFacts DEF CallPcs
      <4> QED BY <1>1, <2>1, <2>3, <4>1 DEF LoginFacts, CallTypes, CallRecords
    <3> QED BY <1>4, <2>1, <3>1, <3>2
  <2> QED BY <1>29, <2>2, <2>3 DEF OAuthUnknown, At
<1>30. ASSUME NEW c \in Calls, OAuthByEmail(c) PROVE Goal
  <2> DEFINE u == GetUserByIdentity(call[c].alt)
  <2>1. /\ Kept /\ call[c].pc = "byEmail" /\ call[c].alt \in Names /\ call[c].op = "oauth"
        /\ call[c].name \in Names /\ call[c].since = 0
    BY <1>1, <1>2, <1>30 DEF OAuthByEmail, At, tables, sessions, LoginFacts
  <2>2. CASE Return(c)
    BY <1>4, <1>6, <2>1, <2>2
  <2>3. CASE Goto(c, "count")
    <3>1. CallTypes' /\ Others(c) /\ Quiet(c) /\ RevokingFacts(c)'
      BY <1>7, <2>1, <2>3 DEF CallPcs
    <3>2. LoginFacts(c)'
      BY <1>1, <2>1, <2>3, GotoFacts DEF LoginFacts, CallPcs
    <3> QED BY <1>4, <2>1, <3>1, <3>2
  <2>4. CASE u # NoUser /\ GotoFor(c, "link", u)
    <3>1. u \in Users
      BY <1>1, <2>1, <2>4, LookupFacts DEF TableTypes
    <3> HIDE DEF u
    <3>2. CallTypes' /\ Others(c) /\ Quiet(c) /\ RevokingFacts(c)'
      BY <1>8, <2>1, <2>4, <3>1 DEF CallPcs
    <3>3. LoginFacts(c)'
      BY <1>1, <2>1, <2>4, <3>1, GotoForFacts DEF LoginFacts, CallPcs
    <3> QED BY <1>4, <2>1, <3>2, <3>3
  <2> QED BY <1>30, <2>2, <2>3, <2>4 DEF OAuthByEmail, GotoFor
<1>31. ASSUME NEW c \in Calls, OAuthLink(c) PROVE Goal
  <2>1. /\ UNCHANGED <<token, cutoff, family, now, promised>> /\ call[c].pc = "link" /\ call[c].op = "oauth"
        /\ call[c].name \in Names /\ call[c].since = 0 /\ call[c].user \in Users
    BY <1>1, <1>31 DEF OAuthLink, At, sessions, LoginFacts
  <2>2. CASE Goto(c, "again") /\ UNCHANGED tables
    <3>1. CallTypes' /\ Others(c) /\ Quiet(c) /\ RevokingFacts(c)'
      BY <1>7, <2>1, <2>2 DEF CallPcs
    <3>2. LoginFacts(c)'
      BY <1>1, <2>1, <2>2, GotoFacts DEF LoginFacts, CallPcs
    <3> QED BY <1>4, <2>1, <2>2, <3>1, <3>2 DEF tables
  <2>3. CASE Goto(c, "access") /\ UNCHANGED users /\ ~HasUserIdentity(call[c].name)
             /\ SaveUserIdentity(call[c].name, call[c].user)
    <3>1. CallTypes' /\ Others(c) /\ Quiet(c) /\ RevokingFacts(c)'
      BY <1>7, <2>1, <2>3 DEF CallPcs
    <3>2. TableTypes' /\ SubjectsStay /\ identities'[call[c].name] = call[c].user
      BY <1>1, <2>1, <2>3 DEF SaveUserIdentity, HasUserIdentity, TableTypes, SubjectsStay
    <3>3. LoginFacts(c)'
      BY <1>1, <2>1, <2>3, <3>2, GotoFacts DEF LoginFacts, CallPcs
    <3>4. TokensDated' /\ FamiliesEnded'
      BY <1>1, <2>1 DEF TokensDated, FamiliesEnded
    <3> QED BY <1>3, <2>1, <3>1, <3>2, <3>3, <3>4
  <2> QED BY <1>31, <2>2, <2>3 DEF OAuthLink
\* Steps that end a family and change no other table.
<1>32. ASSUME NEW f, UNCHANGED <<users, identities, token, cutoff, now, promised>>,
              DeleteToken(f) \/ UNCHANGED family
       PROVE  /\ TableTypes' /\ TokensDated' /\ FamiliesEnded' /\ SubjectsStay
              /\ UNCHANGED family \/ FamilyStep
  <2>1. /\ family' \in [Families -> FamilyRecords] /\ FamiliesEnded' /\ (UNCHANGED family \/ FamilyStep)
    <3>1. CASE UNCHANGED family
      BY <1>1, <1>32, <3>1 DEF TableTypes, FamiliesEnded
    <3>2. CASE DeleteToken(f)
      BY <1>32, <1>46, <3>2
    <3> QED BY <1>32, <3>1, <3>2
  <2> QED BY <1>1, <1>32, <2>1 DEF TableTypes, TokensDated, SubjectsStay
<1>33. ASSUME NEW c \in Calls, Refresh(c) PROVE Goal
  <2>1. UNCHANGED <<users, identities, token, cutoff, now, promised>> /\ call[c].pc = "load" /\ call[c].name = NoName
    BY <1>1, <1>33 DEF Refresh, At, tables, LoginFacts
  <2>2. TableTypes' /\ TokensDated' /\ FamiliesEnded' /\ SubjectsStay /\ (UNCHANGED family \/ FamilyStep)
    BY <1>32, <1>33, <2>1 DEF Refresh
  <2>3. CASE Return(c)
    BY <1>3, <1>6, <2>1, <2>2, <2>3
  <2>4. CASE Goto(c, "access")
    <3>1. CallTypes' /\ Others(c) /\ Quiet(c) /\ RevokingFacts(c)'
      BY <1>7, <2>1, <2>4 DEF CallPcs
    <3>2. LoginFacts(c)'
      BY <1>1, <1>2, <2>1, <2>4, GotoFacts DEF LoginFacts, CallPcs
    <3> QED BY <1>3, <2>1, <2>2, <3>1, <3>2
  <2> QED BY <1>33, <2>3, <2>4 DEF Refresh
<1>34. ASSUME NEW c \in Calls, RevokeRefreshToken(c) \/ Fail(c) PROVE Goal
  <2>1. UNCHANGED <<users, identities, token, cutoff, now, promised>> /\ Return(c)
        /\ (DeleteToken(call[c].fam) \/ UNCHANGED family)
    BY <1>34 DEF RevokeRefreshToken, Fail, tables
  <2>2. TableTypes' /\ TokensDated' /\ FamiliesEnded' /\ SubjectsStay /\ (UNCHANGED family \/ FamilyStep)
    BY <1>32, <2>1
  <2> QED BY <1>3, <1>6, <2>1, <2>2
<1>35. ASSUME NEW c \in Calls, DeleteSession(c) PROVE Goal
  <2>1. UNCHANGED <<users, identities, cutoff, family, now, promised>> /\ Goto(c, "deleteToken")
    BY <1>35 DEF DeleteSession, tables
  <2>2. TableTypes' /\ TokensDated' /\ FamiliesEnded' /\ SubjectsStay
    <3>1. token \in [Tokens -> AccessRecords]
      BY <1>1 DEF TableTypes
    <3>2. token' \in [Tokens -> AccessRecords] /\ \A a \in Tokens :
            token'[a].user = token[a].user /\ token'[a].at = token[a].at /\ token'[a].via = token[a].via
      BY <1>35, <3>1 DEF DeleteSession, AccessRecords
    <3> QED BY <1>1, <2>1, <3>2 DEF TableTypes, TokensDated, FamiliesEnded, SubjectsStay
  <2>3. CallTypes' /\ Others(c) /\ Quiet(c) /\ RevokingFacts(c)'
    BY <1>7, <2>1 DEF CallPcs
  <2>4. LoginFacts(c)'
    BY <1>1, <2>1, GotoFacts DEF LoginFacts, CallPcs
  <2> QED BY <1>3, <2>1, <2>2, <2>3, <2>4
<1>36. ASSUME NEW c \in Calls, SaveUserRow(c) PROVE Goal
  <2>1. UNCHANGED <<identities, token, cutoff, family, now, promised>> /\ call[c].pc = "save" /\ SaveUser(call[c].user, call[c].row)
    BY <1>36 DEF SaveUserRow, At, sessions
  <2>2. TableTypes' /\ TokensDated' /\ FamiliesEnded' /\ SubjectsStay
    BY <1>1, <2>1 DEF SaveUser, TableTypes, TokensDated, FamiliesEnded, SubjectsStay, CallTypes, CallRecords
  <2>3. CASE Return(c)
    BY <1>3, <1>6, <2>1, <2>2, <2>3
  <2>4. ASSUME NEW pc \in {"identity", "getCutoff"}, Goto(c, pc), pc = "getCutoff" => call[c].since # 0
        PROVE  Goal
    <3>1. CallTypes' /\ Others(c) /\ Quiet(c) /\ RevokingFacts(c)' /\ LoginFacts(c)'
      BY <1>1, <2>1, <2>4, GotoFacts DEF CallPcs, Others, Quiet, RevokingFacts, LoginFacts
    <3> QED BY <1>3, <2>1, <2>2, <3>1
  <2>5. call[c].since # 0 \/ call[c].op \in {"email", "adminEmail", "enable", "role"}
    BY <1>1, <2>1 DEF RevokingFacts
  <2> QED BY <1>36, <2>3, <2>4, <2>5 DEF SaveUserRow
<1>37. ASSUME NEW c \in Calls, SaveEmailIdentity(c) PROVE Goal
  <2>1. UNCHANGED <<users, token, cutoff, family, now, promised>> /\ Return(c) /\ call[c].user \in Users
    BY <1>1, <1>37 DEF SaveEmailIdentity, At, sessions, LoginFacts
  <2>2. call[c].alt \in Emails \cup {NoName}
    BY <1>1 DEF CallTypes, CallRecords
  <2>3. TableTypes' /\ SubjectsStay
    BY <1>1, <1>2, <1>37, <2>1, <2>2 DEF SaveEmailIdentity, DeleteUserIdentity, SaveUserIdentity, TableTypes, SubjectsStay
  <2>4. TokensDated' /\ FamiliesEnded'
    BY <1>1, <2>1 DEF TokensDated, FamiliesEnded
  <2> QED BY <1>3, <1>6, <2>1, <2>3, <2>4
<1>38. ASSUME NEW c \in Calls, DeleteUserRow(c) PROVE Goal
  <2>1. /\ UNCHANGED <<token, cutoff, family, now, promised>> /\ Return(c) /\ DeleteUser(call[c].user)
        /\ call[c].user \in Users /\ cutoff[call[c].user] # 0
    BY <1>1, <1>38 DEF DeleteUserRow, At, sessions, RevokingFacts
  <2>2. TableTypes' /\ SubjectsStay
    BY <1>1, <1>2, <2>1, IdleCallFacts DEF DeleteUser, TableTypes, SubjectsStay
  <2>3. TokensDated' /\ FamiliesEnded'
    BY <1>1, <2>1 DEF TokensDated, FamiliesEnded
  <2> QED BY <1>3, <1>6, <2>1, <2>2, <2>3
\* --- the revocation
<1>39. ASSUME NEW c \in Calls, GetCutoff(c) PROVE Goal
  <2>1. Kept /\ call[c].pc = "getCutoff" /\ call[c].since # 0 /\ call[c].user \in Users
    BY <1>1, <1>39 DEF GetCutoff, At, tables, sessions, RevokingFacts
  <2>2. ASSUME NEW pc \in {"families", "setCutoff"}, Goto(c, pc), pc = "families" => cutoff[call[c].user] >= call[c].since
        PROVE  Goal
    <3>1. cutoff[call[c].user] \in Nat /\ call[c].since \in Nat
      BY <1>1, <2>1 DEF TableTypes, CallTypes, CallRecords
    <3>2. CallTypes' /\ Others(c) /\ Quiet(c) /\ RevokingFacts(c)' /\ LoginFacts(c)'
      BY <1>1, <2>1, <2>2, <3>1, GotoFacts DEF CallPcs, Others, Quiet, RevokingFacts, LoginFacts
    <3> QED BY <1>4, <2>1, <3>2
  <2> QED BY <1>39, <2>2 DEF GetCutoff
<1>40. ASSUME NEW c \in Calls, RevokeUser(c) PROVE Goal
  <2>1. UNCHANGED <<users, identities, token, family, now, promised>> /\ Goto(c, "families")
    BY <1>40 DEF RevokeUser, tables
  <2>2. PICK u \in Users, t \in Nat \ {0} : u = call[c].user /\ t = call[c].since /\ promised[u] <= t
    BY <1>1, <1>40 DEF RevokeUser, At, RevokingFacts, CallTypes, CallRecords
  <2>3. cutoff' = [cutoff EXCEPT ![u] = t] /\ cutoff \in [Users -> Nat]
    BY <1>1, <1>40, <2>2 DEF RevokeUser, TableTypes
  <2>4. /\ CallTypes' /\ Others(c) /\ call'[c].pc = "families" /\ call'[c].user = u /\ call'[c].name = call[c].name
        /\ call'[c].since = t /\ call'[c].alone = call[c].alone
    BY <1>1, <2>1, <2>2, GotoFacts DEF CallPcs, Others
  <2>5. TableTypes' /\ TokensDated' /\ FamiliesEnded' /\ SubjectsStay /\ PromisesSet'
    BY <1>1, <2>1, <2>2, <2>3 DEF TableTypes, TokensDated, FamiliesEnded, SubjectsStay, PromisesSet
  <2>6. AloneIsOnly'
    BY <1>1, <2>2, <2>4 DEF AloneIsOnly, Others
  <2>7. RevokingFacts(c)' /\ LoginFacts(c)'
    BY <1>1, <2>1, <2>2, <2>3, <2>4 DEF RevokingFacts, LoginFacts
  <2>8. ASSUME NEW d \in Calls, d # c PROVE RevokingFacts(d)'
    <3>1. ~(call[d].since # 0 /\ call[d].alone /\ call[d].user = u)
      BY <1>1, <2>2, <2>8 DEF AloneIsOnly
    <3>2. Outstanding(d) => Outstanding(d)'
      BY <2>1, <2>4, <2>8 DEF Outstanding, Others
    <3> QED BY <1>1, <2>1, <2>2, <2>3, <2>4, <2>8, <3>1, <3>2 DEF RevokingFacts, Others
  <2>9. ASSUME NEW d \in Calls, d # c PROVE LoginFacts(d)'
    BY <1>1, <2>1, <2>2, <2>3, <2>4, <2>9 DEF LoginFacts, Others
  <2> QED BY <2>4, <2>5, <2>6, <2>7, <2>8, <2>9 DEF AccountsInv, Goal
<1>48. ASSUME NEW c \in Calls, RevokeUserRefreshTokens(c) PROVE Goal
  <2> DEFINE todo == {f \in Families : family[f].user = call[c].user /\ family[f].listed}
             x == [call[c] EXCEPT !.pc = "endFamilies", !.todo = todo]
  <2>1. Kept /\ call[c].pc = "families" /\ call[c] \in CallRecords
    BY <1>1, <1>48 DEF RevokeUserRefreshTokens, At, tables, sessions, CallTypes
  <2>2. call' = [call EXCEPT ![c].pc = "endFamilies", ![c].todo = todo] /\ todo \subseteq Families
    BY <1>48, Zenon DEF RevokeUserRefreshTokens
  <2>3. call' = [call EXCEPT ![c] = x]
    BY <1>1, <2>2, Zenon DEF CallTypes
  <2>4. \A f \in Families : family[f].user = call[c].user => ~family[f].live \/ family[f].dropped \/ f \in todo
    BY <1>1 DEF FamiliesEnded
  <2> HIDE DEF todo
  <2>5. /\ x \in CallRecords /\ x.pc = "endFamilies" /\ x.todo = todo
        /\ x.op = call[c].op /\ x.user = call[c].user /\ x.name = call[c].name
        /\ x.since = call[c].since /\ x.alone = call[c].alone
    BY <2>1, <2>2 DEF CallRecords, CallPcs
  <2> HIDE DEF x
  <2>6. /\ CallTypes' /\ Others(c) /\ call'[c].pc = "endFamilies" /\ call'[c].todo = todo
        /\ call'[c].user = call[c].user /\ call'[c].name = call[c].name
        /\ call'[c].since = call[c].since /\ call'[c].alone = call[c].alone
    BY <1>1, <2>3, <2>5 DEF CallTypes, Others
  <2>7. Outstanding(c)'
    BY <2>1, <2>4, <2>6 DEF Outstanding
  <2>8. Quiet(c) /\ RevokingFacts(c)' /\ LoginFacts(c)'
    BY <1>1, <2>1, <2>6, <2>7 DEF Quiet, RevokingFacts, LoginFacts
  <2> QED BY <1>4, <2>1, <2>6, <2>8
<1>49. ASSUME NEW c \in Calls, revokeFamily(c) PROVE Goal
  <2>1. UNCHANGED <<users, identities, token, cutoff, now, promised>> /\ call[c].pc = "endFamilies"
        /\ call[c] \in CallRecords
    BY <1>1, <1>49 DEF revokeFamily, At, tables, CallTypes
  <2>2. PICK f \in call[c].todo : DeleteToken(f) /\ call' = [call EXCEPT ![c].todo = call[c].todo \ {f}]
    BY <1>49, <1>1, Zenon DEF revokeFamily, CallTypes
  <2>3. TableTypes' /\ TokensDated' /\ FamiliesEnded' /\ SubjectsStay /\ FamilyStep
    BY <1>1, <1>46, <2>1, <2>2 DEF TableTypes, TokensDated, SubjectsStay
  <2> DEFINE x == [call[c] EXCEPT !.todo = call[c].todo \ {f}]
  <2>4. call' = [call EXCEPT ![c] = x]
    BY <1>1, <2>2, Zenon DEF CallTypes
  <2>5. /\ x \in CallRecords /\ x.pc = call[c].pc /\ x.todo = call[c].todo \ {f}
        /\ x.op = call[c].op /\ x.user = call[c].user /\ x.name = call[c].name
        /\ x.since = call[c].since /\ x.alone = call[c].alone
    BY <2>1 DEF CallRecords
  <2> HIDE DEF x
  <2>6. /\ CallTypes' /\ Others(c) /\ call'[c].pc = "endFamilies" /\ call'[c].todo = call[c].todo \ {f}
        /\ call'[c].user = call[c].user /\ call'[c].name = call[c].name
        /\ call'[c].since = call[c].since /\ call'[c].alone = call[c].alone
    BY <1>1, <2>1, <2>4, <2>5 DEF CallTypes, Others
  <2>7. Outstanding(c)'
    <3>1. Outstanding(c) /\ call[c].since <= now
      BY <1>1, <2>1 DEF RevokingFacts
    <3>2. call[c].since \in Nat /\ now \in Nat /\ f \in Families /\ family \in [Families -> FamilyRecords]
      BY <1>1, <2>1 DEF CallRecords, TableTypes
    <3>3. ~family'[f].live
      BY <2>2, <3>2 DEF DeleteToken, FamilyRecords
    <3> QED BY <2>1, <2>3, <2>6, <3>1, <3>2, <3>3 DEF Outstanding, FamilyStep
  <2>8. Quiet(c) /\ RevokingFacts(c)' /\ LoginFacts(c)'
    BY <1>1, <2>1, <2>6, <2>7 DEF Quiet, RevokingFacts, LoginFacts
  <2> QED BY <1>3, <2>1, <2>3, <2>6, <2>8
<1>41. ASSUME NEW c \in Calls, revokeAllUserTokens(c) PROVE Goal
  <2>1. UNCHANGED <<users, identities, token, cutoff, now>> /\ call[c].pc = "endFamilies" /\ call[c].todo = {}
    BY <1>41 DEF revokeAllUserTokens, At, tables
  <2>2. PICK u \in Users, t \in Nat \ {0} :
            /\ u = call[c].user /\ t = call[c].since /\ promised[u] <= t /\ t <= now /\ cutoff[u] # 0
            /\ (call[c].alone => t <= cutoff[u]) /\ Outstanding(c)
    BY <1>1, <2>1 DEF RevokingFacts, CallTypes, CallRecords
  <2>3. promised \in [Users -> Nat] /\ cutoff \in [Users -> Nat] /\ now \in Nat /\ family \in [Families -> FamilyRecords]
    BY <1>1 DEF TableTypes
  <2>4. \/ promised' = promised
        \/ promised' = [promised EXCEPT ![u] = t] /\ call[c].alone
    <3>1. promised' = IF call[c].alone THEN [promised EXCEPT ![u] = Max({promised[u], t})] ELSE promised
      BY <1>41, <2>2, Zenon DEF revokeAllUserTokens
    <3>2. Max({promised[u], t}) = t
      BY <2>2, <2>3, MaxOfTwo
    <3> QED BY <3>1, <3>2
  <2>5. /\ CallTypes' /\ Others(c) /\ LoginFacts(c)'
        /\ \/ call'[c].pc = "idle" /\ call'[c].since = 0
           \/ /\ call'[c].pc = "deleteUser" /\ call'[c].user = u /\ call'[c].since = t
              /\ call'[c].alone = call[c].alone
    <3>1. CASE Return(c)
      BY <1>6, <1>1, <3>1, ReturnFacts
    <3>2. CASE Goto(c, "deleteUser")
      BY <1>1, <2>2, <3>2, GotoFacts DEF CallPcs, Others, LoginFacts
    <3> QED BY <1>41, <3>1, <3>2 DEF revokeAllUserTokens
  <2>6. family' \in [Families -> FamilyRecords] /\ \A f \in Families :
            /\ family'[f].user = family[f].user /\ family'[f].born = family[f].born /\ family'[f].live = family[f].live
            /\ family[f].dropped => family'[f].dropped
            /\ family[f].listed => family'[f].listed \/ family'[f].dropped
    <3> DEFINE x(f) == [family[f] EXCEPT !.listed = FALSE, !.dropped = TRUE]
    <3>1. ASSUME NEW f \in Families
          PROVE  /\ x(f) \in FamilyRecords /\ x(f).user = family[f].user /\ x(f).born = family[f].born
                 /\ x(f).live = family[f].live /\ x(f).dropped
      BY <2>3 DEF FamilyRecords
    <3>2. family' = [f \in Families |-> IF family[f].user = u /\ family[f].listed THEN x(f) ELSE family[f]]
      BY <1>41, <2>2 DEF revokeAllUserTokens, DropUserFamilies
    <3> HIDE DEF x
    <3> QED BY <2>3, <3>1, <3>2
  <2>7. /\ TableTypes' /\ TokensDated' /\ SubjectsStay
    BY <1>1, <2>1, <2>2, <2>3, <2>4, <2>6 DEF TableTypes, TokensDated, SubjectsStay
  <2>12. \A f \in Families : family[f].user = u /\ family[f].born < t => ~family[f].live \/ family[f].dropped
    BY <2>1, <2>2 DEF Outstanding
  <2>8. FamiliesEnded' /\ PromisesSet'
    <3>1. PromisesSet'
      BY <1>1, <2>1, <2>2, <2>3, <2>4 DEF PromisesSet
    <3>2. ASSUME NEW f \in Families, NEW v \in Users, family'[f].user = v, family'[f].born < promised'[v]
          PROVE  ~family'[f].live \/ family'[f].dropped
      BY <1>1, <2>2, <2>3, <2>4, <2>6, <2>12, <3>2 DEF FamiliesEnded
    <3>3. \A f \in Families : family'[f].live => family'[f].listed \/ family'[f].dropped
      BY <1>1, <2>6 DEF FamiliesEnded
    <3> QED BY <3>1, <3>2, <3>3 DEF FamiliesEnded
  <2>9. AloneIsOnly'
    BY <1>1, <2>2, <2>5 DEF AloneIsOnly, Others
  <2>10. ASSUME NEW d \in Calls PROVE RevokingFacts(d)'
    <3>1. CASE d = c
      BY <1>1, <2>1, <2>2, <2>3, <2>4, <2>5, <3>1 DEF RevokingFacts
    <3>2. CASE d # c
      <4>1. call[c].alone => ~(call[d].since # 0 /\ call[d].user = u)
        BY <1>1, <2>2, <3>2 DEF AloneIsOnly
      <4>2. call'[d] = call[d] /\ RevokingFacts(d)
        BY <1>1, <2>5, <3>2 DEF Others
      <4>3. Outstanding(d) => Outstanding(d)'
        BY <2>6, <4>2 DEF Outstanding
      <4> QED BY <2>1, <2>2, <2>3, <2>4, <4>1, <4>2, <4>3 DEF RevokingFacts
    <3> QED BY <3>1, <3>2
  <2>11. ASSUME NEW d \in Calls PROVE LoginFacts(d)'
    BY <1>1, <2>1, <2>5 DEF LoginFacts, Others
  <2> QED BY <2>5, <2>7, <2>8, <2>9, <2>10, <2>11 DEF AccountsInv, Goal
<1>42. CASE Tick
  <2>1. UNCHANGED <<users, identities, token, cutoff, family, call, promised>> /\ now' = now + 1 /\ now \in Nat
    BY <1>1, <1>42 DEF Tick, tables, sessions, TableTypes
  <2>2. TableTypes' /\ CallTypes' /\ TokensDated' /\ FamiliesEnded' /\ SubjectsStay /\ AloneIsOnly'
    BY <1>1, <2>1 DEF TableTypes, CallTypes, TokensDated, FamiliesEnded, SubjectsStay, AloneIsOnly
  <2>3. PromisesSet'
    BY <1>1, <2>1 DEF PromisesSet, TableTypes
  <2>4. ASSUME NEW d \in Calls PROVE RevokingFacts(d)' /\ LoginFacts(d)'
    <3>1. Outstanding(d) => Outstanding(d)'
      BY <2>1 DEF Outstanding
    <3> QED BY <1>1, <2>1, <3>1 DEF RevokingFacts, LoginFacts, CallTypes, CallRecords
  <2> QED BY <2>2, <2>3, <2>4 DEF AccountsInv, Goal
<1>43. CASE UNCHANGED accountVars
  <2>1. TableTypes' /\ CallTypes' /\ TokensDated' /\ FamiliesEnded' /\ SubjectsStay /\ AloneIsOnly' /\ PromisesSet'
    BY <1>1, <1>43 DEF accountVars, TableTypes, CallTypes, TokensDated, FamiliesEnded, SubjectsStay, AloneIsOnly, PromisesSet
  <2>2. ASSUME NEW d \in Calls PROVE RevokingFacts(d)' /\ LoginFacts(d)'
    <3>1. Outstanding(d) => Outstanding(d)'
      BY <1>43 DEF accountVars, Outstanding
    <3> QED BY <1>1, <1>43, <3>1 DEF accountVars, RevokingFacts, LoginFacts
  <2> QED BY <2>1, <2>2 DEF AccountsInv, Goal
<1>44. ASSUME NEW c \in Calls, NewRequest(c) PROVE Goal
  BY <1>11, <1>12, <1>13, <1>14, <1>16, <1>17, <1>18, <1>19, <1>20, <1>21, <1>22, <1>44, <1>47 DEF NewRequest
<1>45. ASSUME NEW c \in Calls, RequestStep(c) PROVE Goal
  BY <1>23, <1>24, <1>25, <1>26, <1>27, <1>28, <1>29, <1>30, <1>31, <1>33, <1>34, <1>35, <1>36, <1>37, <1>38,
     <1>39, <1>40, <1>41, <1>45, <1>48, <1>49 DEF RequestStep
<1> QED BY <1>42, <1>43, <1>44, <1>45 DEF AccountsNext, Goal

\* The administrator and the member have logged in and nothing is revoked.
LEMMA AccountsFirst == AccountsInit => AccountsInv
<1> SUFFICES ASSUME AccountsInit PROVE AccountsInv
  OBVIOUS
<1>1. PICK e \in [{Admin, Member} -> Emails], p \in [{Admin, Member} -> Passwords],
           a \in [{Admin, Member} -> Tokens], f \in [{Admin, Member} -> Families], linked \in SUBSET Subjects :
        /\ IsInjective(e) /\ a = FirstTwo(Tokens) /\ f = FirstTwo(Families)
        /\ Cardinality(linked) <= 1
        /\ users = [u \in Users |-> IF u \notin {Admin, Member} THEN NoRow
                ELSE [status |-> "active", role |-> IF u = Admin THEN "admin" ELSE "user",
                      pw |-> p[u], email |-> e[u]]]
        /\ identities = [n \in Names |-> IF n = e[Admin] THEN Admin
                                         ELSE IF n = e[Member] \/ n \in linked THEN Member
                                         ELSE NoUser]
        /\ token = [b \in Tokens |->
                [user |-> IF b = a[Admin] THEN Admin ELSE IF b = a[Member] THEN Member ELSE NoUser,
                 at |-> IF b \in Range(a) THEN 1 ELSE 0, via |-> NoName, revoked |-> FALSE]]
        /\ family = [g \in Families |->
                [user |-> IF g = f[Admin] THEN Admin ELSE IF g = f[Member] THEN Member ELSE NoUser,
                 born |-> IF g \in Range(f) THEN 1 ELSE 0, live |-> g \in Range(f),
                 held |-> "current", listed |-> g \in Range(f), dropped |-> FALSE]]
        /\ cutoff = [u \in Users |-> 0]
        /\ now = 1
        /\ call = [c \in Calls |-> Idle]
        /\ requests = 0
        /\ promised = [u \in Users |-> 0]
  BY Zenon DEF AccountsInit
<1>2. {Admin, Member} \subseteq Users /\ NoUser \notin Users /\ NoName \notin Subjects /\ Admin # NoUser /\ Member # NoUser
  BY AccountsAssumption
<1>3. CallTypes /\ \A c \in Calls : call[c].pc = "idle" /\ call[c].since = 0
  BY <1>1, IdleCallFacts DEF CallTypes
<1>4. TableTypes
  <2>1. users \in [Users -> Rows]
    BY <1>1, IdleCallFacts DEF Rows
  <2>2. identities \in [Names -> Users \cup {NoUser}]
    BY <1>1, <1>2
  <2>3. token \in [Tokens -> AccessRecords]
    BY <1>1, <1>2 DEF AccessRecords
  <2>4. family \in [Families -> FamilyRecords]
    <3> DEFINE live(g) == g \in Range(f)
               x(g) == [user |-> IF g = f[Admin] THEN Admin ELSE IF g = f[Member] THEN Member ELSE NoUser,
                        born |-> IF live(g) THEN 1 ELSE 0, live |-> live(g), held |-> "current",
                        listed |-> live(g), dropped |-> FALSE]
    <3>1. family = [g \in Families |-> x(g)]
      BY <1>1
    <3>2. ASSUME NEW g \in Families PROVE live(g) \in BOOLEAN
      BY ONLY SMT
    <3> HIDE DEF live
    <3>3. ASSUME NEW g \in Families PROVE x(g) \in FamilyRecords
      BY <1>2, <3>2 DEF FamilyRecords
    <3> HIDE DEF x
    <3> QED BY <3>1, <3>3
  <2>5. cutoff = [u \in Users |-> 0] /\ promised = [u \in Users |-> 0] /\ now = 1
    BY <1>1, Zenon
  <2>6. cutoff \in [Users -> Nat] /\ promised \in [Users -> Nat] /\ now \in Nat \ {0}
    BY ONLY <2>5
  <2> QED BY <2>1, <2>2, <2>3, <2>4, <2>6 DEF TableTypes
<1>5. PromisesSet /\ FamiliesEnded
  <2>1. \A u \in Users : promised[u] = 0 /\ cutoff[u] = 0
    BY <1>1
  <2>2. \A g \in Families : family[g].born \in Nat
    BY <1>4 DEF TableTypes, FamilyRecords
  <2> QED BY <1>1, <2>1, <2>2 DEF PromisesSet, FamiliesEnded
<1>6. TokensDated
  <2> SUFFICES ASSUME NEW b \in Tokens
               PROVE  IF token[b].user = NoUser THEN token[b].via \notin Subjects ELSE token[b].at >= 1
    BY DEF TokensDated
  <2>1. /\ token[b].user = IF b = a[Admin] THEN Admin ELSE IF b = a[Member] THEN Member ELSE NoUser
        /\ token[b].at = (IF b \in Range(a) THEN 1 ELSE 0) /\ token[b].via = NoName
    BY <1>1
  <2>2. b \in {a[Admin], a[Member]} => b \in Range(a)
    BY DEF Range
  <2> QED BY <1>2, <2>1, <2>2
<1>7. AloneIsOnly /\ \A c \in Calls : RevokingFacts(c) /\ LoginFacts(c)
  BY <1>1, <1>3 DEF AloneIsOnly, RevokingFacts, LoginFacts
<1> QED BY <1>3, <1>4, <1>5, <1>6, <1>7 DEF AccountsInv

\* The inductive invariant of the accounts.
LEMMA AccountsInvariant == AccountsSpec => []AccountsInv
<1>1. AccountsInv /\ [AccountsNext]_accountVars => AccountsInv'
  BY AccountsStep
<1> QED BY <1>1, AccountsFirst, PTL DEF AccountsSpec

\* A token issued up to the cutoff of its user is refused, whatever instants a second has:
\* the time in the token is cut off to the second.
LEMMA CutoffRefuses ==
    ASSUME TableTypes, NEW a \in Tokens, NEW u \in Users,
           token[a].user = u, token[a].at <= cutoff[u], cutoff[u] # 0
    PROVE  ~GetUserIDByToken(a)
<1>1. token[a].at \in Nat /\ cutoff[u] \in Nat /\ Second \in Nat \ {0}
  BY AccountsAssumption DEF TableTypes, AccessRecords
<1>2. \A t \in Nat : IssuedAt(t) <= t /\ IssuedAt(t) \in Nat
  <2> SUFFICES ASSUME NEW t \in Nat PROVE IssuedAt(t) <= t /\ IssuedAt(t) \in Nat
    OBVIOUS
  <2>1. /\ t \div Second \in Nat /\ t % Second \in Nat
        /\ t = Second * (t \div Second) + (t % Second)
    BY ONLY <1>1, t \in Nat
  <2>2. PICK q \in Nat, r \in Nat : q = t \div Second /\ t = Second * q + r
    BY <2>1
  <2>3. Second * q = q * Second /\ q * Second \in Nat
    BY ONLY <1>1, q \in Nat
  <2> QED BY <2>2, <2>3 DEF IssuedAt
<1> QED BY <1>1, <1>2 DEF GetUserIDByToken

\* A revocation that met no other one of its user holds for every access token of the user
\* issued before it, and for every refresh token family but those an earlier revocation
\* dropped from the user's set, for any number of concurrent logins, refreshes, revocations
\* and failures (RevokeUser, RevokeUserRefreshTokens, GetUserIDByToken).
THEOREM RevocationHoldsCorrect == AccountsSpec => []RevocationHolds
<1>1. AccountsInv => RevocationHolds
  <2> SUFFICES ASSUME AccountsInv, NEW u \in Users
               PROVE  /\ \A a \in Tokens : token[a].user = u /\ token[a].at <= promised[u] => ~GetUserIDByToken(a)
                      /\ \A f \in Families : family[f].user = u /\ family[f].born < promised[u] =>
                            ~family[f].live \/ family[f].dropped
    BY DEF RevocationHolds
  <2>1. TableTypes /\ promised[u] <= cutoff[u] /\ promised[u] \in Nat /\ cutoff[u] \in Nat /\ u # NoUser
    BY AccountsAssumption DEF AccountsInv, PromisesSet, TableTypes
  <2>2. ASSUME NEW a \in Tokens, token[a].user = u, token[a].at <= promised[u] PROVE ~GetUserIDByToken(a)
    <3>1. token[a].at >= 1 /\ token[a].at \in Nat
      BY <2>1, <2>2 DEF AccountsInv, TokensDated, TableTypes, AccessRecords
    <3>2. token[a].at <= cutoff[u] /\ cutoff[u] # 0
      BY <2>1, <2>2, <3>1
    <3> QED BY <2>1, <2>2, <3>2, CutoffRefuses
  <2>3. \A f \in Families : family[f].user = u /\ family[f].born < promised[u] =>
            ~family[f].live \/ family[f].dropped
    BY DEF AccountsInv, FamiliesEnded
  <2> QED BY <2>2, <2>3
<1> QED BY <1>1, AccountsInvariant, PTL

\* A login through a subject that gets an access token gets it for the user the subject
\* belongs to, unless the tokens of that user are revoked.
LEMMA SubjectLogins ==
    ASSUME AccountsInv, [AccountsNext]_accountVars, NEW s \in Subjects, NEW a \in Tokens,
           token'[a].via = s, token[a].user = NoUser
    PROVE  cutoff[token'[a].user] = 0 => identities[s] = token'[a].user
<1>1. TableTypes /\ CallTypes /\ TokensDated /\ \A c \in Calls : LoginFacts(c)
  BY DEF AccountsInv
<1>2. token[a].via # s /\ token \in [Tokens -> AccessRecords]
  BY <1>1 DEF TokensDated, TableTypes
<1>3. ASSUME NEW c \in Calls, NewRequest(c) PROVE UNCHANGED token
  BY <1>3 DEF NewRequest, handleSignupComplete, handleLogin, LoginByCode, handleOAuthComplete, handleRefresh, handleLogout,
     UpdateMyEmail, ChangePassword, ResetPasswordByIdentity, AdminSetStatus, AdminSetRole, AdminSetEmail,
     AdminDeleteUser, Begin, BeginRevoking, sessions
<1>4. ASSUME NEW c \in Calls, RequestStep(c) PROVE UNCHANGED token \/ IssueAccessToken(c) \/ DeleteSession(c)
  BY <1>4 DEF RequestStep, CountUsers, SignUpWithVerifiedIdentity, IssueRefreshToken, OAuthKnown, OAuthUnknown, OAuthByEmail,
     OAuthLink, createOAuthUser, Refresh, RevokeRefreshToken, SaveUserRow, SaveEmailIdentity, GetCutoff, RevokeUser,
     RevokeUserRefreshTokens, revokeFamily, revokeAllUserTokens, DeleteUserRow, Fail, sessions
<1>5. ASSUME NEW c \in Calls, DeleteSession(c) PROVE FALSE
  <2>1. token' = [token EXCEPT ![call[c].tok].revoked = TRUE]
    BY <1>5 DEF DeleteSession
  <2>2. token'[a].via = token[a].via
    BY <1>2, <2>1 DEF AccessRecords
  <2> QED BY <1>2, <2>2
<1>6. ASSUME NEW c \in Calls, IssueAccessToken(c) PROVE cutoff[token'[a].user] = 0 => identities[s] = token'[a].user
  <2>1. PICK b \in Tokens : NewSession(b, call[c].user, call[c].name)
    BY <1>1, <1>6, LookupFacts DEF IssueAccessToken
  <2>2. a = b /\ call[c].name = s /\ token'[a].user = call[c].user
    BY <1>2, <2>1 DEF NewSession
  <2>3. call[c].pc = "access"
    BY <1>6 DEF IssueAccessToken, At
  <2> QED BY <1>1, <2>2, <2>3 DEF LoginFacts
<1>7. CASE Tick \/ UNCHANGED accountVars
  BY <1>2, <1>7 DEF Tick, accountVars, sessions
<1> QED BY <1>2, <1>3, <1>4, <1>5, <1>6, <1>7 DEF AccountsNext

\* A subject never moves from one user to another, and a login through it logs in its
\* user, however many first logins, sign-ups and deletions overlap (CompleteOAuthLogin).
THEOREM SubjectKeepsOwnerCorrect == AccountsSpec => SubjectKeepsOwner
<1> DEFINE Keeps ==
      \A s \in Subjects :
        /\ identities[s] # NoUser => identities'[s] \in {identities[s], NoUser}
        /\ \A a \in Tokens : token'[a].via = s /\ token[a].user = NoUser =>
              LET u == token'[a].user
              IN  cutoff[u] = 0 => identities[s] = u
<1>1. AccountsInv /\ [AccountsNext]_accountVars => [Keeps]_accountVars
  <2> SUFFICES ASSUME AccountsInv, [AccountsNext]_accountVars PROVE Keeps
    OBVIOUS
  <2>1. \A s \in Subjects : identities[s] # NoUser => identities'[s] \in {identities[s], NoUser}
    BY AccountsStep DEF SubjectsStay
  <2>2. \A s \in Subjects, a \in Tokens : token'[a].via = s /\ token[a].user = NoUser =>
            (cutoff[token'[a].user] = 0 => identities[s] = token'[a].user)
    BY SubjectLogins
  <2> QED BY <2>1, <2>2
<1> QED BY <1>1, AccountsInvariant, PTL DEF AccountsSpec, SubjectKeepsOwner

=============================================================================
