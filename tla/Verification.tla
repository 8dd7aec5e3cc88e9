---------------------------- MODULE Verification ----------------------------
(***************************************************************************)
(* One-time codes of the auth service: a challenge is sent to an           *)
(* identifier (email or phone) for a purpose; the right code logs in, or   *)
(* gives a verification token that completes a sign-up or a password       *)
(* reset.  Challenges, tokens and the resend window are keys in Redis, and *)
(* every Redis command of a request is a step of its own.                  *)
(*                                                                         *)
(* A code is right or wrong; hashes, message texts and the spelling of     *)
(* identifiers are left out.  Keys expire by actions of the clock.  What   *)
(* the requests do with users is in module Accounts; here a sign-up        *)
(* registers its identifier.                                               *)
(***************************************************************************)
EXTENDS Naturals, FiniteSets

CONSTANTS
    Identifiers,
    Challenges,      \* challenge ids
    VerifyTokens,    \* ids of verification tokens
    Requests,        \* requests in progress
    NoIdentifier, NoChallenge, NoVerifyToken,
    MaxAttempt       \* wrong codes a challenge takes (5 in newOTPStore)

ASSUME VerificationAssumption ==
    /\ MaxAttempt \in Nat \ {0}
    /\ NoChallenge \notin Challenges /\ NoVerifyToken \notin VerifyTokens
    /\ NoIdentifier \notin Identifiers

VARIABLES
    challenge,       \* keys challenge:<id>
    resend,          \* keys resend:<purpose>:<identifier>
    vtoken,          \* keys verification-token:<id>
    registered,      \* identifiers that belong to a user
    request,         \* the locals of each request
    guesses,         \* history: wrong codes compared and right ones accepted, per challenge
    disturbed,       \* history: challenges with overlapping or broken off verifications
    proved,          \* history: identifiers and purposes a right code was given for
    granted          \* history: logins, sign-ups and resets that happened

otpVars == <<challenge, resend, vtoken, registered, request, guesses, disturbed, proved, granted>>
otpHistory == <<guesses, disturbed, proved, granted>>

Purposes == {"signup", "login", "password_reset"}
Subject == Identifiers \X Purposes

NoKey == [state |-> "none", name |-> NoIdentifier, purpose |-> "login", attempts |-> 0]
NoRequest == [pc |-> "idle", name |-> NoIdentifier, purpose |-> "login", ch |-> NoChallenge,
              seen |-> 0, tok |-> NoVerifyToken]

VerificationTypeOK ==
    /\ \A d \in Challenges :
        /\ challenge[d].state \in {"none", "valid", "expired"} /\ challenge[d].attempts \in 0..MaxAttempt - 1
        /\ challenge[d].name \in Identifiers \cup {NoIdentifier} /\ challenge[d].purpose \in Purposes
    /\ resend \subseteq Subject /\ proved \subseteq Subject /\ granted \subseteq Subject
    /\ vtoken \in [VerifyTokens -> [state: {"none", "valid", "gone"},
                                    name: Identifiers \cup {NoIdentifier}, purpose: Purposes]]
    /\ registered \subseteq Identifiers /\ disturbed \subseteq Challenges
    /\ guesses \in [Challenges -> [wrong: 0..MaxAttempt + 1, right: 0..2]]

-----------------------------------------------------------------------------
Step(r, pc) == request' = [request EXCEPT ![r].pc = pc]
Answer(r) == request' = [request EXCEPT ![r] = NoRequest]
Waiting(r, pc) == request[r].pc = pc
Owner(r) == <<request[r].name, request[r].purpose>>

\* A Redis error, a timeout or a process that stops ends a request at any step.
OtpFail(r) ==
    /\ ~Waiting(r, "idle")
    /\ disturbed' = IF request[r].pc \in {"exhaust", "ttl", "count"}
                    THEN disturbed \cup {request[r].ch} ELSE disturbed
    /\ Answer(r)
    /\ UNCHANGED <<challenge, resend, vtoken, registered, guesses, proved, granted>>

-----------------------------------------------------------------------------
(* Sending a code *)

\* A sign-up needs a new identifier and a login a known one; a reset is sent to any.
handleVerificationSend(r) ==
    \E n \in Identifiers, p \in Purposes :
        /\ Waiting(r, "idle")
        /\ p = "signup" => n \notin registered
        /\ p = "login" => n \in registered
        /\ request' = [request EXCEPT ![r] = [NoRequest EXCEPT !.pc = "resend", !.name = n, !.purpose = p]]
        /\ UNCHANGED <<challenge, resend, vtoken, registered, otpHistory>>

\* SETNX of the resend key: one challenge for an identifier and purpose in the window.
TakeResendWindow(r) ==
    /\ Waiting(r, "resend")
    /\ IF Owner(r) \in resend
       THEN Answer(r) /\ UNCHANGED resend
       ELSE Step(r, "challenge") /\ resend' = resend \cup {Owner(r)}
    /\ UNCHANGED <<challenge, vtoken, registered, otpHistory>>

\* The challenge is written under a new id; if that fails the window is given back.
CreateChallenge(r) ==
    /\ Waiting(r, "challenge")
    /\ \/ \E d \in Challenges :
            /\ challenge[d].name = NoIdentifier
            /\ challenge' = [challenge EXCEPT ![d] = [state |-> "valid", name |-> request[r].name,
                                 purpose |-> request[r].purpose, attempts |-> 0]]
            /\ request' = [request EXCEPT ![r].pc = "deliver", ![r].ch = d]
            /\ UNCHANGED resend
       \/ Answer(r) /\ resend' = resend \ {Owner(r)} /\ UNCHANGED challenge
    /\ UNCHANGED <<vtoken, registered, otpHistory>>

\* SendVerification.  The message may arrive although the sender reports an error;
\* then the challenge and the resend window are deleted in one command.
DeliverCode(r) ==
    /\ Waiting(r, "deliver")
    /\ \/ Answer(r)
       \/ Step(r, "undeliver")
    /\ UNCHANGED <<challenge, resend, vtoken, registered, otpHistory>>

DeleteChallenge(r) ==
    /\ Waiting(r, "undeliver")
    /\ challenge' = [challenge EXCEPT ![request[r].ch].state = "none"]
    /\ resend' = resend \ {Owner(r)}
    /\ Answer(r)
    /\ UNCHANGED <<vtoken, registered, otpHistory>>

-----------------------------------------------------------------------------
(* Verifying a code *)

Verifying(d) == {r \in Requests : request[r].ch = d /\ request[r].pc \in {"exhaust", "ttl", "count", "accept"}}

\* As it would be if a code for one purpose were accepted for another.
FitsAnyPurpose(d, n, p) == challenge[d].state # "none" /\ challenge[d].name = n

\* What VerifyChallenge asks of the challenge it read before it compares the code.
ChallengeFits(d, n, p) ==
    challenge[d].state # "none" /\ challenge[d].name = n /\ challenge[d].purpose = p

\* GET, the checks, and the comparison of the code: the attempts that count are the
\* ones read here.  A challenge that expired or is used up is deleted in a next step.
VerifyChallenge(r) ==
    \E d \in Challenges, n \in Identifiers, p \in Purposes, right \in BOOLEAN :
        /\ Waiting(r, "idle")
        /\ ChallengeFits(d, n, p)
        /\ LET seen == challenge[d].attempts
               next == IF challenge[d].state = "expired" \/ seen >= MaxAttempt THEN "exhaust"
                       ELSE IF right THEN "accept"
                       ELSE IF seen + 1 >= MaxAttempt THEN "exhaust" ELSE "ttl"
               compared == challenge[d].state = "valid" /\ seen < MaxAttempt
           IN  /\ request' = [request EXCEPT ![r] = [NoRequest EXCEPT !.pc = next, !.name = n,
                                  !.purpose = p, !.ch = d, !.seen = seen]]
               /\ guesses' = IF compared /\ ~right THEN [guesses EXCEPT ![d].wrong = IF @ <= MaxAttempt THEN @ + 1 ELSE @]
                             ELSE guesses
               /\ proved' = IF compared /\ right
                            THEN proved \cup {<<challenge[d].name, challenge[d].purpose>>} ELSE proved
               /\ disturbed' = IF Verifying(d) = {} THEN disturbed ELSE disturbed \cup {d}
        /\ UNCHANGED <<challenge, resend, vtoken, registered, granted>>

\* The challenge expired or took its last wrong code.
ExhaustChallenge(r) ==
    /\ Waiting(r, "exhaust")
    /\ challenge' = [challenge EXCEPT ![request[r].ch].state = "none"]
    /\ Answer(r)
    /\ UNCHANGED <<resend, vtoken, registered, otpHistory>>

\* The time to live is asked for, and the count written with it: two commands.
ChallengeTTL(r) ==
    /\ Waiting(r, "ttl")
    /\ IF challenge[request[r].ch].state = "none" THEN Answer(r) ELSE Step(r, "count")
    /\ UNCHANGED <<challenge, resend, vtoken, registered, otpHistory>>

\* As it would be if the attempt were not written back.
AttemptNotSaved(r) ==
    /\ Waiting(r, "count")
    /\ Answer(r)
    /\ UNCHANGED <<challenge, resend, vtoken, registered, otpHistory>>

\* SET writes the challenge as it was read, with one attempt more, also when it was
\* deleted or counted since.
CountAttempt(r) ==
    LET d == request[r].ch
    IN  /\ Waiting(r, "count")
        /\ challenge' = [challenge EXCEPT ![d].attempts = request[r].seen + 1,
                                          ![d].state = IF @ = "none" THEN "valid" ELSE @]
        /\ Answer(r)
        /\ UNCHANGED <<resend, vtoken, registered, otpHistory>>

\* DEL without a look at the number of deleted keys: two right answers both pass.
AcceptCode(r) ==
    /\ Waiting(r, "accept")
    /\ challenge' = [challenge EXCEPT ![request[r].ch].state = "none"]
    /\ Step(r, IF request[r].purpose = "login" THEN "login" ELSE "token")
    /\ guesses' = [guesses EXCEPT ![request[r].ch].right = IF @ < 2 THEN @ + 1 ELSE @]
    /\ UNCHANGED <<resend, vtoken, registered, disturbed, proved, granted>>

\* handleVerificationVerify for a login: LoginByIdentity (module Accounts).
handleVerificationVerify(r) ==
    /\ Waiting(r, "login")
    /\ granted' = IF request[r].name \in registered THEN granted \cup {Owner(r)} ELSE granted
    /\ Answer(r)
    /\ UNCHANGED <<challenge, resend, vtoken, registered, guesses, disturbed, proved>>

\* For a sign-up or a reset (also handlePasswordResetVerify) a token is written.
CreateVerificationToken(r) ==
    /\ Waiting(r, "token")
    /\ \E v \in VerifyTokens :
        /\ vtoken[v].state = "none"
        /\ vtoken' = [vtoken EXCEPT ![v] = [state |-> "valid", name |-> request[r].name,
                                            purpose |-> request[r].purpose]]
    /\ Answer(r)
    /\ UNCHANGED <<challenge, resend, registered, otpHistory>>

-----------------------------------------------------------------------------
(* Completing a sign-up or a reset *)

ValidateVerificationToken(v, n, p) ==
    vtoken[v].state = "valid" /\ vtoken[v].name = n /\ vtoken[v].purpose = p

\* handleSignupComplete and handlePasswordResetComplete: the token is read first ...
BeginComplete(r, p) ==
    \E v \in VerifyTokens, n \in Identifiers :
        /\ Waiting(r, "idle")
        /\ ValidateVerificationToken(v, n, p)
        /\ request' = [request EXCEPT ![r] = [NoRequest EXCEPT !.pc = "complete", !.name = n,
                                                  !.purpose = p, !.tok = v]]
        /\ UNCHANGED <<challenge, resend, vtoken, registered, otpHistory>>
handleSignupToken(r) == BeginComplete(r, "signup")
handlePasswordResetComplete(r) == BeginComplete(r, "password_reset")

\* ... then the sign-up or the reset is done ...
CompleteRequest(r) ==
    LET n == request[r].name
    IN  /\ Waiting(r, "complete")
        /\ IF (request[r].purpose = "signup") = (n \notin registered)
           THEN /\ granted' = granted \cup {Owner(r)}
                /\ registered' = registered \cup {n}
                /\ Step(r, "consume")
           ELSE Answer(r) /\ UNCHANGED <<granted, registered>>
        /\ UNCHANGED <<challenge, resend, vtoken, guesses, disturbed, proved>>

\* ... and the token deleted last; an error is only logged (OtpFail).
ConsumeVerificationToken(r) ==
    /\ Waiting(r, "consume")
    /\ vtoken' = [vtoken EXCEPT ![request[r].tok].state = "gone"]
    /\ Answer(r)
    /\ UNCHANGED <<challenge, resend, registered, otpHistory>>

-----------------------------------------------------------------------------
(* Expiry: the challenge expires before its key is dropped *)

ExpireChallenge(d) ==
    /\ challenge[d].state \in {"valid", "expired"}
    /\ challenge' = [challenge EXCEPT ![d].state = IF @ = "valid" THEN "expired" ELSE "none"]
    /\ UNCHANGED <<resend, vtoken, registered, request, otpHistory>>

ExpireResend ==
    \E s \in resend :
        /\ resend' = resend \ {s}
        /\ UNCHANGED <<challenge, vtoken, registered, request, otpHistory>>

ExpireVerifyToken(v) ==
    /\ vtoken[v].state = "valid"
    /\ vtoken' = [vtoken EXCEPT ![v].state = "gone"]
    /\ UNCHANGED <<challenge, resend, registered, request, otpHistory>>

VerificationInit ==
    /\ challenge = [d \in Challenges |-> NoKey]
    /\ resend = {}
    /\ vtoken = [v \in VerifyTokens |-> [state |-> "none", name |-> NoIdentifier, purpose |-> "signup"]]
    /\ registered \in SUBSET Identifiers
    /\ request = [r \in Requests |-> NoRequest]
    /\ guesses = [d \in Challenges |-> [wrong |-> 0, right |-> 0]]
    /\ disturbed = {} /\ proved = {} /\ granted = {}

VerificationNext ==
    \/ ExpireResend
    \/ \E d \in Challenges : ExpireChallenge(d)
    \/ \E v \in VerifyTokens : ExpireVerifyToken(v)
    \/ \E r \in Requests :
        \/ handleVerificationSend(r) \/ TakeResendWindow(r) \/ CreateChallenge(r)
        \/ DeliverCode(r) \/ DeleteChallenge(r)
        \/ VerifyChallenge(r) \/ ExhaustChallenge(r) \/ ChallengeTTL(r) \/ CountAttempt(r)
        \/ AcceptCode(r) \/ handleVerificationVerify(r) \/ CreateVerificationToken(r)
        \/ handleSignupToken(r) \/ handlePasswordResetComplete(r)
        \/ CompleteRequest(r) \/ ConsumeVerificationToken(r)
        \/ OtpFail(r)

VerificationSpec == VerificationInit /\ [][VerificationNext]_otpVars

-----------------------------------------------------------------------------
(* What the codes promise *)

\* Nobody logs in, signs up or resets a password of an identifier unless a right code
\* was given to a challenge sent to that identifier for that purpose, whatever ids,
\* identifiers and tokens the requests combine.
OnlyByCode == granted \subseteq proved

\* A challenge takes at most MaxAttempt wrong codes and one right one, if its
\* verifications do not overlap and none is broken off before it wrote the count: sent
\* again, expired, used up and accepted in every other order.
GuessesBounded ==
    \A d \in Challenges \ disturbed :
        guesses[d].wrong <= MaxAttempt /\ guesses[d].right <= 1
=============================================================================
